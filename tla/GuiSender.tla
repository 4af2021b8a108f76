----------------------------- MODULE GuiSender -----------------------------
(***************************************************************************)
(* The sending half of the GUI backend (src/GUI_WEB/backend): the requests *)
(* of the page that add, delete and set frames.  One request is handled at *)
(* a time.  A deleted frame is not deallocated, so no two frames ever have *)
(* the same key in framePeriods.                                           *)
(***************************************************************************)
EXTENDS FrameSender, SequencesExt

CONSTANTS
  GuiPgns,   \* what the page asks for
  GuiPeriods

ASSUME GuiSenderAssumption == GuiPgns \subseteq Pgns /\ GuiPeriods \subseteq Periods

VARIABLES
  framesToSend, \* the list on the page
  moved         \* auxiliary: frames that changed identifiers while being sent

Listed(o) == \E k \in 1 .. Len(framesToSend) : framesToSend[k] = o

GuiTypeOK ==
  /\ object \in [Objects -> Frames \cup {Free}]
  /\ framePeriods \in [Objects -> Periods \cup {Undefined}]
  /\ \A i \in Ifaces : \A r \in rings[i] : r.owner \in Objects /\ r.period \in Periods
  /\ framesToSend \in Seq(Objects)
  /\ IsInjective(framesToSend)
  /\ \A o \in Objects : Listed(o) => object[o] # Free

GuiInit ==
  /\ object = [o \in Objects |-> Free]
  /\ framePeriods = [o \in Objects |-> Undefined]
  /\ rings = [i \in Ifaces |-> {}]
  /\ framesToSend = <<>>
  /\ moved = {}

\* Keeps the frame only if the factory has it, but lists it in any case.
AddUnchecked(o, pgn) ==
  /\ object[o] = Free /\ ~Listed(o)
  /\ framesToSend' = Append(framesToSend, o)
  /\ UNCHANGED <<object, framePeriods, rings, moved>>

Add(o, pgn) ==
  /\ object[o] = Free
  /\ object' = [object EXCEPT ![o] = Created(pgn, NewSource, NewDestination, NewValue)]
  /\ framesToSend' = Append(framesToSend, o)
  /\ UNCHANGED <<framePeriods, rings, moved>>

\* Stops the frame on the first interface only.
DeleteFirst(k) ==
  LET o == framesToSend[k]
      sent == {i \in Ifaces : isFrameSent(object[o], rings[i])}
  IN /\ rings' = IF framePeriods[o] = Undefined \/ sent = {} THEN rings
                 ELSE [rings EXCEPT ![CHOOSE i \in sent : TRUE] =
                         unSendFrames(@, Ids(object[o]))]
     /\ framesToSend' = RemoveAt(framesToSend, k)
     /\ UNCHANGED <<object, framePeriods, moved>>

\* Without a period the frame is not stopped: it is then not the one being sent.
Delete(k) ==
  LET o == framesToSend[k]
  IN /\ rings' = [i \in Ifaces |->
                    IF framePeriods[o] = Undefined THEN rings[i]
                    ELSE unSendFrames(rings[i], Ids(object[o]))]
     /\ framesToSend' = RemoveAt(framesToSend, k)
     /\ UNCHANGED <<object, framePeriods, moved>>

(***************************************************************************)
(* The frame is found under the identifiers it has after the change.       *)
(***************************************************************************)
Refreshed(o, f, p, i) ==
  IF isFrameSent(f, rings[i]) /\ p # Undefined
  THEN sendFrames(rings[i], Ring(o, f, p)) ELSE rings[i]

\* What the page says about an interface: on, off, or nothing.
Switched(o, f, p, rs, switch) ==
  CASE switch = "on"   -> IF p = Undefined THEN rs ELSE sendFrames(rs, Ring(o, f, p))
    [] switch = "off"  -> unSendFrames(rs, Ids(f))
    [] switch = "none" -> rs

\* Refreshes with the new data and forgets the new period.
SetPeriodLate(k, f, p, switches) ==
  LET o == framesToSend[k]
  IN /\ f.pgn = object[o].pgn
     /\ object' = [object EXCEPT ![o] = f]
     /\ framePeriods' = [framePeriods EXCEPT ![o] = p]
     /\ rings' = [i \in Ifaces |->
                    Switched(o, f, p, Refreshed(o, f, framePeriods[o], i), switches[i])]
     /\ moved' = IF Ids(f) # Ids(object[o]) /\ Owns(o) THEN moved \cup {o} ELSE moved
     /\ UNCHANGED framesToSend

(***************************************************************************)
(* "set frame": header, period and SPN change, as far as the request has   *)
(* valid ones, then the senders are told, then the interfaces are switched.*)
(***************************************************************************)
Set(k, f, p, switches) ==
  LET o == framesToSend[k]
  IN /\ f.pgn = object[o].pgn
     /\ object' = [object EXCEPT ![o] = f]
     /\ framePeriods' = [framePeriods EXCEPT ![o] = p]
     /\ rings' = [i \in Ifaces |->
                    Switched(o, f, p, Refreshed(o, f, p, i), switches[i])]
     /\ moved' = IF Ids(f) # Ids(object[o]) /\ Owns(o) THEN moved \cup {o} ELSE moved
     /\ UNCHANGED framesToSend

GuiNext ==
  \/ \E o \in Objects, pgn \in GuiPgns : Add(o, pgn)
  \/ \E k \in 1 .. Len(framesToSend) : Delete(k)
  \/ \E k \in 1 .. Len(framesToSend), f \in Frames,
        switches \in [Ifaces -> {"on", "off", "none"}] :
       \E p \in GuiPeriods \cup {framePeriods[framesToSend[k]]} : Set(k, f, p, switches)

-----------------------------------------------------------------------------
(***************************************************************************)
(* Properties                                                              *)
(***************************************************************************)
(***************************************************************************)
(* As long as a frame keeps the identifiers it is sent with, the bus sees  *)
(* its present data and period, whatever was set, switched or moved away   *)
(* and back meanwhile, and whatever frames with the same identifiers do:   *)
(* this is what "refresh the information to the sender" achieves.          *)
(***************************************************************************)
RingFollowsOwner ==
  program = "gui" => \A i \in Ifaces : \A r \in rings[i] :
    r.ids = Ids(object[r.owner]) => /\ Current(r, r.owner)
                                    /\ r.period = framePeriods[r.owner]

(***************************************************************************)
(* A deleted frame is silent on every interface, unless its identifiers    *)
(* were changed while it was being sent.                                   *)
(***************************************************************************)
DeletedIsSilent ==
  program = "gui" =>
    \A i \in Ifaces : \A r \in rings[i] : Listed(r.owner) \/ r.owner \in moved
=============================================================================

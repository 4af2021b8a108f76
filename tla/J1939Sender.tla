---------------------------- MODULE J1939Sender ----------------------------
(***************************************************************************)
(* j1939Sender (src/BinUtils): the commands that create, set, send and     *)
(* unsend frames, edit the trouble codes of a DM1 frame, and send the four *)
(* FMS1 frames with the tell tale status (TTS) as one ring.  The parsing   *)
(* of a command is left out: an argument that is not valid is not there.   *)
(*                                                                         *)
(* A frame is known by its name; no command removes one.  "send addr" only *)
(* sends a frame once and the commands that list and print change nothing. *)
(***************************************************************************)
EXTENDS FrameSender

CONSTANTS
  CliIfaces, CliPeriods,               \* what the commands name
  DM1_PGN,
  Statuses, NewStatus,                 \* the states of the tell tales
  TtsIds,                              \* the identifiers of the FMS1 frames
  Tts                                  \* owner of the rings with them

ASSUME J1939SenderAssumption ==
  /\ Tts \notin Objects
  /\ 0 \in CliPeriods /\ CliPeriods \subseteq Periods /\ CliIfaces \subseteq Ifaces /\ NewStatus \in Statuses
  /\ Len(TtsIds) > 1 /\ \A f \in Frames : Ids(f) # TtsIds

VARIABLES
  fms1Frames, \* the state of the tell tales
  ttsPeriod,
  running

CliTypeOK ==
  /\ object \in [Objects -> Frames \cup {Free}]
  /\ framePeriods \in [Objects -> Periods \cup {Undefined}]
  /\ \A i \in Ifaces : \A r \in rings[i] :
       /\ r.owner = Tts \/ object[r.owner] # Free
       /\ r.owner = Tts <=> r.ids = TtsIds
       /\ r.period \in Periods
       /\ r.period = 0 => Len(r.ids) > 1
  /\ fms1Frames \in Statuses /\ ttsPeriod \in Periods
  /\ running \in BOOLEAN

CliInit ==
  /\ object = [o \in Objects |-> Free]
  /\ framePeriods = [o \in Objects |-> Undefined]
  /\ rings = [i \in Ifaces |-> {}]
  /\ fms1Frames = NewStatus
  /\ ttsPeriod = 0
  /\ running = TRUE

\* The transmission of a single frame once leaves no trace in the sender.
sendFrameThroughInterface(o, f, rs, period) ==
  IF period = 0 /\ Packets[f.value] = 0 THEN rs
  ELSE sendFrames(rs, Ring(o, f, period))

CreateFrame(o, pgn) ==
  /\ object[o] = Free
  /\ object' = [object EXCEPT ![o] = Created(pgn, NewSource, NewDestination, NewValue)]
  /\ UNCHANGED <<framePeriods, rings, fms1Frames, ttsPeriod>>

notifySender(o, f, period) ==
  rings' = [i \in Ifaces |->
              IF isFrameSent(f, rings[i])
              THEN sendFrameThroughInterface(o, f, rings[i], period) ELSE rings[i]]

\* Looks for the frame in the sender before it is changed, and not after.
SetFrameStale(o, f, p) ==
  /\ object[o] # Free /\ f.pgn = object[o].pgn
  /\ object' = [object EXCEPT ![o] = f]
  /\ framePeriods' = [framePeriods EXCEPT ![o] = p]
  /\ IF p = Undefined THEN UNCHANGED rings ELSE notifySender(o, object[o], p)
  /\ UNCHANGED <<fms1Frames, ttsPeriod>>

\* The sender is told only if the frame has a period.
SetFrame(o, f, p) ==
  /\ object[o] # Free /\ f.pgn = object[o].pgn
  /\ object' = [object EXCEPT ![o] = f]
  /\ framePeriods' = [framePeriods EXCEPT ![o] = p]
  /\ IF p = Undefined THEN UNCHANGED rings ELSE notifySender(o, f, p)
  /\ UNCHANGED <<fms1Frames, ttsPeriod>>

\* Without a period the frame is sent with period 0.
SendFrame(o, i) ==
  /\ object[o] # Free
  /\ LET period == IF framePeriods[o] = Undefined THEN 0 ELSE framePeriods[o]
     IN rings' = [rings EXCEPT ![i] =
                    sendFrameThroughInterface(o, object[o], @, period)]
  /\ UNCHANGED <<object, framePeriods, fms1Frames, ttsPeriod>>

\* On the given interface, or on all of them.
UnsendFrame(o, ifaces) ==
  /\ object[o] # Free
  /\ rings' = [i \in Ifaces |->
                 IF i \in ifaces THEN unSendFrames(rings[i], Ids(object[o])) ELSE rings[i]]
  /\ UNCHANGED <<object, framePeriods, fms1Frames, ttsPeriod>>

\* "add dtc", "set dtc" and "delete dtc": the sender is not told.
EditDtc(o, value) ==
  /\ object[o] # Free /\ object[o].pgn = DM1_PGN
  /\ object' = [object EXCEPT ![o].value = value]
  /\ UNCHANGED <<framePeriods, rings, fms1Frames, ttsPeriod>>

TtsRing(status, period) ==
  [ids |-> TtsIds, data |-> <<status>>, period |-> period, owner |-> Tts]

\* A valid period is kept even if the interface is not: then there are no targets.
SendTts(targets, period) ==
  /\ ttsPeriod' = period
  /\ rings' = [i \in Ifaces |->
                 IF i \in targets THEN sendFrames(rings[i], TtsRing(fms1Frames, period))
                 ELSE rings[i]]
  /\ UNCHANGED <<object, framePeriods, fms1Frames>>

SetTts(status) ==
  /\ fms1Frames' = status
  /\ rings' = [i \in Ifaces |->
                 IF \E r \in rings[i] : r.ids = TtsIds
                 THEN sendFrames(rings[i], TtsRing(status, ttsPeriod)) ELSE rings[i]]
  /\ UNCHANGED <<object, framePeriods, ttsPeriod>>

UnsendTts ==
  /\ rings' = [i \in Ifaces |-> unSendFrames(rings[i], TtsIds)]
  /\ UNCHANGED <<object, framePeriods, fms1Frames, ttsPeriod>>

\* CanEasy::finalize() ends the senders.
Quit ==
  /\ rings' = [i \in Ifaces |-> {}]
  /\ UNCHANGED <<object, framePeriods, fms1Frames, ttsPeriod>>

Command ==
  /\ running' = TRUE
  /\ \/ \E o \in Objects :
          \/ \E pgn \in Pgns : CreateFrame(o, pgn)
          \/ \E f \in Frames, p \in CliPeriods \cup {framePeriods[o]} : SetFrame(o, f, p)
          \/ \E i \in CliIfaces : SendFrame(o, i)
          \/ \E ifaces \in {Ifaces} \cup {{i} : i \in CliIfaces} : UnsendFrame(o, ifaces)
          \/ \E value \in Values : EditDtc(o, value)
     \/ \E targets \in {{}} \cup {{i} : i \in CliIfaces}, p \in CliPeriods : SendTts(targets, p)
     \/ \E status \in Statuses : SetTts(status)
     \/ UnsendTts

CliNext == running /\ (Command \/ (Quit /\ running' = FALSE))

-----------------------------------------------------------------------------
(***************************************************************************)
(* Properties                                                              *)
(***************************************************************************)
(***************************************************************************)
(* A frame with a period, other than a DM1 frame, is on the bus with its   *)
(* present data and period wherever it is sent under its identifiers, also *)
(* when the period was 0 or missing for a while, or when another name with *)
(* the same identifiers had taken the ring.  The tell tales are sent with  *)
(* their present status on every interface: "set tts" reaches all of them. *)
(***************************************************************************)
SentIsCurrent ==
  program = "cli" => \A i \in Ifaces : \A r \in rings[i] :
    LET o == r.owner
    IN IF o = Tts THEN r.data = <<fms1Frames>>
       ELSE /\ object[o].pgn # DM1_PGN
            /\ framePeriods[o] \notin {Undefined, 0}
            /\ r.ids = Ids(object[o])
            => Current(r, o) /\ r.period = framePeriods[o]
=============================================================================

------------------------------ MODULE Signals ------------------------------
(***************************************************************************)
(* The way of a signal: a program builds a frame from the database, sets   *)
(* its values and sends it; the GUI backend receives it, looks which of    *)
(* its signals changed and adds those to their histories; a page asks for  *)
(* a graph.  Both programs read the same database.  Frames of more than    *)
(* eight bytes go another way (BamTransport) and have no history.          *)
(*                                                                         *)
(* onRcv runs on the receiver thread and is cut where the websocket thread *)
(* can see a difference; what it does for the list of frames is in         *)
(* GuiReceiver.                                                            *)
(***************************************************************************)
EXTENDS J1939Factory, Graph

CONSTANTS
  Files,      \* databases
  Priorities, Addresses,
  None,
  Uses        \* what the programs are used for: records with the fields
              \*   pgns     frames that are sent
              \*   inputs   for every type of signal, the values somebody tries to set
              \*   dtcs     trouble codes that are added
              \*   statuses of tell tales
              \*   edits    bound on the changes of the frame
              \*   sent     bound on the frames on the bus
              \*   short    what other devices send under the same identifier
              \*   resets   bound on the resets of the receiver
              \*   ticks    bound on the microseconds that pass
              \*   clients  pages that ask for graphs

ASSUME UsesAssumption ==
  \A u \in Uses : {u.edits, u.sent, u.resets, u.ticks} \subseteq Nat /\ u.clients \subseteq Clients

\* Descriptions are lists, and what JSON takes for a number of bytes or bits is one.
ASSUME FilesAssumption ==
  /\ DM1_PGN # FMS1_PGN
  /\ \A file \in Files :
       /\ DOMAIN file.frames = 1 .. Len(file.frames)
       /\ \A i \in DOMAIN file.frames : file.frames[i].complete =>
            LET spns == file.frames[i].spns
            IN /\ DOMAIN spns = 1 .. Len(spns)
               /\ \A k \in DOMAIN spns : spns[k].complete =>
                    /\ spns[k].type = "numeric" => {spns[k].offset, spns[k].size} \subseteq Nat
                    /\ spns[k].type = "status" => spns[k].offset \in Nat

VARIABLES
  use,            \* one of Uses
  factory,        \* the prototypes, for every PGN
  ecu,            \* the frame of the sending program
  edits, sent, resets,
  rcvFramesCache, \* the data of the last frame, for every identifier
  rx,             \* the receiver thread in onRcv
  missed          \* auxiliary: signals compare() took for unchanged though the
                  \* frame before did not have them

senderVars == <<use, factory, ecu, edits>>
receiverVars == <<rcvFramesCache, rx, missed>>
vars == <<senderVars, receiverVars, sent, resets, clock, graphVars, terminated>>

Idle == [pc |-> "idle"]

TypeOK ==
  /\ GraphTypeOK
  /\ \A p \in DOMAIN factory : factory[p].pgn = p
  /\ ecu # None => ecu.pgn \in DOMAIN factory
  /\ edits \in 0 .. use.edits /\ sent \in 0 .. use.sent /\ resets \in 0 .. use.resets
  /\ rx # Idle => rx.id \notin DOMAIN rcvFramesCache \/ rcvFramesCache[rx.id] # rx.data
  /\ rx.pc = "add" => <<rx.id, rx.spn>> \in DOMAIN historyMap
  /\ terminated \in BOOLEAN

Init ==
  /\ GraphInit
  /\ use \in Uses
  /\ \E file \in Files : factory = registerDatabaseFrames(file)
  /\ ecu = None
  /\ edits = 0 /\ sent = 0 /\ resets = 0
  /\ rcvFramesCache = <<>>
  /\ rx = Idle
  /\ missed = {}

(***************************************************************************)
(* The sending program                                                     *)
(***************************************************************************)
Create(pgn, priority, src, dst) ==
  /\ ecu = None
  /\ pgn \in DOMAIN factory
  /\ \E f \in IF pgn = FMS1_PGN THEN {FMS1Frame(b) : b \in {0, 3}} ELSE {factory[pgn]} :
       ecu' = [f EXCEPT !.priority = priority, !.src = src,
                        !.dst = IF Pdu1(pgn) THEN dst ELSE @]
  /\ UNCHANGED <<use, factory, edits>>

Edit(f) ==
  /\ ecu # None
  /\ edits < use.edits
  /\ edits' = edits + 1
  /\ ecu' = f
  /\ UNCHANGED <<use, factory>>

SetSpn == \E n \in DOMAIN ecu.spns : \E v \in use.inputs[ecu.spns[n].type] :
            Edit([ecu EXCEPT !.spns = setValue(@, n, v)])

AddDTC == ecu.pgn = DM1_PGN /\ \E d \in use.dtcs : Edit([ecu EXCEPT !.dtcs = Append(@, d)])

SetDTC == \E k \in DOMAIN ecu.dtcs, d \in use.dtcs : Edit([ecu EXCEPT !.dtcs[k] = d])

DeleteDTC == \E k \in DOMAIN ecu.dtcs : Edit([ecu EXCEPT !.dtcs = RemoveAt(@, k)])

SetTTS == \E n \in DOMAIN ecu.tts, s \in use.statuses : Edit(setTTS(ecu, n, s))

Sender ==
  /\ \/ \E p \in use.pgns, y \in Priorities, a, d \in Addresses : Create(p, y, a, d)
     \/ ecu # None /\ (SetSpn \/ AddDTC \/ SetDTC \/ DeleteDTC \/ SetTTS)
  /\ UNCHANGED <<receiverVars, sent, resets, clock, graphVars, terminated>>

(***************************************************************************)
(* onRcv                                                                   *)
(***************************************************************************)
Cached(id) == IF id \in DOMAIN rcvFramesCache THEN rcvFramesCache[id] ELSE <<>>

Cache(id, data) ==
  rcvFramesCache' = [k \in DOMAIN rcvFramesCache \cup {id} |->
                       IF k = id THEN data ELSE rcvFramesCache[k]]

Complete(s, data) == Len(data) >= s.offset + getByteSize(s)

\* Some signals may have changed: the history is next.
Compared(id, data, f) ==
  \E changed \in compare(f, data, Cached(id)) :
    /\ missed' = (missed \ {<<id, n>> : n \in changed})
                   \cup {<<id, n>> : n \in {n \in DOMAIN f.spns \ changed :
                                              ~Complete(f.spns[n], Cached(id))}}
    /\ IF changed = {} THEN Cache(id, data) /\ UNCHANGED rx
       ELSE /\ rx' = [pc |-> "save", id |-> id, data |-> data, frame |-> f, todo |-> changed]
            /\ UNCHANGED rcvFramesCache

onRcv(id, data) ==
  LET r == getJ1939Frame(factory, id, data)
  IN /\ rx = Idle
     /\ sent < use.sent
     /\ sent' = sent + 1
     /\ \/ /\ id \in DOMAIN rcvFramesCache /\ Cached(id) = data
           /\ UNCHANGED <<receiverVars, terminated>>
        \/ /\ id \notin DOMAIN rcvFramesCache \/ Cached(id) # data
           /\ \/ ~r.known /\ UNCHANGED <<receiverVars, terminated>>
              \/ r.known /\ ~r.ok /\ terminated' = TRUE /\ UNCHANGED receiverVars
              \/ /\ r.ok /\ r.data.pgn = FMS1_PGN
                 /\ Cache(id, data)
                 /\ UNCHANGED <<rx, missed, terminated>>
              \/ /\ r.ok /\ r.data.pgn # FMS1_PGN
                 /\ Compared(id, data, r.data)
                 /\ UNCHANGED terminated
     /\ UNCHANGED <<senderVars, resets, clock, graphVars>>

\* The frame of the sending program, and one of the same name but another length.  A
\* DM1 frame has its lamps: they are read whatever the length.
Bus ==
  /\ ecu # None
  /\ LET e == encode(ecu)
     IN /\ e.ok
        /\ \E data \in {e.data} \cup use.short :
             /\ Len(data) \in 0 .. 8
             /\ PgnOf(e.id) = DM1_PGN => Len(data) >= 2
             /\ onRcv(e.id, data)

\* saveToHistory: the history is there before the time is taken,
SaveToHistory(n) ==
  LET key == <<rx.id, n>>
  IN /\ rx.pc = "save"
     /\ n \in rx.todo
     /\ historyMap' = [k \in DOMAIN historyMap \cup {key} |->
                         IF k \in DOMAIN historyMap THEN historyMap[k] ELSE NewHistory]
     /\ rx' = [pc |-> "add", id |-> rx.id, data |-> rx.data, frame |-> rx.frame,
               todo |-> rx.todo, spn |-> n, stamp |-> At(clock)]
     /\ UNCHANGED <<rcvFramesCache, missed>>

\* and the time before the sample is added.  After the last one the frame is cached.
AddSample ==
  LET key == <<rx.id, rx.spn>>
      left == rx.todo \ {rx.spn}
  IN /\ rx.pc = "add"
     /\ historyMap' = [historyMap EXCEPT ![key] =
                         addSample(@, rx.stamp, rx.frame.spns[rx.spn])]
     /\ IF left = {} THEN rx' = Idle /\ Cache(rx.id, rx.data)
        ELSE /\ rx' = [pc |-> "save", id |-> rx.id, data |-> rx.data, frame |-> rx.frame,
                       todo |-> left]
             /\ UNCHANGED rcvFramesCache
     /\ UNCHANGED missed

Receiver ==
  /\ AddSample \/ \E n \in IF rx.pc = "save" THEN rx.todo ELSE {} : SaveToHistory(n)
  /\ UNCHANGED <<senderVars, sent, resets, clock, sessions, userData, waiting, ws, queries,
                 terminated>>

\* The next step inserts a history.
Inserting ==
  rx.pc = "save" /\ \E n \in rx.todo : <<rx.id, n>> \notin DOMAIN historyMap

\* resetReceiver: the thread has ended, what it received is forgotten.
ResetReceiver ==
  /\ rx = Idle /\ ws = Ready
  /\ resets < use.resets
  /\ resets' = resets + 1
  /\ rcvFramesCache' = <<>>
  /\ UNCHANGED <<senderVars, rx, missed, sent, clock, graphVars, terminated>>

Next ==
  /\ ~terminated
  /\ \/ Sender \/ Bus \/ Receiver \/ ResetReceiver
     \/ /\ (clock < StartUp + use.ticks /\ Tick) \/ WebSocket \/ Pages(use.clients, Inserting)
        /\ UNCHANGED <<senderVars, receiverVars, sent, resets>>

Spec == Init /\ [][Next]_vars

\* Both threads of the backend run.
FairSpec ==
  /\ Spec
  /\ WF_vars(~terminated /\ Receiver)
  /\ WF_vars(~terminated /\ WebSocket /\ UNCHANGED <<senderVars, receiverVars, sent, resets>>)

-----------------------------------------------------------------------------
(***************************************************************************)
(* Properties                                                              *)
(***************************************************************************)
\* The bits of the frame that a signal occupies.
Bits(s) ==
  IF s.type = "status" THEN {s.offset * 8 + b : b \in s.bit .. s.bit + s.bits - 1}
  ELSE s.offset * 8 .. (s.offset + getByteSize(s)) * 8 - 1

\* The frame is one that J1939 and its database can express.
Representable(f) ==
  /\ f.priority <= 7
  /\ Pdu1(f.pgn) => f.pgn < 2^16
  /\ \A n \in DOMAIN f.spns : f.spns[n].type = "string" =>
       /\ Len(f.spns[n].value) < U8 - 1
       /\ \A i \in DOMAIN f.spns[n].value : f.spns[n].value[i] \notin {0, Terminator}
  /\ \A m, n \in DOMAIN f.spns :
       m # n /\ f.spns[m].type # "string" => Bits(f.spns[m]) \cap Bits(f.spns[n]) = {}
  /\ \A k \in DOMAIN f.dtcs : f.dtcs[k].spn \in 1 .. MAX_SPN - 1
                               /\ f.dtcs[k].fmi < 32 /\ f.dtcs[k].oc < 128

\* What the frame carries: of a number the bytes that are sent.
Content(f) ==
  [pgn |-> f.pgn, priority |-> f.priority, src |-> f.src, dst |-> f.dst,
   dtcs |-> f.dtcs, tts |-> f.tts,
   values |-> [n \in DOMAIN f.spns |->
                 IF f.spns[n].type = "numeric"
                 THEN SubSeq(f.spns[n].value, 1, f.spns[n].size) ELSE f.spns[n].value]]

(***************************************************************************)
(* Whatever somebody makes of a frame of the database, encode accepts it   *)
(* and the factory of the receiver makes the same of the bytes: signals    *)
(* that share a byte, strings that move the ones behind them each time one *)
(* is set, trouble codes cut into groups of bits, tell tales in halves of  *)
(* bytes.  Not so for strings with a terminator or a zero in them or too   *)
(* long for a u8, and PGNs of format 1 beyond the first data page.         *)
(***************************************************************************)
RoundTrip ==
  ecu # None /\ Representable(ecu) =>
    LET e == encode(ecu)
        r == getJ1939Frame(factory, e.id, e.data)
    IN e.ok /\ r.ok /\ Content(r.data) = Content(ecu)

\* The value of every signal with a history in the frame received last.
Received(id) == getJ1939Frame(factory, id, rcvFramesCache[id]).data
Recorded(id, n) ==
  LET s == Received(id).spns[n]
      h == historyMap[<<id, n>>].samples
  IN \/ s.type = "string"
     \/ <<id, n>> \in DOMAIN historyMap /\ h # <<>>
        /\ (Back(h).value = s.value \/ Len(h) = CAPACITY)

(***************************************************************************)
(* The history ends with the value received last, although a frame with    *)
(* the same data is not looked at, signals are compared by the bytes they  *)
(* share with others, a reset forgets the frame but not the history, and a *)
(* value equal to the last one is not added.  The exception are signals    *)
(* that compare() takes for unchanged though there was nothing to compare. *)
(***************************************************************************)
HistoryFollows ==
  rx = Idle =>
    \A id \in DOMAIN rcvFramesCache : \A n \in DOMAIN Received(id).spns :
      <<id, n>> \in missed \/ Recorded(id, n)

(***************************************************************************)
(* What the comment in compare() says: a signal of which there are missing *)
(* bytes in one of the strings has changed, and so gets into the history.  *)
(***************************************************************************)
MissingIsChanged ==
  rx = Idle =>
    \A id \in DOMAIN rcvFramesCache : \A n \in DOMAIN Received(id).spns : Recorded(id, n)
=============================================================================

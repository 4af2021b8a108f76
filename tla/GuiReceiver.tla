---------------------------- MODULE GuiReceiver ----------------------------
(***************************************************************************)
(* The receiving half of the GUI backend (src/GUI_WEB/backend).  The       *)
(* sniffer thread runs onRcv, which collects in rxFrames what changed since*)
(* the last "check rx"; the websocket thread answers the browsers, and     *)
(* resetReceiver() stops the sniffer thread, forgets what was received and *)
(* starts another.  A browser keeps a view and merges every answer into it.*)
(*                                                                         *)
(* onRcv is cut where the other thread can come in between: before each of *)
(* the sections under rxLock.  The counters of received frames are left    *)
(* out, the page shows them only when it has them.                         *)
(***************************************************************************)
EXTENDS CanSniffer

CONSTANTS
  Clients,    \* the browsers
  Decode,     \* the factory: <<id, data>> to "none", "throws", "tp" or "frame"
  Messages,   \* identifiers of reassembled messages, maybe those of frames too
  Values,     \* their contents
  None,
  BufferSize, \* bound on the frames in a receive buffer
  QueueSize,  \* bound on the requests on their way
  MaxAnswers  \* bound on the answers on their way

Data == {f.data : f \in Frames}
CanIds == {f.id : f \in Frames}
Keys == CanIds \cup Messages

ASSUME GuiAssumption ==
  /\ \A i \in CanIds, d \in Data : Decode[<<i, d>>] \in {"none", "throws", "tp", "frame"}
  /\ None \notin Data \cup Values /\ None \notin Keys
  /\ {BufferSize, QueueSize, MaxAnswers} \subseteq Nat \ {0}

VARIABLES
  rcv,            \* where onRcv is
  found,          \* the frame onRcv is about to show: [id, value]
  rxFrames,       \* what changed, for every identifier
  rcvFramesCache, \* the data last received, for every identifier
  showRaw,
  rxThread,       \* whether there is a sniffer thread
  ws,             \* the websocket thread: ready, or in join()
  requests,       \* on their way to the backend
  jsonResponses,
  view,           \* what every browser shows
  terminated      \* an exception left the thread

guiVars == <<rcv, found, rxFrames, rcvFramesCache, showRaw, rxThread, ws, requests,
             jsonResponses, view, terminated>>
vars == <<snifferVars, guiVars>>

Nothing == [frame |-> None, raw |-> None]
NoChange == [k \in Keys |-> Nothing]
NotFound == [id |-> None, value |-> None]

Init ==
  /\ SnifferInit
  /\ rcv = "decode"
  /\ found = NotFound
  /\ rxFrames = NoChange
  /\ rcvFramesCache = [i \in CanIds |-> None]
  /\ showRaw = FALSE
  /\ rxThread = FALSE
  /\ ws = "ready"
  /\ requests = <<>>
  /\ jsonResponses = <<>>
  /\ view = [c \in Clients |-> NoChange]
  /\ terminated = FALSE

(***************************************************************************)
(* onRcv                                                                   *)
(***************************************************************************)
Return ==
  /\ CallbackReturns
  /\ rcv' = "decode"
  /\ found' = NotFound

\* The raw data is the same as the last time.
OnRcvUnchanged ==
  /\ thread = "callback" /\ rcv = "decode"
  /\ rcvFramesCache[frame.id] = frame.data
  /\ Return
  /\ UNCHANGED <<rxFrames, rcvFramesCache, terminated>>

Changed(kind) ==
  /\ thread = "callback" /\ rcv = "decode"
  /\ rcvFramesCache[frame.id] # frame.data
  /\ Decode[<<frame.id, frame.data>>] = kind

\* Nobody catches what the factory throws, at a frame or at a whole message.
OnRcvThrows ==
  /\ Changed("throws") \/ Changed("tp")
  /\ terminated' = TRUE
  /\ UNCHANGED <<snifferVars, rcv, found, rxFrames, rcvFramesCache>>

\* The cache is filled whether the raw data are shown or not.
OnRcvUnknownCaching ==
  /\ Changed("none")
  /\ rxFrames' = IF showRaw THEN [rxFrames EXCEPT ![frame.id].raw = frame.data]
                 ELSE rxFrames
  /\ rcvFramesCache' = [rcvFramesCache EXCEPT ![frame.id] = frame.data]
  /\ Return
  /\ UNCHANGED terminated

OnRcvUnknown ==
  /\ Changed("none")
  /\ IF showRaw
     THEN /\ rxFrames' = [rxFrames EXCEPT ![frame.id].raw = frame.data]
          /\ rcvFramesCache' = [rcvFramesCache EXCEPT ![frame.id] = frame.data]
     ELSE UNCHANGED <<rxFrames, rcvFramesCache>>
  /\ Return
  /\ UNCHANGED terminated

\* A frame of the transport protocol: BamReassembler has a message, or not yet.
OnRcvTransport ==
  /\ Changed("tp")
  /\ \/ Return
     \/ /\ \E m \in Messages, v \in Values : found' = [id |-> m, value |-> v]
        /\ rcv' = "show"
        /\ UNCHANGED snifferVars
  /\ UNCHANGED <<rxFrames, rcvFramesCache, terminated>>

\* The SPNs that changed go to the history, then the frame to the cache.
OnRcvDecoded ==
  /\ Changed("frame")
  /\ rcvFramesCache' = [rcvFramesCache EXCEPT ![frame.id] = frame.data]
  /\ found' = [id |-> frame.id, value |-> frame.data]
  /\ rcv' = "show"
  /\ UNCHANGED <<snifferVars, rxFrames, terminated>>

OnRcvShow ==
  /\ thread = "callback" /\ rcv = "show"
  /\ rxFrames' = [rxFrames EXCEPT ![found.id].frame = found.value]
  /\ Return
  /\ UNCHANGED <<rcvFramesCache, terminated>>

onRcv ==
  /\ \/ OnRcvUnchanged \/ OnRcvThrows \/ OnRcvUnknown \/ OnRcvTransport
     \/ OnRcvDecoded \/ OnRcvShow
  /\ UNCHANGED <<showRaw, rxThread, ws, requests, jsonResponses, view>>

(***************************************************************************)
(* The websocket thread                                                    *)
(***************************************************************************)
Command(cmds) ==
  /\ ws = "ready"
  /\ requests # <<>>
  /\ Head(requests) \in cmds
  /\ requests' = Tail(requests)

\* Empties rxFrames before it is copied to the answers.
CheckRxEmptied ==
  /\ Command({"check"})
  /\ jsonResponses' = Append(jsonResponses, NoChange)
  /\ rxFrames' = NoChange
  /\ UNCHANGED <<snifferVars, rcvFramesCache, showRaw, rxThread, ws, view>>

CheckRx ==
  /\ Command({"check"})
  /\ jsonResponses' = Append(jsonResponses, rxFrames)
  /\ rxFrames' = NoChange
  /\ UNCHANGED <<snifferVars, rcvFramesCache, showRaw, rxThread, ws, view>>

ShowRaw ==
  /\ Command({"raw", "hide"})
  /\ showRaw' = (Head(requests) = "raw")
  /\ UNCHANGED <<snifferVars, rxFrames, rcvFramesCache, rxThread, ws, jsonResponses,
                 view>>

StartThread ==
  /\ mRunning' = TRUE
  /\ thread' = "select"
  /\ UNCHANGED <<buffer, filters, rdfs, next, frame>>

\* A new session or "reset rx": finish() and wait for the thread, if there is one.
ResetReceiver ==
  /\ Command({"open", "reset"})
  /\ IF rxThread
     THEN /\ mRunning' = FALSE
          /\ ws' = "join"
          /\ UNCHANGED <<buffer, filters, thread, rdfs, next, frame, rxThread>>
     ELSE StartThread /\ rxThread' = TRUE /\ UNCHANGED ws
  /\ UNCHANGED <<rxFrames, rcvFramesCache, showRaw, jsonResponses, view>>

\* A restart that keeps what was received.
JoinKeeping ==
  /\ ws = "join"
  /\ thread = "off"
  /\ StartThread
  /\ ws' = "ready"
  /\ UNCHANGED <<rxFrames, rcvFramesCache, showRaw, rxThread, requests, jsonResponses,
                 view>>

Join ==
  /\ ws = "join"
  /\ thread = "off"
  /\ StartThread
  /\ ws' = "ready"
  /\ rcvFramesCache' = [i \in CanIds |-> None]
  /\ UNCHANGED <<rxFrames, showRaw, rxThread, requests, jsonResponses, view>>

\* onmessage of the browser: what is new replaces what is shown.
Merge(old, new) ==
  [k \in Keys |->
     [frame |-> IF new[k].frame # None THEN new[k].frame ELSE old[k].frame,
      raw   |-> IF new[k].raw # None THEN new[k].raw ELSE old[k].raw]]

\* Any session that is writable takes the first answer, whoever asked.
Writeable(c) ==
  /\ ws = "ready"
  /\ jsonResponses # <<>>
  /\ view' = [view EXCEPT ![c] = Merge(@, Head(jsonResponses))]
  /\ jsonResponses' = Tail(jsonResponses)
  /\ UNCHANGED <<snifferVars, rxFrames, rcvFramesCache, showRaw, rxThread, ws,
                 requests>>

Handle ==
  /\ CheckRx \/ ShowRaw \/ ResetReceiver \/ Join
  /\ UNCHANGED <<rcv, found, terminated>>

Answer ==
  /\ \E c \in Clients : Writeable(c)
  /\ UNCHANGED <<rcv, found, terminated>>

(***************************************************************************)
(* The browsers.  The first thing any of them does is to open the page;    *)
(* loading it again empties it, "reset rx" empties the list of frames only.*)
(***************************************************************************)
Ask(cmd) ==
  /\ requests' = Append(requests, cmd)
  /\ UNCHANGED <<snifferVars, rcv, found, rxFrames, rcvFramesCache, showRaw, rxThread,
                 ws, jsonResponses, terminated>>

Opened == rxThread \/ requests # <<>>

\* The bound leaves room for the next "check rx".
Room == Len(SelectSeq(requests, LAMBDA q : q # "check")) < QueueSize - 1

Open(c) == Room /\ Ask("open") /\ view' = [view EXCEPT ![c] = NoChange]

Poll ==
  /\ Opened
  /\ Len(jsonResponses) < MaxAnswers
  /\ \A i \in 1 .. Len(requests) : requests[i] # "check"
  /\ Ask("check")
  /\ UNCHANGED view

Reset(c) ==
  /\ Opened /\ Room
  /\ Ask("reset")
  /\ view' = [view EXCEPT ![c] = [k \in Keys |-> [@[k] EXCEPT !.frame = None]]]

Toggle ==
  /\ Opened /\ Room
  /\ Ask("raw") \/ Ask("hide")
  /\ UNCHANGED view

Bus ==
  /\ \E r \in Receivers, f \in Frames :
       Len(buffer[r]) < BufferSize /\ Arrive(r, f)
  /\ UNCHANGED guiVars

Rx == onRcv \/ (Sniffer /\ UNCHANGED guiVars)

Next ==
  /\ ~terminated
  /\ \/ Bus \/ Poll \/ Toggle \/ Rx \/ Handle \/ Answer
     \/ \E c \in Clients : Open(c) \/ Reset(c)

Spec == Init /\ [][Next]_vars

(***************************************************************************)
(* Both threads run; lws_service() reads requests and serves writable      *)
(* sessions; a page polls every 200 ms.                                    *)
(***************************************************************************)
Fairness ==
  /\ WF_vars(~terminated /\ Rx)
  /\ WF_vars(~terminated /\ Handle)
  /\ WF_vars(~terminated /\ Answer)
  /\ WF_vars(~terminated /\ Poll)

-----------------------------------------------------------------------------
(***************************************************************************)
(* Properties                                                              *)
(***************************************************************************)
\* The last answer that says something about k in the given field.
Last(k, field) ==
  LET said == {i \in 1 .. Len(jsonResponses) : jsonResponses[i][k][field] # None}
  IN IF said = {} THEN None
     ELSE jsonResponses[CHOOSE i \in said : \A j \in said : j <= i][k][field]

\* What the page of c will show for k once everything on its way is there.
Newest(c, k, field) ==
  IF field = "frame" /\ rcv = "show" /\ found.id = k THEN found.value
  ELSE IF rxFrames[k][field] # None THEN rxFrames[k][field]
  ELSE IF Last(k, field) # None THEN Last(k, field)
  ELSE view[c][k][field]

Pending(cmds) == ws = "join" \/ \E i \in 1 .. Len(requests) : requests[i] \in cmds

\* A message of packets has come under the identifier of a frame.
Overtaken(c, i) == i \in Messages /\ Newest(c, i, "frame") \in Values

(***************************************************************************)
(* With one page open: what onRcv suppresses as unchanged is what the page *)
(* shows or is about to be sent, however requests and resets interleave    *)
(* with the sections of onRcv.  The cache is filled before rxFrames and    *)
(* under another lock, and rxFrames is emptied by somebody else.  Only a   *)
(* message of packets may be shown instead, under an identifier that is    *)
(* used both for frames and for messages (a DM1 with one trouble code and  *)
(* with two): what it replaces stays in the cache (SameAsShown).           *)
(***************************************************************************)
UnchangedIsShown ==
  \A c \in Clients, i \in CanIds :
    LET d == rcvFramesCache[i]
    IN d # None =>
         IF Decode[<<i, d>>] = "frame"
         THEN Pending({"open", "reset"}) \/ Newest(c, i, "frame") = d \/ Overtaken(c, i)
         ELSE Pending({"open"}) \/ Newest(c, i, "raw") = d

(***************************************************************************)
(* Received frames are cached "to avoid processing frames that did not     *)
(* change" (rcvFramesCache): with one page open, what onRcv leaves out is  *)
(* what the page shows or is about to be sent under its identifier.        *)
(***************************************************************************)
SameAsShown ==
  thread = "callback" /\ rcv = "decode" /\ rcvFramesCache[frame.id] = frame.data
      /\ Decode[<<frame.id, frame.data>>] = "frame" =>
    \A c \in Clients :
      Pending({"open", "reset"}) \/ Newest(c, frame.id, "frame") = frame.data

(***************************************************************************)
(* With one page open: a frame that was decoded shows up on it, unless     *)
(* another frame or a message with its identifier, a reset or the end of   *)
(* the program comes before.                                               *)
(***************************************************************************)
ShowsUp ==
  \A c \in Clients, i \in CanIds, d \in Data : Decode[<<i, d>>] = "frame" =>
    (rcv = "show" /\ found = [id |-> i, value |-> d])
      ~> \/ view[c][i].frame = d
         \/ rcv = "show" /\ found.id = i /\ found.value # d
         \/ rcvFramesCache[i] # d
         \/ terminated

(***************************************************************************)
(* The websocket thread never hangs in join(), with the bus as busy as it  *)
(* may be: the sniffer thread sees finish() and ends.                      *)
(***************************************************************************)
ResetReturns == (ws = "join") ~> (ws = "ready" \/ terminated)
=============================================================================

----------------------------- MODULE WebServer -----------------------------
(***************************************************************************)
(* The server of src/web/backend: one thread that serves the sessions of   *)
(* the pages.  A request is handled as it is received; its answer waits in *)
(* a queue that all sessions share until a session can be written to.  A   *)
(* page starts with "set baud rate".  A frame is created for one request   *)
(* and not kept; nothing takes it off the bus again.                       *)
(*                                                                         *)
(* libwebsockets: a session has one flag that says it wants to be called   *)
(* back when it is writable, however often that was asked for; with the    *)
(* session the flag goes.                                                  *)
(***************************************************************************)
EXTENDS CanEasy, FiniteSets

CONSTANTS
  Clients,
  Requests,    \* what a page sends: records with at least the field cmd
  Invalid,     \* a value that is not one the SPN can take
  MaxRequests  \* bound on the requests of all pages

ASSUME WebAssumption == MaxRequests \in Nat

VARIABLES
  sessions,
  inbox,     \* for every session: requests on their way
  writable,  \* the sessions that wait for a writable callback
  respQueue,
  crashed,
  asked,     \* auxiliary: number of requests sent
  missed,    \* auxiliary: callbacks that were asked for and will not come
  serial,    \* auxiliary: no request came in while another was being served
  strayed    \* auxiliary: an answer went to a session that had not asked for it

serverVars == <<sessions, inbox, writable, respQueue, crashed, asked, missed, serial,
                strayed>>

WebTypeOK ==
  /\ CanEasyTypeOK
  /\ sessions \subseteq Clients /\ writable \subseteq sessions
  /\ \A c \in Clients : inbox[c] \in Seq(Requests) /\ (inbox[c] # <<>> => c \in sessions)
  /\ \A k \in 1 .. Len(respQueue) : respQueue[k].asker \in Clients
  /\ asked \in 0 .. MaxRequests /\ missed \in 0 .. asked
  /\ {crashed, serial, strayed} \subseteq BOOLEAN

WebInit ==
  /\ CanEasyInit
  /\ sessions = {} /\ writable = {}
  /\ inbox = [c \in Clients |-> <<>>]
  /\ respQueue = <<>>
  /\ asked = 0 /\ missed = 0
  /\ crashed = FALSE /\ serial = TRUE /\ strayed = FALSE

(***************************************************************************)
(* The handlers.  The result of process_cmd is the answer, or nothing to   *)
(* send: << >>.                                                            *)
(***************************************************************************)
process_cmd_list == <<[command |-> "list", data |-> Pgns]>>

process_req_frame(q) ==
  IF q.name = "" THEN <<>> ELSE <<[command |-> "req", data |-> q.name = "known"]>>

\* All the interfaces there are, whether they could be initialised or not.
process_set_baud(q) ==
  IF q.rate = 0 THEN <<>> ELSE <<[command |-> "baud", data |-> Ifaces]>>

\* The checks of "create frame" in their order.
Reason(q) ==
  CASE ~q.keys           -> "checkKey failed"
    [] q.pgn = 0         -> "invalid pgn"
    [] q.spn = 0         -> "invalid spn"
    [] q.iface = ""      -> "invalid interface"
    [] q.pgn \notin Pgns -> "Frame not recognized"
    [] ~q.belongs        -> "This spn does not belong to the given frame"
    [] OTHER             -> "Success"

process_create_frame(q) == <<[command |-> "create", data |-> Reason(q)]>>

\* A value that is refused leaves the prototype's; that is a success, too.
setFrameValue(q) == IF q.value = Invalid THEN NewValue ELSE q.value

\* One CAN frame: data that do not fit are left out, and nobody is told.
WebRing(q) ==
  LET v == setFrameValue(q)
  IN [ids    |-> <<getIdentifier(q.pgn, NewSource, NewDestination)>>,
      data   |-> IF Packets[v] = 0 THEN <<q.pgn, v>> ELSE <<>>,
      period |-> q.period,
      owner  |-> Free]

\* Without a sender for the interface the server is gone.
sendFrame(q) ==
  /\ crashed' = (q.iface \notin mSenders)
  /\ rings' = IF q.iface \in mSenders /\ q.period # 0
              THEN [rings EXCEPT ![q.iface] = sendFrames(@, WebRing(q))] ELSE rings
  /\ UNCHANGED <<link, mHelpers, mSenders>>

(***************************************************************************)
(* LWS_CALLBACK_RECEIVE                                                    *)
(***************************************************************************)
Queued(c, answer) ==
  /\ respQueue' = respQueue \o [k \in 1 .. Len(answer) |-> [json |-> answer[k], asker |-> c]]
  /\ serial' = (serial /\ respQueue = <<>> /\ writable = {})

lws_callback_on_writable(c, answer) ==
  /\ writable' = writable \cup {c}
  /\ missed' = IF c \in writable THEN missed + Len(answer) ELSE missed

\* Asks for the callback only when nothing was waiting.
ReplyOnce(c, answer) ==
  /\ Queued(c, answer)
  /\ IF respQueue = <<>> THEN lws_callback_on_writable(c, answer)
     ELSE UNCHANGED <<writable, missed>>

\* Every session is called back, as in graph.cpp.
ReplyAll(c, answer) == Queued(c, answer) /\ writable' = sessions /\ UNCHANGED missed

Reply(c, answer) == Queued(c, answer) /\ lws_callback_on_writable(c, answer)

\* For a command nobody registered the result of emitEvent is not defined.
Query(c, q) ==
  /\ \/ q.cmd = "list" /\ Reply(c, process_cmd_list)
     \/ q.cmd = "req" /\ Reply(c, process_req_frame(q))
     \/ q.cmd = "other"
        /\ \E answer \in {<<>>, <<[command |-> "", data |-> {}]>>} : Reply(c, answer)
  /\ UNCHANGED <<easyVars, crashed>>

SetBaud(c, q) ==
  /\ q.cmd = "baud"
  /\ IF q.rate = 0 THEN UNCHANGED easyVars ELSE initialize(q.rate)
  /\ Reply(c, process_set_baud(q))
  /\ UNCHANGED crashed

Create(c, q) ==
  /\ q.cmd = "create"
  /\ IF Reason(q) = "Success" THEN sendFrame(q) ELSE UNCHANGED <<easyVars, crashed>>
  /\ Reply(c, process_create_frame(q))

\* No JSON, or no command in it.
Malformed(q) ==
  /\ q.cmd = "malformed"
  /\ UNCHANGED <<easyVars, writable, respQueue, crashed, missed, serial>>

\* A member of another type (a name for a number, a list for a name), no object
\* at all, or a number that is too large: the exception goes past the handlers,
\* before anything is done, and takes the server along.
Mistyped(q) ==
  /\ q.cmd = "mistyped"
  /\ crashed' = TRUE
  /\ UNCHANGED <<easyVars, writable, respQueue, missed, serial>>

Receive(c) ==
  /\ inbox[c] # <<>>
  /\ inbox' = [inbox EXCEPT ![c] = Tail(@)]
  /\ LET q == Head(inbox[c])
     IN Query(c, q) \/ SetBaud(c, q) \/ Create(c, q) \/ Malformed(q) \/ Mistyped(q)
  /\ UNCHANGED <<sessions, asked, strayed>>

(***************************************************************************)
(* LWS_CALLBACK_SERVER_WRITEABLE: one answer, whoever asked for it.        *)
(***************************************************************************)
sendQueue(c) ==
  /\ strayed' = (strayed \/ (respQueue # <<>> /\ Head(respQueue).asker # c))
  /\ respQueue' = IF respQueue = <<>> THEN <<>> ELSE Tail(respQueue)

Writeable(c) ==
  /\ c \in writable
  /\ writable' = writable \ {c}
  /\ sendQueue(c)
  /\ UNCHANGED <<easyVars, sessions, inbox, crashed, asked, missed, serial>>

(***************************************************************************)
(* The pages                                                               *)
(***************************************************************************)
Ask(c, q) ==
  /\ asked < MaxRequests
  /\ asked' = asked + 1
  /\ inbox' = [inbox EXCEPT ![c] = Append(@, q)]
  /\ UNCHANGED <<easyVars, writable, respQueue, crashed, missed, serial, strayed>>

\* ws.onopen
Established(c, q) ==
  /\ c \notin sessions
  /\ q.cmd = "baud"
  /\ sessions' = sessions \cup {c}
  /\ Ask(c, q)

Send(c, q) == c \in sessions /\ Ask(c, q) /\ UNCHANGED sessions

Closed(c) ==
  /\ c \in sessions
  /\ sessions' = sessions \ {c}
  /\ writable' = writable \ {c}
  /\ inbox' = [inbox EXCEPT ![c] = <<>>]
  /\ missed' = IF c \in writable THEN missed + 1 ELSE missed
  /\ UNCHANGED <<easyVars, respQueue, crashed, asked, serial, strayed>>

WebNext ==
  /\ ~crashed
  /\ \/ \E c \in Clients : Receive(c) \/ Writeable(c) \/ Closed(c)
     \/ \E c \in Clients, q \in Requests : Established(c, q) \/ Send(c, q)
     \/ \E i \in Ifaces, l \in Rates \cup {Down} :
          OtherProgram(i, l) /\ UNCHANGED serverVars

-----------------------------------------------------------------------------
(***************************************************************************)
(* Properties                                                              *)
(***************************************************************************)
(***************************************************************************)
(* The answers that nothing is about to send are at most as many as the    *)
(* callbacks that libwebsockets joined into one or dropped with a session: *)
(* as long as every page waits for its answer and stays, none is stuck.    *)
(***************************************************************************)
FewAnswersStuck == Len(respQueue) <= Cardinality(writable) + missed

(***************************************************************************)
(* The queue does not know whose answer it holds.  Still each answer goes  *)
(* to the page that asked, as long as no request comes in before the one   *)
(* before it is done with, whatever the requests are.                      *)
(***************************************************************************)
AnswersFindAsker == serial => ~strayed
=============================================================================

------------------------------- MODULE Graph -------------------------------
(***************************************************************************)
(* graph.cpp (src/GUI_WEB/backend): the histories of the signals, filled   *)
(* by the receiver thread, and the sessions that ask for graphs of them,   *)
(* served by the websocket thread.  There is no lock between the two: the  *)
(* window is computed point by point while samples are being added.  The   *)
(* vectors never move, so that a sample is there or not; the map of them   *)
(* may be in the middle of an insertion when it is searched.               *)
(***************************************************************************)
EXTENDS SPNHistory

CONSTANTS
  Clients,
  Queries,     \* "get graph": [key, samples, period, time]
  MAX_SAMPLES, \* 10000
  U32,         \* 2^32
  StartUp,     \* when the program started, in microseconds
  MaxClock,    \* bound on the clock
  MaxQueries   \* bound on the queries

ASSUME GraphAssumption ==
  /\ {MAX_SAMPLES, U32, StartUp, MaxClock, MaxQueries} \subseteq Nat
  /\ StartUp <= MaxClock /\ U32 # 0
  /\ \A q \in Queries : {q.samples, q.period, q.time} \subseteq Nat

VARIABLES
  clock,      \* the steady clock, in microseconds
  historyMap, \* a history for every key that was saved
  sessions,
  userData,   \* for every session: [graph, toSend]
  waiting,    \* the sessions that will be called back when they are writable
  ws,         \* the websocket thread: ready, or the window it is at
  queries,    \* number of queries so far
  terminated  \* the program is gone

graphVars == <<historyMap, sessions, userData, waiting, ws, queries>>

Empty == <<>>
NoData == [graph |-> Empty, toSend |-> FALSE]
Ready == [pc |-> "ready"]
startUpTime == At(StartUp)

GraphTypeOK ==
  /\ clock \in StartUp .. MaxClock
  /\ \A k \in DOMAIN historyMap : Len(historyMap[k].samples) <= CAPACITY
  /\ sessions \subseteq Clients /\ waiting \subseteq sessions
  /\ \A c \in Clients : userData[c].toSend => c \in sessions
  /\ ws # Ready => /\ ws.client \in sessions
                   /\ ws.pos \in DOMAIN historyMap[ws.key].samples
  /\ queries \in 0 .. MaxQueries

GraphInit ==
  /\ clock = StartUp
  /\ historyMap = <<>>
  /\ sessions = {} /\ waiting = {}
  /\ userData = [c \in Clients |-> NoData]
  /\ ws = Ready
  /\ queries = 0
  /\ terminated = FALSE

Tick ==
  /\ clock < MaxClock
  /\ clock' = clock + 1
  /\ UNCHANGED <<graphVars, terminated>>

(***************************************************************************)
(* The sessions                                                            *)
(***************************************************************************)
Established(c) ==
  /\ ws = Ready
  /\ c \notin sessions
  /\ sessions' = sessions \cup {c}
  /\ userData' = [userData EXCEPT ![c] = NoData]
  /\ UNCHANGED <<clock, historyMap, waiting, ws, queries, terminated>>

\* The data of the session stays.
ClosedKeeping(c) ==
  /\ ws = Ready
  /\ c \in sessions
  /\ sessions' = sessions \ {c}
  /\ waiting' = waiting \ {c}
  /\ UNCHANGED <<clock, historyMap, userData, ws, queries, terminated>>

Closed(c) ==
  /\ ws = Ready
  /\ c \in sessions
  /\ sessions' = sessions \ {c}
  /\ waiting' = waiting \ {c}
  /\ userData' = [userData EXCEPT ![c] = NoData]
  /\ UNCHANGED <<clock, historyMap, ws, queries, terminated>>

\* Calls back only sessions that were waiting.
AnswerLost(c, graph) ==
  /\ userData' = [userData EXCEPT ![c] = [graph |-> graph, toSend |-> TRUE]]
  /\ UNCHANGED waiting
  /\ ws' = Ready

\* Every session is called back, and only one has something to send.
Answer(c, graph) ==
  /\ userData' = [userData EXCEPT ![c] = [graph |-> graph, toSend |-> TRUE]]
  /\ waiting' = sessions
  /\ ws' = Ready

\* What was sent is not looked at again.
Writeable(c) ==
  /\ ws = Ready
  /\ c \in waiting
  /\ waiting' = waiting \ {c}
  /\ userData' = [userData EXCEPT ![c] = NoData]
  /\ UNCHANGED <<clock, historyMap, sessions, ws, queries, terminated>>

(***************************************************************************)
(* getGraphFromSPN                                                         *)
(***************************************************************************)
\* Seconds since the program started; the microseconds go through a u32, of which
\* the conversion keeps the low bits.
Requested(t) == Plus(startUpTime, [sec |-> t \div MICROS, usec |-> (t % U32) % MICROS])

Current(q) == IF q.time > 0 THEN Requested(q.time) ELSE At(clock)

Samples(q) == IF q.samples > MAX_SAMPLES THEN MAX_SAMPLES ELSE q.samples

\* There is a history, and it is one of numbers.
HasGraph(q) == q.key \in DOMAIN historyMap /\ historyMap[q.key].spec = "numeric"

\* Nothing to show, not even two samples.
GraphEmpty(c, q) ==
  /\ HasGraph(q) => Len(historyMap[q.key].samples) < 2
  /\ Answer(c, Empty)
  /\ UNCHANGED terminated

\* The number of milliseconds is divided by the number of points.
GraphDivision(q) ==
  /\ HasGraph(q)
  /\ Len(historyMap[q.key].samples) >= 2
  /\ Samples(q) = 0
  /\ terminated' = TRUE
  /\ UNCHANGED <<userData, waiting, ws>>

GraphBegins(c, q) ==
  /\ HasGraph(q)
  /\ Len(historyMap[q.key].samples) >= 2
  /\ Samples(q) > 0
  /\ LET start == MinusMillis(Current(q), q.period)
     IN ws' = [pc     |-> "window", client |-> c, key |-> q.key, end |-> Current(q),
               step   |-> q.period \div Samples(q),
               at     |-> start,
               pos    |-> BeginPos(historyMap[q.key], start),
               had    |-> Len(historyMap[q.key].samples), \* auxiliary
               points |-> <<>>]
  /\ UNCHANGED <<userData, waiting, terminated>>

\* find() while the receiver thread inserts a key and may rehash: it misses what is
\* there, or reads memory that is gone.
GraphRace(c) ==
  \/ Answer(c, Empty) /\ UNCHANGED terminated
  \/ terminated' = TRUE /\ UNCHANGED <<userData, waiting, ws>>

GetGraph(c, q, inserting) ==
  /\ ws = Ready
  /\ c \in sessions
  /\ queries < MaxQueries
  /\ queries' = queries + 1
  /\ \/ GraphEmpty(c, q) \/ GraphDivision(q) \/ GraphBegins(c, q)
     \/ inserting /\ GraphRace(c)
  /\ UNCHANGED <<clock, historyMap, sessions>>

\* One turn of the loop: a point, the next time, and the sample for it.
Point ==
  LET h == historyMap[ws.key]
      points == Append(ws.points, [x     |-> Minus(ws.at, startUpTime),
                                   value |-> h.samples[ws.pos].value])
      at == PlusMillis(ws.at, ws.step)
  IN /\ ws # Ready
     /\ ws.step # 0
     /\ IF LessEq(at, ws.end)
        THEN /\ ws' = [ws EXCEPT !.points = points, !.at = at, !.pos = NextPos(h, @, at)]
             /\ UNCHANGED <<userData, waiting>>
        ELSE Answer(ws.client, [key |-> ws.key, had |-> ws.had, points |-> points])
     /\ UNCHANGED <<clock, historyMap, sessions, queries, terminated>>

\* More points than milliseconds: the loop goes on until the memory is used up.
Endless ==
  /\ ws # Ready
  /\ ws.step = 0
  /\ terminated' = TRUE
  /\ UNCHANGED <<clock, graphVars>>

WebSocket ==
  \/ Point \/ Endless
  \/ \E c \in Clients : Writeable(c)

Pages(clients, inserting) ==
  \E c \in clients :
    Established(c) \/ Closed(c) \/ \E q \in Queries : GetGraph(c, q, inserting)

-----------------------------------------------------------------------------
(***************************************************************************)
(* Properties                                                              *)
(***************************************************************************)
(***************************************************************************)
(* A point of a graph shows a value the signal had at that time: the one   *)
(* of a sample that is not later (or of the first sample), and no sample   *)
(* between the two is left out, except one that was added while the graph  *)
(* was being made.  The clock was read before, samples carry a time from   *)
(* before they are added, the position moves with the time while the       *)
(* vector grows, and a sum of time stamps need not be normalised, which is *)
(* why a sample at the very time of the point may or may not be shown.     *)
(***************************************************************************)
PointsShowHistory ==
  \A c \in Clients :
    LET g == userData[c].graph
    IN g # Empty =>
         LET s == historyMap[g.key].samples
         IN \A k \in DOMAIN g.points :
              LET t == Micros(g.points[k].x) + StartUp
              IN \E i \in DOMAIN s :
                   /\ s[i].value = g.points[k].value
                   /\ i = 1 \/ Micros(s[i].time) <= t
                   /\ \A j \in i + 1 .. g.had : Micros(s[j].time) >= t

\* The graph for c is being made or waits to be sent.
InHand(c) == userData[c].toSend \/ (ws # Ready /\ ws.client = c)

(***************************************************************************)
(* A graph that was asked for reaches the page, unless the page closes or  *)
(* asks for more points than the period has milliseconds: the loop ends    *)
(* although the time it counts with is cut and carried by hand, and the    *)
(* call back that all sessions share finds the one that has to send.       *)
(***************************************************************************)
GraphArrives ==
  \A c \in Clients : InHand(c) ~> (~InHand(c) \/ terminated)
=============================================================================

------------------------- MODULE GuiReceiver_proofs -------------------------
(***************************************************************************)
(* Proofs for the receiving half of the GUI backend: what onRcv suppresses *)
(* as unchanged is what the page shows or is about to be sent, as long as  *)
(* no message of packets has its identifier.                               *)
(***************************************************************************)
EXTENDS GuiReceiver, WellFoundedInduction, TLAPS

Fields == {"frame", "raw"}
Shows == Data \cup Values \cup {None}
Cells == [frame : Shows, raw : Shows]
Maps == [Keys -> Cells]
Commands == {"open", "check", "reset", "raw", "hide"}

-----------------------------------------------------------------------------
(***************************************************************************)
(* The last answer that says something                                     *)
(***************************************************************************)
\* A set of natural numbers has a least element,
LEMMA Least ==
  ASSUME NEW S \in SUBSET Nat, S # {}
  PROVE  \E n \in S : \A m \in S : n <= m
<1> DEFINE R == OpToRel(<, Nat)
<1>1. IsWellFoundedOn(R, Nat)
  BY NatLessThanWellFounded
<1>2. PICK x \in S : \A y \in S : ~(<<y, x>> \in R)
  <2> HIDE DEF R
  <2> QED
    BY <1>1, WFMin
<1>3. \A y \in S : y < x => <<y, x>> \in R
  BY DEF OpToRel
<1>4. \A y \in S : ~(y < x)
  <2> HIDE DEF R
  <2> QED
    BY <1>2, <1>3
<1> QED
  BY <1>4

\* and one of positions a greatest.
LEMMA Greatest ==
  ASSUME NEW n \in Nat, NEW S \in SUBSET (1 .. n), S # {}
  PROVE  \E i \in S : \A j \in S : j <= i
<1> DEFINE D == {n - i : i \in S}
<1>1. D \in SUBSET Nat
  <2>1. \A i \in S : n - i \in Nat
    OBVIOUS
  <2> QED
    BY <2>1, Zenon
<1>2. D # {}
  BY Zenon
<1>3. PICK d \in D : \A e \in D : d <= e
  BY <1>1, <1>2, Least
<1>4. PICK i \in S : d = n - i
  OBVIOUS
<1>5. \A j \in S : d <= n - j
  BY <1>3
<1> QED
  BY <1>4, <1>5

\* Last, of any sequence of answers.
LastOf(js, k, field) ==
  LET said == {i \in 1 .. Len(js) : js[i][k][field] # None}
  IN IF said = {} THEN None
     ELSE js[CHOOSE i \in said : \A j \in said : j <= i][k][field]

LEMMA LastIs ==
  ASSUME NEW js \in Seq(Maps), NEW k, NEW fd
  PROVE  \/ /\ LastOf(js, k, fd) = None
            /\ \A i \in 1 .. Len(js) : js[i][k][fd] = None
         \/ \E i \in 1 .. Len(js) :
              /\ js[i][k][fd] # None
              /\ LastOf(js, k, fd) = js[i][k][fd]
              /\ \A j \in 1 .. Len(js) : j > i => js[j][k][fd] = None
<1> DEFINE said == {i \in 1 .. Len(js) : js[i][k][fd] # None}
           last == CHOOSE i \in said : \A j \in said : j <= i
<1>1. Len(js) \in Nat
  OBVIOUS
<1>2. CASE said = {}
  <2>1. LastOf(js, k, fd) = None
    BY <1>2 DEF LastOf
  <2> QED
    BY <1>2, <2>1
<1>3. CASE said # {}
  <2>1. LastOf(js, k, fd) = js[last][k][fd]
    BY <1>3 DEF LastOf
  <2>2. \E i \in said : \A j \in said : j <= i
    <3>1. said \in SUBSET (1 .. Len(js))
      OBVIOUS
    <3> HIDE DEF said
    <3> QED
      BY <1>1, <1>3, <3>1, Greatest
  <2>3. last \in said /\ \A j \in said : j <= last
    <3> HIDE DEF said
    <3> QED
      BY <2>2
  <2>4. PICK l : l = last
    OBVIOUS
  <2>5. l \in said /\ (\A j \in said : j <= l) /\ LastOf(js, k, fd) = js[l][k][fd]
    BY <2>1, <2>3, <2>4
  <2> HIDE DEF last
  <2>6. \A j \in 1 .. Len(js) : j > l => js[j][k][fd] = None
    BY <1>1, <2>5
  <2> QED
    BY <2>5, <2>6
<1> QED
  BY <1>2, <1>3

\* There is only one such answer.
LEMMA LastUnique ==
  ASSUME NEW js \in Seq(Maps), NEW k, NEW fd, NEW i \in 1 .. Len(js),
         js[i][k][fd] # None,
         \A j \in 1 .. Len(js) : j > i => js[j][k][fd] = None
  PROVE  LastOf(js, k, fd) = js[i][k][fd]
<1>1. LastOf(js, k, fd) # None \/ js[i][k][fd] = None
  BY LastIs
<1>2. PICK n \in 1 .. Len(js) : /\ js[n][k][fd] # None
                                /\ LastOf(js, k, fd) = js[n][k][fd]
                                /\ \A j \in 1 .. Len(js) : j > n => js[j][k][fd] = None
  BY <1>1, LastIs
<1>3. n = i
  BY <1>2
<1> QED
  BY <1>2, <1>3

\* An answer is put at the end,
LEMMA LastAppend ==
  ASSUME NEW js \in Seq(Maps), NEW m \in Maps, NEW k, NEW fd
  PROVE  LastOf(Append(js, m), k, fd) =
           IF m[k][fd] # None THEN m[k][fd] ELSE LastOf(js, k, fd)
<1> DEFINE n == Len(js)
           a == Append(js, m)
<1>1. /\ n \in Nat /\ a \in Seq(Maps) /\ Len(a) = n + 1 /\ a[n + 1] = m
      /\ \A i \in 1 .. n : a[i] = js[i]
  OBVIOUS
<1> HIDE DEF a
<1>2. CASE m[k][fd] # None
  <2>1. n + 1 \in 1 .. Len(a) /\ \A j \in 1 .. Len(a) : ~(j > n + 1)
    BY <1>1
  <2>2. a[n + 1][k][fd] # None
    BY <1>1, <1>2
  <2>3. LastOf(a, k, fd) = a[n + 1][k][fd]
    BY <1>1, <2>1, <2>2, LastUnique
  <2> QED
    BY <1>1, <1>2, <2>3 DEF a
<1>3. CASE m[k][fd] = None
  <2>1. CASE \A i \in 1 .. n : js[i][k][fd] = None
    <3>1. LastOf(js, k, fd) = None
      BY <2>1, LastIs
    <3>2. \A i \in 1 .. Len(a) : a[i][k][fd] = None
      BY <1>1, <1>3, <2>1
    <3>3. LastOf(a, k, fd) = None
      BY <1>1, <3>2, LastIs
    <3> QED
      BY <1>3, <3>1, <3>3 DEF a
  <2>2. CASE ~\A i \in 1 .. n : js[i][k][fd] = None
    <3>1. PICK i \in 1 .. n : /\ js[i][k][fd] # None
                              /\ LastOf(js, k, fd) = js[i][k][fd]
                              /\ \A j \in 1 .. n : j > i => js[j][k][fd] = None
      BY <2>2, LastIs
    <3>2. i \in 1 .. Len(a) /\ a[i][k][fd] = js[i][k][fd]
      BY <1>1, <3>1
    <3>3. \A j \in 1 .. Len(a) : j > i => a[j][k][fd] = None
      BY <1>1, <1>3, <3>1
    <3>4. LastOf(a, k, fd) = a[i][k][fd]
      BY <1>1, <3>1, <3>2, <3>3, LastUnique
    <3> QED
      BY <1>3, <3>1, <3>2, <3>4 DEF a
  <2> QED
    BY <2>1, <2>2
<1> QED
  BY <1>2, <1>3

\* and taken from the beginning.
LEMMA LastTail ==
  ASSUME NEW js \in Seq(Maps), js # <<>>, NEW k, NEW fd
  PROVE  LastOf(js, k, fd) =
           IF LastOf(Tail(js), k, fd) # None THEN LastOf(Tail(js), k, fd)
           ELSE Head(js)[k][fd]
<1> DEFINE n == Len(js)
           t == Tail(js)
<1>1. /\ n \in Nat \ {0} /\ t \in Seq(Maps) /\ Len(t) = n - 1 /\ Head(js) = js[1]
      /\ \A i \in 1 .. n - 1 : t[i] = js[i + 1]
  OBVIOUS
<1> HIDE DEF t
<1>2. CASE \A i \in 1 .. Len(t) : t[i][k][fd] = None
  <2>1. LastOf(t, k, fd) = None
    BY <1>1, <1>2, LastIs
  <2>2. \A j \in 1 .. n : j > 1 => js[j][k][fd] = None
    <3> SUFFICES ASSUME NEW j \in 1 .. n, j > 1 PROVE js[j][k][fd] = None
      OBVIOUS
    <3>1. j - 1 \in 1 .. n - 1 /\ (j - 1) + 1 = j
      BY <1>1
    <3>2. t[j - 1] = js[j] /\ j - 1 \in 1 .. Len(t)
      BY <1>1, <3>1
    <3> QED
      BY <1>2, <3>2
  <2>3. CASE js[1][k][fd] = None
    <3>1. \A j \in 1 .. n : js[j][k][fd] = None
      BY <1>1, <2>2, <2>3
    <3>2. LastOf(js, k, fd) = None
      BY <3>1, LastIs
    <3> QED
      BY <1>1, <2>1, <2>3, <3>2 DEF t
  <2>4. CASE js[1][k][fd] # None
    <3>1. LastOf(js, k, fd) = js[1][k][fd]
      BY <1>1, <2>2, <2>4, LastUnique
    <3> QED
      BY <1>1, <2>1, <3>1 DEF t
  <2> QED
    BY <2>3, <2>4
<1>3. CASE ~\A i \in 1 .. Len(t) : t[i][k][fd] = None
  <2>1. PICK i \in 1 .. Len(t) : /\ t[i][k][fd] # None
                                 /\ LastOf(t, k, fd) = t[i][k][fd]
                                 /\ \A j \in 1 .. Len(t) : j > i => t[j][k][fd] = None
    <3>1. t \in Seq(Maps)
      BY <1>1
    <3> QED
      BY <1>3, <3>1, LastIs
  <2>2. i + 1 \in 1 .. n /\ js[i + 1] = t[i]
    BY <1>1
  <2>3. \A j \in 1 .. n : j > i + 1 => js[j][k][fd] = None
    <3> SUFFICES ASSUME NEW j \in 1 .. n, j > i + 1 PROVE js[j][k][fd] = None
      OBVIOUS
    <3>1. j - 1 \in 1 .. n - 1 /\ (j - 1) + 1 = j /\ j - 1 > i
      BY <1>1
    <3>2. t[j - 1] = js[j] /\ j - 1 \in 1 .. Len(t)
      BY <1>1, <3>1
    <3> QED
      BY <2>1, <3>1, <3>2
  <2>4. LastOf(js, k, fd) = js[i + 1][k][fd]
    BY <2>1, <2>2, <2>3, LastUnique
  <2> QED
    BY <2>1, <2>2, <2>4 DEF t
<1> QED
  BY <1>2, <1>3

-----------------------------------------------------------------------------
(***************************************************************************)
(* Types                                                                   *)
(***************************************************************************)
\* Nothing but frames waits at a receiver, and what select() found is still there.
SnifferTypes ==
  /\ buffer \in [Receivers -> Seq(Frames)]
  /\ thread \in {"off", "select", "notify", "callback", "check"}
  /\ next \in Nat \ {0}
  /\ thread = "callback" => next <= Len(mReceivers) /\ frame \in Frames
  /\ thread \in {"notify", "callback"} =>
       \A j \in 1 .. Len(mReceivers) :
         (j > next \/ (j = next /\ thread = "notify")) /\ mReceivers[j] \in rdfs
           => buffer[mReceivers[j]] # <<>>

GuiTypes ==
  /\ rcv \in {"decode", "show"}
  /\ rcv = "show" => found.id \in Keys /\ found.value \in Data \cup Values
  /\ rxFrames \in Maps
  /\ rcvFramesCache \in [CanIds -> Data \cup {None}]
  /\ rxThread \in BOOLEAN
  /\ ws \in {"ready", "join"}
  /\ requests \in Seq(Commands)
  /\ jsonResponses \in Seq(Maps)
  /\ view \in [Clients -> Maps]

\* Before the first session there is no thread and nothing was received.
NotStarted ==
  ~rxThread => thread = "off" /\ ws = "ready" /\ rcvFramesCache = [i \in CanIds |-> None]

Types == SnifferTypes /\ GuiTypes /\ NotStarted

LEMMA NoChangeType == NoChange \in Maps /\ \A k \in Keys, fd \in Fields : NoChange[k][fd] = None
BY DEF NoChange, Nothing, Maps, Cells, Shows, Fields

LEMMA FrameParts ==
  ASSUME NEW f \in Frames
  PROVE  f.id \in CanIds /\ f.id \in Keys /\ f.data \in Data /\ f.data # None
BY GuiAssumption DEF CanIds, Keys, Data

LEMMA TypesInitial == Init => Types
<1> SUFFICES ASSUME Init PROVE Types
  OBVIOUS
<1>1. SnifferTypes
  BY DEF Init, SnifferInit, SnifferTypes
<1>2. GuiTypes
  <2>1. rcvFramesCache \in [CanIds -> Data \cup {None}]
    BY DEF Init
  <2>2. view \in [Clients -> Maps] /\ rxFrames \in Maps
    BY NoChangeType DEF Init
  <2>3. rcv = "decode" /\ rxThread = FALSE /\ ws = "ready" /\ requests = <<>> /\ jsonResponses = <<>>
    BY DEF Init
  <2>4. requests \in Seq(Commands) /\ jsonResponses \in Seq(Maps)
    BY <2>3
  <2> QED
    BY <2>1, <2>2, <2>3, <2>4 DEF GuiTypes
<1>3. NotStarted
  BY DEF Init, SnifferInit, NotStarted
<1> QED
  BY <1>1, <1>2, <1>3 DEF Types

\* The receivers are all there and different.
LEMMA ReceiverFacts ==
  /\ Len(mReceivers) \in Nat \ {0}
  /\ \A i \in 1 .. Len(mReceivers) : mReceivers[i] \in Receivers
  /\ \A i, j \in 1 .. Len(mReceivers) : mReceivers[i] = mReceivers[j] => i = j
<1>1. /\ mReceivers \in Seq(Receivers) /\ Len(mReceivers) > 0
      /\ \A i, j \in 1 .. Len(mReceivers) : mReceivers[i] = mReceivers[j] => i = j
  BY SnifferAssumption
<1>2. Len(mReceivers) \in Nat \ {0}
  BY <1>1
<1>3. \A i \in 1 .. Len(mReceivers) : mReceivers[i] \in Receivers
  BY DEF Receivers
<1> QED
  BY <1>1, <1>2, <1>3

LEMMA ArriveTypes ==
  ASSUME SnifferTypes, NEW r \in Receivers, NEW f \in Frames, Arrive(r, f)
  PROVE  SnifferTypes'
<1>1. /\ thread' = thread /\ next' = next /\ frame' = frame /\ rdfs' = rdfs
      /\ buffer' = buffer \/ buffer' = [buffer EXCEPT ![r] = Append(@, f)]
  BY DEF Arrive
<1>2. buffer' \in [Receivers -> Seq(Frames)]
  BY <1>1 DEF SnifferTypes
<1>3. \A q \in Receivers : buffer[q] # <<>> => buffer'[q] # <<>>
  BY <1>1 DEF SnifferTypes
<1> QED
  BY <1>1, <1>2, <1>3, ReceiverFacts DEF SnifferTypes

\* notify() reads one frame of a receiver that is ready.
LEMMA NotifyTypes ==
  ASSUME SnifferTypes, notify
  PROVE  SnifferTypes'
<1> DEFINE r == mReceivers[next]
           n == Len(mReceivers)
<1>1. thread = "notify" /\ next \in 1 .. n /\ r \in Receivers /\ rdfs' = rdfs
  BY ReceiverFacts DEF notify, SnifferTypes
<1>2. buffer \in [Receivers -> Seq(Frames)] /\ next \in Nat \ {0}
  BY DEF SnifferTypes
<1>3. \A j \in 1 .. n : j >= next /\ mReceivers[j] \in rdfs => buffer[mReceivers[j]] # <<>>
  BY <1>1, ReceiverFacts DEF SnifferTypes
<1>4. CASE r \notin rdfs
  <2>1. buffer' = buffer /\ next' = next + 1 /\ thread' = thread /\ frame' = frame
    BY <1>4 DEF notify
  <2> QED
    BY <1>1, <1>2, <1>3, <2>1, ReceiverFacts DEF SnifferTypes
<1>5. CASE r \in rdfs
  <2> DEFINE h == Head(buffer[r])
  <2>1. buffer[r] # <<>> /\ buffer[r] \in Seq(Frames)
    BY <1>1, <1>2, <1>3, <1>5, ReceiverFacts
  <2>2. h \in Frames /\ Tail(buffer[r]) \in Seq(Frames)
    BY <2>1
  <2>3. buffer' = [buffer EXCEPT ![r] = Tail(@)]
    BY <1>5 DEF notify
  <2>4. /\ buffer' \in [Receivers -> Seq(Frames)]
        /\ \A j \in 1 .. n : j > next => buffer'[mReceivers[j]] = buffer[mReceivers[j]]
    <3>1. \A j \in 1 .. n : j > next => mReceivers[j] # r
      BY <1>1, <1>2, ReceiverFacts
    <3>2. \A q \in Receivers : q # r => buffer'[q] = buffer[q]
      BY <1>1, <1>2, <2>3
    <3>3. buffer' \in [Receivers -> Seq(Frames)]
      BY <1>1, <1>2, <2>2, <2>3
    <3> QED
      BY <3>1, <3>2, <3>3, ReceiverFacts
  <2>5. Handed(r) \in SUBSET {h}
    BY <2>2, SnifferAssumption DEF Handed
  <2>6. \/ next' = next + 1 /\ thread' = thread /\ frame' = frame
        \/ frame' \in Handed(r) /\ thread' = "callback" /\ next' = next
    BY <1>5 DEF notify
  <2> HIDE DEF h, r
  <2>7. CASE next' = next + 1 /\ thread' = thread /\ frame' = frame
    BY <1>1, <1>2, <1>3, <2>4, <2>7, ReceiverFacts DEF SnifferTypes
  <2>8. CASE frame' \in Handed(r) /\ thread' = "callback" /\ next' = next
    <3>1. frame' \in Frames
      BY <2>2, <2>5, <2>8
    <3> QED
      BY <1>1, <1>2, <1>3, <2>4, <2>8, <3>1, ReceiverFacts DEF SnifferTypes
  <2> QED
    BY <2>6, <2>7, <2>8
<1> QED
  BY <1>4, <1>5

LEMMA SnifferStepTypes ==
  ASSUME SnifferTypes, Sniffer
  PROVE  SnifferTypes'
<1>1. CASE wait_fd
  BY <1>1, ReceiverFacts DEF wait_fd, SnifferTypes
<1>2. CASE WaitTimeout
  BY <1>2 DEF WaitTimeout, SnifferTypes
<1>3. CASE NotifyEnds
  BY <1>3 DEF NotifyEnds, SnifferTypes
<1>4. CASE Check
  BY <1>4 DEF Check, SnifferTypes
<1> QED
  BY <1>1, <1>2, <1>3, <1>4, NotifyTypes DEF Sniffer

LEMMA SnifferSame ==
  ASSUME SnifferTypes, UNCHANGED snifferVars
  PROVE  SnifferTypes'
BY DEF SnifferTypes, snifferVars

LEMMA ReturnTypes ==
  ASSUME SnifferTypes, thread = "callback", Return
  PROVE  SnifferTypes' /\ rcv' = "decode"
<1>1. /\ thread' = "notify" /\ next' = next + 1 /\ buffer' = buffer /\ rdfs' = rdfs
      /\ rcv' = "decode"
  BY DEF Return, CallbackReturns
<1>2. \A j \in 1 .. Len(mReceivers) : j >= next' /\ mReceivers[j] \in rdfs' =>
        buffer'[mReceivers[j]] # <<>>
  BY <1>1, ReceiverFacts DEF SnifferTypes
<1> QED
  BY <1>1, <1>2, ReceiverFacts DEF SnifferTypes

LEMMA StartTypes ==
  ASSUME SnifferTypes, StartThread
  PROVE  SnifferTypes'
BY DEF SnifferTypes, StartThread

-----------------------------------------------------------------------------
(***************************************************************************)
(* What a page shows in the end                                            *)
(***************************************************************************)
\* Newest without what onRcv is about to show.
Coming(c, k, fd) ==
  IF rxFrames[k][fd] # None THEN rxFrames[k][fd]
  ELSE IF Last(k, fd) # None THEN Last(k, fd)
  ELSE view[c][k][fd]

\* onRcv is about to show a frame with identifier i.
Showing(i) == rcv = "show" /\ found.id = i

LEMMA LastSame == \A k, fd : Last(k, fd) = LastOf(jsonResponses, k, fd)
BY DEF Last, LastOf

LEMMA NewestIs ==
  ASSUME NEW c, NEW k, NEW fd
  PROVE  Newest(c, k, fd) = IF fd = "frame" /\ rcv = "show" /\ found.id = k THEN found.value
                            ELSE Coming(c, k, fd)
BY DEF Newest, Coming

\* A step that changes nothing of what a page will show in the end and forgets no reset.
LEMMA Carried ==
  ASSUME UnchangedIsShown,
         rcvFramesCache' = rcvFramesCache,
         \A i \in CanIds : /\ Showing(i)' <=> Showing(i)
                           /\ Showing(i) => found'.value = found.value,
         \A c \in Clients, i \in CanIds, fd \in Fields :
           Coming(c, i, fd)' = Coming(c, i, fd)
             \/ Pending({"open"})' \/ (fd = "frame" /\ Pending({"open", "reset"})'),
         Pending({"open"}) => Pending({"open"})',
         Pending({"open", "reset"}) => Pending({"open", "reset"})'
  PROVE  UnchangedIsShown'
<1> SUFFICES ASSUME NEW c \in Clients, NEW i \in CanIds, NEW d,
                    d = rcvFramesCache[i], d # None
             PROVE  /\ Decode[<<i, d>>] = "frame" =>
                         \/ Pending({"open", "reset"})' \/ Newest(c, i, "frame")' = d
                         \/ Overtaken(c, i)'
                    /\ Decode[<<i, d>>] # "frame" =>
                         Pending({"open"})' \/ Newest(c, i, "raw")' = d
  BY DEF UnchangedIsShown
<1>1. /\ Decode[<<i, d>>] = "frame" =>
           Pending({"open", "reset"}) \/ Newest(c, i, "frame") = d \/ Overtaken(c, i)
      /\ Decode[<<i, d>>] # "frame" => Pending({"open"}) \/ Newest(c, i, "raw") = d
  BY DEF UnchangedIsShown
<1>2. Pending({"open"})' => Pending({"open", "reset"})'
  BY DEF Pending
<1>3. \/ Newest(c, i, "frame")' = Newest(c, i, "frame")
      \/ Pending({"open", "reset"})'
  <2>1. Coming(c, i, "frame")' = Coming(c, i, "frame") \/ Pending({"open", "reset"})'
    BY <1>2 DEF Fields
  <2>2. Newest(c, i, "frame")' = IF Showing(i)' THEN found'.value ELSE Coming(c, i, "frame")'
    BY DEF Newest, Coming, Showing
  <2>3. Newest(c, i, "frame") = IF Showing(i) THEN found.value ELSE Coming(c, i, "frame")
    BY DEF Newest, Coming, Showing
  <2> QED
    BY <2>1, <2>2, <2>3
<1>4. Newest(c, i, "raw")' = Newest(c, i, "raw") \/ Pending({"open"})'
  <2>1. Coming(c, i, "raw")' = Coming(c, i, "raw") \/ Pending({"open"})'
    BY DEF Fields
  <2>2. Newest(c, i, "raw")' = Coming(c, i, "raw")'
    BY DEF Newest, Coming
  <2> QED
    BY <2>1, <2>2, NewestIs
<1>5. Overtaken(c, i) => Overtaken(c, i)' \/ Pending({"open", "reset"})'
  BY <1>3 DEF Overtaken
<1> QED
  BY <1>1, <1>3, <1>4, <1>5

\* The same in case nothing that is on its way moves.
LEMMA Untouched ==
  ASSUME UnchangedIsShown,
         rcvFramesCache' = rcvFramesCache, rxFrames' = rxFrames, ws' = ws,
         requests' = requests, jsonResponses' = jsonResponses, view' = view,
         \A i \in CanIds : /\ Showing(i)' <=> Showing(i)
                           /\ Showing(i) => found'.value = found.value
  PROVE  UnchangedIsShown'
<1>1. \A c \in Clients, i \in CanIds, fd \in Fields : Coming(c, i, fd)' = Coming(c, i, fd)
  BY DEF Coming, Last
<1>2. \A cmds : Pending(cmds)' = Pending(cmds)
  BY DEF Pending
<1> QED
  BY <1>1, <1>2, Carried

\* A new request forgets none that is there.
LEMMA PendingAppend ==
  ASSUME NEW q \in Commands, NEW cmds, requests \in Seq(Commands),
         requests' = Append(requests, q), ws' = ws
  PROVE  /\ requests' \in Seq(Commands)
         /\ Pending(cmds) => Pending(cmds)'
         /\ q \in cmds => Pending(cmds)'
<1>1. /\ requests' \in Seq(Commands) /\ Len(requests) \in Nat /\ Len(requests') = Len(requests) + 1
      /\ requests'[Len(requests) + 1] = q
      /\ \A i \in 1 .. Len(requests) : requests'[i] = requests[i]
  OBVIOUS
<1>2. Pending(cmds) => Pending(cmds)'
  BY <1>1 DEF Pending
<1>3. q \in cmds => Pending(cmds)'
  BY <1>1 DEF Pending
<1> QED
  BY <1>1, <1>2, <1>3

\* Only the first request is taken.
LEMMA PendingTail ==
  ASSUME NEW cmds, NEW all, requests \in Seq(Commands), Command(all), all \cap cmds = {},
         ws' = ws
  PROVE  /\ requests' \in Seq(Commands)
         /\ Pending(cmds) => Pending(cmds)'
<1>1. requests # <<>> /\ requests' = Tail(requests) /\ Head(requests) \notin cmds
  BY DEF Command
<1>2. /\ requests' \in Seq(Commands) /\ Len(requests) \in Nat /\ Len(requests') = Len(requests) - 1
      /\ Head(requests) = requests[1]
      /\ \A i \in 1 .. Len(requests) - 1 : requests'[i] = requests[i + 1]
  BY <1>1
<1>3. ASSUME NEW i \in 1 .. Len(requests), requests[i] \in cmds
      PROVE  \E j \in 1 .. Len(requests') : requests'[j] \in cmds
  <2>1. i # 1
    BY <1>1, <1>2, <1>3
  <2>2. i - 1 \in 1 .. Len(requests) - 1 /\ (i - 1) + 1 = i
    BY <1>2, <2>1
  <2>3. i - 1 \in 1 .. Len(requests') /\ requests'[i - 1] = requests[i]
    BY <1>2, <2>2
  <2> QED
    BY <1>3, <2>3
<1> QED
  BY <1>2, <1>3 DEF Pending

-----------------------------------------------------------------------------
(***************************************************************************)
(* The sniffer thread                                                      *)
(***************************************************************************)
\* The bus, and sniff() outside of onRcv.
LEMMA BusStep ==
  ASSUME Types, UnchangedIsShown, Bus \/ (Sniffer /\ UNCHANGED guiVars) \/ UNCHANGED vars
  PROVE  Types' /\ UnchangedIsShown'
<1>1. SnifferTypes'
  BY ArriveTypes, SnifferStepTypes, SnifferSame DEF Types, Bus, vars
<1>2. /\ rcv' = rcv /\ found' = found /\ rxFrames' = rxFrames /\ ws' = ws
      /\ rcvFramesCache' = rcvFramesCache /\ rxThread' = rxThread
      /\ requests' = requests /\ jsonResponses' = jsonResponses /\ view' = view
  BY DEF Bus, vars, guiVars
<1>3. thread = "off" => thread' = "off"
  BY DEF Bus, Arrive, Sniffer, wait_fd, WaitTimeout, notify, NotifyEnds, Check, vars, snifferVars
<1>4. GuiTypes' /\ NotStarted'
  BY <1>2, <1>3 DEF Types, GuiTypes, NotStarted
<1>5. UnchangedIsShown'
  BY <1>2, Untouched DEF Showing
<1> QED
  BY <1>1, <1>4, <1>5 DEF Types

\* Setting one field of one entry.
LEMMA SetFrame ==
  ASSUME rxFrames \in Maps, NEW k \in Keys, NEW v \in Data \cup Values,
         rxFrames' = [rxFrames EXCEPT ![k].frame = v]
  PROVE  /\ rxFrames' \in Maps /\ rxFrames'[k].frame = v
         /\ \A i \in Keys : rxFrames'[i].raw = rxFrames[i].raw
         /\ \A i \in Keys \ {k} : rxFrames'[i] = rxFrames[i]
<1>1. PICK e \in Cells : e = rxFrames[k]
  BY DEF Maps
<1>2. PICK g : g = [e EXCEPT !.frame = v]
  OBVIOUS
<1>3. g \in Cells /\ g.frame = v /\ g.raw = e.raw
  BY <1>2 DEF Cells, Shows
<1>4. rxFrames' = [rxFrames EXCEPT ![k] = g]
  BY <1>1, <1>2
<1> QED
  BY <1>1, <1>3, <1>4 DEF Maps

LEMMA SetRaw ==
  ASSUME rxFrames \in Maps, NEW k \in Keys, NEW v \in Data \cup Values,
         rxFrames' = [rxFrames EXCEPT ![k].raw = v]
  PROVE  /\ rxFrames' \in Maps /\ rxFrames'[k].raw = v
         /\ \A i \in Keys : rxFrames'[i].frame = rxFrames[i].frame
         /\ \A i \in Keys \ {k} : rxFrames'[i] = rxFrames[i]
<1>1. PICK e \in Cells : e = rxFrames[k]
  BY DEF Maps
<1>2. PICK g : g = [e EXCEPT !.raw = v]
  OBVIOUS
<1>3. g \in Cells /\ g.raw = v /\ g.frame = e.frame
  BY <1>2 DEF Cells, Shows
<1>4. rxFrames' = [rxFrames EXCEPT ![k] = g]
  BY <1>1, <1>2
<1> QED
  BY <1>1, <1>3, <1>4 DEF Maps

\* onRcv leaves the websocket thread's variables alone.
LEMMA RcvUnchanged ==
  ASSUME Types, UnchangedIsShown, onRcv, OnRcvUnchanged \/ OnRcvThrows \/ (OnRcvTransport /\ Return)
  PROVE  Types' /\ UnchangedIsShown'
<1>1. /\ rxFrames' = rxFrames /\ ws' = ws
      /\ rcvFramesCache' = rcvFramesCache /\ rxThread' = rxThread
      /\ requests' = requests /\ jsonResponses' = jsonResponses /\ view' = view
      /\ thread = "callback" /\ rcv = "decode" /\ rcv' = "decode"
  BY DEF onRcv, OnRcvUnchanged, OnRcvThrows, OnRcvTransport, Changed, Return
<1>2. SnifferTypes'
  BY <1>1, ReturnTypes, SnifferSame DEF Types, OnRcvUnchanged, OnRcvThrows
<1>3. GuiTypes' /\ NotStarted'
  BY <1>1 DEF Types, GuiTypes, NotStarted
<1>4. UnchangedIsShown'
  BY <1>1, Untouched DEF Showing
<1> QED
  BY <1>2, <1>3, <1>4 DEF Types

\* UnchangedIsShown for one page and one identifier.
Good(c, i) ==
  LET d == rcvFramesCache[i]
  IN d # None =>
       IF Decode[<<i, d>>] = "frame"
       THEN Pending({"open", "reset"}) \/ Newest(c, i, "frame") = d \/ Overtaken(c, i)
       ELSE Pending({"open"}) \/ Newest(c, i, "raw") = d

LEMMA AllGood == UnchangedIsShown <=> \A c \in Clients, i \in CanIds : Good(c, i)
BY DEF UnchangedIsShown, Good

LEMMA GoodSame ==
  ASSUME NEW c, NEW i, Good(c, i), rcvFramesCache'[i] = rcvFramesCache[i],
         Newest(c, i, "frame")' = Newest(c, i, "frame"),
         Newest(c, i, "raw")' = Newest(c, i, "raw"),
         ws' = ws, requests' = requests
  PROVE  Good(c, i)'
<1>1. \A cmds : Pending(cmds)' = Pending(cmds)
  BY DEF Pending
<1>2. Overtaken(c, i)' <=> Overtaken(c, i)
  BY DEF Overtaken
<1> QED
  BY <1>1, <1>2 DEF Good

\* What a page will show for i depends on the entries of i.
LEMMA ComingSame ==
  ASSUME NEW c, NEW i, NEW fd, rxFrames'[i][fd] = rxFrames[i][fd],
         jsonResponses' = jsonResponses, view' = view
  PROVE  Coming(c, i, fd)' = Coming(c, i, fd)
BY DEF Coming, Last

LEMMA NewestPrimed ==
  ASSUME NEW c, NEW i
  PROVE  /\ Newest(c, i, "frame") = IF Showing(i) THEN found.value ELSE Coming(c, i, "frame")
         /\ Newest(c, i, "raw") = Coming(c, i, "raw")
         /\ Newest(c, i, "frame")' = IF Showing(i)' THEN found'.value ELSE Coming(c, i, "frame")'
         /\ Newest(c, i, "raw")' = Coming(c, i, "raw")'
BY DEF Newest, Coming, Showing

\* A message takes the place of a frame with its identifier, and of no other.
LEMMA RcvMessage ==
  ASSUME Types, UnchangedIsShown, onRcv, OnRcvTransport, ~Return
  PROVE  Types' /\ UnchangedIsShown'
<1>1. /\ rxFrames' = rxFrames /\ ws' = ws
      /\ rcvFramesCache' = rcvFramesCache /\ rxThread' = rxThread
      /\ requests' = requests /\ jsonResponses' = jsonResponses /\ view' = view
      /\ thread = "callback" /\ rcv = "decode" /\ rcv' = "show" /\ UNCHANGED snifferVars
  BY DEF onRcv, OnRcvTransport, Changed
<1>2. PICK m \in Messages, v \in Values : found' = [id |-> m, value |-> v]
  BY DEF OnRcvTransport
<1>3. SnifferTypes'
  BY <1>1, SnifferSame DEF Types
<1>4. found'.id = m /\ found'.value = v /\ m \in Keys
  BY <1>2 DEF Keys
<1>5. GuiTypes' /\ NotStarted'
  BY <1>1, <1>4 DEF Types, GuiTypes, NotStarted
<1>6. ASSUME NEW c \in Clients, NEW i \in CanIds PROVE Good(c, i)'
  <2>1. /\ Coming(c, i, "frame")' = Coming(c, i, "frame")
        /\ Coming(c, i, "raw")' = Coming(c, i, "raw")
    BY <1>1, ComingSame
  <2>2. Good(c, i) /\ ~Showing(i)
    BY <1>1, AllGood DEF Showing
  <2>3. CASE i = m
    <3>1. Newest(c, i, "frame")' = v
      BY <1>1, <1>4, <2>3, NewestPrimed DEF Showing
    <3>2. Overtaken(c, i)'
      BY <1>2, <2>3, <3>1 DEF Overtaken
    <3>3. Newest(c, i, "raw")' = Newest(c, i, "raw")
      BY <2>1, NewestPrimed
    <3>4. \A cmds : Pending(cmds)' = Pending(cmds)
      BY <1>1 DEF Pending
    <3> QED
      BY <1>1, <2>2, <3>2, <3>3, <3>4 DEF Good
  <2>4. CASE i # m
    <3>1. ~Showing(i)'
      BY <1>4, <2>4 DEF Showing
    <3> QED
      BY <1>1, <2>1, <2>2, <3>1, NewestPrimed, GoodSame
  <2> QED
    BY <2>3, <2>4
<1>7. UnchangedIsShown'
  BY <1>6 DEF UnchangedIsShown, Good
<1> QED
  BY <1>3, <1>5, <1>7 DEF Types

LEMMA RcvUnknown ==
  ASSUME Types, UnchangedIsShown, onRcv, OnRcvUnknown
  PROVE  Types' /\ UnchangedIsShown'
<1> DEFINE id == frame.id
           data == frame.data
<1>1. /\ ws' = ws /\ rxThread' = rxThread /\ requests' = requests
      /\ jsonResponses' = jsonResponses /\ view' = view
      /\ thread = "callback" /\ rcv = "decode" /\ rcv' = "decode" /\ Return
      /\ Decode[<<id, data>>] = "none"
  BY DEF onRcv, OnRcvUnknown, Changed, Return
<1>2. SnifferTypes'
  BY <1>1, ReturnTypes DEF Types
<1>3. id \in CanIds /\ id \in Keys /\ data \in Data /\ data # None
  BY <1>1, FrameParts DEF Types, SnifferTypes
<1>4. CASE ~showRaw
  <2>1. rxFrames' = rxFrames /\ rcvFramesCache' = rcvFramesCache
    BY <1>4 DEF OnRcvUnknown
  <2>2. GuiTypes' /\ NotStarted'
    BY <1>1, <2>1 DEF Types, GuiTypes, NotStarted
  <2>3. UnchangedIsShown'
    BY <1>1, <2>1, Untouched DEF Showing
  <2> QED
    BY <1>2, <2>2, <2>3 DEF Types
<1>5. CASE showRaw
  <2>1. /\ rxFrames' = [rxFrames EXCEPT ![id].raw = data]
        /\ rcvFramesCache' = [rcvFramesCache EXCEPT ![id] = data]
    BY <1>5 DEF OnRcvUnknown
  <2> HIDE DEF id, data
  <2>2. /\ rxFrames' \in Maps /\ rxFrames'[id].raw = data
        /\ \A i \in Keys \ {id} : rxFrames'[i] = rxFrames[i]
    BY <1>3, <2>1, SetRaw DEF Types, GuiTypes
  <2>3. /\ rcvFramesCache' \in [CanIds -> Data \cup {None}] /\ rcvFramesCache'[id] = data
        /\ \A i \in CanIds \ {id} : rcvFramesCache'[i] = rcvFramesCache[i]
    BY <1>3, <2>1 DEF Types, GuiTypes
  <2>4. GuiTypes'
    BY <1>1, <2>2, <2>3 DEF Types, GuiTypes
  <2>5. rxThread'
    BY <1>1 DEF Types, NotStarted
  <2>6. ASSUME NEW c \in Clients, NEW i \in CanIds PROVE Good(c, i)'
    <3>1. CASE i = id
      <4>1. Newest(c, i, "raw")' = rxFrames'[i].raw
        BY <1>3, <2>2, <3>1 DEF Newest
      <4> QED
        BY <1>1, <2>2, <2>3, <3>1, <4>1 DEF Good, id, data
    <3>2. CASE i # id
      <4>1. rxFrames'[i] = rxFrames[i] /\ rcvFramesCache'[i] = rcvFramesCache[i]
        BY <2>2, <2>3, <3>2 DEF Keys
      <4>2. /\ Coming(c, i, "frame")' = Coming(c, i, "frame")
            /\ Coming(c, i, "raw")' = Coming(c, i, "raw")
        BY <1>1, <4>1, ComingSame
      <4>3. ~Showing(i) /\ ~Showing(i)'
        BY <1>1 DEF Showing
      <4>4. Good(c, i)
        BY AllGood
      <4> QED
        BY <1>1, <4>1, <4>2, <4>3, <4>4, NewestPrimed, GoodSame
    <3> QED
      BY <3>1, <3>2
  <2>7. UnchangedIsShown'
    BY <2>6 DEF UnchangedIsShown, Good
  <2> QED
    BY <1>2, <2>4, <2>5, <2>7 DEF Types, NotStarted
<1> QED
  BY <1>4, <1>5

LEMMA RcvDecoded ==
  ASSUME Types, UnchangedIsShown, onRcv, OnRcvDecoded
  PROVE  Types' /\ UnchangedIsShown'
<1> DEFINE id == frame.id
           data == frame.data
<1>1. /\ ws' = ws /\ rxThread' = rxThread /\ requests' = requests
      /\ jsonResponses' = jsonResponses /\ view' = view /\ rxFrames' = rxFrames
      /\ thread = "callback" /\ rcv = "decode" /\ rcv' = "show" /\ UNCHANGED snifferVars
      /\ Decode[<<id, data>>] = "frame"
      /\ rcvFramesCache' = [rcvFramesCache EXCEPT ![id] = data]
      /\ found' = [id |-> id, value |-> data]
  BY DEF onRcv, OnRcvDecoded, Changed
<1>2. SnifferTypes'
  BY <1>1, SnifferSame DEF Types
<1>3. id \in CanIds /\ id \in Keys /\ data \in Data /\ data # None
  BY <1>1, FrameParts DEF Types, SnifferTypes
<1>4. found'.id = id /\ found'.value = data
  BY <1>1
<1> HIDE DEF id, data
<1>5. /\ rcvFramesCache' \in [CanIds -> Data \cup {None}] /\ rcvFramesCache'[id] = data
      /\ \A i \in CanIds \ {id} : rcvFramesCache'[i] = rcvFramesCache[i]
  BY <1>1, <1>3 DEF Types, GuiTypes
<1>6. GuiTypes'
  BY <1>1, <1>3, <1>4, <1>5 DEF Types, GuiTypes
<1>7. NotStarted'
  BY <1>1 DEF Types, NotStarted
<1>8. ASSUME NEW c \in Clients, NEW i \in CanIds PROVE Good(c, i)'
  <2>1. CASE i = id
    <3>1. Newest(c, i, "frame")' = data
      BY <1>1, <1>4, <2>1, NewestPrimed DEF Showing
    <3> QED
      BY <1>1, <1>5, <2>1, <3>1 DEF Good
  <2>2. CASE i # id
    <3>1. /\ Coming(c, i, "frame")' = Coming(c, i, "frame")
          /\ Coming(c, i, "raw")' = Coming(c, i, "raw")
      BY <1>1, ComingSame
    <3>2. ~Showing(i) /\ ~Showing(i)'
      BY <1>1, <1>4, <2>2 DEF Showing
    <3>3. Good(c, i) /\ rcvFramesCache'[i] = rcvFramesCache[i]
      BY <1>5, <2>2, AllGood
    <3> QED
      BY <1>1, <3>1, <3>2, <3>3, NewestPrimed, GoodSame
  <2> QED
    BY <2>1, <2>2
<1>9. UnchangedIsShown'
  BY <1>8 DEF UnchangedIsShown, Good
<1> QED
  BY <1>2, <1>6, <1>7, <1>9 DEF Types

LEMMA RcvShow ==
  ASSUME Types, UnchangedIsShown, onRcv, OnRcvShow
  PROVE  Types' /\ UnchangedIsShown'
<1>1. /\ ws' = ws /\ rxThread' = rxThread /\ requests' = requests
      /\ jsonResponses' = jsonResponses /\ view' = view
      /\ rcvFramesCache' = rcvFramesCache
      /\ thread = "callback" /\ rcv = "show" /\ rcv' = "decode" /\ Return
      /\ rxFrames' = [rxFrames EXCEPT ![found.id].frame = found.value]
  BY DEF onRcv, OnRcvShow, Return
<1>2. SnifferTypes'
  BY <1>1, ReturnTypes DEF Types
<1>3. found.id \in Keys /\ found.value \in Data \cup Values /\ found.value # None
  BY <1>1, GuiAssumption DEF Types, GuiTypes
<1>4. /\ rxFrames' \in Maps /\ rxFrames'[found.id].frame = found.value
      /\ \A i \in Keys : rxFrames'[i].raw = rxFrames[i].raw
      /\ \A i \in Keys \ {found.id} : rxFrames'[i] = rxFrames[i]
  BY <1>1, <1>3, SetFrame DEF Types, GuiTypes
<1>5. GuiTypes' /\ NotStarted'
  BY <1>1, <1>4 DEF Types, GuiTypes, NotStarted
<1>6. ASSUME NEW c \in Clients, NEW i \in CanIds PROVE Good(c, i)'
  <2>1. i \in Keys
    BY DEF Keys
  <2>2. Newest(c, i, "raw")' = Newest(c, i, "raw")
    <3>1. rxFrames'[i]["raw"] = rxFrames[i]["raw"]
      BY <1>4, <2>1
    <3>2. Coming(c, i, "raw")' = Coming(c, i, "raw")
      BY <1>1, <3>1, ComingSame
    <3> QED
      BY <3>2, NewestPrimed
  <2>3. Newest(c, i, "frame")' = Newest(c, i, "frame")
    <3>1. CASE i = found.id
      <4>1. Newest(c, i, "frame")' = rxFrames'[i].frame
        BY <1>1, <1>3, <1>4, <3>1 DEF Newest
      <4>2. Newest(c, i, "frame") = found.value
        BY <1>1, <3>1 DEF Newest
      <4> QED
        BY <1>4, <3>1, <4>1, <4>2
    <3>2. CASE i # found.id
      <4>1. Coming(c, i, "frame")' = Coming(c, i, "frame")
        BY <1>1, <1>4, <2>1, <3>2, ComingSame
      <4>2. ~Showing(i) /\ ~Showing(i)'
        BY <1>1, <3>2 DEF Showing
      <4> QED
        BY <4>1, <4>2, NewestPrimed
    <3> QED
      BY <3>1, <3>2
  <2>4. Good(c, i)
    BY AllGood
  <2> QED
    BY <1>1, <2>2, <2>3, <2>4, GoodSame
<1>7. UnchangedIsShown'
  BY <1>6 DEF UnchangedIsShown, Good
<1> QED
  BY <1>2, <1>5, <1>7 DEF Types

LEMMA RcvStep ==
  ASSUME Types, UnchangedIsShown, onRcv
  PROVE  Types' /\ UnchangedIsShown'
<1>1. \/ OnRcvUnchanged \/ OnRcvThrows \/ OnRcvUnknown \/ OnRcvTransport
      \/ OnRcvDecoded \/ OnRcvShow
  BY DEF onRcv
<1> QED
  BY <1>1, RcvUnchanged, RcvMessage, RcvUnknown, RcvDecoded, RcvShow

-----------------------------------------------------------------------------
(***************************************************************************)
(* The websocket thread and the page                                       *)
(***************************************************************************)
\* "check rx": what changed goes from rxFrames to the answers.
LEMMA CheckStep ==
  ASSUME Types, UnchangedIsShown, CheckRx, UNCHANGED <<rcv, found, terminated>>
  PROVE  Types' /\ UnchangedIsShown'
<1>1. /\ Command({"check"}) /\ rcv' = rcv /\ found' = found /\ ws' = ws /\ rxThread' = rxThread
      /\ jsonResponses' = Append(jsonResponses, rxFrames) /\ rxFrames' = NoChange
      /\ rcvFramesCache' = rcvFramesCache /\ view' = view /\ UNCHANGED snifferVars
      /\ thread' = thread
  BY DEF CheckRx, snifferVars
<1>2. rxFrames \in Maps /\ jsonResponses \in Seq(Maps) /\ requests \in Seq(Commands)
  BY DEF Types, GuiTypes
<1>3. SnifferTypes'
  BY <1>1, SnifferSame DEF Types
<1>4. /\ requests' \in Seq(Commands)
      /\ Pending({"open"}) => Pending({"open"})'
      /\ Pending({"open", "reset"}) => Pending({"open", "reset"})'
  BY <1>1, <1>2, PendingTail
<1>5. jsonResponses' \in Seq(Maps) /\ rxFrames' \in Maps
  BY <1>1, <1>2, NoChangeType
<1>6. GuiTypes'
  BY <1>1, <1>4, <1>5 DEF Types, GuiTypes
<1>7. NotStarted'
  BY <1>1 DEF Types, NotStarted
<1>8. ASSUME NEW c \in Clients, NEW i \in CanIds, NEW fd \in Fields
      PROVE  Coming(c, i, fd)' = Coming(c, i, fd)
  <2>1. rxFrames'[i][fd] = None
    BY <1>1, NoChangeType DEF Keys
  <2>2. Last(i, fd)' = LastOf(jsonResponses', i, fd) /\ Last(i, fd) = LastOf(jsonResponses, i, fd)
    BY DEF Last, LastOf
  <2>3. Last(i, fd)' = IF rxFrames[i][fd] # None THEN rxFrames[i][fd] ELSE Last(i, fd)
    BY <1>1, <1>2, <2>2, LastAppend
  <2> QED
    BY <1>1, <2>1, <2>3 DEF Coming
<1>9. UnchangedIsShown'
  BY <1>1, <1>4, <1>8, Carried DEF Showing
<1> QED
  BY <1>3, <1>6, <1>7, <1>9 DEF Types

\* "show raw" and the commands that reset.
LEMMA CommandStep ==
  ASSUME Types, UnchangedIsShown, ShowRaw \/ ResetReceiver \/ Join,
         UNCHANGED <<rcv, found, terminated>>
  PROVE  Types' /\ UnchangedIsShown'
<1>1. /\ rcv' = rcv /\ found' = found /\ rxFrames' = rxFrames
      /\ jsonResponses' = jsonResponses /\ view' = view
  BY DEF ShowRaw, ResetReceiver, Join
<1>2. requests \in Seq(Commands) /\ rxThread \in BOOLEAN
  BY DEF Types, GuiTypes
<1>3. \A c \in Clients, i \in CanIds, fd \in Fields : Coming(c, i, fd)' = Coming(c, i, fd)
  BY <1>1 DEF Coming, Last
<1>4. CASE ShowRaw
  <2>1. /\ Command({"raw", "hide"}) /\ UNCHANGED snifferVars /\ thread' = thread
        /\ rcvFramesCache' = rcvFramesCache /\ rxThread' = rxThread /\ ws' = ws
    BY <1>4 DEF ShowRaw, snifferVars
  <2>2. /\ requests' \in Seq(Commands)
        /\ Pending({"open"}) => Pending({"open"})'
        /\ Pending({"open", "reset"}) => Pending({"open", "reset"})'
    BY <1>2, <2>1, PendingTail
  <2>3. Types'
    BY <1>1, <2>1, <2>2, SnifferSame DEF Types, GuiTypes, NotStarted
  <2>4. UnchangedIsShown'
    BY <1>1, <1>3, <2>1, <2>2, Carried DEF Showing
  <2> QED
    BY <2>3, <2>4
<1>5. ASSUME ResetReceiver \/ Join, rcvFramesCache' = [i \in CanIds |-> None]
      PROVE  UnchangedIsShown'
  BY <1>5 DEF UnchangedIsShown
<1>6. CASE ResetReceiver
  <2>1. requests' = Tail(requests) /\ requests # <<>> /\ rcvFramesCache' = rcvFramesCache
    BY <1>6 DEF ResetReceiver, Command
  <2>2. requests' \in Seq(Commands)
    BY <1>2, <2>1
  <2>3. CASE rxThread
    <3>1. /\ ws' = "join" /\ thread' = thread /\ buffer' = buffer /\ rdfs' = rdfs
          /\ next' = next /\ frame' = frame /\ rxThread' = rxThread
      BY <1>6, <2>3 DEF ResetReceiver
    <3>2. SnifferTypes'
      BY <3>1 DEF Types, SnifferTypes
    <3>3. GuiTypes' /\ NotStarted'
      BY <1>1, <2>1, <2>2, <2>3, <3>1 DEF Types, GuiTypes, NotStarted
    <3>4. Pending({"open"})' /\ Pending({"open", "reset"})'
      BY <3>1 DEF Pending
    <3>5. UnchangedIsShown'
      BY <1>1, <1>3, <2>1, <3>4, Carried DEF Showing
    <3> QED
      BY <3>2, <3>3, <3>5 DEF Types
  <2>4. CASE ~rxThread
    <3>1. StartThread /\ rxThread' = TRUE /\ ws' = ws
      BY <1>6, <2>4 DEF ResetReceiver
    <3>2. rcvFramesCache' = [i \in CanIds |-> None]
      BY <2>1, <2>4 DEF Types, NotStarted
    <3>3. SnifferTypes'
      BY <3>1, StartTypes DEF Types
    <3>4. GuiTypes' /\ NotStarted'
      BY <1>1, <2>1, <2>2, <3>1 DEF Types, GuiTypes, NotStarted
    <3> QED
      BY <1>5, <1>6, <3>2, <3>3, <3>4 DEF Types
  <2> QED
    BY <2>3, <2>4
<1>7. CASE Join
  <2>1. /\ ws = "join" /\ StartThread /\ ws' = "ready" /\ rxThread' = rxThread
        /\ rcvFramesCache' = [i \in CanIds |-> None] /\ requests' = requests
    BY <1>7 DEF Join
  <2>2. SnifferTypes'
    BY <2>1, StartTypes DEF Types
  <2>3. rcvFramesCache' \in [CanIds -> Data \cup {None}]
    BY <2>1
  <2>4. GuiTypes' /\ NotStarted'
    BY <1>1, <2>1, <2>3 DEF Types, GuiTypes, NotStarted
  <2> QED
    BY <1>5, <1>7, <2>1, <2>2, <2>4 DEF Types
<1> QED
  BY <1>4, <1>6, <1>7

\* The only page takes the first answer.
LEMMA AnswerStep ==
  ASSUME NEW p, Clients = {p}, Types, UnchangedIsShown, Answer
  PROVE  Types' /\ UnchangedIsShown'
<1>1. /\ jsonResponses # <<>> /\ view' = [view EXCEPT ![p] = Merge(@, Head(jsonResponses))]
      /\ jsonResponses' = Tail(jsonResponses) /\ UNCHANGED snifferVars /\ thread' = thread
      /\ rcv' = rcv /\ found' = found /\ rxFrames' = rxFrames /\ ws' = ws
      /\ rcvFramesCache' = rcvFramesCache /\ rxThread' = rxThread /\ requests' = requests
  BY DEF Answer, Writeable, snifferVars
<1>2. /\ jsonResponses \in Seq(Maps) /\ view \in [Clients -> Maps] /\ view[p] \in Maps
      /\ Head(jsonResponses) \in Maps /\ Tail(jsonResponses) \in Seq(Maps)
  BY <1>1 DEF Types, GuiTypes
<1> DEFINE h == Head(jsonResponses)
           new == Merge(view[p], h)
<1>3. /\ new \in Maps
      /\ \A k \in Keys, fd \in Fields :
           new[k][fd] = IF h[k][fd] # None THEN h[k][fd] ELSE view[p][k][fd]
  <2>1. PICK a \in Maps, b \in Maps : a = view[p] /\ b = h
    BY <1>2
  <2>2. \A k \in Keys : a[k] \in Cells /\ b[k] \in Cells
    BY <2>1 DEF Maps
  <2>3. PICK n : n = Merge(a, b)
    OBVIOUS
  <2>4. ASSUME NEW k \in Keys
        PROVE  /\ n[k] \in Cells
               /\ n[k].frame = IF b[k].frame # None THEN b[k].frame ELSE a[k].frame
               /\ n[k].raw = IF b[k].raw # None THEN b[k].raw ELSE a[k].raw
    BY <2>2, <2>3 DEF Merge, Cells
  <2>5. n = [k \in Keys |-> n[k]]
    BY <2>3 DEF Merge
  <2>6. n \in Maps
    BY <2>4, <2>5 DEF Maps
  <2> QED
    BY <2>1, <2>3, <2>4, <2>6 DEF Fields
<1> HIDE DEF new, h
<1>4. view' \in [Clients -> Maps] /\ view'[p] = new
  BY <1>1, <1>2, <1>3 DEF new, h
<1>5. Types'
  BY <1>1, <1>2, <1>4, SnifferSame DEF Types, GuiTypes, NotStarted
<1>6. ASSUME NEW i \in CanIds, NEW fd \in Fields
      PROVE  Coming(p, i, fd)' = Coming(p, i, fd)
  <2>1. Last(i, fd)' = LastOf(jsonResponses', i, fd) /\ Last(i, fd) = LastOf(jsonResponses, i, fd)
    BY DEF Last, LastOf
  <2>2. Last(i, fd) = IF Last(i, fd)' # None THEN Last(i, fd)' ELSE h[i][fd]
    BY <1>1, <1>2, <2>1, LastTail DEF h
  <2>3. view'[p][i][fd] = IF h[i][fd] # None THEN h[i][fd] ELSE view[p][i][fd]
    BY <1>3, <1>4 DEF Keys
  <2> QED
    BY <1>1, <2>2, <2>3 DEF Coming
<1>7. \A cmds : Pending(cmds)' = Pending(cmds)
  BY <1>1 DEF Pending
<1>8. UnchangedIsShown'
  BY <1>1, <1>6, <1>7, Carried DEF Showing
<1> QED
  BY <1>5, <1>8

\* What the page asks for; opened again or reset, it shows less.
LEMMA AskStep ==
  ASSUME Types, UnchangedIsShown,
         Poll \/ Toggle \/ \E c \in Clients : Open(c) \/ Reset(c)
  PROVE  Types' /\ UnchangedIsShown'
<1>1. PICK q \in Commands : /\ Ask(q)
                           /\ \/ view' = view
                              \/ q = "open" /\ \E c \in Clients : Open(c)
                              \/ q = "reset" /\ \E c \in Clients : Reset(c)
  BY DEF Poll, Toggle, Open, Reset, Commands
<1>2. /\ UNCHANGED snifferVars /\ thread' = thread /\ rcv' = rcv /\ found' = found
      /\ rxFrames' = rxFrames /\ rcvFramesCache' = rcvFramesCache /\ rxThread' = rxThread
      /\ ws' = ws /\ jsonResponses' = jsonResponses /\ requests' = Append(requests, q)
  BY <1>1 DEF Ask, snifferVars
<1>3. /\ requests' \in Seq(Commands)
      /\ Pending({"open"}) => Pending({"open"})'
      /\ Pending({"open", "reset"}) => Pending({"open", "reset"})'
      /\ q = "open" => Pending({"open"})' /\ Pending({"open", "reset"})'
      /\ q = "reset" => Pending({"open", "reset"})'
  BY <1>2, PendingAppend DEF Types, GuiTypes
<1>4. /\ view' \in [Clients -> Maps]
      /\ \A c \in Clients, i \in CanIds, fd \in Fields :
           \/ view'[c][i][fd] = view[c][i][fd]
           \/ q = "open"
           \/ q = "reset" /\ fd = "frame"
  <2>1. CASE view' = view
    BY <2>1 DEF Types, GuiTypes
  <2>2. CASE q = "open" /\ \E c \in Clients : Open(c)
    BY <2>2, NoChangeType DEF Open, Types, GuiTypes
  <2>3. CASE q = "reset" /\ \E c \in Clients : Reset(c)
    <3>1. PICK c \in Clients :
            view' = [view EXCEPT ![c] = [k \in Keys |-> [@[k] EXCEPT !.frame = None]]]
      BY <2>3 DEF Reset
    <3>2. PICK a \in Maps : a = view[c]
      BY DEF Types, GuiTypes
    <3>3. PICK n : n = [k \in Keys |-> [a[k] EXCEPT !.frame = None]]
      OBVIOUS
    <3>4. \A k \in Keys : a[k] \in Cells
      BY <3>2 DEF Maps
    <3>5. ASSUME NEW k \in Keys PROVE n[k] \in Cells /\ n[k].raw = a[k].raw
      BY <3>3, <3>4 DEF Cells, Shows
    <3>6. n \in Maps
      BY <3>3, <3>5 DEF Maps
    <3>7. view' = [view EXCEPT ![c] = n] /\ view \in [Clients -> Maps]
      BY <3>1, <3>2, <3>3 DEF Types, GuiTypes
    <3>8. view' \in [Clients -> Maps]
      BY <3>6, <3>7
    <3>9. \A d \in Clients : view'[d] = IF d = c THEN n ELSE view[d]
      BY <3>7
    <3> QED
      BY <2>3, <3>2, <3>5, <3>8, <3>9 DEF Fields, Keys
  <2> QED
    BY <1>1, <2>1, <2>2, <2>3
<1>5. Types'
  BY <1>2, <1>3, <1>4, SnifferSame DEF Types, GuiTypes, NotStarted
<1>6. ASSUME NEW c \in Clients, NEW i \in CanIds, NEW fd \in Fields
      PROVE  \/ Coming(c, i, fd)' = Coming(c, i, fd)
             \/ Pending({"open"})'
             \/ fd = "frame" /\ Pending({"open", "reset"})'
  <2>1. view'[c][i][fd] = view[c][i][fd] => Coming(c, i, fd)' = Coming(c, i, fd)
    BY <1>2 DEF Coming, Last
  <2> QED
    BY <1>3, <1>4, <2>1
<1>7. UnchangedIsShown'
  BY <1>2, <1>3, <1>6, Carried DEF Showing
<1> QED
  BY <1>5, <1>7

(***************************************************************************)
(* With one page open, for any frames, databases, receivers and any number *)
(* of requests on their way: what onRcv suppresses as unchanged is what    *)
(* the page shows or is about to be sent, or a message of packets has come *)
(* under its identifier.                                                   *)
(***************************************************************************)
THEOREM SuppressedIsShown ==
  ASSUME NEW p, Clients = {p}
  PROVE  Spec => []UnchangedIsShown
<1>1. Init => Types /\ UnchangedIsShown
  <2> SUFFICES ASSUME Init PROVE UnchangedIsShown
    BY TypesInitial
  <2>1. \A i \in CanIds : rcvFramesCache[i] = None
    BY DEF Init
  <2> QED
    BY <2>1 DEF UnchangedIsShown
<1>2. Types /\ UnchangedIsShown /\ [Next]_vars => Types' /\ UnchangedIsShown'
  <2> SUFFICES ASSUME Types, UnchangedIsShown, [Next]_vars
               PROVE  Types' /\ UnchangedIsShown'
    OBVIOUS
  <2>1. CASE Bus \/ (Sniffer /\ UNCHANGED guiVars) \/ UNCHANGED vars
    BY <2>1, BusStep
  <2>2. CASE onRcv
    BY <2>2, RcvStep
  <2>3. CASE Handle
    BY <2>3, CheckStep, CommandStep DEF Handle
  <2>4. CASE Answer
    BY <2>4, AnswerStep
  <2>5. CASE Poll \/ Toggle \/ \E c \in Clients : Open(c) \/ Reset(c)
    BY <2>5, AskStep
  <2> QED
    BY <2>1, <2>2, <2>3, <2>4, <2>5 DEF Next, Rx
<1> QED
  BY <1>1, <1>2, PTL DEF Spec
=============================================================================

--------------------------- MODULE Senders_proofs ---------------------------
(***************************************************************************)
(* Proofs for the programs that hand frames to the senders: the GUI        *)
(* backend, j1939Sender and the web server.                                *)
(***************************************************************************)
EXTENDS Senders, FiniteSetTheorems, TLAPS

(***************************************************************************)
(* The GUI backend                                                         *)
(***************************************************************************)
\* A ring is the frame's own, or the frame moved away from it; a frame that
\* is not on the page has none but those it moved away from.
GuiRing(r) ==
  /\ r.owner \in Objects
  /\ object[r.owner] # Free
  /\ framePeriods[r.owner] # Undefined
  /\ r.period \in Periods
  /\ r.ids = Ids(object[r.owner]) => /\ Current(r, r.owner)
                                     /\ r.period = framePeriods[r.owner]
  /\ Listed(r.owner) \/ r.owner \in moved
  /\ r.ids = Ids(object[r.owner]) \/ r.owner \in moved

GuiInv == GuiTypeOK /\ \A i \in Ifaces : \A r \in rings[i] : GuiRing(r)

\* Removing one element of a list without duplicates removes nothing else.
LEMMA RemoveAtFacts ==
  ASSUME NEW S, NEW s \in Seq(S), IsInjective(s), NEW k \in 1 .. Len(s)
  PROVE  /\ RemoveAt(s, k) \in Seq(S)
         /\ IsInjective(RemoveAt(s, k))
         /\ \A o : (\E j \in 1 .. Len(RemoveAt(s, k)) : RemoveAt(s, k)[j] = o)
                     <=> (o # s[k] /\ \E j \in 1 .. Len(s) : s[j] = o)
<1> DEFINE t == RemoveAt(s, k)
<1>1. /\ t \in Seq(S)
      /\ Len(t) = Len(s) - 1
      /\ \A j \in 1 .. Len(t) : t[j] = IF j < k THEN s[j] ELSE s[j + 1]
  <2> DEFINE u == SubSeq(s, 1, k - 1)
             v == SubSeq(s, k + 1, Len(s))
  <2>1. u \in Seq(S) /\ Len(u) = k - 1 /\ \A j \in 1 .. k - 1 : u[j] = s[j]
    OBVIOUS
  <2>2. /\ v \in Seq(S) /\ Len(v) = Len(s) - k
        /\ \A j \in 1 .. Len(s) - k : v[j] = s[k + j]
    OBVIOUS
  <2>3. t = u \o v
    BY DEF RemoveAt
  <2> HIDE DEF t, u, v
  <2>4. t \in Seq(S) /\ Len(t) = Len(s) - 1
    BY <2>1, <2>2, <2>3
  <2>5. ASSUME NEW j \in 1 .. Len(t) PROVE t[j] = IF j < k THEN s[j] ELSE s[j + 1]
    <3>1. t[j] = IF j <= Len(u) THEN u[j] ELSE v[j - Len(u)]
      BY <2>1, <2>2, <2>3, <2>4
    <3>2. CASE j < k
      BY <2>1, <3>1, <3>2
    <3>3. CASE ~(j < k)
      <4>1. j - Len(u) \in 1 .. Len(s) - k /\ k + (j - Len(u)) = j + 1 /\ ~(j <= Len(u))
        BY <2>1, <2>4, <3>3
      <4>2. v[j - Len(u)] = s[j + 1]
        BY <2>2, <4>1
      <4> QED
        BY <3>1, <3>3, <4>1, <4>2
    <3> QED
      BY <3>2, <3>3
  <2> QED
    BY <2>4, <2>5
<1>2. \A a, b \in 1 .. Len(s) : s[a] = s[b] => a = b
  BY DEF IsInjective
<1> HIDE DEF t
<1>3. IsInjective(t)
  <2> SUFFICES ASSUME NEW a \in 1 .. Len(t), NEW b \in 1 .. Len(t), t[a] = t[b]
               PROVE  a = b
    BY <1>1 DEF IsInjective
  <2>1. CASE a < k /\ b < k
    BY <1>1, <1>2, <2>1
  <2>2. CASE a < k /\ ~(b < k)
    <3>1. t[a] = s[a] /\ t[b] = s[b + 1] /\ b + 1 \in 1 .. Len(s) /\ a # b + 1
      BY <1>1, <2>2
    <3>2. a \in 1 .. Len(s)
      BY <1>1
    <3>3. s[a] = s[b + 1]
      BY <3>1, Zenon
    <3> QED
      BY <1>2, <3>1, <3>2, <3>3, Zenon
  <2>3. CASE ~(a < k) /\ b < k
    <3>1. t[a] = s[a + 1] /\ t[b] = s[b] /\ a + 1 \in 1 .. Len(s) /\ a + 1 # b
      BY <1>1, <2>3
    <3>2. b \in 1 .. Len(s)
      BY <1>1
    <3>3. s[a + 1] = s[b]
      BY <3>1, Zenon
    <3> QED
      BY <1>2, <3>1, <3>2, <3>3, Zenon
  <2>4. CASE ~(a < k) /\ ~(b < k)
    <3>1. /\ t[a] = s[a + 1] /\ t[b] = s[b + 1]
          /\ a + 1 \in 1 .. Len(s) /\ b + 1 \in 1 .. Len(s)
      BY <1>1, <2>4
    <3>2. a + 1 = b + 1
      BY <1>2, <3>1
    <3> QED
      BY <3>2
  <2> QED
    BY <2>1, <2>2, <2>3, <2>4
<1>4. ASSUME NEW o
      PROVE  (\E j \in 1 .. Len(t) : t[j] = o) <=> (o # s[k] /\ \E j \in 1 .. Len(s) : s[j] = o)
  <2>1. ASSUME NEW j \in 1 .. Len(t), t[j] = o
        PROVE  o # s[k] /\ \E l \in 1 .. Len(s) : s[l] = o
    <3>1. CASE j < k
      BY <1>1, <1>2, <2>1, <3>1
    <3>2. CASE ~(j < k)
      <4>1. j + 1 \in 1 .. Len(s) /\ s[j + 1] = o /\ j + 1 # k
        BY <1>1, <2>1, <3>2
      <4> QED
        BY <1>2, <4>1
    <3> QED
      BY <3>1, <3>2
  <2>2. ASSUME NEW l \in 1 .. Len(s), s[l] = o, o # s[k]
        PROVE  \E j \in 1 .. Len(t) : t[j] = o
    <3>1. CASE l < k
      BY <1>1, <2>2, <3>1
    <3>2. CASE l > k
      <4>1. l - 1 \in 1 .. Len(t) /\ ~(l - 1 < k)
        BY <1>1, <3>2
      <4>2. t[l - 1] = s[l]
        BY <1>1, <4>1
      <4> QED
        BY <2>2, <4>1, <4>2
    <3> QED
      BY <2>2, <3>1, <3>2
  <2> QED
    BY <2>1, <2>2
<1> QED
  BY <1>1, <1>3, <1>4 DEF t

LEMMA GuiInitial == Init => GuiInv
BY DEF Init, GuiInit, GuiInv, GuiTypeOK, Listed, IsInjective

LEMMA GuiAdd ==
  ASSUME GuiInv, NEW o \in Objects, NEW pgn \in GuiPgns, Add(o, pgn)
  PROVE  GuiInv'
<1> DEFINE c == Created(pgn, NewSource, NewDestination, NewValue)
<1>1. c \in Frames /\ c # Free
  BY FrameSenderAssumption, GuiSenderAssumption DEF Created, Frames
<1> HIDE DEF c
<1>2. /\ object' = [object EXCEPT ![o] = c]
      /\ object[o] = Free
      /\ framesToSend' = Append(framesToSend, o)
      /\ framePeriods' = framePeriods /\ rings' = rings /\ moved' = moved
  BY DEF Add, c
<1>3. \A x : Listed(x)' <=> Listed(x) \/ x = o
  <2>1. /\ Len(framesToSend') = Len(framesToSend) + 1
        /\ Len(framesToSend) \in Nat
        /\ \A j \in 1 .. Len(framesToSend) : framesToSend'[j] = framesToSend[j]
        /\ framesToSend'[Len(framesToSend) + 1] = o
    BY <1>2 DEF GuiInv, GuiTypeOK
  <2> QED
    BY <2>1 DEF Listed
<1>4. ~ Listed(o)
  BY <1>2 DEF GuiInv, GuiTypeOK
<1>5. GuiTypeOK'
  <2>1. IsInjective(framesToSend')
    BY <1>2, <1>4 DEF IsInjective, Listed, GuiInv, GuiTypeOK
  <2> QED
    BY <1>1, <1>2, <1>3, <2>1 DEF GuiInv, GuiTypeOK
<1>6. ASSUME NEW i \in Ifaces, NEW r \in rings'[i] PROVE GuiRing(r)'
  <2>1. GuiRing(r)
    BY <1>2 DEF GuiInv
  <2>2. r.owner # o /\ object'[r.owner] = object[r.owner]
    BY <1>2, <2>1 DEF GuiInv, GuiTypeOK, GuiRing
  <2> QED
    BY <1>2, <1>3, <2>1, <2>2 DEF GuiRing, Current
<1> QED
  BY <1>5, <1>6 DEF GuiInv

LEMMA GuiDelete ==
  ASSUME GuiInv, NEW k \in 1 .. Len(framesToSend), Delete(k)
  PROVE  GuiInv'
<1> DEFINE o == framesToSend[k]
<1>1. o \in Objects /\ Listed(o)
  BY DEF GuiInv, GuiTypeOK, Listed
<1>2. /\ object' = object /\ framePeriods' = framePeriods /\ moved' = moved
      /\ \A i \in Ifaces : \A r \in rings'[i] :
           /\ r \in rings[i]
           /\ framePeriods[o] # Undefined => r.ids # Ids(object[o])
  BY DEF Delete, unSendFrames
<1>3. /\ framesToSend' \in Seq(Objects)
      /\ IsInjective(framesToSend')
      /\ \A x : Listed(x)' <=> Listed(x) /\ x # o
  <2>1. framesToSend' = RemoveAt(framesToSend, k)
    BY DEF Delete
  <2>2. framesToSend \in Seq(Objects) /\ IsInjective(framesToSend)
    BY DEF GuiInv, GuiTypeOK
  <2>3. /\ RemoveAt(framesToSend, k) \in Seq(Objects)
        /\ IsInjective(RemoveAt(framesToSend, k))
        /\ \A x : (\E j \in 1 .. Len(RemoveAt(framesToSend, k)) : RemoveAt(framesToSend, k)[j] = x)
                    <=> (x # o /\ \E j \in 1 .. Len(framesToSend) : framesToSend[j] = x)
    BY <2>2, RemoveAtFacts, Zenon
  <2> QED
    BY <2>1, <2>3, Zenon DEF Listed
<1> HIDE DEF o
<1>4. GuiTypeOK'
  BY <1>2, <1>3 DEF GuiInv, GuiTypeOK
<1>5. ASSUME NEW i \in Ifaces, NEW r \in rings'[i] PROVE GuiRing(r)'
  <2>1. GuiRing(r)
    BY <1>2 DEF GuiInv
  <2>2. r.owner = o => r.owner \in moved
    BY <1>2, <2>1 DEF GuiRing
  <2> QED
    BY <1>2, <1>3, <2>1, <2>2 DEF GuiRing, Current
<1> QED
  BY <1>4, <1>5 DEF GuiInv

LEMMA GuiSet ==
  ASSUME GuiInv, NEW k \in 1 .. Len(framesToSend), NEW f \in Frames,
         NEW switches \in [Ifaces -> {"on", "off", "none"}],
         NEW p \in GuiPeriods \cup {framePeriods[framesToSend[k]]},
         Set(k, f, p, switches)
  PROVE  GuiInv'
<1> DEFINE o == framesToSend[k]
<1>1. o \in Objects /\ Listed(o) /\ object[o] # Free
  BY DEF GuiInv, GuiTypeOK, Listed
<1>2. /\ object' = [object EXCEPT ![o] = f]
      /\ framePeriods' = [framePeriods EXCEPT ![o] = p]
      /\ framesToSend' = framesToSend
      /\ moved' = IF Ids(f) # Ids(object[o]) /\ Owns(o) THEN moved \cup {o} ELSE moved
      /\ rings' = [i \in Ifaces |-> Switched(o, f, p, Refreshed(o, f, p, i), switches[i])]
  BY DEF Set
<1>3. p \in Periods \cup {Undefined} /\ (framePeriods[o] # Undefined => p # Undefined)
  BY <1>1, FrameSenderAssumption, GuiSenderAssumption DEF GuiInv, GuiTypeOK
<1> HIDE DEF o
<1>4. ASSUME NEW i \in Ifaces, NEW r \in rings'[i]
      PROVE  \/ r = Ring(o, f, p) /\ p # Undefined
             \/ r \in rings[i] /\ (p # Undefined => r.ids # Ids(f))
  <2>1. rings'[i] = Switched(o, f, p, Refreshed(o, f, p, i), switches[i])
    BY <1>2
  <2>2. Ring(o, f, p).ids = Ids(f)
    BY DEF Ring
  <2>3. ASSUME NEW s \in Refreshed(o, f, p, i)
        PROVE  \/ s = Ring(o, f, p) /\ p # Undefined
               \/ s \in rings[i] /\ (p # Undefined => s.ids # Ids(f))
    BY <2>2 DEF Refreshed, isFrameSent, sendFrames
  <2>4. CASE switches[i] = "on"
    BY <2>1, <2>2, <2>3, <2>4 DEF Switched, sendFrames
  <2>5. CASE switches[i] = "off"
    BY <2>1, <2>3, <2>5 DEF Switched, unSendFrames
  <2>6. CASE switches[i] = "none"
    BY <2>1, <2>3, <2>6 DEF Switched
  <2> QED
    BY <2>4, <2>5, <2>6
<1>5. /\ object' \in [Objects -> Frames \cup {Free}] /\ object'[o] = f /\ f # Free
      /\ \A x \in Objects \ {o} : /\ object'[x] = object[x]
                                  /\ framePeriods'[x] = framePeriods[x]
      /\ framePeriods' \in [Objects -> Periods \cup {Undefined}] /\ framePeriods'[o] = p
  BY <1>1, <1>2, <1>3, FrameSenderAssumption DEF GuiInv, GuiTypeOK
<1>6. \A x : Listed(x)' <=> Listed(x)
  BY <1>2 DEF Listed
<1>7. ASSUME NEW i \in Ifaces, NEW r \in rings'[i] PROVE GuiRing(r)'
  <2>1. CASE r = Ring(o, f, p) /\ p # Undefined
    <3>1. r.owner = o /\ r.ids = Ids(f) /\ r.data = <<f.pgn, f.value>> /\ r.period = p
      BY <2>1 DEF Ring
    <3> QED
      BY <1>1, <1>3, <1>5, <1>6, <2>1, <3>1 DEF GuiRing, Current
  <2>2. CASE r \in rings[i] /\ (p # Undefined => r.ids # Ids(f))
    <3>1. GuiRing(r) /\ moved \subseteq moved'
      BY <1>2, <2>2 DEF GuiInv
    <3>2. CASE r.owner = o
      <4>1. r.ids # Ids(f)
        BY <1>3, <2>2, <3>1, <3>2 DEF GuiRing
      <4>2. o \in moved'
        <5>1. Owns(o)
          BY <2>2, <3>2 DEF Owns
        <5> QED
          BY <1>2, <3>1, <3>2, <4>1, <5>1 DEF GuiRing
      <4> QED
        BY <1>1, <1>3, <1>5, <1>6, <3>1, <3>2, <4>1, <4>2 DEF GuiRing
    <3>3. CASE r.owner # o
      <4>1. r.owner \in Objects \ {o}
        BY <3>1, <3>3 DEF GuiRing
      <4> QED
        BY <1>5, <1>6, <3>1, <4>1 DEF GuiRing, Current
    <3> QED
      BY <3>2, <3>3
  <2> QED
    BY <1>4, <2>1, <2>2
<1>8. GuiTypeOK'
  <2>1. \A i \in Ifaces : \A r \in rings'[i] : r.owner \in Objects /\ r.period \in Periods
    BY <1>7 DEF GuiRing
  <2>2. \A x \in Objects : Listed(x)' => object'[x] # Free
    BY <1>5, <1>6 DEF GuiInv, GuiTypeOK
  <2> QED
    BY <1>2, <1>5, <2>1, <2>2 DEF GuiInv, GuiTypeOK
<1> QED
  BY <1>7, <1>8 DEF GuiInv

LEMMA GuiStep == GuiInv /\ GuiNext => GuiInv'
BY GuiAdd, GuiDelete, GuiSet DEF GuiNext

-----------------------------------------------------------------------------
(***************************************************************************)
(* j1939Sender                                                             *)
(***************************************************************************)
CliRing(r) ==
  /\ r.owner = Tts <=> r.ids = TtsIds
  /\ r.period \in Periods
  /\ r.period = 0 => Len(r.ids) > 1
  /\ r.owner = Tts => r.data = <<fms1Frames>>
  /\ r.owner # Tts => /\ r.owner \in Objects
                      /\ object[r.owner] # Free
                      /\ /\ object[r.owner].pgn # DM1_PGN
                         /\ framePeriods[r.owner] \notin {Undefined, 0}
                         /\ r.ids = Ids(object[r.owner])
                         => Current(r, r.owner) /\ r.period = framePeriods[r.owner]

CliData ==
  /\ object \in [Objects -> Frames \cup {Free}]
  /\ framePeriods \in [Objects -> Periods \cup {Undefined}]
  /\ rings = [i \in Ifaces |-> rings[i]]
  /\ fms1Frames \in Statuses /\ ttsPeriod \in Periods
  /\ running \in BOOLEAN

CliInv == CliData /\ \A i \in Ifaces : \A r \in rings[i] : CliRing(r)

\* A frame with packets goes out as one CAN frame more than it has packets.
LEMMA IdsLength ==
  ASSUME NEW f \in Frames
  PROVE  Packets[f.value] # 0 => Len(Ids(f)) > 1
<1>1. Packets[f.value] \in Nat
  BY FrameSenderAssumption DEF Frames
<1> DEFINE n == Packets[f.value]
           e == getIdentifier(TP_DT_PGN, f.from, BROADCAST)
           c == <<getIdentifier(TP_CM_PGN, f.from, BROADCAST)>>
           d == [j \in 1 .. n |-> e]
<1>2. n # 0 => Ids(f) = c \o d
  BY DEF Ids
<1> HIDE DEF n, e
<1>3. d \in Seq({e}) /\ Len(d) = n
  BY <1>1 DEF n
<1>4. c \in Seq({c[1]}) /\ Len(c) = 1
  OBVIOUS
<1> HIDE DEF c, d
<1>5. Len(c \o d) = Len(c) + Len(d)
  <2>1. c \in Seq({c[1]} \cup {e}) /\ d \in Seq({c[1]} \cup {e})
    BY <1>3, <1>4
  <2> QED
    BY <2>1
<1> QED
  BY <1>1, <1>2, <1>3, <1>4, <1>5 DEF n

\* The ring that a sender gets for a frame is the frame's and current.
LEMMA CliNewRing ==
  ASSUME NEW o \in Objects, NEW f \in Frames, NEW p \in Periods,
         p = 0 => Packets[f.value] # 0
  PROVE  LET r == Ring(o, f, p)
         IN /\ r.owner = o /\ r.owner # Tts /\ r.ids = Ids(f) /\ r.ids # TtsIds
            /\ r.data = <<f.pgn, f.value>> /\ r.period = p
            /\ r.period = 0 => Len(r.ids) > 1
<1>1. p = 0 => Len(Ids(f)) > 1
  BY IdsLength
<1> QED
  BY <1>1, J1939SenderAssumption DEF Ring

LEMMA CliInitial == Init => CliInv
BY J1939SenderAssumption DEF Init, CliInit, CliInv, CliData

LEMMA CliCreate ==
  ASSUME CliInv, NEW o \in Objects, NEW pgn \in Pgns, CreateFrame(o, pgn), running' \in BOOLEAN
  PROVE  CliInv'
<1> DEFINE c == Created(pgn, NewSource, NewDestination, NewValue)
<1>1. c \in Frames /\ c # Free
  BY FrameSenderAssumption DEF Created, Frames
<1> HIDE DEF c
<1>2. /\ object' = [object EXCEPT ![o] = c]
      /\ object[o] = Free
      /\ framePeriods' = framePeriods /\ rings' = rings
      /\ fms1Frames' = fms1Frames /\ ttsPeriod' = ttsPeriod
  BY DEF CreateFrame, c
<1>3. CliData'
  BY <1>1, <1>2 DEF CliInv, CliData
<1>4. ASSUME NEW i \in Ifaces, NEW r \in rings'[i] PROVE CliRing(r)'
  <2>1. CliRing(r)
    BY <1>2 DEF CliInv
  <2>2. r.owner # Tts => r.owner # o /\ object'[r.owner] = object[r.owner]
    BY <1>2, <2>1 DEF CliInv, CliData, CliRing
  <2> QED
    BY <1>2, <2>1, <2>2 DEF CliRing, Current
<1> QED
  BY <1>3, <1>4 DEF CliInv

LEMMA CliSetFrame ==
  ASSUME CliInv, NEW o \in Objects, NEW f \in Frames,
         NEW p \in CliPeriods \cup {framePeriods[o]}, SetFrame(o, f, p), running' \in BOOLEAN
  PROVE  CliInv'
<1>1. /\ object' = [object EXCEPT ![o] = f]
      /\ object[o] # Free
      /\ framePeriods' = [framePeriods EXCEPT ![o] = p]
      /\ fms1Frames' = fms1Frames /\ ttsPeriod' = ttsPeriod
  BY DEF SetFrame
<1>2. p \in Periods \cup {Undefined}
  BY J1939SenderAssumption DEF CliInv, CliData
<1>3. CliData'
  <2>1. rings' = [i \in Ifaces |-> rings'[i]]
    BY DEF SetFrame, notifySender, CliInv, CliData
  <2> QED
    BY <1>1, <1>2, <2>1 DEF CliInv, CliData
<1>4. /\ object'[o] = f /\ f # Free /\ framePeriods'[o] = p
      /\ \A x \in Objects \ {o} : /\ object'[x] = object[x]
                                  /\ framePeriods'[x] = framePeriods[x]
  BY <1>1, FrameSenderAssumption DEF CliInv, CliData
<1>5. ASSUME NEW i \in Ifaces, NEW r \in rings'[i]
      PROVE  \/ /\ r = Ring(o, f, p) /\ p # Undefined
                /\ p = 0 => Packets[f.value] # 0
             \/ r \in rings[i] /\ (p \notin {Undefined, 0} => r.ids # Ids(f))
  <2>1. CASE p = Undefined
    BY <2>1 DEF SetFrame
  <2>2. CASE p # Undefined
    <3>1. rings'[i] = IF isFrameSent(f, rings[i])
                      THEN sendFrameThroughInterface(o, f, rings[i], p) ELSE rings[i]
      BY <2>2 DEF SetFrame, notifySender
    <3>2. Ring(o, f, p).ids = Ids(f)
      BY DEF Ring
    <3> QED
      BY <2>2, <3>1, <3>2 DEF isFrameSent, sendFrameThroughInterface, sendFrames
  <2> QED
    BY <2>1, <2>2
<1>6. ASSUME NEW i \in Ifaces, NEW r \in rings'[i] PROVE CliRing(r)'
  <2>1. CASE r = Ring(o, f, p) /\ p # Undefined /\ (p = 0 => Packets[f.value] # 0)
    <3>1. /\ r.owner = o /\ r.owner # Tts /\ r.ids = Ids(f) /\ r.ids # TtsIds
          /\ r.data = <<f.pgn, f.value>> /\ r.period = p
          /\ r.period = 0 => Len(r.ids) > 1
      BY <1>2, <2>1, CliNewRing
    <3> QED
      BY <1>2, <1>4, <2>1, <3>1 DEF CliRing, Current
  <2>2. CASE r \in rings[i] /\ (p \notin {Undefined, 0} => r.ids # Ids(f))
    <3>1. CliRing(r)
      BY <2>2 DEF CliInv
    <3>2. CASE r.owner = o
      BY <1>1, <1>4, <2>2, <3>1, <3>2 DEF CliRing
    <3>3. CASE r.owner # o
      <4>1. r.owner # Tts => r.owner \in Objects \ {o}
        BY <3>1, <3>3 DEF CliRing
      <4> QED
        BY <1>1, <1>4, <3>1, <4>1 DEF CliRing, Current
    <3> QED
      BY <3>2, <3>3
  <2> QED
    BY <1>5, <2>1, <2>2
<1> QED
  BY <1>3, <1>6 DEF CliInv

\* What a step that edits no frame does to the rings it leaves.
LEMMA CliKeeps ==
  ASSUME NEW r, CliRing(r), object' = object, framePeriods' = framePeriods,
         r.owner # Tts \/ fms1Frames' = fms1Frames
  PROVE  CliRing(r)'
BY DEF CliRing, Current

LEMMA CliSendFrame ==
  ASSUME CliInv, NEW o \in Objects, NEW j \in CliIfaces, SendFrame(o, j), running' \in BOOLEAN
  PROVE  CliInv'
<1> DEFINE p == IF framePeriods[o] = Undefined THEN 0 ELSE framePeriods[o]
<1>1. /\ object' = object /\ framePeriods' = framePeriods
      /\ fms1Frames' = fms1Frames /\ ttsPeriod' = ttsPeriod
      /\ object[o] # Free
      /\ rings' = [rings EXCEPT ![j] = sendFrameThroughInterface(o, object[o], @, p)]
  BY DEF SendFrame
<1>2. p \in Periods /\ object[o] \in Frames
  BY <1>1, J1939SenderAssumption DEF CliInv, CliData
<1>3. framePeriods[o] \notin {Undefined, 0} => p = framePeriods[o]
  OBVIOUS
<1> HIDE DEF p
<1>4. CliData'
  BY <1>1 DEF CliInv, CliData
<1>5. ASSUME NEW i \in Ifaces, NEW r \in rings'[i]
      PROVE  \/ r = Ring(o, object[o], p) /\ (p = 0 => Packets[object[o].value] # 0)
             \/ r \in rings[i]
  <2>1. i # j => rings'[i] = rings[i]
    BY <1>1 DEF CliInv, CliData
  <2>2. i = j => rings'[i] = sendFrameThroughInterface(o, object[o], rings[i], p)
    BY <1>1 DEF CliInv, CliData
  <2> QED
    BY <2>1, <2>2 DEF sendFrameThroughInterface, sendFrames
<1>6. ASSUME NEW i \in Ifaces, NEW r \in rings'[i] PROVE CliRing(r)'
  <2>1. CASE r = Ring(o, object[o], p) /\ (p = 0 => Packets[object[o].value] # 0)
    <3>1. /\ r.owner = o /\ r.owner # Tts /\ r.ids = Ids(object[o]) /\ r.ids # TtsIds
          /\ r.data = <<object[o].pgn, object[o].value>> /\ r.period = p
          /\ r.period = 0 => Len(r.ids) > 1
      BY <1>2, <2>1, CliNewRing
    <3> QED
      BY <1>1, <1>2, <1>3, <3>1 DEF CliRing, Current
  <2>2. CASE r \in rings[i]
    BY <1>1, <2>2, CliKeeps DEF CliInv
  <2> QED
    BY <1>5, <2>1, <2>2
<1> QED
  BY <1>4, <1>6 DEF CliInv

LEMMA CliUnsendFrame ==
  ASSUME CliInv, NEW o \in Objects, NEW ifaces, UnsendFrame(o, ifaces), running' \in BOOLEAN
  PROVE  CliInv'
<1>1. /\ object' = object /\ framePeriods' = framePeriods
      /\ fms1Frames' = fms1Frames /\ ttsPeriod' = ttsPeriod
      /\ \A i \in Ifaces : rings'[i] \subseteq rings[i]
      /\ rings' = [i \in Ifaces |-> rings'[i]]
  BY DEF UnsendFrame, unSendFrames
<1>2. CliData'
  BY <1>1 DEF CliInv, CliData
<1>3. ASSUME NEW i \in Ifaces, NEW r \in rings'[i] PROVE CliRing(r)'
  BY <1>1, CliKeeps DEF CliInv
<1> QED
  BY <1>2, <1>3 DEF CliInv

LEMMA CliEditDtc ==
  ASSUME CliInv, NEW o \in Objects, NEW v \in Values, EditDtc(o, v), running' \in BOOLEAN
  PROVE  CliInv'
<1>1. /\ object' = [object EXCEPT ![o].value = v]
      /\ object[o] # Free /\ object[o].pgn = DM1_PGN
      /\ framePeriods' = framePeriods /\ rings' = rings
      /\ fms1Frames' = fms1Frames /\ ttsPeriod' = ttsPeriod
  BY DEF EditDtc
<1>2. object[o] \in Frames
  BY <1>1 DEF CliInv, CliData
<1>3. /\ object'[o] \in Frames /\ object'[o].pgn = DM1_PGN /\ object'[o] # Free
      /\ \A x \in Objects \ {o} : object'[x] = object[x]
      /\ object' \in [Objects -> Frames \cup {Free}]
  <2>1. object' = [object EXCEPT ![o] = [object[o] EXCEPT !.value = v]]
    BY <1>1
  <2>2. [object[o] EXCEPT !.value = v] \in Frames /\ [object[o] EXCEPT !.value = v].pgn = DM1_PGN
    BY <1>1, <1>2 DEF Frames
  <2> QED
    BY <2>1, <2>2, FrameSenderAssumption DEF CliInv, CliData
<1>4. CliData'
  BY <1>1, <1>3 DEF CliInv, CliData
<1>5. ASSUME NEW i \in Ifaces, NEW r \in rings'[i] PROVE CliRing(r)'
  <2>1. CliRing(r)
    BY <1>1 DEF CliInv
  <2>2. CASE r.owner = o
    BY <1>1, <1>3, <2>1, <2>2 DEF CliRing
  <2>3. CASE r.owner # o
    <3>1. r.owner # Tts => r.owner \in Objects \ {o}
      BY <2>1, <2>3 DEF CliRing
    <3> QED
      BY <1>1, <1>3, <2>1, <3>1 DEF CliRing, Current
  <2> QED
    BY <2>2, <2>3
<1> QED
  BY <1>4, <1>5 DEF CliInv

\* The ring of the tell tales, with the status of the moment.
LEMMA CliTtsRing ==
  ASSUME NEW p \in Periods, NEW status, fms1Frames' = status
  PROVE  CliRing(TtsRing(status, p))'
<1>1. LET r == TtsRing(status, p)
      IN r.owner = Tts /\ r.ids = TtsIds /\ r.period = p /\ r.data = <<status>>
  BY DEF TtsRing
<1> QED
  BY <1>1, J1939SenderAssumption DEF CliRing

LEMMA CliSendTts ==
  ASSUME CliInv, NEW targets, NEW p \in CliPeriods, SendTts(targets, p), running' \in BOOLEAN
  PROVE  CliInv'
<1>1. /\ object' = object /\ framePeriods' = framePeriods
      /\ fms1Frames' = fms1Frames /\ ttsPeriod' = p /\ p \in Periods
      /\ rings' = [i \in Ifaces |-> rings'[i]]
      /\ \A i \in Ifaces : \A r \in rings'[i] : r \in rings[i] \/ r = TtsRing(fms1Frames, p)
  BY J1939SenderAssumption DEF SendTts, sendFrames
<1>2. CliData'
  BY <1>1 DEF CliInv, CliData
<1>3. ASSUME NEW i \in Ifaces, NEW r \in rings'[i] PROVE CliRing(r)'
  BY <1>1, CliKeeps, CliTtsRing DEF CliInv
<1> QED
  BY <1>2, <1>3 DEF CliInv

LEMMA CliSetTts ==
  ASSUME CliInv, NEW status \in Statuses, SetTts(status), running' \in BOOLEAN
  PROVE  CliInv'
<1>1. /\ object' = object /\ framePeriods' = framePeriods
      /\ fms1Frames' = status /\ ttsPeriod' = ttsPeriod /\ ttsPeriod \in Periods
      /\ rings' = [i \in Ifaces |-> rings'[i]]
  BY DEF SetTts, CliInv, CliData
<1>2. CliData'
  BY <1>1 DEF CliInv, CliData
<1>3. ASSUME NEW i \in Ifaces, NEW r \in rings'[i]
      PROVE  (r \in rings[i] /\ r.ids # TtsIds) \/ r = TtsRing(status, ttsPeriod)
  <2>1. TtsRing(status, ttsPeriod).ids = TtsIds
    BY DEF TtsRing
  <2> QED
    BY <2>1 DEF SetTts, sendFrames
<1>4. ASSUME NEW i \in Ifaces, NEW r \in rings'[i] PROVE CliRing(r)'
  <2>1. CASE r \in rings[i] /\ r.ids # TtsIds
    <3>1. CliRing(r) /\ r.owner # Tts
      BY <2>1 DEF CliInv, CliRing
    <3> QED
      BY <1>1, <3>1, CliKeeps
  <2>2. CASE r = TtsRing(status, ttsPeriod)
    BY <1>1, <2>2, CliTtsRing
  <2> QED
    BY <1>3, <2>1, <2>2
<1> QED
  BY <1>2, <1>4 DEF CliInv

\* "unsend tts" and "quit" leave some of the rings, or none.
LEMMA CliDrop ==
  ASSUME CliInv, UnsendTts \/ Quit, running' \in BOOLEAN
  PROVE  CliInv'
<1>1. /\ object' = object /\ framePeriods' = framePeriods
      /\ fms1Frames' = fms1Frames /\ ttsPeriod' = ttsPeriod
      /\ \A i \in Ifaces : rings'[i] \subseteq rings[i]
      /\ rings' = [i \in Ifaces |-> rings'[i]]
  BY DEF UnsendTts, Quit, unSendFrames
<1>2. CliData'
  BY <1>1 DEF CliInv, CliData
<1>3. ASSUME NEW i \in Ifaces, NEW r \in rings'[i] PROVE CliRing(r)'
  BY <1>1, CliKeeps DEF CliInv
<1> QED
  BY <1>2, <1>3 DEF CliInv

LEMMA CliStep == CliInv /\ CliNext => CliInv'
<1> SUFFICES ASSUME CliInv, CliNext PROVE CliInv'
  OBVIOUS
<1>1. running' \in BOOLEAN
  BY DEF CliNext, Command
<1> QED
  BY <1>1, CliCreate, CliSetFrame, CliSendFrame, CliUnsendFrame, CliEditDtc, CliSendTts,
     CliSetTts, CliDrop, Zenon DEF CliNext, Command

-----------------------------------------------------------------------------
(***************************************************************************)
(* The web server                                                          *)
(***************************************************************************)
Answers ==
  {[command |-> "list", data |-> Pgns], [command |-> "baud", data |-> Ifaces],
   [command |-> "", data |-> {}]}
  \cup {[command |-> "req", data |-> q.name = "known"] : q \in Requests}
  \cup {[command |-> "create", data |-> Reason(q)] : q \in Requests}
Responses == [json : Answers, asker : Clients]

\* The requests on their way, each with its page and place.
Waiting == {w \in Clients \X Nat : w[2] \in 1 .. Len(inbox[w[1]])}

ServerTypes ==
  /\ sessions \subseteq Clients /\ writable \subseteq sessions
  /\ inbox \in [Clients -> Seq(Requests)]
  /\ \A c \in Clients : inbox[c] # <<>> => c \in sessions
  /\ respQueue \in Seq(Responses)
  /\ asked \in 0 .. MaxRequests /\ missed \in Nat
  /\ crashed \in BOOLEAN /\ serial \in BOOLEAN /\ strayed \in BOOLEAN

\* A request is still on its way, or it set a session's flag, or the callback
\* it asked for will not come, or it is done with.
Accounted ==
  /\ IsFiniteSet(writable) /\ IsFiniteSet(Waiting)
  /\ missed + Cardinality(writable) + Cardinality(Waiting) <= asked
  /\ FewAnswersStuck

\* With requests that never overlap there is one answer, and only the session
\* that asked for it can be called back.
OneAtATime ==
  serial => /\ ~strayed
            /\ Len(respQueue) <= 1
            /\ respQueue # <<>> => writable \subseteq {respQueue[1].asker}

ServerInv == ServerTypes /\ Accounted /\ OneAtATime

LEMMA ServerInitial == Init => ServerInv
<1> SUFFICES ASSUME WebInit PROVE ServerInv
  BY DEF Init
<1>1. Waiting = {}
  BY DEF WebInit, Waiting
<1>2. ServerTypes
  <2>1. crashed \in BOOLEAN /\ serial \in BOOLEAN /\ strayed \in BOOLEAN
    BY Zenon DEF WebInit
  <2>2. asked \in 0 .. MaxRequests /\ missed \in Nat
    BY WebAssumption DEF WebInit
  <2>3. inbox \in [Clients -> Seq(Requests)] /\ \A c \in Clients : inbox[c] = <<>>
    BY DEF WebInit
  <2>4. sessions = {} /\ writable = {} /\ respQueue = <<>>
    BY DEF WebInit
  <2>5. respQueue \in Seq(Responses)
    BY <2>4
  <2> QED
    BY <2>1, <2>2, <2>3, <2>4, <2>5, Zenon DEF ServerTypes
<1>3. Accounted
  <2>1. IsFiniteSet({}) /\ Cardinality({}) = 0
    BY FS_EmptySet
  <2>2. writable = {} /\ missed = 0 /\ asked = 0 /\ Len(respQueue) = 0
    BY DEF WebInit
  <2> QED
    BY <1>1, <2>1, <2>2 DEF Accounted, FewAnswersStuck
<1>4. OneAtATime
  BY DEF WebInit, OneAtATime
<1> QED
  BY <1>2, <1>3, <1>4 DEF ServerInv

\* The answer that a request gets: at most one.
IsAnswer(answer) == answer \in Seq(Answers) /\ Len(answer) <= 1

LEMMA AnswerLength ==
  ASSUME NEW answer, IsAnswer(answer)
  PROVE  Len(answer) \in 0 .. 1
<1>1. answer \in Seq(Answers) /\ Len(answer) \in Nat /\ Len(answer) <= 1
  BY DEF IsAnswer
<1>2. \A n \in Nat : n <= 1 => n \in 0 .. 1
  OBVIOUS
<1> QED
  BY <1>1, <1>2, Zenon

\* What queueing the answer does to the queue.
LEMMA QueuedFacts ==
  ASSUME ServerTypes, NEW c \in Clients, NEW answer, IsAnswer(answer), Queued(c, answer)
  PROVE  /\ respQueue' \in Seq(Responses)
         /\ Len(respQueue') = Len(respQueue) + Len(answer)
         /\ respQueue = <<>> => \A k \in 1 .. Len(respQueue') : respQueue'[k].asker = c
<1> DEFINE t == [k \in 1 .. Len(answer) |-> [json |-> answer[k], asker |-> c]]
<1>1. respQueue' = respQueue \o t
  BY DEF Queued
<1>2. Len(answer) \in Nat /\ \A k \in 1 .. Len(answer) : answer[k] \in Answers
  BY DEF IsAnswer
<1>3. t \in Seq(Responses) /\ Len(t) = Len(answer) /\ \A k \in 1 .. Len(t) : t[k].asker = c
  <2>1. \A k \in 1 .. Len(answer) : t[k] \in Responses
    BY <1>2 DEF Responses
  <2> QED
    BY <1>2, <2>1
<1> HIDE DEF t
<1>4. respQueue \in Seq(Responses)
  BY DEF ServerTypes
<1> QED
  BY <1>1, <1>3, <1>4

\* A request taken from the front of its page's queue is one request less.
LEMMA TakenOut ==
  ASSUME ServerInv, NEW c \in Clients, inbox[c] # <<>>,
         inbox' = [inbox EXCEPT ![c] = Tail(@)]
  PROVE  /\ IsFiniteSet(Waiting')
         /\ Cardinality(Waiting') = Cardinality(Waiting) - 1
<1> DEFINE x == <<c, Len(inbox[c])>>
<1>1. Len(inbox[c]) \in Nat \ {0} /\ Len(Tail(inbox[c])) = Len(inbox[c]) - 1
  BY DEF ServerInv, ServerTypes
<1>2. x \in Waiting
  BY <1>1 DEF Waiting
<1>3. Waiting' = Waiting \ {x}
  <2>1. \A d \in Clients : inbox'[d] = IF d = c THEN Tail(inbox[c]) ELSE inbox[d]
    BY DEF ServerInv, ServerTypes
  <2>2. ASSUME NEW w \in Clients \X Nat PROVE w \in Waiting' <=> w \in Waiting /\ w # x
    <3>1. PICK d \in Clients, k \in Nat : w = <<d, k>>
      OBVIOUS
    <3>2. w[1] = d /\ w[2] = k
      BY <3>1
    <3>3. /\ w \in Waiting <=> k \in 1 .. Len(inbox[d])
          /\ w \in Waiting' <=> k \in 1 .. Len(inbox'[d])
      BY <3>2 DEF Waiting
    <3>4. w = x <=> d = c /\ k = Len(inbox[c])
      BY <3>1
    <3>5. CASE d = c
      <4>1. Len(inbox[d]) = Len(inbox[c]) /\ Len(inbox'[d]) = Len(inbox[c]) - 1
        BY <1>1, <2>1, <3>5
      <4> QED
        BY <1>1, <3>3, <3>4, <3>5, <4>1
    <3>6. CASE d # c
      <4>1. inbox'[d] = inbox[d]
        BY <2>1, <3>6
      <4> QED
        BY <3>3, <3>4, <3>6, <4>1
    <3> QED
      BY <3>5, <3>6
  <2> QED
    BY <2>2 DEF Waiting
<1> HIDE DEF x
<1> QED
  BY <1>2, <1>3, FS_RemoveElement DEF ServerInv, Accounted

\* A request that is sent is one request more.
LEMMA PutIn ==
  ASSUME ServerInv, NEW c \in Clients, NEW q \in Requests,
         inbox' = [inbox EXCEPT ![c] = Append(@, q)]
  PROVE  /\ IsFiniteSet(Waiting')
         /\ Cardinality(Waiting') = Cardinality(Waiting) + 1
<1> DEFINE x == <<c, Len(inbox[c]) + 1>>
<1>1. Len(inbox[c]) \in Nat /\ Len(Append(inbox[c], q)) = Len(inbox[c]) + 1
  BY DEF ServerInv, ServerTypes
<1>2. x \notin Waiting
  BY <1>1 DEF Waiting
<1>3. Waiting' = Waiting \cup {x}
  <2>1. \A d \in Clients : inbox'[d] = IF d = c THEN Append(inbox[c], q) ELSE inbox[d]
    BY DEF ServerInv, ServerTypes
  <2>2. ASSUME NEW w \in Clients \X Nat PROVE w \in Waiting' <=> w \in Waiting \/ w = x
    <3>1. PICK d \in Clients, k \in Nat : w = <<d, k>>
      OBVIOUS
    <3>2. w[1] = d /\ w[2] = k
      BY <3>1
    <3>3. /\ w \in Waiting <=> k \in 1 .. Len(inbox[d])
          /\ w \in Waiting' <=> k \in 1 .. Len(inbox'[d])
      BY <3>2 DEF Waiting
    <3>4. w = x <=> d = c /\ k = Len(inbox[c]) + 1
      BY <3>1
    <3>5. CASE d = c
      <4>1. Len(inbox[d]) = Len(inbox[c]) /\ Len(inbox'[d]) = Len(inbox[c]) + 1
        BY <1>1, <2>1, <3>5
      <4> QED
        BY <1>1, <3>3, <3>4, <3>5, <4>1
    <3>6. CASE d # c
      <4>1. inbox'[d] = inbox[d]
        BY <2>1, <3>6
      <4> QED
        BY <3>3, <3>4, <3>6, <4>1
    <3> QED
      BY <3>5, <3>6
  <2>3. x \in Clients \X Nat
    BY <1>1
  <2> QED
    BY <2>2, <2>3 DEF Waiting
<1> HIDE DEF x
<1> QED
  BY <1>2, <1>3, FS_AddElement DEF ServerInv, Accounted

\* The answer to a request is queued and its callback asked for.
LEMMA ReplyStep ==
  ASSUME ServerInv, NEW c \in Clients, inbox[c] # <<>>,
         inbox' = [inbox EXCEPT ![c] = Tail(@)],
         NEW answer, IsAnswer(answer), Reply(c, answer),
         sessions' = sessions, asked' = asked, strayed' = strayed, crashed' \in BOOLEAN
  PROVE  ServerInv'
<1>1. /\ respQueue' \in Seq(Responses)
      /\ Len(respQueue') = Len(respQueue) + Len(answer)
      /\ respQueue = <<>> => \A k \in 1 .. Len(respQueue') : respQueue'[k].asker = c
  BY QueuedFacts DEF ServerInv, Reply
<1>2. /\ writable' = writable \cup {c}
      /\ missed' = IF c \in writable THEN missed + Len(answer) ELSE missed
      /\ serial' = (serial /\ respQueue = <<>> /\ writable = {})
  BY DEF Reply, Queued, lws_callback_on_writable
<1>3. PICK n \in 0 .. 1 : n = Len(answer)
  BY AnswerLength, Zenon
<1>4. c \in sessions /\ missed' \in Nat
  BY <1>2, <1>3 DEF ServerInv, ServerTypes
<1>5. ServerTypes'
  <2>1. inbox' \in [Clients -> Seq(Requests)] /\ \A d \in Clients : inbox'[d] # <<>> => d \in sessions
    BY <1>4 DEF ServerInv, ServerTypes
  <2>2. serial' \in BOOLEAN /\ strayed' \in BOOLEAN
    BY <1>2, Zenon DEF ServerInv, ServerTypes
  <2> QED
    BY <1>1, <1>2, <1>4, <2>1, <2>2 DEF ServerInv, ServerTypes
<1>6. Accounted'
  <2>1. IsFiniteSet(Waiting') /\ Cardinality(Waiting') = Cardinality(Waiting) - 1
    BY TakenOut
  <2>2. /\ IsFiniteSet(writable')
        /\ Cardinality(writable') = IF c \in writable THEN Cardinality(writable)
                                    ELSE Cardinality(writable) + 1
    BY <1>2, FS_AddElement DEF ServerInv, Accounted
  <2>3. Cardinality(writable) \in Nat /\ Cardinality(Waiting) \in Nat
    BY FS_CardinalityType DEF ServerInv, Accounted
  <2>4. /\ missed + Cardinality(writable) + Cardinality(Waiting) <= asked
        /\ Len(respQueue) <= Cardinality(writable) + missed
        /\ missed \in Nat /\ asked \in Nat /\ Len(respQueue) \in Nat
    BY DEF ServerInv, ServerTypes, Accounted, FewAnswersStuck
  <2>5. Len(respQueue') = Len(respQueue) + n /\ missed' = IF c \in writable THEN missed + n ELSE missed
    BY <1>1, <1>2, <1>3, Zenon
  <2> QED
    BY <1>1, <2>1, <2>2, <2>3, <2>4, <2>5 DEF Accounted, FewAnswersStuck
<1>7. OneAtATime'
  <2> SUFFICES ASSUME serial'
               PROVE  /\ ~strayed'
                      /\ Len(respQueue') <= 1
                      /\ respQueue' # <<>> => writable' \subseteq {respQueue'[1].asker}
    BY DEF OneAtATime
  <2>1. serial /\ respQueue = <<>> /\ writable = {}
    BY <1>2, Zenon
  <2>2. ~strayed'
    BY <2>1 DEF ServerInv, OneAtATime
  <2>3. Len(respQueue') <= 1
    <3>1. Len(respQueue) = 0 /\ Len(respQueue') = Len(respQueue) + n
      BY <1>1, <1>3, <2>1
    <3> QED
      BY <3>1
  <2>4. respQueue' # <<>> => respQueue'[1].asker = c
    BY <1>1, <2>1
  <2>5. writable' = {c}
    BY <1>2, <2>1
  <2> QED
    BY <2>2, <2>3, <2>4, <2>5
<1> QED
  BY <1>5, <1>6, <1>7 DEF ServerInv

LEMMA ReceiveStep ==
  ASSUME ServerInv, NEW c \in Clients, Receive(c)
  PROVE  ServerInv'
<1> DEFINE q == Head(inbox[c])
<1>1. /\ inbox[c] # <<>> /\ inbox' = [inbox EXCEPT ![c] = Tail(@)]
      /\ sessions' = sessions /\ asked' = asked /\ strayed' = strayed
      /\ Query(c, q) \/ SetBaud(c, q) \/ Create(c, q) \/ Malformed(q) \/ Mistyped(q)
  BY DEF Receive
<1> HIDE DEF q
<1>2. crashed \in BOOLEAN /\ q \in Requests
  BY <1>1 DEF ServerInv, ServerTypes, q
<1>3. IsAnswer(<<>>) /\ \A a \in Answers : IsAnswer(<<a>>)
  BY DEF IsAnswer
<1>4. CASE Query(c, q)
  <2>1. IsAnswer(process_cmd_list)
    BY <1>3, Zenon DEF process_cmd_list, Answers
  <2>2. IsAnswer(process_req_frame(q))
    <3>1. [command |-> "req", data |-> q.name = "known"] \in Answers
      BY <1>2, Zenon DEF Answers
    <3> QED
      BY <1>3, <3>1, Zenon DEF process_req_frame
  <2>3. \A a \in {<<>>, <<[command |-> "", data |-> {}]>>} : IsAnswer(a)
    BY <1>3, Zenon DEF Answers
  <2>4. \E answer : IsAnswer(answer) /\ Reply(c, answer)
    BY <1>4, <2>1, <2>2, <2>3, Zenon DEF Query
  <2>5. crashed' = crashed
    BY <1>4 DEF Query
  <2> QED
    BY <1>1, <1>2, <2>4, <2>5, ReplyStep
<1>5. CASE SetBaud(c, q)
  <2>1. IsAnswer(process_set_baud(q))
    BY <1>3, Zenon DEF process_set_baud, Answers
  <2> QED
    BY <1>1, <1>2, <1>5, <2>1, ReplyStep DEF SetBaud
<1>6. CASE Create(c, q)
  <2>2. IsAnswer(process_create_frame(q))
    BY <1>2, <1>3, Zenon DEF process_create_frame, Answers
  <2>3. crashed' \in BOOLEAN
    BY <1>2, <1>6, Zenon DEF Create, sendFrame
  <2> QED
    BY <1>1, <1>6, <2>2, <2>3, ReplyStep DEF Create
<1>7. CASE Malformed(q) \/ Mistyped(q)
  <2>1. /\ writable' = writable /\ respQueue' = respQueue /\ crashed' \in BOOLEAN
        /\ missed' = missed /\ serial' = serial
    BY <1>2, <1>7, Zenon DEF Malformed, Mistyped
  <2>2. IsFiniteSet(Waiting') /\ Cardinality(Waiting') = Cardinality(Waiting) - 1
    BY <1>1, TakenOut
  <2>3. Cardinality(writable) \in Nat /\ Cardinality(Waiting) \in Nat
    BY FS_CardinalityType DEF ServerInv, Accounted
  <2>4. Accounted'
    BY <1>1, <2>1, <2>2, <2>3 DEF ServerInv, ServerTypes, Accounted, FewAnswersStuck
  <2>5. ServerTypes'
    BY <1>1, <2>1 DEF ServerInv, ServerTypes
  <2>6. OneAtATime'
    BY <1>1, <2>1 DEF ServerInv, OneAtATime
  <2> QED
    BY <2>4, <2>5, <2>6 DEF ServerInv
<1> QED
  BY <1>1, <1>4, <1>5, <1>6, <1>7

LEMMA WriteableStep ==
  ASSUME ServerInv, NEW c \in Clients, Writeable(c)
  PROVE  ServerInv'
<1>1. /\ c \in writable /\ writable' = writable \ {c}
      /\ respQueue' = IF respQueue = <<>> THEN <<>> ELSE Tail(respQueue)
      /\ strayed' = (strayed \/ (respQueue # <<>> /\ Head(respQueue).asker # c))
      /\ sessions' = sessions /\ inbox' = inbox /\ crashed' = crashed /\ asked' = asked
      /\ missed' = missed /\ serial' = serial
  BY DEF Writeable, sendQueue
<1>2. /\ respQueue' \in Seq(Responses)
      /\ Len(respQueue') = IF respQueue = <<>> THEN 0 ELSE Len(respQueue) - 1
      /\ Len(respQueue) \in Nat
      /\ respQueue # <<>> => Head(respQueue) = respQueue[1] /\ Len(respQueue) # 0
  BY <1>1 DEF ServerInv, ServerTypes
<1>3. ServerTypes'
  <2>1. strayed' \in BOOLEAN
    BY <1>1, Zenon
  <2> QED
    BY <1>1, <1>2, <2>1 DEF ServerInv, ServerTypes
<1>4. Accounted'
  <2>1. IsFiniteSet(writable') /\ Cardinality(writable') = Cardinality(writable) - 1
    BY <1>1, FS_RemoveElement DEF ServerInv, Accounted
  <2>2. Cardinality(writable) \in Nat /\ Cardinality(Waiting) \in Nat
    BY FS_CardinalityType DEF ServerInv, Accounted
  <2>3. Cardinality(writable) # 0
    BY <1>1, FS_EmptySet DEF ServerInv, Accounted
  <2>4. Waiting' = Waiting
    BY <1>1 DEF Waiting
  <2> QED
    BY <1>1, <1>2, <2>1, <2>2, <2>3, <2>4
    DEF ServerInv, ServerTypes, Accounted, FewAnswersStuck
<1>5. OneAtATime'
  <2> SUFFICES ASSUME serial
               PROVE  /\ ~strayed'
                      /\ Len(respQueue') <= 1
                      /\ respQueue' # <<>> => writable' \subseteq {respQueue'[1].asker}
    BY <1>1 DEF OneAtATime
  <2>1. ~strayed /\ Len(respQueue) <= 1 /\ (respQueue # <<>> => c = respQueue[1].asker)
    BY <1>1 DEF ServerInv, OneAtATime
  <2>2. ~strayed'
    BY <1>1, <1>2, <2>1, Zenon
  <2>3. Len(respQueue') = 0
    <3>1. CASE respQueue = <<>>
      BY <1>2, <3>1
    <3>2. CASE respQueue # <<>>
      BY <1>2, <2>1, <3>2
    <3> QED
      BY <3>1, <3>2
  <2>4. respQueue' = <<>>
    BY <1>2, <2>3
  <2> QED
    BY <2>2, <2>3, <2>4
<1> QED
  BY <1>3, <1>4, <1>5 DEF ServerInv

LEMMA ClosedStep ==
  ASSUME ServerInv, NEW c \in Clients, Closed(c)
  PROVE  ServerInv'
<1>1. /\ sessions' = sessions \ {c} /\ writable' = writable \ {c}
      /\ inbox' = [inbox EXCEPT ![c] = <<>>]
      /\ missed' = IF c \in writable THEN missed + 1 ELSE missed
      /\ respQueue' = respQueue /\ crashed' = crashed /\ asked' = asked
      /\ serial' = serial /\ strayed' = strayed
  BY DEF Closed
<1>2. ServerTypes'
  <2>1. inbox' \in [Clients -> Seq(Requests)] /\ \A d \in Clients : inbox'[d] # <<>> => d \in sessions'
    BY <1>1 DEF ServerInv, ServerTypes
  <2> QED
    BY <1>1, <2>1 DEF ServerInv, ServerTypes
<1>3. Accounted'
  <2>1. Waiting' \in SUBSET Waiting
    <3>1. \A d \in Clients : inbox'[d] = IF d = c THEN <<>> ELSE inbox[d]
      BY <1>1 DEF ServerInv, ServerTypes
    <3> QED
      BY <3>1 DEF Waiting
  <2>2. IsFiniteSet(Waiting') /\ Cardinality(Waiting') <= Cardinality(Waiting)
    BY <2>1, FS_Subset DEF ServerInv, Accounted
  <2>3. /\ IsFiniteSet(writable')
        /\ Cardinality(writable') = IF c \in writable THEN Cardinality(writable) - 1
                                    ELSE Cardinality(writable)
    BY <1>1, FS_RemoveElement DEF ServerInv, Accounted
  <2>4. Cardinality(writable) \in Nat /\ Cardinality(Waiting) \in Nat /\ Cardinality(Waiting') \in Nat
    BY <2>2, FS_CardinalityType DEF ServerInv, Accounted
  <2>5. /\ missed + Cardinality(writable) + Cardinality(Waiting) <= asked
        /\ Len(respQueue) <= Cardinality(writable) + missed
        /\ missed \in Nat /\ asked \in Nat /\ Len(respQueue) \in Nat
    BY DEF ServerInv, ServerTypes, Accounted, FewAnswersStuck
  <2> QED
    BY <1>1, <2>2, <2>3, <2>4, <2>5 DEF Accounted, FewAnswersStuck
<1>4. OneAtATime'
  BY <1>1 DEF ServerInv, OneAtATime
<1> QED
  BY <1>2, <1>3, <1>4 DEF ServerInv

\* A page that opens its session asks at once; an open one may ask again.
LEMMA AskStep ==
  ASSUME ServerInv, NEW c \in Clients, NEW q \in Requests, Ask(c, q),
         sessions \subseteq sessions', c \in sessions', sessions' \subseteq Clients
  PROVE  ServerInv'
<1>1. /\ asked < MaxRequests /\ asked' = asked + 1
      /\ inbox' = [inbox EXCEPT ![c] = Append(@, q)]
      /\ writable' = writable /\ respQueue' = respQueue /\ crashed' = crashed
      /\ missed' = missed /\ serial' = serial /\ strayed' = strayed
  BY DEF Ask
<1>2. ServerTypes'
  <2>1. inbox' \in [Clients -> Seq(Requests)] /\ \A d \in Clients : inbox'[d] # <<>> => d \in sessions'
    BY <1>1 DEF ServerInv, ServerTypes
  <2>2. asked' \in 0 .. MaxRequests
    BY <1>1, WebAssumption DEF ServerInv, ServerTypes
  <2> QED
    BY <1>1, <2>1, <2>2 DEF ServerInv, ServerTypes
<1>3. Accounted'
  <2>1. IsFiniteSet(Waiting') /\ Cardinality(Waiting') = Cardinality(Waiting) + 1
    BY <1>1, PutIn
  <2>2. Cardinality(writable) \in Nat /\ Cardinality(Waiting) \in Nat
    BY FS_CardinalityType DEF ServerInv, Accounted
  <2>3. /\ missed + Cardinality(writable) + Cardinality(Waiting) <= asked
        /\ missed \in Nat /\ asked \in Nat
    BY DEF ServerInv, ServerTypes, Accounted
  <2> QED
    BY <1>1, <2>1, <2>2, <2>3 DEF ServerInv, Accounted, FewAnswersStuck
<1>4. OneAtATime'
  BY <1>1 DEF ServerInv, OneAtATime
<1> QED
  BY <1>2, <1>3, <1>4 DEF ServerInv

LEMMA ServerStep ==
  ASSUME ServerInv, [WebNext]_serverVars
  PROVE  ServerInv'
<1>1. CASE UNCHANGED serverVars
  <2>1. Waiting' = Waiting
    BY <1>1 DEF Waiting, serverVars
  <2> QED
    BY <1>1, <2>1 DEF serverVars, ServerInv, ServerTypes, Accounted, OneAtATime, FewAnswersStuck
<1>2. ASSUME NEW c \in Clients, NEW q \in Requests, Established(c, q) \/ Send(c, q)
      PROVE  ServerInv'
  <2>1. Ask(c, q) /\ sessions \subseteq sessions' /\ c \in sessions' /\ sessions' \subseteq Clients
    BY <1>2 DEF Established, Send, ServerInv, ServerTypes
  <2> QED
    BY <2>1, AskStep
<1> QED
  BY <1>1, <1>2, ReceiveStep, WriteableStep, ClosedStep, Zenon DEF WebNext

\* The interfaces: only one that has a sender has frames on it.
EasyInv == CanEasyTypeOK /\ rings = [i \in Ifaces |-> rings[i]]

LEMMA EasyInitial == Init => EasyInv
BY DEF Init, WebInit, CanEasyInit, EasyInv, CanEasyTypeOK

LEMMA EasyInitialize ==
  ASSUME EasyInv, NEW rate, initialize(rate)
  PROVE  EasyInv'
<1>1. /\ createCanHelpers(rate) /\ mSenders' = mSenders \cup mHelpers'
      /\ rings' = [i \in Ifaces |-> IF i \in mHelpers' THEN {} ELSE rings[i]]
  BY DEF initialize
<1>2. /\ link' \in [Ifaces -> Rates \cup {Down}]
      /\ mHelpers' \subseteq Ifaces /\ mHelpers \subseteq mHelpers'
  <2>1. CASE mHelpers # {} /\ UNCHANGED <<mHelpers, link>>
    BY <2>1 DEF EasyInv, CanEasyTypeOK
  <2>2. ASSUME mHelpers = {},
               NEW outcome \in [Ifaces -> [ok : BOOLEAN, link : Rates \cup {Down}]],
               mHelpers' = {i \in Ifaces : outcome[i].ok},
               link' = [i \in Ifaces |-> outcome[i].link]
        PROVE  /\ link' \in [Ifaces -> Rates \cup {Down}]
               /\ mHelpers' \subseteq Ifaces /\ mHelpers \subseteq mHelpers'
    BY <2>2
  <2> QED
    BY <1>1, <2>1, <2>2 DEF createCanHelpers
<1> QED
  BY <1>1, <1>2 DEF EasyInv, CanEasyTypeOK

LEMMA EasySame == EasyInv /\ UNCHANGED easyVars => EasyInv'
BY DEF easyVars, EasyInv, CanEasyTypeOK

LEMMA EasyStep ==
  ASSUME EasyInv, WebNext
  PROVE  EasyInv'
<1>1. ASSUME NEW c \in Clients, Receive(c) PROVE EasyInv'
  <2>1. PICK q : Query(c, q) \/ SetBaud(c, q) \/ Create(c, q) \/ Malformed(q) \/ Mistyped(q)
    BY <1>1, Zenon DEF Receive
  <2>2. CASE Query(c, q) \/ Malformed(q) \/ Mistyped(q)
    BY <2>2, EasySame, Zenon DEF Query, Malformed, Mistyped
  <2>3. CASE SetBaud(c, q)
    BY <2>3, EasySame, EasyInitialize, Zenon DEF SetBaud
  <2>4. CASE Create(c, q)
    <3>1. CASE Reason(q) = "Success"
      <4>1. sendFrame(q)
        BY <2>4, <3>1, Zenon DEF Create
      <4>2. \A i \in Ifaces \ mSenders : rings'[i] = rings[i]
        BY <4>1 DEF sendFrame, EasyInv
      <4>3. rings' = [i \in Ifaces |-> rings'[i]]
        BY <4>1 DEF sendFrame, EasyInv
      <4> QED
        BY <4>1, <4>2, <4>3 DEF sendFrame, EasyInv, CanEasyTypeOK
    <3>2. CASE Reason(q) # "Success"
      <4>1. UNCHANGED easyVars
        BY <2>4, <3>2, Zenon DEF Create
      <4> QED
        BY <4>1, EasySame
    <3> QED
      BY <3>1, <3>2
  <2> QED
    BY <2>1, <2>2, <2>3, <2>4
<1>2. ASSUME NEW c \in Clients, Writeable(c) \/ Closed(c) PROVE EasyInv'
  BY <1>2, EasySame DEF Writeable, Closed
<1>3. ASSUME NEW c \in Clients, NEW q \in Requests, Established(c, q) \/ Send(c, q)
      PROVE  EasyInv'
  BY <1>3, EasySame DEF Established, Send, Ask
<1>4. ASSUME NEW i \in Ifaces, NEW l \in Rates \cup {Down}, OtherProgram(i, l)
      PROVE  EasyInv'
  BY <1>4 DEF OtherProgram, EasyInv, CanEasyTypeOK
<1> QED
  BY <1>1, <1>2, <1>3, <1>4, Zenon DEF WebNext

-----------------------------------------------------------------------------
(***************************************************************************)
(* All three                                                               *)
(***************************************************************************)
Inv ==
  /\ program \in {"gui", "cli", "web"}
  /\ program = "gui" => GuiInv
  /\ program = "cli" => CliInv
  /\ program = "web" => EasyInv
  /\ ServerInv

LEMMA Initially == Init => Inv
BY GuiInitial, CliInitial, EasyInitial, ServerInitial, Zenon DEF Init, Inv

LEMMA Stepwise == Inv /\ [Next]_vars => Inv'
<1> SUFFICES ASSUME Inv, [Next]_vars PROVE Inv'
  OBVIOUS
<1>1. CASE program = "gui" /\ program' = program /\ GuiNext /\ UNCHANGED serverVars
  <2>1. GuiInv'
    BY <1>1, GuiStep DEF Inv
  <2>2. ServerInv'
    BY <1>1, ServerStep DEF Inv
  <2> QED
    BY <1>1, <2>1, <2>2 DEF Inv
<1>2. CASE program = "cli" /\ program' = program /\ CliNext /\ UNCHANGED serverVars
  <2>1. CliInv'
    BY <1>2, CliStep DEF Inv
  <2>2. ServerInv'
    BY <1>2, ServerStep DEF Inv
  <2> QED
    BY <1>2, <2>1, <2>2 DEF Inv
<1>3. CASE program = "web" /\ program' = program /\ WebNext
  <2>1. EasyInv'
    BY <1>3, EasyStep DEF Inv
  <2>2. ServerInv'
    BY <1>3, ServerStep DEF Inv
  <2> QED
    BY <1>3, <2>1, <2>2 DEF Inv
<1>4. CASE UNCHANGED vars
  <2>1. /\ program' = program /\ object' = object /\ framePeriods' = framePeriods
        /\ rings' = rings /\ framesToSend' = framesToSend /\ moved' = moved
        /\ fms1Frames' = fms1Frames /\ ttsPeriod' = ttsPeriod /\ running' = running
        /\ UNCHANGED easyVars /\ UNCHANGED serverVars
    BY <1>4 DEF vars, onlyGui, onlyCli, onlyWeb, easyVars
  <2>2. GuiInv => GuiInv'
    BY <2>1 DEF GuiInv, GuiTypeOK, GuiRing, Listed, Current
  <2>3. CliInv => CliInv'
    BY <2>1 DEF CliInv, CliData, CliRing, Current
  <2>4. EasyInv => EasyInv'
    BY <2>1, EasySame
  <2>5. ServerInv'
    BY <2>1, ServerStep DEF Inv
  <2> QED
    BY <2>1, <2>2, <2>3, <2>4, <2>5, Zenon DEF Inv
<1> QED
  BY <1>1, <1>2, <1>3, <1>4, Zenon DEF Next, onlyWeb

LEMMA Invariant == Spec => []Inv
BY Initially, Stepwise, PTL DEF Spec

(***************************************************************************)
(* Every variable keeps its type, whichever program runs: also that the    *)
(* page lists no frame twice, that every ring of j1939Sender belongs to a  *)
(* frame there is, that a ring with period 0 has several CAN frames, and   *)
(* that no interface without a sender has frames.                          *)
(***************************************************************************)
THEOREM TypesHold == Spec => []TypeOK
<1>1. Inv => TypeOK
  <2> SUFFICES ASSUME Inv PROVE TypeOK
    OBVIOUS
  <2>1. program = "gui" => GuiTypeOK
    BY DEF Inv, GuiInv
  <2>2. program = "cli" => CliTypeOK
    <3>1. CliInv => CliTypeOK
      BY J1939SenderAssumption DEF CliInv, CliData, CliRing, CliTypeOK
    <3> QED
      BY <3>1 DEF Inv
  <2>3. program = "web" => WebTypeOK
    <3>1. missed \in 0 .. asked
      <4>1. Cardinality(writable) \in Nat /\ Cardinality(Waiting) \in Nat
        BY FS_CardinalityType DEF Inv, ServerInv, Accounted
      <4> QED
        BY <4>1 DEF Inv, ServerInv, ServerTypes, Accounted
    <3>2. {crashed, serial, strayed} \subseteq BOOLEAN
      BY Zenon DEF Inv, ServerInv, ServerTypes
    <3>3. \A k \in 1 .. Len(respQueue) : respQueue[k].asker \in Clients
      <4>1. \A s \in Seq(Responses) : \A k \in 1 .. Len(s) : s[k] \in Responses
        OBVIOUS
      <4>2. \A x \in Responses : x.asker \in Clients
        BY DEF Responses
      <4> QED
        BY <4>1, <4>2, Zenon DEF Inv, ServerInv, ServerTypes
    <3>4. \A c \in Clients : inbox[c] \in Seq(Requests)
      BY DEF Inv, ServerInv, ServerTypes
    <3> QED
      BY <3>1, <3>2, <3>3, <3>4, Zenon DEF Inv, EasyInv, ServerInv, ServerTypes, WebTypeOK
  <2> QED
    BY <2>1, <2>2, <2>3, Zenon DEF Inv, TypeOK
<1> QED
  BY <1>1, Invariant, PTL

(***************************************************************************)
(* Whatever the page sets, switches, deletes and moves away and back, a    *)
(* frame of the GUI backend that is sent under the identifiers it has is   *)
(* sent with its present data and period.                                  *)
(***************************************************************************)
THEOREM SenderIsRefreshed == Spec => []RingFollowsOwner
<1>1. Inv => RingFollowsOwner
  BY DEF Inv, GuiInv, GuiRing, RingFollowsOwner
<1> QED
  BY <1>1, Invariant, PTL

(***************************************************************************)
(* What the page of the GUI backend deletes is off every bus, unless its   *)
(* identifiers were changed while it was being sent.                       *)
(***************************************************************************)
THEOREM DeleteSilences == Spec => []DeletedIsSilent
<1>1. Inv => DeletedIsSilent
  BY DEF Inv, GuiInv, GuiRing, DeletedIsSilent
<1> QED
  BY <1>1, Invariant, PTL

(***************************************************************************)
(* The frames of j1939Sender that have a period, and its tell tales, are   *)
(* sent with what they hold now.                                           *)
(***************************************************************************)
THEOREM CommandsReachSender == Spec => []SentIsCurrent
<1>1. Inv => SentIsCurrent
  BY DEF Inv, CliInv, CliRing, SentIsCurrent
<1> QED
  BY <1>1, Invariant, PTL

(***************************************************************************)
(* The answers of the web server that no callback will send are no more    *)
(* than the callbacks libwebsockets merged or dropped.                     *)
(***************************************************************************)
THEOREM StuckAnswersBounded == Spec => []FewAnswersStuck
<1>1. Inv => FewAnswersStuck
  BY DEF Inv, ServerInv, Accounted
<1> QED
  BY <1>1, Invariant, PTL

(***************************************************************************)
(* While requests to the web server never overlap, each answer goes to the *)
(* page that asked, although the queue is shared.                          *)
(***************************************************************************)
THEOREM SerialAnswersFindAsker == Spec => []AnswersFindAsker
<1>1. Inv => AnswersFindAsker
  BY DEF Inv, ServerInv, OneAtATime, AnswersFindAsker
<1> QED
  BY <1>1, Invariant, PTL
=============================================================================

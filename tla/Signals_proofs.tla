--------------------------- MODULE Signals_proofs ---------------------------
(***************************************************************************)
(* Proofs for the GUI backend and the database behind it: what a window    *)
(* shows of a history that grows while the window is computed, what the    *)
(* histories keep of the frames of the bus, and the types of the state.    *)
(***************************************************************************)
EXTENDS Signals, WellFoundedInduction, TLAPS

-----------------------------------------------------------------------------
(***************************************************************************)
(* Time stamps                                                             *)
(***************************************************************************)
LEMMA MulLess ==
  ASSUME NEW a \in Int, NEW b \in Int, NEW m \in Nat, a < b
  PROVE  a * m + m <= b * m
OBVIOUS

LEMMA MulAdd ==
  ASSUME NEW a \in Int, NEW b \in Int, NEW m \in Nat
  PROVE  (a + b) * m = a * m + b * m
OBVIOUS

LEMMA DivMod ==
  ASSUME NEW t \in Nat, NEW m \in Nat \ {0}
  PROVE  t = m * (t \div m) + (t % m)
OBVIOUS

\* The microseconds of a sum may be a whole second.
Normal(a) == a \in TimeStamps /\ a.usec < MICROS
Near(a) == a \in TimeStamps /\ a.usec <= MICROS

LEMMA MicrosType ==
  ASSUME NEW a \in TimeStamps
  PROVE  Micros(a) \in Nat
BY TimeAssumption DEF Micros, TimeStamps

LEMMA NormalNear == \A a : Normal(a) => Near(a)
BY TimeAssumption DEF Normal, Near, TimeStamps

LEMMA AtTime ==
  ASSUME NEW t \in Nat
  PROVE  Normal(At(t)) /\ Micros(At(t)) = t
<1>1. t \div MICROS \in Nat /\ t % MICROS \in 0 .. MICROS - 1
  BY TimeAssumption
<1>2. t = MICROS * (t \div MICROS) + (t % MICROS)
  BY TimeAssumption, DivMod
<1> QED
  BY <1>1, <1>2, TimeAssumption DEF At, Normal, TimeStamps, Micros

LEMMA MillisNormal ==
  ASSUME NEW ms \in Nat
  PROVE  Normal(OfMillis(ms))
<1> DEFINE r == ms % MILLIS
           c == MICROS \div MILLIS
<1>1. r \in 0 .. MILLIS - 1 /\ ms \div MILLIS \in Nat /\ c \in Nat
  BY TimeAssumption
<1>2. MICROS = MILLIS * c + (MICROS % MILLIS)
  BY TimeAssumption, DivMod
<1>3. MICROS = MILLIS * c
  BY <1>1, <1>2, TimeAssumption
<1> HIDE DEF r, c
<1>4. c # 0
  BY <1>1, <1>3, TimeAssumption
<1>5. r * c + c <= MILLIS * c
  BY <1>1, MulLess, TimeAssumption
<1>6. r * c \in Nat /\ r * c < MICROS
  BY <1>1, <1>3, <1>4, <1>5, TimeAssumption
<1>7. OfMillis(ms) = [sec |-> ms \div MILLIS, usec |-> r * c]
  BY DEF OfMillis, r, c
<1> QED
  BY <1>1, <1>6, <1>7 DEF Normal, TimeStamps

LEMMA PlusTime ==
  ASSUME NEW a, NEW b, Near(a), Normal(b)
  PROVE  Near(Plus(a, b)) /\ Micros(Plus(a, b)) = Micros(a) + Micros(b)
<1>1. /\ a.sec \in Nat /\ a.usec \in Nat /\ a.usec <= MICROS
      /\ b.sec \in Nat /\ b.usec \in Nat /\ b.usec < MICROS /\ MICROS \in Nat \ {0}
  BY TimeAssumption DEF Near, Normal, TimeStamps
<1>2. (a.sec + b.sec) * MICROS = a.sec * MICROS + b.sec * MICROS
  BY <1>1, MulAdd
<1>3. (a.sec + b.sec + 1) * MICROS = (a.sec + b.sec) * MICROS + 1 * MICROS
  BY <1>1, MulAdd
<1>4. PICK x, y : x = a.sec * MICROS /\ y = b.sec * MICROS
  OBVIOUS
<1>5. x \in Nat /\ y \in Nat /\ Micros(a) = x + a.usec /\ Micros(b) = y + b.usec
  BY <1>1, <1>4 DEF Micros
<1>6. CASE a.usec + b.usec > MICROS
  <2>1. Plus(a, b) = [sec |-> a.sec + b.sec + 1, usec |-> a.usec + b.usec - MICROS]
    BY <1>1, <1>6 DEF Plus
  <2> QED
    BY <1>1, <1>2, <1>3, <1>4, <1>5, <1>6, <2>1 DEF Near, TimeStamps, Micros
<1>7. CASE ~(a.usec + b.usec > MICROS)
  <2>1. Plus(a, b) = [sec |-> a.sec + b.sec, usec |-> a.usec + b.usec]
    BY <1>7 DEF Plus
  <2> QED
    BY <1>1, <1>2, <1>4, <1>5, <1>7, <2>1 DEF Near, TimeStamps, Micros
<1> QED
  BY <1>6, <1>7

\* Nothing is before zero, also where the seconds have to be borrowed from.
LEMMA MinusTime ==
  ASSUME NEW a, NEW b, Near(a), Normal(b)
  PROVE  /\ Near(Minus(a, b))
         /\ Micros(Minus(a, b)) = IF Micros(b) <= Micros(a) THEN Micros(a) - Micros(b) ELSE 0
<1>1. /\ a.sec \in Nat /\ a.usec \in Nat /\ a.usec <= MICROS
      /\ b.sec \in Nat /\ b.usec \in Nat /\ b.usec < MICROS /\ MICROS \in Nat \ {0}
  BY TimeAssumption DEF Near, Normal, TimeStamps
<1>2. PICK x, y : x = a.sec * MICROS /\ y = b.sec * MICROS
  OBVIOUS
<1>3. x \in Nat /\ y \in Nat /\ Micros(a) = x + a.usec /\ Micros(b) = y + b.usec
  BY <1>1, <1>2 DEF Micros
<1>4. /\ a.sec < b.sec => x + MICROS <= y
      /\ b.sec < a.sec => y + MICROS <= x
      /\ a.sec = b.sec => x = y
  BY <1>1, <1>2, MulLess
<1>5. Zero \in TimeStamps /\ Near(Zero) /\ Micros(Zero) = 0
  BY <1>1 DEF Zero, TimeStamps, Near, Micros
<1>6. CASE b.usec > a.usec
  <2>1. CASE b.sec >= a.sec
    <3>1. Minus(a, b) = Zero
      BY <1>6, <2>1 DEF Minus
    <3>2. Micros(a) < Micros(b)
      BY <1>1, <1>3, <1>4, <1>6, <2>1
    <3> QED
      BY <1>1, <1>3, <1>5, <3>1, <3>2
  <2>2. CASE b.sec < a.sec
    <3>1. Minus(a, b) = [sec |-> a.sec - 1 - b.sec, usec |-> a.usec + MICROS - b.usec]
      BY <1>1, <1>6, <2>2 DEF Minus
    <3>2. a.sec - 1 - b.sec \in Nat /\ a.usec + MICROS - b.usec \in 0 .. MICROS
      BY <1>1, <1>6, <2>2
    <3>3. (a.sec - 1 - b.sec) * MICROS = x - MICROS - y
      <4>1. ((a.sec - 1 - b.sec) + (b.sec + 1)) * MICROS
              = (a.sec - 1 - b.sec) * MICROS + (b.sec + 1) * MICROS
        BY <1>1, <3>2, MulAdd
      <4>2. (b.sec + 1) * MICROS = b.sec * MICROS + 1 * MICROS
        BY <1>1, MulAdd
      <4>3. (a.sec - 1 - b.sec) + (b.sec + 1) = a.sec /\ 1 * MICROS = MICROS
        BY <1>1
      <4>4. PICK z : z = (a.sec - 1 - b.sec) * MICROS
        OBVIOUS
      <4>5. z \in Int
        BY <1>1, <3>2, <4>4
      <4> QED
        BY <1>1, <1>2, <1>3, <4>1, <4>2, <4>3, <4>4, <4>5
    <3>4. Near(Minus(a, b))
      BY <3>1, <3>2 DEF Near, TimeStamps
    <3>5. Micros(Minus(a, b)) = x - MICROS - y + (a.usec + MICROS - b.usec)
      BY <3>1, <3>3 DEF Micros
    <3> QED
      BY <1>1, <1>3, <1>4, <1>6, <2>2, <3>4, <3>5
  <2> QED
    BY <1>1, <2>1, <2>2
<1>7. CASE ~(b.usec > a.usec)
  <2>1. CASE b.sec > a.sec
    <3>1. Minus(a, b) = Zero
      BY <1>7, <2>1 DEF Minus
    <3>2. Micros(a) <= Micros(b)
      BY <1>1, <1>3, <1>4, <2>1
    <3> QED
      BY <1>1, <1>3, <1>5, <3>1, <3>2
  <2>2. CASE b.sec <= a.sec
    <3>1. Minus(a, b) = [sec |-> a.sec - b.sec, usec |-> a.usec - b.usec]
      BY <1>1, <1>7, <2>2 DEF Minus
    <3>2. a.sec - b.sec \in Nat /\ a.usec - b.usec \in 0 .. MICROS
      BY <1>1, <1>7, <2>2
    <3>3. (a.sec - b.sec) * MICROS = x - y
      <4>1. ((a.sec - b.sec) + b.sec) * MICROS = (a.sec - b.sec) * MICROS + b.sec * MICROS
        BY <1>1, <3>2, MulAdd
      <4>2. (a.sec - b.sec) + b.sec = a.sec
        BY <1>1
      <4>3. PICK z : z = (a.sec - b.sec) * MICROS
        OBVIOUS
      <4>4. z \in Int
        BY <1>1, <3>2, <4>3
      <4> QED
        BY <1>2, <1>3, <4>1, <4>2, <4>3, <4>4
    <3>4. Near(Minus(a, b))
      BY <3>1, <3>2 DEF Near, TimeStamps
    <3>5. Micros(Minus(a, b)) = x - y + (a.usec - b.usec)
      BY <3>1, <3>3 DEF Micros
    <3> QED
      BY <1>1, <1>3, <1>4, <1>7, <2>2, <3>4, <3>5
  <2> QED
    BY <1>1, <2>1, <2>2
<1> QED
  BY <1>6, <1>7

\* Comparing the seconds first is right up to what is left of a second.
LEMMA CompareTime ==
  ASSUME NEW s, NEW a, Normal(s), Near(a)
  PROVE  /\ LessEq(s, a) => Micros(s) <= Micros(a)
         /\ ~LessEq(s, a) => Micros(a) <= Micros(s)
<1>1. /\ a.sec \in Nat /\ a.usec \in Nat /\ a.usec <= MICROS
      /\ s.sec \in Nat /\ s.usec \in Nat /\ s.usec < MICROS /\ MICROS \in Nat \ {0}
  BY TimeAssumption DEF Near, Normal, TimeStamps
<1>2. PICK x, y : x = a.sec * MICROS /\ y = s.sec * MICROS
  OBVIOUS
<1>3. x \in Nat /\ y \in Nat /\ Micros(a) = x + a.usec /\ Micros(s) = y + s.usec
  BY <1>1, <1>2 DEF Micros
<1>4. /\ a.sec < s.sec => x + MICROS <= y
      /\ s.sec < a.sec => y + MICROS <= x
      /\ a.sec = s.sec => x = y
  BY <1>1, <1>2, MulLess
<1> QED
  BY <1>1, <1>3, <1>4 DEF LessEq, Less

-----------------------------------------------------------------------------
(***************************************************************************)
(* One history                                                             *)
(***************************************************************************)
IsSeq(s) == \E S : s \in Seq(S)

\* The samples carry the clock of some moment between the start and now, in order.
HistoryOK(h, now) ==
  /\ DOMAIN h = {"spec", "samples"}
  /\ IsSeq(h.samples)
  /\ Len(h.samples) <= CAPACITY
  /\ \A i \in 1 .. Len(h.samples) : /\ Normal(h.samples[i].time)
                                    /\ StartUp <= Micros(h.samples[i].time)
                                    /\ Micros(h.samples[i].time) <= now
  /\ \A i, j \in 1 .. Len(h.samples) :
       i <= j => Micros(h.samples[i].time) <= Micros(h.samples[j].time)

\* pos is where a window at time a has to be, as far as n samples are concerned.
RightPos(h, pos, a, n) ==
  /\ pos \in 1 .. Len(h.samples)
  /\ pos = 1 \/ Micros(h.samples[pos].time) <= Micros(a)
  /\ \A j \in pos + 1 .. n : Micros(a) <= Micros(h.samples[j].time)

LEMMA SeqFacts ==
  ASSUME NEW s, IsSeq(s)
  PROVE  /\ Len(s) \in Nat /\ DOMAIN s = 1 .. Len(s)
         /\ \A e : /\ IsSeq(Append(s, e)) /\ Len(Append(s, e)) = Len(s) + 1
                   /\ Append(s, e)[Len(s) + 1] = e
                   /\ \A i \in 1 .. Len(s) : Append(s, e)[i] = s[i]
<1>1. PICK S : s \in Seq(S)
  BY DEF IsSeq
<1>2. ASSUME NEW e
      PROVE  /\ IsSeq(Append(s, e)) /\ Len(Append(s, e)) = Len(s) + 1
             /\ Append(s, e)[Len(s) + 1] = e
             /\ \A i \in 1 .. Len(s) : Append(s, e)[i] = s[i]
  <2>1. PICK T : T = S \cup {e}
    OBVIOUS
  <2>2. s \in Seq(T) /\ e \in T
    BY <1>1, <2>1
  <2>3. Append(s, e) \in Seq(T)
    BY <2>2
  <2> QED
    BY <2>2, <2>3 DEF IsSeq
<1> QED
  BY <1>1, <1>2

\* A set of natural numbers has a least element, one of positions a greatest.
LEMMA Least ==
  ASSUME NEW S \in SUBSET Nat, S # {}
  PROVE  \E n \in S : \A m \in S : n <= m
<1> DEFINE R == OpToRel(<, Nat)
<1>1. IsWellFoundedOn(R, Nat)
  BY NatLessThanWellFounded
<1>2. PICK x \in S : \A y \in S : ~(<<y, x>> \in R)
  <2> HIDE DEF R
  <2> QED
    BY <1>1, WFMin
<1>3. \A y \in S : y < x => <<y, x>> \in R
  BY DEF OpToRel
<1>4. \A y \in S : ~(y < x)
  <2> HIDE DEF R
  <2> QED
    BY <1>2, <1>3
<1> QED
  BY <1>4

LEMMA Greatest ==
  ASSUME NEW n \in Nat, NEW S \in SUBSET (1 .. n), S # {}
  PROVE  \E i \in S : \A j \in S : j <= i
<1> DEFINE D == {n - i : i \in S}
<1>1. D \in SUBSET Nat
  <2>1. \A i \in S : n - i \in Nat
    OBVIOUS
  <2> QED
    BY <2>1, Zenon
<1>2. D # {}
  BY Zenon
<1>3. PICK d \in D : \A e \in D : d <= e
  BY <1>1, <1>2, Least
<1>4. PICK i \in S : d = n - i
  OBVIOUS
<1>5. \A j \in S : d <= n - j
  BY <1>3
<1> QED
  BY <1>4, <1>5

\* Where a window begins.
LEMMA BeginPosRight ==
  ASSUME NEW h, NEW now, HistoryOK(h, now), h.samples # <<>>, NEW a, Near(a)
  PROVE  RightPos(h, BeginPos(h, a), a, Len(h.samples))
<1> DEFINE n == Len(h.samples)
           notLater == {i \in DOMAIN h.samples : LessEq(h.samples[i].time, a)}
           last == CHOOSE i \in notLater : \A j \in notLater : j <= i
<1>1. n \in Nat /\ DOMAIN h.samples = 1 .. n /\ n # 0
  BY SeqFacts DEF HistoryOK, IsSeq
<1>2. \A i \in 1 .. n : Normal(h.samples[i].time)
  BY DEF HistoryOK
<1>3. ASSUME NEW j \in 1 .. n, j \notin notLater
      PROVE  Micros(a) <= Micros(h.samples[j].time)
  BY <1>1, <1>2, <1>3, CompareTime
<1>4. CASE notLater = {}
  <2>1. BeginPos(h, a) = 1
    BY <1>4 DEF BeginPos
  <2>2. \A j \in 1 .. n : Micros(a) <= Micros(h.samples[j].time)
    BY <1>3, <1>4
  <2> HIDE DEF notLater
  <2> QED
    BY <1>1, <2>1, <2>2 DEF RightPos
<1>5. CASE notLater # {}
  <2>1. BeginPos(h, a) = last
    BY <1>5 DEF BeginPos
  <2>2. \E i \in notLater : \A j \in notLater : j <= i
    <3>1. notLater \in SUBSET (1 .. n)
      BY <1>1
    <3> HIDE DEF notLater, n
    <3> QED
      BY <1>1, <1>5, <3>1, Greatest
  <2>3. last \in notLater /\ \A j \in notLater : j <= last
    <3> HIDE DEF notLater
    <3> QED
      BY <2>2
  <2>4. PICK l : l = last
    OBVIOUS
  <2>5. l \in 1 .. n /\ LessEq(h.samples[l].time, a)
    BY <1>1, <2>3, <2>4
  <2>6. Micros(h.samples[l].time) <= Micros(a)
    BY <1>2, <2>5, CompareTime
  <2>7. \A j \in l + 1 .. n : j \notin notLater /\ j \in 1 .. n
    <3>1. \A j \in notLater : j <= l
      BY <2>3, <2>4
    <3> HIDE DEF notLater
    <3> QED
      BY <1>1, <2>5, <3>1
  <2>8. \A j \in l + 1 .. n : Micros(a) <= Micros(h.samples[j].time)
    <3> HIDE DEF notLater
    <3> QED
      BY <1>3, <2>7
  <2>9. BeginPos(h, a) = l
    BY <2>1, <2>4
  <2> QED
    BY <2>5, <2>6, <2>8, <2>9 DEF RightPos
<1> QED
  BY <1>4, <1>5

\* How it follows the time.
LEMMA NextPosRight ==
  ASSUME NEW h, NEW now, HistoryOK(h, now), NEW a, NEW b, Near(a), Near(b),
         Micros(a) <= Micros(b), NEW pos \in 1 .. Len(h.samples),
         pos = 1 \/ Micros(h.samples[pos].time) <= Micros(a)
  PROVE  RightPos(h, NextPos(h, pos, b), b, Len(h.samples))
<1> DEFINE n == Len(h.samples)
           reached == {i \in pos + 1 .. n :
                         \A j \in pos + 1 .. i : LessEq(h.samples[j].time, b)}
           last == CHOOSE i \in reached : \A j \in reached : j <= i
<1>1. n \in Nat /\ pos \in 1 .. n
  BY SeqFacts DEF HistoryOK
<1>2. /\ \A i \in 1 .. n : Normal(h.samples[i].time) /\ Micros(h.samples[i].time) \in Nat
      /\ Micros(a) \in Nat /\ Micros(b) \in Nat
  BY MicrosType DEF HistoryOK, Normal, Near
\* Behind the last one that is reached there is one that is later, and so are the others.
<1>3. ASSUME NEW p \in pos .. n, \A j \in pos + 1 .. p : LessEq(h.samples[j].time, b),
             p + 1 \notin reached
      PROVE  \A j \in p + 1 .. n : Micros(b) <= Micros(h.samples[j].time)
  <2> SUFFICES ASSUME NEW j \in p + 1 .. n PROVE Micros(b) <= Micros(h.samples[j].time)
    OBVIOUS
  <2>1. p + 1 \in pos + 1 .. n /\ p + 1 \in 1 .. n /\ j \in 1 .. n /\ p + 1 <= j
    BY <1>1
  <2>2. PICK i \in pos + 1 .. p + 1 : ~LessEq(h.samples[i].time, b)
    BY <1>3, <2>1
  <2>3. i = p + 1
    BY <1>1, <1>3, <2>1, <2>2
  <2>4. Micros(b) <= Micros(h.samples[p + 1].time)
    BY <1>2, <2>1, <2>2, <2>3, CompareTime
  <2>5. Micros(h.samples[p + 1].time) <= Micros(h.samples[j].time)
    BY <2>1 DEF HistoryOK
  <2>6. PICK x, y, z : /\ x = Micros(b) /\ y = Micros(h.samples[p + 1].time)
                       /\ z = Micros(h.samples[j].time)
    OBVIOUS
  <2>7. x \in Nat /\ y \in Nat /\ z \in Nat
    BY <1>2, <2>1, <2>6
  <2> QED
    BY <2>4, <2>5, <2>6, <2>7
<1>4. CASE reached = {}
  <2>1. NextPos(h, pos, b) = pos
    BY <1>4 DEF NextPos
  <2>2. \A j \in pos + 1 .. n : Micros(b) <= Micros(h.samples[j].time)
    <3>1. \A j \in pos + 1 .. pos : LessEq(h.samples[j].time, b)
      BY <1>1
    <3>2. pos + 1 \notin reached /\ pos \in pos .. n
      BY <1>1, <1>4
    <3> HIDE DEF reached
    <3> QED
      BY <1>3, <3>1, <3>2
  <2>3. pos = 1 \/ Micros(h.samples[pos].time) <= Micros(b)
    BY <1>1, <1>2
  <2> QED
    BY <1>1, <2>1, <2>2, <2>3 DEF RightPos
<1>5. CASE reached # {}
  <2>1. NextPos(h, pos, b) = last
    BY <1>5 DEF NextPos
  <2>2. \E i \in reached : \A j \in reached : j <= i
    <3>1. reached \in SUBSET (1 .. n)
      BY <1>1
    <3> HIDE DEF reached, n
    <3> QED
      BY <1>1, <1>5, <3>1, Greatest
  <2>3. last \in reached /\ \A j \in reached : j <= last
    <3> HIDE DEF reached
    <3> QED
      BY <2>2
  <2>4. PICK l : l = last
    OBVIOUS
  <2>5. l \in pos + 1 .. n /\ \A j \in pos + 1 .. l : LessEq(h.samples[j].time, b)
    BY <2>3, <2>4
  <2>6. l \in pos .. n /\ l \in 1 .. n /\ l \in pos + 1 .. l
    BY <1>1, <2>5
  <2>7. l + 1 \notin reached
    <3>1. \A j \in reached : j <= l
      BY <2>3, <2>4
    <3> HIDE DEF reached
    <3> QED
      BY <1>1, <2>6, <3>1
  <2>8. Micros(h.samples[l].time) <= Micros(b)
    BY <1>2, <2>5, <2>6, CompareTime
  <2>9. \A j \in l + 1 .. n : Micros(b) <= Micros(h.samples[j].time)
    <3> HIDE DEF reached
    <3> QED
      BY <1>3, <2>5, <2>6, <2>7
  <2>10. NextPos(h, pos, b) = l
    BY <2>1, <2>4
  <2> QED
    BY <2>6, <2>8, <2>9, <2>10 DEF RightPos
<1> QED
  BY <1>4, <1>5

-----------------------------------------------------------------------------
(***************************************************************************)
(* Histories that grow                                                     *)
(***************************************************************************)
\* The samples r are the samples s and maybe more.
Grown(s, r) ==
  /\ IsSeq(s) /\ IsSeq(r)
  /\ Len(s) <= Len(r)
  /\ \A i \in 1 .. Len(s) : r[i] = s[i]

\* What PointsShowHistory says of one point.
PointShown(s, had, p) ==
  LET t == Micros(p.x) + StartUp
  IN \E i \in DOMAIN s : /\ s[i].value = p.value
                         /\ i = 1 \/ Micros(s[i].time) <= t
                         /\ \A j \in i + 1 .. had : Micros(s[j].time) >= t

\* A point that was right stays right: the samples it is measured by do not change.
LEMMA ShownGrows ==
  ASSUME NEW s, NEW r, Grown(s, r), NEW had \in Nat, had <= Len(s), NEW p,
         PointShown(s, had, p)
  PROVE  PointShown(r, had, p)
<1> DEFINE t == Micros(p.x) + StartUp
<1>1. /\ Len(s) \in Nat /\ DOMAIN s = 1 .. Len(s)
      /\ Len(r) \in Nat /\ DOMAIN r = 1 .. Len(r)
      /\ Len(s) <= Len(r)
      /\ \A i \in 1 .. Len(s) : r[i] = s[i]
  BY SeqFacts DEF Grown
<1>2. PICK i \in DOMAIN s : /\ s[i].value = p.value
                            /\ i = 1 \/ Micros(s[i].time) <= t
                            /\ \A j \in i + 1 .. had : Micros(s[j].time) >= t
  BY DEF PointShown
<1> HIDE DEF t
<1>3. i \in DOMAIN r /\ r[i] = s[i]
  BY <1>1, <1>2
<1>4. \A j \in i + 1 .. had : r[j] = s[j]
  BY <1>1, <1>2
<1>5. /\ r[i].value = p.value
      /\ i = 1 \/ Micros(r[i].time) <= t
      /\ \A j \in i + 1 .. had : Micros(r[j].time) >= t
  BY <1>2, <1>3, <1>4
<1> QED
  BY <1>3, <1>5 DEF PointShown, t

\* What a window at the right position shows.
LEMMA NewPointShown ==
  ASSUME NEW h, NEW now, HistoryOK(h, now), NEW a, Near(a), NEW had \in Nat,
         had <= Len(h.samples), NEW pos, RightPos(h, pos, a, had)
  PROVE  PointShown(h.samples, had, [x     |-> Minus(a, startUpTime),
                                     value |-> h.samples[pos].value])
<1> DEFINE s == h.samples
           p == [x |-> Minus(a, startUpTime), value |-> h.samples[pos].value]
           t == Micros(p.x) + StartUp
<1>1. StartUp \in Nat
  BY GraphAssumption
<1>2. Normal(startUpTime) /\ Micros(startUpTime) = StartUp
  BY <1>1, AtTime DEF startUpTime
<1>3. Micros(a) \in Nat
  BY MicrosType DEF Near
<1>4. Micros(p.x) = IF StartUp <= Micros(a) THEN Micros(a) - StartUp ELSE 0
  BY <1>2, MinusTime
<1>5. Micros(a) <= t /\ t \in Nat /\ (t = Micros(a) \/ t = StartUp)
  BY <1>1, <1>3, <1>4
<1>6. DOMAIN s = 1 .. Len(s) /\ Len(s) \in Nat
  BY SeqFacts DEF HistoryOK
<1>7. \A i \in 1 .. Len(s) : Micros(s[i].time) \in Nat /\ StartUp <= Micros(s[i].time)
  BY MicrosType DEF HistoryOK, Normal
<1>8. p.value = s[pos].value /\ pos \in 1 .. Len(s)
  BY DEF RightPos
<1>9. pos = 1 \/ Micros(s[pos].time) <= Micros(a)
  BY DEF RightPos
<1>10. \A j \in pos + 1 .. had : j \in 1 .. Len(s) /\ Micros(a) <= Micros(s[j].time)
  BY <1>6, <1>8 DEF RightPos
<1> HIDE DEF t, s, p
<1>11. pos = 1 \/ Micros(s[pos].time) <= t
  BY <1>3, <1>5, <1>7, <1>8, <1>9
<1>12. \A j \in pos + 1 .. had : Micros(s[j].time) >= t
  BY <1>1, <1>3, <1>5, <1>7, <1>10
<1>13. PointShown(s, had, p)
  BY <1>6, <1>8, <1>11, <1>12 DEF PointShown, t
<1> QED
  BY <1>13 DEF s, p

\* The time of a sample is taken before it is added, and none is added in between.
LEMMA AddSampleOK ==
  ASSUME NEW h, NEW now \in Nat, HistoryOK(h, now), NEW t \in Nat, StartUp <= t, t <= now,
         \A i \in 1 .. Len(h.samples) : Micros(h.samples[i].time) <= t, NEW s
  PROVE  /\ HistoryOK(addSample(h, At(t), s), now)
         /\ Grown(h.samples, addSample(h, At(t), s).samples)
<1>1. /\ DOMAIN h = {"spec", "samples"}
      /\ IsSeq(h.samples) /\ Len(h.samples) <= CAPACITY
      /\ Len(h.samples) \in Nat /\ CAPACITY \in Nat
  BY SeqFacts, CapacityAssumption DEF HistoryOK
<1>2. Grown(h.samples, h.samples)
  BY <1>1 DEF Grown
<1>3. CASE addSample(h, At(t), s) = h
  BY <1>2, <1>3
<1>4. CASE addSample(h, At(t), s) = [h EXCEPT !.spec = s.type]
  <2>1. PICK n : n = [h EXCEPT !.spec = s.type]
    OBVIOUS
  <2>2. DOMAIN n = {"spec", "samples"} /\ n.samples = h.samples
    BY <1>1, <2>1
  <2>3. HistoryOK(n, now)
    BY <2>2 DEF HistoryOK
  <2> QED
    BY <1>2, <1>4, <2>1, <2>2, <2>3
<1>5. CASE /\ Len(h.samples) # CAPACITY
           /\ addSample(h, At(t), s)
                = [spec |-> s.type, samples |-> Append(h.samples, [time |-> At(t), value |-> s.value])]
  <2>1. PICK e : e = [time |-> At(t), value |-> s.value]
    OBVIOUS
  <2>2. PICK r : r = Append(h.samples, e)
    OBVIOUS
  <2>3. PICK n : n = [spec |-> s.type, samples |-> r]
    OBVIOUS
  <2>4. /\ IsSeq(r) /\ Len(r) = Len(h.samples) + 1 /\ r[Len(h.samples) + 1] = e
        /\ \A i \in 1 .. Len(h.samples) : r[i] = h.samples[i]
    BY <1>1, <2>2, SeqFacts
  <2>5. e.time = At(t)
    BY <2>1
  <2>6. Normal(e.time) /\ Micros(e.time) = t
    BY <2>5, AtTime
  <2>7. DOMAIN n = {"spec", "samples"} /\ n.samples = r
    BY <2>3
  <2>8. Len(r) <= CAPACITY
    BY <1>1, <1>5, <2>4
  <2>9. \A i \in 1 .. Len(r) : i \in 1 .. Len(h.samples) \/ r[i] = e
    BY <1>1, <2>4
  <2>10. \A i \in 1 .. Len(h.samples) : /\ Normal(r[i].time) /\ StartUp <= Micros(r[i].time)
                                        /\ Micros(r[i].time) <= now /\ Micros(r[i].time) <= t
    BY <2>4 DEF HistoryOK
  <2>11. \A i \in 1 .. Len(r) : /\ Normal(r[i].time) /\ StartUp <= Micros(r[i].time)
                                /\ Micros(r[i].time) <= now /\ Micros(r[i].time) <= t
    BY <2>6, <2>9, <2>10
  <2>12. ASSUME NEW i \in 1 .. Len(r), NEW j \in 1 .. Len(r), i <= j
         PROVE  Micros(r[i].time) <= Micros(r[j].time)
    <3>1. CASE r[j] = e
      BY <2>6, <2>11, <3>1
    <3>2. CASE j \in 1 .. Len(h.samples)
      <4>1. i \in 1 .. Len(h.samples)
        BY <1>1, <2>12, <3>2
      <4>2. Micros(h.samples[i].time) <= Micros(h.samples[j].time)
        BY <2>12, <3>2, <4>1 DEF HistoryOK
      <4> QED
        BY <2>4, <3>2, <4>1, <4>2
    <3> QED
      BY <2>9, <3>1, <3>2
  <2>13. HistoryOK(n, now)
    BY <2>4, <2>7, <2>8, <2>11, <2>12 DEF HistoryOK
  <2>14. Grown(h.samples, r)
    BY <1>1, <2>4 DEF Grown
  <2> QED
    BY <1>5, <2>1, <2>2, <2>3, <2>7, <2>13, <2>14
<1> QED
  BY <1>3, <1>4, <1>5 DEF addSample

-----------------------------------------------------------------------------
(***************************************************************************)
(* The invariant                                                           *)
(***************************************************************************)
HistoriesOK(m, now) == \A k \in DOMAIN m : HistoryOK(m[k], now)

\* A graph that was made, measured by the histories m.
GraphFits(m, g) ==
  g = Empty \/ /\ g.key \in DOMAIN m
               /\ g.had \in 0 .. Len(m[g.key].samples)
               /\ IsSeq(g.points)
               /\ \A k \in 1 .. Len(g.points) : PointShown(m[g.key].samples, g.had, g.points[k])

\* A graph that is being made.
WindowFits(m, w) ==
  w = Ready \/ /\ DOMAIN w = {"pc", "client", "key", "end", "step", "at", "pos", "had", "points"}
               /\ w.key \in DOMAIN m
               /\ Near(w.at) /\ w.step \in Nat
               /\ w.had \in 0 .. Len(m[w.key].samples)
               /\ RightPos(m[w.key], w.pos, w.at, w.had)
               /\ IsSeq(w.points)
               /\ \A k \in 1 .. Len(w.points) : PointShown(m[w.key].samples, w.had, w.points[k])

\* The receiver thread between the time and the sample.
Stamped(m, r, now) ==
  r.pc = "add" =>
    /\ <<r.id, r.spn>> \in DOMAIN m
    /\ \E t \in Nat : /\ StartUp <= t /\ t <= now /\ r.stamp = At(t)
                      /\ \A i \in 1 .. Len(m[<<r.id, r.spn>>].samples) :
                           Micros(m[<<r.id, r.spn>>].samples[i].time) <= t

GraphInv ==
  /\ clock \in Nat /\ StartUp <= clock
  /\ HistoriesOK(historyMap, clock)
  /\ Stamped(historyMap, rx, clock)
  /\ DOMAIN userData = Clients
  /\ \A c \in Clients : GraphFits(historyMap, userData[c].graph)
  /\ WindowFits(historyMap, ws)

MapGrown(m, r) == \A k \in DOMAIN m : k \in DOMAIN r /\ Grown(m[k].samples, r[k].samples)

LEMMA RightPosGrows ==
  ASSUME NEW h, NEW g, Grown(h.samples, g.samples), NEW had \in 0 .. Len(h.samples),
         NEW pos, NEW a, RightPos(h, pos, a, had)
  PROVE  RightPos(g, pos, a, had)
<1>1. /\ Len(h.samples) \in Nat /\ Len(g.samples) \in Nat
      /\ Len(h.samples) <= Len(g.samples)
      /\ \A i \in 1 .. Len(h.samples) : g.samples[i] = h.samples[i]
  BY SeqFacts DEF Grown
<1>2. /\ pos \in 1 .. Len(h.samples)
      /\ pos = 1 \/ Micros(h.samples[pos].time) <= Micros(a)
      /\ \A j \in pos + 1 .. had : Micros(a) <= Micros(h.samples[j].time)
  BY DEF RightPos
<1>3. pos \in 1 .. Len(g.samples) /\ g.samples[pos] = h.samples[pos]
  BY <1>1, <1>2
<1>4. \A j \in pos + 1 .. had : g.samples[j] = h.samples[j]
  BY <1>1, <1>2
<1> QED
  BY <1>2, <1>3, <1>4 DEF RightPos

\* Neither a graph nor a window minds that the histories grow.
LEMMA FitsGrown ==
  ASSUME NEW m, NEW r, MapGrown(m, r)
  PROVE  /\ \A g : GraphFits(m, g) => GraphFits(r, g)
         /\ \A w : WindowFits(m, w) => WindowFits(r, w)
<1>1. ASSUME NEW k \in DOMAIN m, NEW had \in 0 .. Len(m[k].samples)
      PROVE  /\ k \in DOMAIN r /\ had \in 0 .. Len(r[k].samples)
             /\ \A p : PointShown(m[k].samples, had, p) => PointShown(r[k].samples, had, p)
             /\ \A pos, a : RightPos(m[k], pos, a, had) => RightPos(r[k], pos, a, had)
  <2>1. k \in DOMAIN r /\ Grown(m[k].samples, r[k].samples)
    BY DEF MapGrown
  <2>2. /\ Len(m[k].samples) \in Nat /\ Len(r[k].samples) \in Nat
        /\ Len(m[k].samples) <= Len(r[k].samples)
    BY <2>1, SeqFacts DEF Grown
  <2>3. had \in Nat /\ had <= Len(m[k].samples) /\ had \in 0 .. Len(r[k].samples)
    BY <2>2
  <2> QED
    BY <2>1, <2>3, ShownGrows, RightPosGrows
<1>2. ASSUME NEW g, GraphFits(m, g) PROVE GraphFits(r, g)
  BY <1>1, <1>2 DEF GraphFits
<1>3. ASSUME NEW w, WindowFits(m, w) PROVE WindowFits(r, w)
  BY <1>1, <1>3 DEF WindowFits
<1> QED
  BY <1>2, <1>3

-----------------------------------------------------------------------------
(***************************************************************************)
(* The steps                                                               *)
(***************************************************************************)
LEMMA InvInit == Init => GraphInv
<1> SUFFICES ASSUME Init PROVE GraphInv
  OBVIOUS
<1>1. /\ clock = StartUp /\ historyMap = <<>> /\ rx = Idle /\ ws = Ready
      /\ userData = [c \in Clients |-> NoData]
  BY DEF Init, GraphInit
<1>2. StartUp \in Nat
  BY GraphAssumption
<1>3. DOMAIN historyMap = {}
  BY <1>1
<1>4. HistoriesOK(historyMap, clock)
  BY <1>3 DEF HistoriesOK
<1>5. rx.pc = "idle"
  BY <1>1 DEF Idle
<1>6. Stamped(historyMap, rx, clock)
  BY <1>5 DEF Stamped
<1>7. \A c \in Clients : userData[c].graph = Empty
  BY <1>1 DEF NoData
<1> QED
  BY <1>1, <1>2, <1>4, <1>6, <1>7 DEF GraphInv, GraphFits, WindowFits

\* A step that leaves the histories, the sessions and the clock alone.
LEMMA GraphUnchanged ==
  ASSUME GraphInv, UNCHANGED <<clock, historyMap, userData, ws>>,
         rx' = rx \/ rx'.pc # "add"
  PROVE  GraphInv'
<1>1. Stamped(historyMap, rx, clock)'
  <2>1. CASE rx' = rx
    BY <2>1 DEF GraphInv, Stamped
  <2>2. CASE rx'.pc # "add"
    BY <2>2 DEF Stamped
  <2> QED
    BY <2>1, <2>2
<1> QED
  BY <1>1 DEF GraphInv

LEMMA SaveKeepsInv ==
  ASSUME GraphInv, NEW n, SaveToHistory(n), UNCHANGED <<clock, userData, ws>>
  PROVE  GraphInv'
<1> DEFINE key == <<rx.id, n>>
<1>1. PICK m : m = historyMap'
  OBVIOUS
<1>2. /\ DOMAIN m = DOMAIN historyMap \cup {key}
      /\ \A k \in DOMAIN historyMap : m[k] = historyMap[k]
      /\ key \notin DOMAIN historyMap => m[key] = NewHistory
  BY <1>1 DEF SaveToHistory
<1>3. rx'.pc = "add" /\ rx'.id = rx.id /\ rx'.spn = n /\ rx'.stamp = At(clock)
  BY DEF SaveToHistory
<1>4. /\ clock \in Nat /\ StartUp <= clock
      /\ \A k \in DOMAIN historyMap : HistoryOK(historyMap[k], clock)
  BY DEF GraphInv, HistoriesOK
<1>5. HistoryOK(NewHistory, clock)
  <2>1. DOMAIN NewHistory = {"spec", "samples"} /\ NewHistory.samples = <<>>
    BY DEF NewHistory
  <2>2. IsSeq(<<>>) /\ Len(<<>>) = 0
    <3>1. <<>> \in Seq({})
      OBVIOUS
    <3> QED
      BY <3>1 DEF IsSeq
  <2>3. 1 .. Len(NewHistory.samples) = {} /\ Len(NewHistory.samples) <= CAPACITY
    BY <2>1, <2>2, CapacityAssumption
  <2> QED
    BY <2>1, <2>2, <2>3 DEF HistoryOK
<1>6. \A k \in DOMAIN m : HistoryOK(m[k], clock)
  <2> HIDE DEF key
  <2> QED
    BY <1>2, <1>4, <1>5
<1>7. HistoriesOK(historyMap, clock)'
  BY <1>1, <1>6 DEF HistoriesOK
<1>8. MapGrown(historyMap, m)
  <2>1. \A k \in DOMAIN historyMap : /\ IsSeq(historyMap[k].samples)
                                     /\ Len(historyMap[k].samples) \in Nat
    BY <1>4, SeqFacts DEF HistoryOK
  <2> HIDE DEF key
  <2> QED
    BY <1>2, <2>1 DEF MapGrown, Grown
<1>9. Stamped(historyMap, rx, clock)'
  <2>1. HistoryOK(m[key], clock) /\ key \in DOMAIN m
    BY <1>2, <1>6
  <2>2. \A i \in 1 .. Len(m[key].samples) : Micros(m[key].samples[i].time) <= clock
    BY <2>1 DEF HistoryOK
  <2>3. <<rx.id, n>> \in DOMAIN historyMap' /\ clock' = clock
    BY <1>1, <2>1
  <2>4. \A i \in 1 .. Len(historyMap'[<<rx.id, n>>].samples) :
          Micros(historyMap'[<<rx.id, n>>].samples[i].time) <= clock
    BY <1>1, <2>2
  <2>5. clock <= clock
    BY <1>4
  <2> QED
    BY <1>3, <1>4, <2>3, <2>4, <2>5 DEF Stamped
<1>10. \A c \in Clients : GraphFits(m, userData[c].graph)
  BY <1>8, FitsGrown DEF GraphInv
<1>11. WindowFits(m, ws)
  BY <1>8, FitsGrown DEF GraphInv
<1> QED
  BY <1>1, <1>4, <1>7, <1>9, <1>10, <1>11 DEF GraphInv

LEMMA AddKeepsInv ==
  ASSUME GraphInv, AddSample, UNCHANGED <<clock, userData, ws>>
  PROVE  GraphInv'
<1> DEFINE key == <<rx.id, rx.spn>>
           h == historyMap[key]
           n == addSample(h, rx.stamp, rx.frame.spns[rx.spn])
<1>1. PICK m : m = historyMap'
  OBVIOUS
<1>2. rx.pc = "add" /\ key \in DOMAIN historyMap
  BY DEF AddSample, GraphInv, Stamped
<1>3. /\ DOMAIN m = DOMAIN historyMap
      /\ m[key] = n
      /\ \A k \in DOMAIN historyMap : k # key => m[k] = historyMap[k]
  BY <1>1, <1>2 DEF AddSample
<1>4. PICK t \in Nat : /\ StartUp <= t /\ t <= clock /\ rx.stamp = At(t)
                       /\ \A i \in 1 .. Len(h.samples) : Micros(h.samples[i].time) <= t
  BY <1>2 DEF GraphInv, Stamped
<1>5. /\ clock \in Nat /\ StartUp <= clock
      /\ \A k \in DOMAIN historyMap : HistoryOK(historyMap[k], clock)
  BY DEF GraphInv, HistoriesOK
<1>6. HistoryOK(n, clock) /\ Grown(h.samples, n.samples)
  <2>1. HistoryOK(h, clock)
    BY <1>2, <1>5
  <2> HIDE DEF h
  <2> QED
    BY <1>4, <1>5, <2>1, AddSampleOK
<1>7. \A k \in DOMAIN historyMap : Grown(historyMap[k].samples, historyMap[k].samples)
  <2>1. \A k \in DOMAIN historyMap : /\ IsSeq(historyMap[k].samples)
                                     /\ Len(historyMap[k].samples) \in Nat
    BY <1>5, SeqFacts DEF HistoryOK
  <2> QED
    BY <2>1 DEF Grown
<1>8. MapGrown(historyMap, m) /\ \A k \in DOMAIN m : HistoryOK(m[k], clock)
  <2>1. ASSUME NEW k \in DOMAIN historyMap
        PROVE  Grown(historyMap[k].samples, m[k].samples) /\ HistoryOK(m[k], clock)
    <3>1. CASE k = key
      BY <1>3, <1>6, <3>1
    <3>2. CASE k # key
      <4> HIDE DEF key, n
      <4> QED
        BY <1>3, <1>5, <1>7, <3>2
    <3> QED
      BY <3>1, <3>2
  <2> QED
    BY <1>3, <2>1 DEF MapGrown
<1>9. HistoriesOK(historyMap, clock)'
  BY <1>1, <1>8 DEF HistoriesOK
<1>10. rx'.pc # "add"
  BY DEF AddSample, Idle
<1>11. Stamped(historyMap, rx, clock)'
  BY <1>10 DEF Stamped
<1>12. \A c \in Clients : GraphFits(m, userData[c].graph)
  BY <1>8, FitsGrown DEF GraphInv
<1>13. WindowFits(m, ws)
  BY <1>8, FitsGrown DEF GraphInv
<1> QED
  BY <1>1, <1>5, <1>9, <1>11, <1>12, <1>13 DEF GraphInv

LEMMA TickKeepsInv ==
  ASSUME GraphInv, Tick, UNCHANGED rx
  PROVE  GraphInv'
<1>1. clock \in Nat /\ clock' = clock + 1 /\ StartUp \in Nat /\ StartUp <= clock
  BY GraphAssumption DEF GraphInv, Tick
<1>2. UNCHANGED <<historyMap, userData, ws>>
  BY DEF Tick, graphVars
<1>3. ASSUME NEW k \in DOMAIN historyMap PROVE HistoryOK(historyMap[k], clock + 1)
  <2>1. HistoryOK(historyMap[k], clock)
    BY DEF GraphInv, HistoriesOK
  <2>2. \A i \in 1 .. Len(historyMap[k].samples) : Micros(historyMap[k].samples[i].time) \in Nat
    BY <2>1, MicrosType DEF HistoryOK, Normal
  <2>3. \A i \in 1 .. Len(historyMap[k].samples) :
          Micros(historyMap[k].samples[i].time) <= clock + 1
    BY <1>1, <2>1, <2>2 DEF HistoryOK
  <2> QED
    BY <2>1, <2>3 DEF HistoryOK
<1>4. HistoriesOK(historyMap, clock)'
  BY <1>1, <1>2, <1>3 DEF HistoriesOK
<1>5. Stamped(historyMap, rx, clock)'
  <2>1. CASE rx.pc # "add"
    BY <2>1 DEF Stamped
  <2>2. CASE rx.pc = "add"
    <3>1. PICK t \in Nat : /\ StartUp <= t /\ t <= clock /\ rx.stamp = At(t)
                           /\ \A i \in 1 .. Len(historyMap[<<rx.id, rx.spn>>].samples) :
                                Micros(historyMap[<<rx.id, rx.spn>>].samples[i].time) <= t
      BY <2>2 DEF GraphInv, Stamped
    <3>2. t <= clock'
      BY <1>1, <3>1
    <3>3. <<rx.id, rx.spn>> \in DOMAIN historyMap
      BY <2>2 DEF GraphInv, Stamped
    <3> QED
      BY <1>2, <3>1, <3>2, <3>3 DEF Stamped
  <2> QED
    BY <2>1, <2>2
<1> QED
  BY <1>1, <1>2, <1>4, <1>5 DEF GraphInv

\* A step of the websocket thread: only what it may change has to be looked at.
LEMMA SocketKeepsInv ==
  ASSUME GraphInv, UNCHANGED <<clock, historyMap, rx>>,
         DOMAIN userData' = Clients,
         \A c \in Clients : GraphFits(historyMap, userData'[c].graph),
         WindowFits(historyMap, ws')
  PROVE  GraphInv'
BY DEF GraphInv, HistoriesOK, Stamped

LEMMA AnswerKeepsInv ==
  ASSUME GraphInv, UNCHANGED <<clock, historyMap, rx>>, NEW c, NEW g, Answer(c, g),
         GraphFits(historyMap, g)
  PROVE  GraphInv'
<1>1. userData' = [userData EXCEPT ![c] = [graph |-> g, toSend |-> TRUE]] /\ ws' = Ready
  BY DEF Answer
<1>2. DOMAIN userData = Clients /\ \A d \in Clients : GraphFits(historyMap, userData[d].graph)
  BY DEF GraphInv
<1>3. DOMAIN userData' = Clients
  BY <1>1, <1>2
<1>4. \A d \in Clients : userData'[d].graph = g \/ userData'[d].graph = userData[d].graph
  BY <1>1, <1>2
<1>5. \A d \in Clients : GraphFits(historyMap, userData'[d].graph)
  BY <1>2, <1>4
<1> QED
  BY <1>1, <1>3, <1>5, SocketKeepsInv DEF WindowFits

\* Sessions that come and go, and the graph that was sent.
LEMMA ForgetKeepsInv ==
  ASSUME GraphInv, UNCHANGED <<clock, historyMap, rx, ws>>, NEW c,
         userData' = [userData EXCEPT ![c] = NoData]
  PROVE  GraphInv'
<1>1. DOMAIN userData = Clients /\ \A d \in Clients : GraphFits(historyMap, userData[d].graph)
  BY DEF GraphInv
<1>2. DOMAIN userData' = Clients
  BY <1>1
<1>3. \A d \in Clients : userData'[d].graph = Empty \/ userData'[d].graph = userData[d].graph
  BY <1>1 DEF NoData
<1>4. \A d \in Clients : GraphFits(historyMap, userData'[d].graph)
  BY <1>1, <1>3 DEF GraphFits
<1> QED
  BY <1>2, <1>4, SocketKeepsInv DEF GraphInv

\* The time that is asked for, however it is cut.
LEMMA CurrentNear ==
  ASSUME GraphInv, NEW q \in Queries
  PROVE  Near(Current(q))
<1>1. q.time \in Nat /\ StartUp \in Nat /\ U32 \in Nat \ {0} /\ MICROS \in Nat \ {0}
  BY GraphAssumption, TimeAssumption
<1>2. CASE q.time > 0
  <2>1. q.time \div MICROS \in Nat /\ q.time % U32 \in Nat
    BY <1>1
  <2>2. (q.time % U32) % MICROS \in 0 .. MICROS - 1
    BY <1>1, <2>1
  <2>3. PICK b : b = [sec |-> q.time \div MICROS, usec |-> (q.time % U32) % MICROS]
    OBVIOUS
  <2>4. b.sec \in Nat /\ b.usec \in 0 .. MICROS - 1 /\ b \in [sec : Nat, usec : Nat]
    BY <1>1, <2>1, <2>2, <2>3
  <2>5. Normal(b)
    BY <1>1, <2>4 DEF Normal, TimeStamps
  <2>6. Near(startUpTime)
    BY <1>1, AtTime, NormalNear DEF startUpTime
  <2>7. Current(q) = Plus(startUpTime, b)
    BY <1>2, <2>3 DEF Current, Requested
  <2> QED
    BY <2>5, <2>6, <2>7, PlusTime
<1>3. CASE ~(q.time > 0)
  <2>1. Current(q) = At(clock)
    BY <1>3 DEF Current
  <2> QED
    BY <2>1, AtTime, NormalNear DEF GraphInv
<1> QED
  BY <1>2, <1>3

LEMMA BeginsKeepsInv ==
  ASSUME GraphInv, UNCHANGED <<clock, historyMap, rx>>, NEW c, NEW q \in Queries,
         GraphBegins(c, q)
  PROVE  GraphInv'
<1> DEFINE start == MinusMillis(Current(q), q.period)
           h == historyMap[q.key]
<1>1. q.key \in DOMAIN historyMap /\ Len(h.samples) >= 2 /\ Samples(q) > 0
  BY DEF GraphBegins, HasGraph
<1>2. ws' = [pc     |-> "window", client |-> c, key |-> q.key, end |-> Current(q),
             step   |-> q.period \div Samples(q), at |-> start,
             pos    |-> BeginPos(h, start), had |-> Len(h.samples), points |-> <<>>]
  BY DEF GraphBegins
<1>3. userData' = userData
  BY DEF GraphBegins
<1>4. q.period \in Nat /\ q.samples \in Nat /\ MAX_SAMPLES \in Nat
  BY GraphAssumption
<1>5. Near(start)
  BY <1>4, CurrentNear, MillisNormal, MinusTime DEF MinusMillis
<1>6. q.period \div Samples(q) \in Nat
  <2>1. Samples(q) \in Nat \ {0}
    BY <1>1, <1>4 DEF Samples
  <2> QED
    BY <1>4, <2>1
<1>7. HistoryOK(h, clock)
  BY <1>1 DEF GraphInv, HistoriesOK
<1>8. IsSeq(h.samples) /\ Len(h.samples) \in Nat
  BY <1>7, SeqFacts DEF HistoryOK
<1>9. h.samples # <<>>
  BY <1>1, <1>8 DEF IsSeq
<1>10. RightPos(h, BeginPos(h, start), start, Len(h.samples))
  <2> HIDE DEF start, h
  <2> QED
    BY <1>5, <1>7, <1>9, BeginPosRight
<1>11. IsSeq(<<>>) /\ 1 .. Len(<<>>) = {}
  <2>1. <<>> \in Seq({})
    OBVIOUS
  <2> QED
    BY <2>1 DEF IsSeq
<1>12. PICK w : w = ws'
  OBVIOUS
<1> HIDE DEF start
<1>13. /\ DOMAIN w = {"pc", "client", "key", "end", "step", "at", "pos", "had", "points"}
       /\ w.key = q.key /\ w.at = start /\ w.step = q.period \div Samples(q)
       /\ w.pos = BeginPos(h, start) /\ w.had = Len(h.samples) /\ w.points = <<>>
  BY <1>2, <1>12
<1>14. w.had \in 0 .. Len(h.samples)
  BY <1>8, <1>13
<1>15. /\ w.key \in DOMAIN historyMap /\ historyMap[w.key] = h
       /\ Near(w.at) /\ w.step \in Nat
       /\ RightPos(h, w.pos, w.at, w.had)
       /\ IsSeq(w.points) /\ 1 .. Len(w.points) = {}
  BY <1>1, <1>5, <1>6, <1>10, <1>11, <1>13
<1>16. WindowFits(historyMap, w)
  <2> HIDE DEF h
  <2> QED
    BY <1>13, <1>14, <1>15 DEF WindowFits
<1> QED
  BY <1>3, <1>12, <1>16, SocketKeepsInv DEF GraphInv

\* The point is added, and the window moves with the time or is done.
LEMMA PointKeepsInv ==
  ASSUME GraphInv, Point, UNCHANGED rx
  PROVE  GraphInv'
<1> DEFINE h == historyMap[ws.key]
           p == [x |-> Minus(ws.at, startUpTime), value |-> h.samples[ws.pos].value]
           points == Append(ws.points, p)
           at == PlusMillis(ws.at, ws.step)
<1>1. /\ ws # Ready /\ UNCHANGED <<clock, historyMap>>
      /\ IF LessEq(at, ws.end)
         THEN /\ ws' = [ws EXCEPT !.points = points, !.at = at, !.pos = NextPos(h, @, at)]
              /\ UNCHANGED <<userData, waiting>>
         ELSE Answer(ws.client, [key |-> ws.key, had |-> ws.had, points |-> points])
  BY DEF Point
<1>2. /\ DOMAIN ws = {"pc", "client", "key", "end", "step", "at", "pos", "had", "points"}
      /\ ws.key \in DOMAIN historyMap
      /\ Near(ws.at) /\ ws.step \in Nat
      /\ ws.had \in 0 .. Len(h.samples)
      /\ RightPos(h, ws.pos, ws.at, ws.had)
      /\ IsSeq(ws.points)
      /\ \A k \in 1 .. Len(ws.points) : PointShown(h.samples, ws.had, ws.points[k])
  BY <1>1 DEF GraphInv, WindowFits
<1>3. HistoryOK(h, clock)
  BY <1>2 DEF GraphInv, HistoriesOK
<1>4. Len(h.samples) \in Nat
  BY <1>3, SeqFacts DEF HistoryOK
<1>5. ws.had \in Nat /\ ws.had <= Len(h.samples)
  BY <1>2, <1>4
<1>6. PointShown(h.samples, ws.had, p)
  <2> HIDE DEF h
  <2> QED
    BY <1>2, <1>3, <1>5, NewPointShown
<1>7. IsSeq(points) /\ \A k \in 1 .. Len(points) : PointShown(h.samples, ws.had, points[k])
  <2> HIDE DEF h, p
  <2>1. /\ IsSeq(points) /\ Len(points) = Len(ws.points) + 1 /\ Len(ws.points) \in Nat
        /\ points[Len(ws.points) + 1] = p
        /\ \A i \in 1 .. Len(ws.points) : points[i] = ws.points[i]
    BY <1>2, SeqFacts
  <2> HIDE DEF points
  <2>2. \A k \in 1 .. Len(points) : k \in 1 .. Len(ws.points) \/ points[k] = p
    BY <2>1
  <2> QED
    BY <1>2, <1>6, <2>1, <2>2
<1>8. CASE LessEq(at, ws.end)
  <2>1. /\ ws' = [ws EXCEPT !.points = points, !.at = at, !.pos = NextPos(h, ws.pos, at)]
        /\ userData' = userData
    BY <1>1, <1>2, <1>8
  <2>2. Near(at) /\ Micros(at) = Micros(ws.at) + Micros(OfMillis(ws.step))
    BY <1>2, MillisNormal, PlusTime DEF PlusMillis
  <2>3. Micros(ws.at) <= Micros(at)
    <3>1. Micros(ws.at) \in Nat /\ Micros(OfMillis(ws.step)) \in Nat
      BY <1>2, MillisNormal, MicrosType DEF Near, Normal
    <3> QED
      BY <2>2, <3>1
  <2>4. ws.pos \in 1 .. Len(h.samples) /\ (ws.pos = 1 \/ Micros(h.samples[ws.pos].time) <= Micros(ws.at))
    BY <1>2 DEF RightPos
  <2>5. RightPos(h, NextPos(h, ws.pos, at), at, Len(h.samples))
    <3> HIDE DEF h, at
    <3> QED
      BY <1>2, <1>3, <2>2, <2>3, <2>4, NextPosRight
  <2>6. RightPos(h, NextPos(h, ws.pos, at), at, ws.had)
    <3> HIDE DEF h, at
    <3>1. PICK n : n = NextPos(h, ws.pos, at)
      OBVIOUS
    <3>2. /\ n \in 1 .. Len(h.samples)
          /\ n = 1 \/ Micros(h.samples[n].time) <= Micros(at)
          /\ \A j \in n + 1 .. Len(h.samples) : Micros(at) <= Micros(h.samples[j].time)
      BY <2>5, <3>1 DEF RightPos
    <3>3. \A j \in n + 1 .. ws.had : j \in n + 1 .. Len(h.samples)
      BY <1>4, <1>5, <3>2
    <3> QED
      BY <3>1, <3>2, <3>3 DEF RightPos
  <2>7. PICK w : w = ws'
    OBVIOUS
  <2>8. /\ DOMAIN w = {"pc", "client", "key", "end", "step", "at", "pos", "had", "points"}
        /\ w.key = ws.key /\ w.at = at /\ w.step = ws.step
        /\ w.pos = NextPos(h, ws.pos, at) /\ w.had = ws.had /\ w.points = points
    <3> HIDE DEF h, at, points
    <3> QED
      BY <1>2, <2>1, <2>7
  <2>9. WindowFits(historyMap, w)
    <3>1. historyMap[w.key] = h
      BY <2>8
    <3> HIDE DEF h, at, points
    <3> QED
      BY <1>2, <1>7, <2>2, <2>6, <2>8, <3>1 DEF WindowFits
  <2> QED
    BY <1>1, <2>1, <2>7, <2>9, SocketKeepsInv DEF GraphInv
<1>9. CASE ~LessEq(at, ws.end)
  <2>1. PICK g : g = [key |-> ws.key, had |-> ws.had, points |-> points]
    OBVIOUS
  <2>2. Answer(ws.client, g)
    BY <1>1, <1>9, <2>1
  <2>3. g.key = ws.key /\ g.had = ws.had /\ g.points = points
    <3> HIDE DEF points
    <3> QED
      BY <2>1
  <2>4. GraphFits(historyMap, g)
    <3>1. historyMap[g.key] = h
      BY <2>3
    <3> HIDE DEF h, points
    <3> QED
      BY <1>2, <1>7, <2>3, <3>1 DEF GraphFits
  <2> QED
    BY <1>1, <2>2, <2>4, AnswerKeepsInv
<1> QED
  BY <1>8, <1>9

LEMMA GetGraphKeepsInv ==
  ASSUME GraphInv, UNCHANGED rx, NEW c, NEW q \in Queries, NEW inserting,
         GetGraph(c, q, inserting)
  PROVE  GraphInv'
<1>1. UNCHANGED <<clock, historyMap, rx>>
  BY DEF GetGraph
<1>2. GraphFits(historyMap, Empty)
  BY DEF GraphFits
<1>3. ASSUME Answer(c, Empty) PROVE GraphInv'
  BY <1>1, <1>2, <1>3, AnswerKeepsInv
<1>4. ASSUME UNCHANGED <<userData, waiting, ws>> PROVE GraphInv'
  BY <1>1, <1>4, GraphUnchanged
<1>5. CASE GraphEmpty(c, q)
  BY <1>3, <1>5 DEF GraphEmpty
<1>6. CASE GraphDivision(q)
  BY <1>4, <1>6 DEF GraphDivision
<1>7. CASE GraphBegins(c, q)
  BY <1>1, <1>7, BeginsKeepsInv
<1>8. CASE GraphRace(c)
  BY <1>3, <1>4, <1>8 DEF GraphRace
<1> QED
  BY <1>5, <1>6, <1>7, <1>8, Zenon DEF GetGraph

LEMMA InvNext == GraphInv /\ [Next]_vars => GraphInv'
<1> SUFFICES ASSUME GraphInv, [Next]_vars PROVE GraphInv'
  OBVIOUS
<1>1. CASE Sender
  <2>1. UNCHANGED <<clock, historyMap, userData, ws, rx>>
    BY <1>1 DEF Sender, receiverVars, graphVars
  <2> QED
    BY <2>1, GraphUnchanged
<1>2. CASE Bus
  <2>1. PICK id, data : onRcv(id, data)
    BY <1>2, Zenon DEF Bus
  <2>2. UNCHANGED <<clock, historyMap, userData, ws>>
    BY <2>1 DEF onRcv, graphVars
  <2>3. rx' = rx \/ rx'.pc = "save"
    <3>1. \/ UNCHANGED receiverVars \/ UNCHANGED rx
          \/ Compared(id, data, getJ1939Frame(factory, id, data).data)
      BY <2>1, Zenon DEF onRcv
    <3>2. CASE Compared(id, data, getJ1939Frame(factory, id, data).data)
      <4>1. PICK f, todo : \/ UNCHANGED rx
                           \/ rx' = [pc |-> "save", id |-> id, data |-> data, frame |-> f,
                                     todo |-> todo]
        BY <3>2, Zenon DEF Compared
      <4> QED
        BY <4>1
    <3> QED
      BY <3>1, <3>2 DEF receiverVars
  <2> QED
    BY <2>2, <2>3, GraphUnchanged
<1>3. CASE Receiver
  <2>1. UNCHANGED <<clock, userData, ws>>
    BY <1>3 DEF Receiver
  <2>2. AddSample \/ \E n : SaveToHistory(n)
    BY <1>3, Zenon DEF Receiver
  <2> QED
    BY <2>1, <2>2, AddKeepsInv, SaveKeepsInv
<1>4. CASE ResetReceiver
  <2>1. UNCHANGED <<clock, historyMap, userData, ws, rx>>
    BY <1>4 DEF ResetReceiver, graphVars
  <2> QED
    BY <2>1, GraphUnchanged
<1>5. CASE Tick /\ UNCHANGED rx
  BY <1>5, TickKeepsInv
<1>6. CASE WebSocket /\ UNCHANGED rx
  <2>1. CASE Point
    BY <1>6, <2>1, PointKeepsInv
  <2>2. CASE Endless
    <3>1. UNCHANGED <<clock, historyMap, userData, ws>>
      BY <2>2 DEF Endless, graphVars
    <3> QED
      BY <1>6, <3>1, GraphUnchanged
  <2>3. ASSUME NEW c, Writeable(c) PROVE GraphInv'
    BY <1>6, <2>3, ForgetKeepsInv DEF Writeable
  <2> QED
    BY <1>6, <2>1, <2>2, <2>3 DEF WebSocket
<1>7. CASE Pages(use.clients, Inserting) /\ UNCHANGED rx
  <2>1. PICK c : Established(c) \/ Closed(c) \/ \E q \in Queries : GetGraph(c, q, Inserting)
    BY <1>7 DEF Pages
  <2>2. CASE Established(c)
    BY <1>7, <2>2, ForgetKeepsInv DEF Established
  <2>3. CASE Closed(c)
    BY <1>7, <2>3, ForgetKeepsInv DEF Closed
  <2>4. CASE \E q \in Queries : GetGraph(c, q, Inserting)
    BY <1>7, <2>4, GetGraphKeepsInv
  <2> QED
    BY <2>1, <2>2, <2>3, <2>4
<1>8. CASE UNCHANGED vars
  <2>1. UNCHANGED <<clock, historyMap, userData, ws, rx>>
    BY <1>8 DEF vars, receiverVars, graphVars
  <2> QED
    BY <2>1, GraphUnchanged
<1>9. ASSUME Next
      PROVE  \/ Sender \/ Bus \/ Receiver \/ ResetReceiver
             \/ (Tick \/ WebSocket \/ Pages(use.clients, Inserting)) /\ UNCHANGED rx
  <2>1. UNCHANGED <<senderVars, receiverVars, sent, resets>> => UNCHANGED rx
    BY DEF receiverVars
  <2> QED
    BY <1>9, <2>1, Zenon DEF Next
<1> QED
  BY <1>1, <1>2, <1>3, <1>4, <1>5, <1>6, <1>7, <1>8, <1>9

(***************************************************************************)
(* Whatever the database, the frames and the requests, and however the     *)
(* receiver thread adds samples while getWindow runs: a point of a graph   *)
(* shows the value the signal had at that time.  The samples of a history  *)
(* are in the order of the clock (the time is taken before the sample is   *)
(* added, by the one thread that adds), they never move, and the position  *)
(* of the window is right for the samples that were there when it began.   *)
(***************************************************************************)
THEOREM GraphShowsHistory == Spec => []PointsShowHistory
<1>1. GraphInv => PointsShowHistory
  <2> SUFFICES ASSUME GraphInv, NEW c \in Clients, userData[c].graph # Empty,
                      NEW k \in DOMAIN userData[c].graph.points
               PROVE  LET g == userData[c].graph
                          s == historyMap[g.key].samples
                          t == Micros(g.points[k].x) + StartUp
                      IN \E i \in DOMAIN s : /\ s[i].value = g.points[k].value
                                             /\ i = 1 \/ Micros(s[i].time) <= t
                                             /\ \A j \in i + 1 .. g.had : Micros(s[j].time) >= t
    BY Zenon DEF PointsShowHistory
  <2>1. PICK g : g = userData[c].graph
    OBVIOUS
  <2>2. /\ IsSeq(g.points)
        /\ \A n \in 1 .. Len(g.points) : PointShown(historyMap[g.key].samples, g.had, g.points[n])
    BY <2>1 DEF GraphInv, GraphFits
  <2>3. k \in 1 .. Len(g.points)
    BY <2>1, <2>2, SeqFacts
  <2> QED
    BY <2>1, <2>2, <2>3 DEF PointShown
<1> QED
  BY <1>1, InvInit, InvNext, PTL DEF Spec

-----------------------------------------------------------------------------
(***************************************************************************)
(* The database                                                            *)
(***************************************************************************)
SignalFields(s) ==
  /\ s.type \in {"numeric", "status", "string"}
  /\ s.type = "numeric" => /\ DOMAIN s = {"type", "offset", "size", "value"}
                           /\ s.offset \in Nat /\ s.size \in 1 .. 4
  /\ s.type = "status" => /\ DOMAIN s = {"type", "offset", "bit", "bits", "value"}
                          /\ s.offset \in Nat
  /\ s.type = "string" => DOMAIN s = {"type", "offset", "value"}

\* The fields of a frame, and of its signals.
FrameFields(f) ==
  /\ DOMAIN f = {"pgn", "priority", "src", "dst", "length", "spns", "dtcs", "block", "tts"}
  /\ \A n \in DOMAIN f.spns : SignalFields(f.spns[n])

\* The prototype of a PGN.
PrototypeOK(f, p) ==
  /\ f.pgn = p
  /\ FrameFields(f)
  /\ p = FMS1_PGN => DOMAIN f.spns = {}
  /\ p = DM1_PGN => \A n \in DOMAIN f.spns :
                      f.spns[n].type = "status" /\ f.spns[n].offset \in 0 .. 1

\* A set of positions has a first one.
LEMMA MinIn ==
  ASSUME NEW S \in SUBSET Nat, S # {}
  PROVE  Min(S) \in S
<1>1. \E x \in S : \A y \in S : x =< y
  BY Least
<1> QED
  BY <1>1 DEF Min

\* What parseSPN makes of a description it does not refuse.
LEMMA ParsedSignal ==
  ASSUME NEW d, NEW first, SpnError(first, d) = "OK",
         d.type = "numeric" => {d.offset, d.size} \subseteq Nat,
         d.type = "status" => d.offset \in Nat
  PROVE  SignalFields(parseSPN(d))
<1>1. /\ d.type \in {"numeric", "status", "string"}
      /\ d.type = "numeric" => ~(d.size = 0 \/ d.size > 4)
  BY DEF SpnError
<1>2. CASE d.type = "numeric"
  <2>1. d.offset \in Nat /\ d.size \in 1 .. 4
    BY <1>1, <1>2
  <2>2. parseSPN(d) = [type |-> "numeric", offset |-> d.offset, size |-> d.size,
                       value |-> <<255, 255, 255, 255>>]
    BY <1>2 DEF parseSPN, SPNNumeric
  <2> QED
    BY <2>1, <2>2 DEF SignalFields
<1>3. CASE d.type = "status"
  <2>1. PICK v : parseSPN(d) = [type |-> "status", offset |-> d.offset, bit |-> d.bit,
                                bits |-> d.bits, value |-> v]
    BY <1>3 DEF parseSPN, SPNStatus
  <2> QED
    BY <1>3, <2>1 DEF SignalFields
<1>4. CASE d.type = "string"
  <2>1. parseSPN(d) = [type |-> "string", offset |-> 0, value |-> <<>>]
    BY <1>4 DEF parseSPN, SPNString
  <2> QED
    BY <2>1 DEF SignalFields
<1> QED
  BY <1>1, <1>2, <1>3, <1>4

\* Strings that are moved stay strings.
LEMMA MovedSignals ==
  ASSUME NEW spns, \A n \in DOMAIN spns : SignalFields(spns[n])
  PROVE  \A n \in DOMAIN recalculateStringOffsets(spns) :
           SignalFields(recalculateStringOffsets(spns)[n])
<1> SUFFICES ASSUME NEW n \in DOMAIN spns
             PROVE  SignalFields(IF spns[n].type = "string"
                                 THEN [spns[n] EXCEPT !.offset = SizeAhead(spns, n)] ELSE spns[n])
  BY DEF recalculateStringOffsets
<1>1. CASE spns[n].type = "string"
  <2>1. PICK s : s = spns[n]
    OBVIOUS
  <2>2. PICK o : o = SizeAhead(spns, n)
    OBVIOUS
  <2>3. SignalFields(s) /\ s.type = "string"
    BY <1>1, <2>1
  <2>4. SignalFields([s EXCEPT !.offset = o])
    BY <2>3 DEF SignalFields
  <2> QED
    BY <1>1, <2>1, <2>2, <2>4
<1>2. CASE spns[n].type # "string"
  BY <1>2
<1> QED
  BY <1>1, <1>2

\* The signals of a frame that is not refused.
LEMMA ParsedSignals ==
  ASSUME NEW ds, DOMAIN ds = 1 .. Len(ds), parseSPNs(ds).error = "OK",
         \A k \in DOMAIN ds : ds[k].complete =>
           /\ ds[k].type = "numeric" => {ds[k].offset, ds[k].size} \subseteq Nat
           /\ ds[k].type = "status" => ds[k].offset \in Nat
  PROVE  \A n \in DOMAIN parseSPNs(ds).spns : SignalFields(parseSPNs(ds).spns[n])
<1> DEFINE wrong == {i \in DOMAIN ds : SpnError(ds[1], ds[i]) # "OK"}
           At1(n) == Min({i \in DOMAIN ds : ds[i].number = n})
           parsed == [n \in {ds[i].number : i \in DOMAIN ds} |-> parseSPN(ds[At1(n)])]
<1>0. DOMAIN ds \in SUBSET Nat
  OBVIOUS
<1>1. wrong = {}
  <2>1. SUFFICES ASSUME wrong # {} PROVE FALSE
    OBVIOUS
  <2>2. Min(wrong) \in wrong
    BY <1>0, <2>1, MinIn
  <2>3. parseSPNs(ds).error = SpnError(ds[1], ds[Min(wrong)])
    BY <2>1 DEF parseSPNs
  <2> QED
    BY <2>2, <2>3
<1>2. parseSPNs(ds).spns = recalculateStringOffsets(parsed)
  BY <1>1 DEF parseSPNs, registerSPNs
<1>3. ASSUME NEW n \in DOMAIN parsed PROVE SignalFields(parsed[n])
  <2>1. PICK S : S = {i \in DOMAIN ds : ds[i].number = n}
    OBVIOUS
  <2>2. S \in SUBSET Nat /\ S # {}
    BY <1>0, <2>1
  <2>3. PICK i : i = Min(S)
    OBVIOUS
  <2>4. i \in DOMAIN ds
    BY <2>1, <2>2, <2>3, MinIn
  <2>5. SpnError(ds[1], ds[i]) = "OK"
    BY <1>1, <2>4
  <2>6. ds[i].complete
    BY <2>5 DEF SpnError
  <2>7. SignalFields(parseSPN(ds[i]))
    BY <2>4, <2>5, <2>6, ParsedSignal
  <2> QED
    BY <2>1, <2>3, <2>7
<1> HIDE DEF parsed
<1> QED
  BY <1>2, <1>3, MovedSignals

\* The tell tales of a DM1 frame are statuses in its first two bytes.
LEMMA LampsOK == \A n \in DOMAIN Lamps : /\ SignalFields(Lamps[n])
                                         /\ Lamps[n].type = "status" /\ Lamps[n].offset \in 0 .. 1
<1> SUFFICES ASSUME NEW n \in DOMAIN Lamps
             PROVE  /\ SignalFields(Lamps[n])
                    /\ Lamps[n].type = "status" /\ Lamps[n].offset \in 0 .. 1
  OBVIOUS
<1>1. PICK b : b = CHOOSE c \in 1 .. 2 : n \in Range(LampsOfByte[c])
  OBVIOUS
<1>2. \E c \in 1 .. 2 : n \in Range(LampsOfByte[c])
  <2>1. n \in UNION {Range(LampsOfByte[c]) : c \in 1 .. 2}
    BY Zenon DEF Lamps
  <2> QED
    BY <2>1, Zenon
<1>3. b \in 1 .. 2
  BY <1>1, <1>2, Zenon
<1>4. PICK bit : Lamps[n] = SPNStatus(b - 1, bit, 2)
  <2>1. Lamps[n] = SPNStatus(b - 1, 2 * ((CHOOSE k \in 1 .. 4 : LampsOfByte[b][k] = n) - 1), 2)
    BY <1>1, Zenon DEF Lamps
  <2> QED
    BY <2>1
<1>5. PICK v : Lamps[n] = [type |-> "status", offset |-> b - 1, bit |-> bit,
                              bits |-> 2, value |-> v]
  BY <1>4 DEF SPNStatus
<1> QED
  BY <1>3, <1>5 DEF SignalFields

\* What a frame has before it has signals.
LEMMA NewFrame ==
  ASSUME NEW p
  PROVE  /\ DOMAIN J1939Frame(p) = {"pgn", "priority", "src", "dst", "length", "spns", "dtcs",
                                    "block", "tts"}
         /\ J1939Frame(p).pgn = p /\ J1939Frame(p).spns = <<>>
BY DEF J1939Frame

\* The prototypes the factory has without a database.
LEMMA PredefinedOK == \A p \in {DM1_PGN, FMS1_PGN} : PrototypeOK(PredefinedFrames[p], p)
<1>1. PrototypeOK(DM1, DM1_PGN)
  <2>1. DOMAIN DM1 = DOMAIN J1939Frame(DM1_PGN) /\ DM1.pgn = DM1_PGN /\ DM1.spns = Lamps
    BY NewFrame DEF DM1
  <2>2. FrameFields(DM1)
    BY <2>1, NewFrame, LampsOK DEF FrameFields
  <2> QED
    BY <2>1, <2>2, LampsOK, FilesAssumption DEF PrototypeOK
<1>2. PrototypeOK(J1939Frame(FMS1_PGN), FMS1_PGN)
  <2>1. DOMAIN J1939Frame(FMS1_PGN).spns = {}
    BY NewFrame
  <2> QED
    BY <2>1, NewFrame, FilesAssumption DEF PrototypeOK, FrameFields
<1> QED
  BY <1>1, <1>2 DEF PredefinedFrames

\* A prototype out of the database.
LEMMA ParsedFrame ==
  ASSUME NEW file \in Files, NEW i \in DOMAIN file.frames, FrameError(file.frames[i]) = "OK",
         file.frames[i].pgn \notin {DM1_PGN, FMS1_PGN}
  PROVE  PrototypeOK(parseFrame(file.frames[i]), file.frames[i].pgn)
<1> DEFINE d == file.frames[i]
<1>1. d.complete /\ parseSPNs(d.spns).error = "OK"
  BY DEF FrameError
<1>2. /\ DOMAIN d.spns = 1 .. Len(d.spns)
      /\ \A k \in DOMAIN d.spns : d.spns[k].complete =>
           /\ d.spns[k].type = "numeric" => {d.spns[k].offset, d.spns[k].size} \subseteq Nat
           /\ d.spns[k].type = "status" => d.spns[k].offset \in Nat
  BY <1>1, FilesAssumption, Zenon
<1>3. PICK spns : spns = parseSPNs(d.spns).spns
  OBVIOUS
<1>4. \A n \in DOMAIN spns : SignalFields(spns[n])
  BY <1>1, <1>2, <1>3, ParsedSignals
<1>5. PICK f : f = [J1939Frame(d.pgn) EXCEPT !.length = d.length, !.spns = spns]
  OBVIOUS
<1>6. DOMAIN f = DOMAIN J1939Frame(d.pgn) /\ f.pgn = d.pgn /\ f.spns = spns
  BY <1>5, NewFrame
<1>7. f = parseFrame(d)
  BY <1>3, <1>5 DEF parseFrame
<1>8. FrameFields(f)
  BY <1>4, <1>6, NewFrame DEF FrameFields
<1> QED
  BY <1>6, <1>7, <1>8 DEF PrototypeOK

\* Every prototype is kept under its PGN.
FactoryOK(fac) == \A p \in DOMAIN fac : PrototypeOK(fac[p], p)

\* What the database leaves in the factory, whatever is in it.
LEMMA DatabaseOK ==
  ASSUME NEW file \in Files, NEW p \in DOMAIN registerDatabaseFrames(file)
  PROVE  PrototypeOK(registerDatabaseFrames(file)[p], p)
<1> DEFINE r == parseJsonFile(file)
           pgns == DOMAIN PredefinedFrames \cup {r.frames[i].pgn : i \in DOMAIN r.frames}
           wrong == {i \in DOMAIN file.frames : FrameError(file.frames[i]) # "OK"}
<1>1. r.error = "OK"
  <2>1. SUFFICES ASSUME r.error # "OK" PROVE FALSE
    OBVIOUS
  <2>2. registerDatabaseFrames(file) = <<>>
    BY <2>1 DEF registerDatabaseFrames
  <2> QED
    BY <2>2
<1>2. /\ DOMAIN registerDatabaseFrames(file) = pgns
      /\ registerDatabaseFrames(file)[p] = registerFrame(r.frames, p)
  BY <1>1, Zenon DEF registerDatabaseFrames
<1>3. DOMAIN PredefinedFrames = {DM1_PGN, FMS1_PGN}
  BY DEF PredefinedFrames
<1>4. CASE p \in {DM1_PGN, FMS1_PGN}
  BY <1>2, <1>3, <1>4, PredefinedOK DEF registerFrame
<1>5. CASE p \notin {DM1_PGN, FMS1_PGN}
  <2>0. DOMAIN file.frames \in SUBSET Nat
    BY FilesAssumption
  <2>1. wrong = {}
    <3>1. SUFFICES ASSUME wrong # {} PROVE FALSE
      OBVIOUS
    <3>2. Min(wrong) \in wrong
      BY <2>0, <3>1, MinIn
    <3>3. \/ r = [error |-> file.error, frames |-> <<>>] /\ file.error # "OK"
          \/ r = [error |-> FrameError(file.frames[Min(wrong)]), frames |-> <<>>]
      BY <3>1, Zenon DEF parseJsonFile
    <3> QED
      BY <1>1, <3>2, <3>3
  <2>2. r = [error |-> "OK", frames |-> [i \in DOMAIN file.frames |-> parseFrame(file.frames[i])]]
    <3>1. \/ r = [error |-> file.error, frames |-> <<>>] /\ file.error # "OK"
          \/ r = [error |-> "OK", frames |-> [i \in DOMAIN file.frames |-> parseFrame(file.frames[i])]]
      BY <2>1, Zenon DEF parseJsonFile
    <3> QED
      BY <1>1, <3>1
  <2>3. PICK frames : frames = r.frames
    OBVIOUS
  <2>4. frames = [i \in DOMAIN file.frames |-> parseFrame(file.frames[i])]
    <3> HIDE DEF r
    <3> QED
      BY <2>2, <2>3
  <2>5. PICK S : S = {i \in DOMAIN frames : frames[i].pgn = p}
    OBVIOUS
  <2>6. S \in SUBSET Nat /\ S # {}
    <3>1. \E i \in DOMAIN frames : p = frames[i].pgn
      <4> HIDE DEF r
      <4> QED
        BY <1>2, <1>3, <1>5, <2>3, Zenon
    <3>2. DOMAIN frames \in SUBSET Nat
      BY <2>0, <2>4
    <3> QED
      BY <2>5, <3>1, <3>2
  <2>7. PICK i : i = Min(S)
    OBVIOUS
  <2>8. i \in DOMAIN file.frames /\ frames[i] = parseFrame(file.frames[i]) /\ frames[i].pgn = p
    BY <2>4, <2>5, <2>6, <2>7, MinIn
  <2>9. FrameError(file.frames[i]) = "OK"
    BY <2>1, <2>8
  <2>10. file.frames[i].pgn = p
    <3>1. PICK d, spns : /\ d = file.frames[i] /\ spns = parseSPNs(d.spns).spns
      OBVIOUS
    <3>2. frames[i] = [J1939Frame(d.pgn) EXCEPT !.length = d.length, !.spns = spns]
      BY <2>8, <3>1 DEF parseFrame
    <3>3. frames[i].pgn = d.pgn
      BY <3>2, NewFrame
    <3> QED
      BY <2>8, <3>1, <3>3
  <2>11. PrototypeOK(frames[i], p)
    BY <1>5, <2>8, <2>9, <2>10, ParsedFrame
  <2>12. registerFrame(r.frames, p) = frames[i]
    <3> HIDE DEF r
    <3> QED
      BY <1>3, <1>5, <2>3, <2>5, <2>7 DEF registerFrame
  <2> QED
    BY <1>2, <2>11, <2>12
<1> QED
  BY <1>4, <1>5

\* The factory once the database is read.
LEMMA FactoryInit == Init => FactoryOK(factory)
BY DatabaseOK DEF Init, FactoryOK

-----------------------------------------------------------------------------
(***************************************************************************)
(* Frames that are received                                                *)
(***************************************************************************)
\* A signal that is no string is read where its prototype says.
LEMMA DecodedSignals ==
  ASSUME NEW spns, \A n \in DOMAIN spns : SignalFields(spns[n]),
         NEW b, NEW d, d = decodeSignals(spns, b), d.ok
  PROVE  /\ DOMAIN d.data = DOMAIN spns
         /\ \A n \in DOMAIN spns :
              /\ d.data[n].type = spns[n].type
              /\ spns[n].type # "string" =>
                   /\ d.data[n] = [spns[n] EXCEPT !.value = decodeSPN(spns[n], b).data]
                   /\ decodeSPN(spns[n], b).ok
                   /\ ~(spns[n].offset >= Len(b))
<1> DEFINE Place(n) == IF spns[n].type = "string"
                       THEN [spns[n] EXCEPT !.offset = ReadFrom(spns, b, n)] ELSE spns[n]
           wrong == \E n \in DOMAIN spns : Place(n).offset >= Len(b) \/ ~decodeSPN(Place(n), b).ok
           read == [n \in DOMAIN spns |-> [Place(n) EXCEPT !.value = decodeSPN(Place(n), b).data]]
<1>1. d = IF wrong THEN Thrown ELSE Done(read)
  BY Zenon DEF decodeSignals
<1>2. ~wrong /\ d.data = read
  <2> HIDE DEF wrong, read
  <2> QED
    BY <1>1 DEF Thrown, Done
<1>3. ASSUME NEW n \in DOMAIN spns
      PROVE  /\ d.data[n].type = spns[n].type
             /\ spns[n].type # "string" =>
                  /\ d.data[n] = [spns[n] EXCEPT !.value = decodeSPN(spns[n], b).data]
                  /\ decodeSPN(spns[n], b).ok
                  /\ ~(spns[n].offset >= Len(b))
  <2>1. PICK s, v : s = Place(n) /\ v = decodeSPN(s, b).data
    OBVIOUS
  <2>2. d.data[n] = [s EXCEPT !.value = v]
    BY <1>2, <2>1
  <2>3. SignalFields(spns[n])
    OBVIOUS
  <2>4. CASE spns[n].type = "string"
    <3>1. PICK p, o : p = spns[n] /\ o = ReadFrom(spns, b, n)
      OBVIOUS
    <3>2. s = [p EXCEPT !.offset = o]
      BY <2>1, <2>4, <3>1
    <3>3. DOMAIN p = {"type", "offset", "value"}
      BY <2>3, <2>4, <3>1 DEF SignalFields
    <3>4. DOMAIN s = DOMAIN p /\ s.type = p.type
      BY <3>2, <3>3
    <3>5. d.data[n].type = s.type
      BY <2>2, <3>3, <3>4
    <3> QED
      BY <2>4, <3>1, <3>4, <3>5
  <2>5. CASE spns[n].type # "string"
    <3>1. s = spns[n]
      BY <2>1, <2>5
    <3>2. "type" \in DOMAIN s
      BY <2>3, <3>1 DEF SignalFields
    <3>3. d.data[n].type = s.type
      BY <2>2, <3>2
    <3>4. decodeSPN(s, b).ok /\ ~(s.offset >= Len(b))
      BY <1>2, <2>1, <3>1, Zenon
    <3> QED
      BY <2>1, <2>2, <3>1, <3>3, <3>4
  <2> QED
    BY <2>4, <2>5
<1>4. DOMAIN d.data = DOMAIN spns
  BY <1>2
<1> QED
  BY <1>3, <1>4

\* What is read depends on the bytes of the signal only.
LEMMA SameBytes ==
  ASSUME NEW s, SignalFields(s), s.type # "string", NEW b, NEW c,
         \A i \in s.offset + 1 .. s.offset + getByteSize(s) : b[i] = c[i],
         decodeSPN(s, b).ok, decodeSPN(s, c).ok
  PROVE  decodeSPN(s, b).data = decodeSPN(s, c).data
<1>1. CASE s.type = "numeric"
  <2>1. s.offset \in Nat /\ s.size \in 1 .. 4 /\ getByteSize(s) = s.size
    BY <1>1 DEF SignalFields, getByteSize
  <2>2. \A i \in 1 .. s.size : b[s.offset + i] = c[s.offset + i]
    BY <2>1
  <2>3. ASSUME NEW e, decodeSPN(s, e).ok
        PROVE  decodeSPN(s, e).data = [i \in 1 .. 4 |-> IF i <= s.size THEN e[s.offset + i] ELSE 0]
    <3>1. \/ decodeSPN(s, e) = Thrown
          \/ decodeSPN(s, e) = Done([i \in 1 .. 4 |-> IF i <= s.size THEN e[s.offset + i] ELSE 0])
      BY <1>1, Zenon DEF decodeSPN, decodeNumeric
    <3> QED
      BY <2>3, <3>1 DEF Thrown, Done
  <2>4. [i \in 1 .. 4 |-> IF i <= s.size THEN b[s.offset + i] ELSE 0]
          = [i \in 1 .. 4 |-> IF i <= s.size THEN c[s.offset + i] ELSE 0]
    BY <2>1, <2>2
  <2>5. decodeSPN(s, b).data = [i \in 1 .. 4 |-> IF i <= s.size THEN b[s.offset + i] ELSE 0]
    BY <2>3, Zenon
  <2>6. decodeSPN(s, c).data = [i \in 1 .. 4 |-> IF i <= s.size THEN c[s.offset + i] ELSE 0]
    BY <2>3, Zenon
  <2> QED
    BY <2>4, <2>5, <2>6, Zenon
<1>2. CASE s.type = "status"
  <2>1. s.offset \in Nat /\ getByteSize(s) = 1
    BY <1>2 DEF SignalFields, getByteSize
  <2>2. b[s.offset + 1] = c[s.offset + 1]
    BY <2>1
  <2>3. ASSUME NEW e, decodeSPN(s, e).ok
        PROVE  decodeSPN(s, e).data = (e[s.offset + 1] \div 2^s.bit) % 2^s.bits
    <3>1. \/ decodeSPN(s, e) = Thrown
          \/ decodeSPN(s, e) = Done((e[s.offset + 1] \div 2^s.bit) % 2^s.bits)
      <4>1. decodeSPN(s, e) = decodeStatus(s, e)
        BY <1>2 DEF decodeSPN
      <4> QED
        BY <4>1, Zenon DEF decodeStatus
    <3>2. PICK v : v = (e[s.offset + 1] \div 2^s.bit) % 2^s.bits
      OBVIOUS
    <3>3. decodeSPN(s, e) = Thrown \/ decodeSPN(s, e) = Done(v)
      BY <3>1, <3>2, Zenon
    <3>4. decodeSPN(s, e).data = v
      BY <2>3, <3>3 DEF Thrown, Done
    <3> QED
      BY <3>2, <3>4, Zenon
  <2>4. decodeSPN(s, b).data = (b[s.offset + 1] \div 2^s.bit) % 2^s.bits
    BY <2>3, Zenon
  <2>5. decodeSPN(s, c).data = (c[s.offset + 1] \div 2^s.bit) % 2^s.bits
    BY <2>3, Zenon
  <2> QED
    BY <2>2, <2>4, <2>5, Zenon
<1> QED
  BY <1>1, <1>2 DEF SignalFields

\* compare() may take the signal for unchanged.
MaySeemSame(s, new, old) == FALSE \in Differs(s, new, old)

\* Where the signal is complete, compare() does not take it for unchanged unless it is.
LEMMA NotDiffering ==
  ASSUME NEW s, SignalFields(s), s.type # "string", NEW new, NEW old,
         Len(new) \in Nat, Len(old) \in Nat,
         Len(new) >= s.offset + getByteSize(s), Len(old) >= s.offset + getByteSize(s),
         MaySeemSame(s, new, old)
  PROVE  \A i \in s.offset + 1 .. s.offset + getByteSize(s) : new[i] = old[i]
<1> DEFINE Byte(data, i) == IF i <= Len(data) THEN {data[i]} ELSE IF i = Len(data) + 1 THEN {0}
                            ELSE 0 .. 255
           bytes == s.offset + 1 .. s.offset + getByteSize(s)
<1>1. s.offset \in Nat /\ getByteSize(s) \in Nat
  BY DEF SignalFields, getByteSize
<1>2. \A i \in bytes : Byte(new, i) \cap Byte(old, i) # {}
  <2>1. \/ FALSE \in {TRUE}
        \/ FALSE \in {d \in BOOLEAN :
             IF d THEN \E i \in bytes : \E x \in Byte(new, i), y \in Byte(old, i) : x # y
             ELSE \A i \in bytes : Byte(new, i) \cap Byte(old, i) # {}}
    BY Zenon DEF MaySeemSame, Differs, DiffersIn
  <2> HIDE DEF Byte, bytes
  <2> QED
    BY <2>1
<1>3. \A i \in bytes : Byte(new, i) = {new[i]} /\ Byte(old, i) = {old[i]}
  BY <1>1
<1> HIDE DEF Byte
<1> QED
  BY <1>2, <1>3

\* The bytes the signals of a frame of PGN p are read from.
Read(p, data) == IF p = DM1_PGN THEN [i \in 1 .. 2 |-> data[i]] ELSE data

\* The signals that decoding the bytes b makes of those of a prototype.
SignalsOf(spns, r, b) ==
  /\ DOMAIN r = DOMAIN spns
  /\ \A n \in DOMAIN spns :
       /\ r[n].type = spns[n].type
       /\ spns[n].type # "string" =>
            /\ r[n] = [spns[n] EXCEPT !.value = decodeSPN(spns[n], b).data]
            /\ decodeSPN(spns[n], b).ok
            /\ ~(spns[n].offset >= Len(b))

\* Signals of a frame are decoded from its data (of an FMS1 frame, there are none).
LEMMA DecodedData ==
  ASSUME NEW p, NEW f, PrototypeOK(f, p), NEW data, NEW d, d = decodeData(f, data), d.ok
  PROVE  d.data.pgn = p /\ SignalsOf(f.spns, d.data.spns, Read(p, data))
<1>1. /\ DOMAIN f = {"pgn", "priority", "src", "dst", "length", "spns", "dtcs", "block", "tts"}
      /\ f.pgn = p /\ \A n \in DOMAIN f.spns : SignalFields(f.spns[n])
      /\ DM1_PGN # FMS1_PGN
  BY FilesAssumption DEF PrototypeOK, FrameFields
<1>2. CASE p = FMS1_PGN
  <2>1. d = decodeFMS1(f, data)
    BY <1>1, <1>2 DEF decodeData
  <2>2. PICK block, tts : \/ decodeFMS1(f, data) = Thrown
                          \/ decodeFMS1(f, data) = Done([f EXCEPT !.block = block, !.tts = tts])
    BY Zenon DEF decodeFMS1
  <2>3. d.data = [f EXCEPT !.block = block, !.tts = tts]
    BY <2>1, <2>2 DEF Thrown, Done
  <2>4. d.data.pgn = f.pgn /\ d.data.spns = f.spns
    BY <1>1, <2>3
  <2>5. DOMAIN f.spns = {}
    BY <1>2 DEF PrototypeOK
  <2> QED
    BY <1>1, <2>4, <2>5 DEF SignalsOf
<1>3. CASE p = DM1_PGN
  <2>1. d = decodeDM1(f, data)
    BY <1>1, <1>3 DEF decodeData
  <2>2. PICK b : b = [i \in 1 .. 2 |-> data[i]]
    OBVIOUS
  <2>3. PICK lamps : lamps = decodeSignals(f.spns, b)
    OBVIOUS
  <2>4. PICK dtcs : \/ decodeDM1(f, data) = Thrown
                    \/ /\ lamps.ok
                        /\ decodeDM1(f, data) = Done([f EXCEPT !.spns = lamps.data, !.dtcs = dtcs])
    BY <2>2, <2>3, Zenon DEF decodeDM1
  <2>5. lamps.ok /\ d.data = [f EXCEPT !.spns = lamps.data, !.dtcs = dtcs]
    BY <2>1, <2>4 DEF Thrown, Done
  <2>6. d.data.pgn = f.pgn /\ d.data.spns = lamps.data
    BY <1>1, <2>5
  <2>7. SignalsOf(f.spns, lamps.data, b)
    BY <1>1, <2>3, <2>5, DecodedSignals DEF SignalsOf
  <2>8. Read(p, data) = b
    BY <1>3, <2>2 DEF Read
  <2> QED
    BY <1>1, <2>6, <2>7, <2>8
<1>4. CASE p # FMS1_PGN /\ p # DM1_PGN
  <2>1. PICK e : e = decodeSignals(f.spns, data)
    OBVIOUS
  <2>2. \/ d = Thrown
        \/ e.ok /\ d = Done([f EXCEPT !.spns = e.data])
    BY <1>1, <1>4, <2>1 DEF decodeData
  <2>3. e.ok /\ d.data = [f EXCEPT !.spns = e.data]
    BY <2>2 DEF Thrown, Done
  <2>4. d.data.pgn = f.pgn /\ d.data.spns = e.data
    BY <1>1, <2>3
  <2>5. SignalsOf(f.spns, e.data, data)
    BY <1>1, <2>1, <2>3, DecodedSignals DEF SignalsOf
  <2> QED
    BY <1>1, <1>4, <2>4, <2>5 DEF Read
<1> QED
  BY <1>2, <1>3, <1>4

\* What the factory makes of a frame that is received.
LEMMA ReceivedFrame ==
  ASSUME NEW fac, FactoryOK(fac), NEW id, NEW data, NEW r, r = getJ1939Frame(fac, id, data), r.ok
  PROVE  /\ PgnOf(id) \in DOMAIN fac
         /\ r.data.pgn = PgnOf(id)
         /\ SignalsOf(fac[PgnOf(id)].spns, r.data.spns, Read(PgnOf(id), data))
<1> DEFINE p == PgnOf(id)
<1>1. CASE p \notin DOMAIN fac
  BY <1>1 DEF getJ1939Frame
<1>2. CASE p \in DOMAIN fac
  <2>1. PICK f : f = fac[p]
    OBVIOUS
  <2>2. PrototypeOK(f, p)
    BY <1>2, <2>1 DEF FactoryOK
  <2>3. PICK d : d = decode(f, id, data)
    OBVIOUS
  <2>4. r.ok = d.ok /\ r.data = d.data
    BY <1>2, <2>1, <2>3 DEF getJ1939Frame
  <2>5. PICK dst, src, priority : \/ d = Thrown
                                  \/ d = decodeData([f EXCEPT !.dst = dst, !.src = src, !.priority = priority], data)
    BY <2>3, Zenon DEF decode
  <2>6. PICK g : g = [f EXCEPT !.dst = dst, !.src = src, !.priority = priority]
    OBVIOUS
  <2>7. DOMAIN f = {"pgn", "priority", "src", "dst", "length", "spns", "dtcs", "block", "tts"}
    BY <2>2 DEF PrototypeOK, FrameFields
  <2>8. DOMAIN g = DOMAIN f /\ g.pgn = f.pgn /\ g.spns = f.spns
    BY <2>6, <2>7
  <2>9. PrototypeOK(g, p)
    BY <2>2, <2>8 DEF PrototypeOK, FrameFields
  <2>10. d = decodeData(g, data) /\ d.ok
    BY <2>4, <2>5, <2>6 DEF Thrown
  <2>11. d.data.pgn = p /\ SignalsOf(g.spns, d.data.spns, Read(p, data))
    BY <2>9, <2>10, DecodedData
  <2> QED
    BY <1>2, <2>1, <2>4, <2>8, <2>11
<1> QED
  BY <1>1, <1>2

\* Data that can be decoded; DM1 is not shorter than its lamps.
Good(fac, id, data) ==
  /\ Len(data) \in Nat
  /\ PgnOf(id) = DM1_PGN => Len(data) >= 2
  /\ getJ1939Frame(fac, id, data).ok

\* Signal n of the data received under an identifier.
SignalAt(fac, id, data, n) == getJ1939Frame(fac, id, data).data.spns[n]

\* A signal that is read from data is complete in them.
LEMMA SignalComplete ==
  ASSUME NEW fac, FactoryOK(fac), NEW id, NEW data, Good(fac, id, data),
         NEW n \in DOMAIN fac[PgnOf(id)].spns,
         NEW s, s = fac[PgnOf(id)].spns[n], s.type # "string"
  PROVE  /\ SignalFields(s) /\ s.offset \in Nat /\ getByteSize(s) \in Nat \ {0}
         /\ Len(data) >= s.offset + getByteSize(s)
         /\ SignalAt(fac, id, data, n) = [s EXCEPT !.value = decodeSPN(s, Read(PgnOf(id), data)).data]
         /\ decodeSPN(s, Read(PgnOf(id), data)).ok
         /\ \A i \in s.offset + 1 .. s.offset + getByteSize(s) : Read(PgnOf(id), data)[i] = data[i]
<1>1. PICK p, b : p = PgnOf(id) /\ b = Read(p, data)
  OBVIOUS
<1>2. p \in DOMAIN fac /\ SignalsOf(fac[p].spns, getJ1939Frame(fac, id, data).data.spns, b)
  BY <1>1, ReceivedFrame DEF Good
<1>3. /\ SignalAt(fac, id, data, n) = [s EXCEPT !.value = decodeSPN(s, b).data]
      /\ decodeSPN(s, b).ok
      /\ ~(s.offset >= Len(b))
  BY <1>1, <1>2 DEF SignalsOf, SignalAt
<1>4. PrototypeOK(fac[p], p)
  BY <1>2 DEF FactoryOK
<1>5. SignalFields(s)
  BY <1>1, <1>4 DEF PrototypeOK, FrameFields
<1>6. s.offset \in Nat /\ getByteSize(s) \in Nat \ {0}
  BY <1>5 DEF SignalFields, getByteSize
<1>7. Len(data) \in Nat
  BY DEF Good
<1>8. CASE p = DM1_PGN
  <2>1. s.type = "status" /\ s.offset \in 0 .. 1
    BY <1>1, <1>4, <1>8 DEF PrototypeOK
  <2>2. getByteSize(s) = 1 /\ Len(data) >= 2
    BY <1>1, <1>8, <2>1 DEF getByteSize, Good
  <2>3. b = [i \in 1 .. 2 |-> data[i]]
    BY <1>1, <1>8 DEF Read
  <2>4. \A i \in s.offset + 1 .. s.offset + getByteSize(s) : b[i] = data[i]
    BY <2>1, <2>2, <2>3
  <2>5. Len(data) >= s.offset + getByteSize(s)
    BY <1>7, <2>1, <2>2
  <2> QED
    BY <1>1, <1>3, <1>5, <1>6, <2>4, <2>5
<1>9. CASE p # DM1_PGN
  <2>1. b = data
    BY <1>1, <1>9 DEF Read
  <2>2. Len(data) >= s.offset + getByteSize(s)
    <3>1. CASE s.type = "numeric"
      <4>1. decodeSPN(s, data) = decodeNumeric(s, data) /\ getByteSize(s) = s.size
        BY <3>1 DEF decodeSPN, getByteSize
      <4>2. ~(s.size > Len(data) - s.offset)
        <5>1. s.size > Len(data) - s.offset => decodeNumeric(s, data) = Thrown
          BY Zenon DEF decodeNumeric
        <5> QED
          BY <1>3, <2>1, <4>1, <5>1 DEF Thrown
      <4> QED
        BY <1>6, <1>7, <4>1, <4>2
    <3>2. CASE s.type = "status"
      BY <1>3, <1>6, <1>7, <2>1, <3>2 DEF getByteSize
    <3> QED
      BY <1>5, <3>1, <3>2 DEF SignalFields
  <2> QED
    BY <1>1, <1>3, <1>5, <1>6, <2>1, <2>2
<1> QED
  BY <1>8, <1>9

-----------------------------------------------------------------------------
(***************************************************************************)
(* The history and the frame received last                                 *)
(***************************************************************************)
LEMMA SameLayout ==
  ASSUME NEW s, SignalFields(s), s.type # "string", NEW v, NEW t, t = [s EXCEPT !.value = v]
  PROVE  /\ SignalFields(t) /\ t.type = s.type /\ t.offset = s.offset
         /\ getByteSize(t) = getByteSize(s) /\ t.value = v
<1>1. CASE s.type = "numeric"
  <2>1. DOMAIN s = {"type", "offset", "size", "value"}
    BY <1>1 DEF SignalFields
  <2>2. /\ DOMAIN t = DOMAIN s /\ t.type = s.type /\ t.offset = s.offset
        /\ t.size = s.size /\ t.value = v
    BY <2>1
  <2> QED
    BY <1>1, <2>1, <2>2 DEF SignalFields, getByteSize
<1>2. CASE s.type = "status"
  <2>1. DOMAIN s = {"type", "offset", "bit", "bits", "value"}
    BY <1>2 DEF SignalFields
  <2>2. /\ DOMAIN t = DOMAIN s /\ t.type = s.type /\ t.offset = s.offset
        /\ t.value = v
    BY <2>1
  <2> QED
    BY <1>2, <2>1, <2>2 DEF SignalFields, getByteSize
<1> QED
  BY <1>1, <1>2 DEF SignalFields

\* A signal that compare() takes for unchanged has the value of the frame before, if
\* that was complete.
LEMMA UnchangedValue ==
  ASSUME NEW fac, FactoryOK(fac), NEW id, NEW new, NEW old, Good(fac, id, new), Good(fac, id, old),
         NEW n \in DOMAIN fac[PgnOf(id)].spns,
         NEW t, t = SignalAt(fac, id, new, n), t.type # "string",
         MaySeemSame(t, new, old)
  PROVE  SignalAt(fac, id, old, n).value = t.value
<1>1. PICK s : s = fac[PgnOf(id)].spns[n]
  OBVIOUS
<1>2. s.type # "string"
  <2>1. SignalsOf(fac[PgnOf(id)].spns, getJ1939Frame(fac, id, new).data.spns, Read(PgnOf(id), new))
    BY ReceivedFrame DEF Good
  <2> QED
    BY <1>1, <2>1 DEF SignalsOf, SignalAt
<1>3. PICK b, c : b = Read(PgnOf(id), new) /\ c = Read(PgnOf(id), old)
  OBVIOUS
<1>4. /\ SignalFields(s) /\ s.offset \in Nat /\ getByteSize(s) \in Nat \ {0}
      /\ Len(new) >= s.offset + getByteSize(s)
      /\ t = [s EXCEPT !.value = decodeSPN(s, b).data]
      /\ decodeSPN(s, b).ok
      /\ \A i \in s.offset + 1 .. s.offset + getByteSize(s) : b[i] = new[i]
  BY <1>1, <1>2, <1>3, SignalComplete
<1>5. /\ Len(old) >= s.offset + getByteSize(s)
      /\ SignalAt(fac, id, old, n) = [s EXCEPT !.value = decodeSPN(s, c).data]
      /\ decodeSPN(s, c).ok
      /\ \A i \in s.offset + 1 .. s.offset + getByteSize(s) : c[i] = old[i]
  BY <1>1, <1>2, <1>3, SignalComplete
<1>6. /\ SignalFields(t) /\ t.offset = s.offset /\ getByteSize(t) = getByteSize(s)
      /\ t.value = decodeSPN(s, b).data
  <2>1. PICK v : v = decodeSPN(s, b).data
    OBVIOUS
  <2>2. t = [s EXCEPT !.value = v]
    BY <1>4, <2>1
  <2>3. SignalFields(s) /\ s.type # "string"
    BY <1>2, <1>4
  <2>4. /\ SignalFields(t) /\ t.offset = s.offset /\ getByteSize(t) = getByteSize(s)
        /\ t.value = v
    BY <2>2, <2>3, SameLayout
  <2> QED
    BY <2>1, <2>4
<1>7. \A i \in s.offset + 1 .. s.offset + getByteSize(s) : new[i] = old[i]
  <2>1. Len(new) \in Nat /\ Len(old) \in Nat
    BY DEF Good
  <2>2. Len(new) >= t.offset + getByteSize(t) /\ Len(old) >= t.offset + getByteSize(t)
    BY <1>4, <1>5, <1>6
  <2>3. SignalFields(t) /\ t.type # "string" /\ MaySeemSame(t, new, old)
    BY <1>6
  <2>4. \A i \in t.offset + 1 .. t.offset + getByteSize(t) : new[i] = old[i]
    BY <2>1, <2>2, <2>3, NotDiffering
  <2> QED
    BY <1>6, <2>4
<1>8. \A i \in s.offset + 1 .. s.offset + getByteSize(s) : b[i] = c[i]
  BY <1>4, <1>5, <1>7
<1>9. decodeSPN(s, b).data = decodeSPN(s, c).data
  BY <1>2, <1>4, <1>5, <1>8, SameBytes
<1>10. SignalAt(fac, id, old, n).value = decodeSPN(s, c).data
  BY <1>2, <1>4, <1>5, SameLayout
<1> QED
  BY <1>6, <1>9, <1>10

\* The history h ends with the value v, or is full.
EndsWith(h, v) == h.samples # <<>> /\ (Back(h.samples).value = v \/ Len(h.samples) = CAPACITY)

\* A sample that is added is the last one.
LEMMA AddSampleEnds ==
  ASSUME NEW h, DOMAIN h = {"spec", "samples"}, IsSeq(h.samples), NEW stamp, NEW s,
         s.type # "string"
  PROVE  EndsWith(addSample(h, stamp, s), s.value)
<1>1. Len(h.samples) \in Nat /\ CAPACITY \in Nat \ {0}
  BY SeqFacts, CapacityAssumption
<1>2. CASE Len(h.samples) = CAPACITY
  <2>1. h.samples # <<>>
    BY <1>1, <1>2
  <2> QED
    BY <1>2, <2>1 DEF addSample, EndsWith
<1>3. CASE /\ Len(h.samples) # CAPACITY
           /\ h.samples # <<>> /\ Back(h.samples).value = s.value
  <2>1. addSample(h, stamp, s) = [h EXCEPT !.spec = s.type]
    BY <1>3 DEF addSample
  <2>2. addSample(h, stamp, s).samples = h.samples
    BY <2>1
  <2> QED
    BY <1>3, <2>2 DEF EndsWith
<1>4. CASE /\ Len(h.samples) # CAPACITY
           /\ ~(h.samples # <<>> /\ Back(h.samples).value = s.value)
  <2>1. PICK e : e = [time |-> stamp, value |-> s.value]
    OBVIOUS
  <2>2. PICK r : r = Append(h.samples, e)
    OBVIOUS
  <2>3. addSample(h, stamp, s) = [spec |-> s.type, samples |-> r]
    BY <1>4, <2>1, <2>2 DEF addSample
  <2>4. Len(r) = Len(h.samples) + 1 /\ r[Len(h.samples) + 1] = e
    BY <2>2, SeqFacts
  <2>5. r # <<>>
    <3>1. Len(<<>>) = 0
      OBVIOUS
    <3> QED
      BY <1>1, <2>4, <3>1
  <2>6. Back(r).value = s.value
    BY <2>1, <2>4 DEF Back
  <2> QED
    BY <2>3, <2>5, <2>6 DEF EndsWith
<1> QED
  BY <1>2, <1>3, <1>4

\* What the property says of one signal, with the histories m.
Follows(m, mis, key, s) ==
  \/ key \in mis
  \/ s.type = "string"
  \/ key \in DOMAIN m /\ EndsWith(m[key], s.value)

\* The receiver thread is at data, and has still to look at the signals of todo.
RxOK(r, fac, cache, m, mis) ==
  \/ r = Idle
  \/ /\ r.pc \in {"save", "add"}
     /\ Good(fac, r.id, r.data)
     /\ r.frame = getJ1939Frame(fac, r.id, r.data).data
     /\ r.pc = "add" => r.spn \in r.todo
     /\ \A n \in DOMAIN r.frame.spns \ r.todo : Follows(m, mis, <<r.id, n>>, r.frame.spns[n])
     /\ r.id \notin DOMAIN cache \/ cache[r.id] # r.data

\* The signals of the frames in the cache, except of the one that is being received.
CacheOK(r, fac, cache, m, mis) ==
  \A id \in DOMAIN cache :
    /\ Good(fac, id, cache[id])
    /\ r = Idle \/ r.id # id =>
         \A n \in DOMAIN fac[PgnOf(id)].spns :
           Follows(m, mis, <<id, n>>, SignalAt(fac, id, cache[id], n))

\* What the receiver keeps of the frames and their signals.
KeptInv ==
  /\ FactoryOK(factory)
  /\ RxOK(rx, factory, rcvFramesCache, historyMap, missed)
  /\ CacheOK(rx, factory, rcvFramesCache, historyMap, missed)

LEMMA KeptFollows == KeptInv => HistoryFollows
<1> SUFFICES ASSUME KeptInv, rx = Idle, NEW id \in DOMAIN rcvFramesCache,
                    NEW n \in DOMAIN Received(id).spns
             PROVE  <<id, n>> \in missed \/ Recorded(id, n)
  BY DEF HistoryFollows
<1>1. PICK r : r = getJ1939Frame(factory, id, rcvFramesCache[id])
  OBVIOUS
<1>2. r.ok
  BY <1>1 DEF KeptInv, CacheOK, Good
<1>3. DOMAIN r.data.spns = DOMAIN factory[PgnOf(id)].spns
  BY <1>1, <1>2, ReceivedFrame DEF SignalsOf, KeptInv
<1>4. n \in DOMAIN factory[PgnOf(id)].spns
  BY <1>1, <1>3 DEF Received
<1>5. Follows(historyMap, missed, <<id, n>>, SignalAt(factory, id, rcvFramesCache[id], n))
  BY <1>4 DEF KeptInv, CacheOK
<1>6. SignalAt(factory, id, rcvFramesCache[id], n) = Received(id).spns[n]
  BY DEF SignalAt, Received
<1> QED
  BY <1>5, <1>6, Zenon DEF Follows, EndsWith, Recorded

-----------------------------------------------------------------------------
\* What compare() leaves out may have been the same before.
LEMMA NotChanged ==
  ASSUME NEW f, NEW new, NEW old, NEW c \in compare(f, new, old),
         NEW n \in DOMAIN f.spns, n \notin c
  PROVE  MaySeemSame(f.spns[n], new, old)
<1>1. \A k \in DOMAIN f.spns : (k \in c) \in Differs(f.spns[k], new, old)
  BY Zenon DEF compare
<1>2. (n \in c) \in Differs(f.spns[n], new, old)
  BY <1>1, Zenon
<1>3. (n \in c) = FALSE
  OBVIOUS
<1>4. FALSE \in Differs(f.spns[n], new, old)
  BY <1>2, <1>3, Zenon
<1> QED
  BY <1>4, Zenon DEF MaySeemSame

\* Nothing is cached yet.
LEMMA KeptInit == Init => KeptInv
<1> SUFFICES ASSUME Init PROVE KeptInv
  OBVIOUS
<1>1. rcvFramesCache = <<>> /\ rx = Idle
  BY DEF Init
<1>2. DOMAIN rcvFramesCache = {}
  BY <1>1
<1> QED
  BY <1>1, <1>2, FactoryInit DEF KeptInv, RxOK, CacheOK

\* What is cached, what is missed, and what is there to compare with.
CachedIn(new, cache, id, data) ==
  new = [k \in DOMAIN cache \cup {id} |-> IF k = id THEN data ELSE cache[k]]

\* The signals that were left out though there was nothing to compare with.
MissedIn(new, mis, id, spns, changed, old) ==
  new = (mis \ {<<id, n>> : n \in changed})
          \cup {<<id, n>> : n \in {n \in DOMAIN spns \ changed : ~Complete(spns[n], old)}}

\* What was received before under the same identifier.
OldIn(old, cache, id) == old = IF id \in DOMAIN cache THEN cache[id] ELSE <<>>

\* The signals that compare() left out.
LEMMA ComparedFollows ==
  ASSUME NEW fac, FactoryOK(fac), NEW cache, NEW m, NEW mis, CacheOK(Idle, fac, cache, m, mis),
         NEW id, NEW data, Good(fac, id, data), NEW f, f = getJ1939Frame(fac, id, data).data,
         NEW old, OldIn(old, cache, id),
         NEW changed \in compare(f, data, old),
         NEW new, MissedIn(new, mis, id, f.spns, changed, old)
  PROVE  /\ \A n \in DOMAIN f.spns \ changed : Follows(m, new, <<id, n>>, f.spns[n])
         /\ \A k \in DOMAIN cache \ {id} : \A n \in DOMAIN fac[PgnOf(k)].spns :
              Follows(m, new, <<k, n>>, SignalAt(fac, k, cache[k], n))
<1>1. PICK p, spns : p = PgnOf(id) /\ spns = fac[p].spns
  OBVIOUS
<1>2. SignalsOf(spns, f.spns, Read(p, data))
  BY <1>1, ReceivedFrame DEF Good
<1>3. ASSUME NEW n \in DOMAIN f.spns \ changed
      PROVE  Follows(m, new, <<id, n>>, f.spns[n])
  <2>1. PICK t : t = f.spns[n]
    OBVIOUS
  <2>2. CASE ~Complete(t, old)
    <3>1. <<id, n>> \in new
      BY <2>1, <2>2 DEF MissedIn
    <3> QED
      BY <3>1 DEF Follows
  <2>3. CASE t.type = "string"
    BY <2>1, <2>3 DEF Follows
  <2>4. CASE Complete(t, old) /\ t.type # "string"
    <3>1. MaySeemSame(t, data, old)
      BY <2>1, NotChanged
    <3>2. n \in DOMAIN spns /\ spns[n].type = t.type /\ t = SignalAt(fac, id, data, n)
      BY <1>2, <2>1 DEF SignalsOf, SignalAt
    <3>3. PICK s : s = spns[n]
      OBVIOUS
    <3>4. /\ SignalFields(s) /\ s.offset \in Nat /\ getByteSize(s) \in Nat \ {0}
          /\ s.type # "string"
          /\ t = [s EXCEPT !.value = decodeSPN(s, Read(p, data)).data]
      BY <1>1, <2>4, <3>2, <3>3, SignalComplete
    <3>5. t.offset = s.offset /\ getByteSize(t) = getByteSize(s)
      <4>1. PICK v : v = decodeSPN(s, Read(p, data)).data
        OBVIOUS
      <4>2. t = [s EXCEPT !.value = v]
        BY <3>4, <4>1
      <4> QED
        BY <3>4, <4>2, SameLayout
    <3>6. id \in DOMAIN cache
      <4>1. SUFFICES ASSUME id \notin DOMAIN cache PROVE FALSE
        OBVIOUS
      <4>2. old = <<>>
        BY <4>1 DEF OldIn
      <4>3. Len(<<>>) = 0
        OBVIOUS
      <4>4. Len(old) >= t.offset + getByteSize(t)
        BY <2>4 DEF Complete
      <4> QED
        BY <3>4, <3>5, <4>2, <4>3, <4>4
    <3>7. old = cache[id] /\ Good(fac, id, old)
      BY <3>6 DEF CacheOK, OldIn
    <3>8. SignalAt(fac, id, old, n).value = t.value
      BY <1>1, <2>4, <3>1, <3>2, <3>7, UnchangedValue
    <3>9. SignalAt(fac, id, old, n).type = s.type
      <4>1. SignalsOf(spns, getJ1939Frame(fac, id, old).data.spns, Read(p, old))
        BY <1>1, <3>7, ReceivedFrame DEF Good
      <4> QED
        BY <3>2, <3>3, <4>1 DEF SignalsOf, SignalAt
    <3>10. Follows(m, mis, <<id, n>>, SignalAt(fac, id, old, n))
      BY <1>1, <3>2, <3>6, <3>7 DEF CacheOK
    <3>11. <<id, n>> \in mis => <<id, n>> \in new
      <4>1. <<id, n>> \notin {<<id, k>> : k \in changed}
        OBVIOUS
      <4> QED
        BY <4>1 DEF MissedIn
    <3> QED
      BY <2>1, <3>4, <3>8, <3>9, <3>10, <3>11 DEF Follows
  <2> QED
    BY <2>1, <2>2, <2>3, <2>4
<1>4. ASSUME NEW k \in DOMAIN cache \ {id}, NEW n \in DOMAIN fac[PgnOf(k)].spns
      PROVE  Follows(m, new, <<k, n>>, SignalAt(fac, k, cache[k], n))
  <2>1. <<k, n>> \in mis => <<k, n>> \in new
    BY DEF MissedIn
  <2>2. Follows(m, mis, <<k, n>>, SignalAt(fac, k, cache[k], n))
    BY DEF CacheOK
  <2> QED
    BY <2>1, <2>2 DEF Follows
<1> QED
  BY <1>3, <1>4

\* A frame of which every signal follows comes into the cache.
LEMMA CachedFollows ==
  ASSUME NEW fac, FactoryOK(fac), NEW cache, NEW m, NEW mis, NEW r, NEW id, NEW data,
         Good(fac, id, data),
         \A k \in DOMAIN cache : Good(fac, k, cache[k]),
         \A k \in DOMAIN cache \ {id} : \A n \in DOMAIN fac[PgnOf(k)].spns :
           Follows(m, mis, <<k, n>>, SignalAt(fac, k, cache[k], n)),
         NEW f, f = getJ1939Frame(fac, id, data).data,
         \A n \in DOMAIN f.spns : Follows(m, mis, <<id, n>>, f.spns[n]),
         NEW new, CachedIn(new, cache, id, data)
  PROVE  CacheOK(r, fac, new, m, mis)
<1>1. SignalsOf(fac[PgnOf(id)].spns, f.spns, Read(PgnOf(id), data))
  BY ReceivedFrame DEF Good
<1>2. \A n \in DOMAIN fac[PgnOf(id)].spns : Follows(m, mis, <<id, n>>, SignalAt(fac, id, data, n))
  BY <1>1 DEF SignalsOf, SignalAt
<1>3. ASSUME NEW k \in DOMAIN new
      PROVE  /\ Good(fac, k, new[k])
             /\ \A n \in DOMAIN fac[PgnOf(k)].spns :
                   Follows(m, mis, <<k, n>>, SignalAt(fac, k, new[k], n))
  <2>1. CASE k = id
    <3>1. new[id] = data
      BY DEF CachedIn
    <3> QED
      BY <1>2, <2>1, <3>1
  <2>2. CASE k # id
    <3>1. k \in DOMAIN cache \ {id} /\ new[k] = cache[k]
      BY <2>2 DEF CachedIn
    <3> QED
      BY <3>1
  <2> QED
    BY <2>1, <2>2
<1> QED
  BY <1>3 DEF CacheOK

-----------------------------------------------------------------------------
\* A step of another thread.
LEMMA QuietKeeps ==
  ASSUME KeptInv, UNCHANGED <<factory, rx, rcvFramesCache, historyMap, missed>>
  PROVE  KeptInv'
BY DEF KeptInv

\* A frame is received.
LEMMA OnRcvKeeps ==
  ASSUME KeptInv, NEW id, NEW data, Len(data) \in Nat, PgnOf(id) = DM1_PGN => Len(data) >= 2,
         onRcv(id, data)
  PROVE  KeptInv'
<1> DEFINE r == getJ1939Frame(factory, id, data)
<1>1. rx = Idle /\ UNCHANGED <<factory, historyMap>>
  BY DEF onRcv, senderVars, graphVars
<1>2. /\ FactoryOK(factory) /\ CacheOK(Idle, factory, rcvFramesCache, historyMap, missed)
  BY <1>1 DEF KeptInv
<1>3. \A k \in DOMAIN rcvFramesCache : Good(factory, k, rcvFramesCache[k])
  BY <1>2 DEF CacheOK
<1>4. \A k \in DOMAIN rcvFramesCache : \A n \in DOMAIN factory[PgnOf(k)].spns :
        Follows(historyMap, missed, <<k, n>>, SignalAt(factory, k, rcvFramesCache[k], n))
  BY <1>2 DEF CacheOK
<1>5. \/ UNCHANGED receiverVars
      \/ r.ok /\ r.data.pgn = FMS1_PGN /\ Cache(id, data) /\ UNCHANGED <<rx, missed>>
      \/ /\ r.ok /\ Compared(id, data, r.data)
         /\ id \notin DOMAIN rcvFramesCache \/ Cached(id) # data
  BY Zenon DEF onRcv
<1>6. CASE UNCHANGED receiverVars
  BY <1>1, <1>6, QuietKeeps DEF receiverVars
<1>7. CASE r.ok /\ r.data.pgn = FMS1_PGN /\ Cache(id, data) /\ UNCHANGED <<rx, missed>>
  <2>1. Good(factory, id, data)
    BY <1>7 DEF Good
  <2>2. PICK f : f = r.data
    OBVIOUS
  <2>3. /\ PgnOf(id) \in DOMAIN factory /\ PgnOf(id) = FMS1_PGN
        /\ DOMAIN f.spns = DOMAIN factory[PgnOf(id)].spns
    BY <1>2, <1>7, <2>2, ReceivedFrame DEF SignalsOf
  <2>4. DOMAIN f.spns = {}
    BY <1>2, <2>3 DEF FactoryOK, PrototypeOK
  <2>5. PICK new : CachedIn(new, rcvFramesCache, id, data)
    BY DEF CachedIn
  <2>6. rcvFramesCache' = new
    BY <1>7, <2>5 DEF Cache, CachedIn
  <2>7. CacheOK(Idle, factory, new, historyMap, missed)
    BY <1>2, <1>3, <1>4, <2>1, <2>2, <2>4, <2>5, CachedFollows
  <2>8. /\ factory' = factory /\ historyMap' = historyMap /\ rx' = Idle /\ missed' = missed
    BY <1>1, <1>7
  <2>9. CacheOK(rx, factory, rcvFramesCache, historyMap, missed)'
    BY <2>6, <2>7, <2>8
  <2>10. RxOK(rx, factory, rcvFramesCache, historyMap, missed)'
    BY <2>8 DEF RxOK
  <2> QED
    BY <1>2, <2>8, <2>9, <2>10 DEF KeptInv
<1>8. CASE /\ r.ok /\ Compared(id, data, r.data)
           /\ id \notin DOMAIN rcvFramesCache \/ Cached(id) # data
  <2>1. Good(factory, id, data)
    BY <1>8 DEF Good
  <2>2. PICK f : f = r.data
    OBVIOUS
  <2>3. PICK old : old = Cached(id)
    OBVIOUS
  <2>4. PICK changed \in compare(f, data, old) :
          /\ missed' = (missed \ {<<id, n>> : n \in changed})
                         \cup {<<id, n>> : n \in {n \in DOMAIN f.spns \ changed :
                                                    ~Complete(f.spns[n], old)}}
          /\ IF changed = {} THEN Cache(id, data) /\ UNCHANGED rx
             ELSE /\ rx' = [pc |-> "save", id |-> id, data |-> data, frame |-> f, todo |-> changed]
                  /\ UNCHANGED rcvFramesCache
    BY <1>8, <2>2, <2>3, Zenon DEF Compared
  <2>5. PICK mis : mis = missed'
    OBVIOUS
  <2>6. OldIn(old, rcvFramesCache, id)
    BY <2>3 DEF Cached, OldIn
  <2>7. MissedIn(mis, missed, id, f.spns, changed, old)
    BY <2>4, <2>5 DEF MissedIn
  <2>8. /\ \A n \in DOMAIN f.spns \ changed : Follows(historyMap, mis, <<id, n>>, f.spns[n])
        /\ \A k \in DOMAIN rcvFramesCache \ {id} : \A n \in DOMAIN factory[PgnOf(k)].spns :
             Follows(historyMap, mis, <<k, n>>, SignalAt(factory, k, rcvFramesCache[k], n))
    <3>1. changed \in compare(f, data, old)
      OBVIOUS
    <3>2. f = getJ1939Frame(factory, id, data).data
      BY <2>2
    <3>3. /\ FactoryOK(factory) /\ CacheOK(Idle, factory, rcvFramesCache, historyMap, missed)
          /\ Good(factory, id, data) /\ OldIn(old, rcvFramesCache, id)
          /\ MissedIn(mis, missed, id, f.spns, changed, old)
      BY <1>2, <2>1, <2>6, <2>7
    <3> HIDE DEF r
    <3> QED
      BY <3>1, <3>2, <3>3, ComparedFollows, SMTT(60)
  <2>9. CASE changed = {}
    <3>1. PICK new : CachedIn(new, rcvFramesCache, id, data)
      BY DEF CachedIn
    <3>2. rcvFramesCache' = new /\ rx' = rx
      BY <2>4, <2>9, <3>1 DEF Cache, CachedIn
    <3>3. \A n \in DOMAIN f.spns : Follows(historyMap, mis, <<id, n>>, f.spns[n])
      BY <2>8, <2>9
    <3>4. CacheOK(Idle, factory, new, historyMap, mis)
      BY <1>2, <1>3, <2>1, <2>2, <2>8, <3>1, <3>3, CachedFollows
    <3>5. /\ factory' = factory /\ historyMap' = historyMap /\ rx' = Idle /\ missed' = mis
      BY <1>1, <2>5, <3>2
    <3>6. CacheOK(rx, factory, rcvFramesCache, historyMap, missed)'
      BY <3>2, <3>4, <3>5
    <3>7. RxOK(rx, factory, rcvFramesCache, historyMap, missed)'
      BY <3>5 DEF RxOK
    <3> QED
      BY <1>2, <3>5, <3>6, <3>7 DEF KeptInv
  <2>10. CASE changed # {}
    <3>1. PICK w : w = [pc |-> "save", id |-> id, data |-> data, frame |-> f, todo |-> changed]
      OBVIOUS
    <3>2. rx' = w /\ rcvFramesCache' = rcvFramesCache
      BY <2>4, <2>10, <3>1
    <3>3. w.pc = "save" /\ w.id = id /\ w.data = data /\ w.frame = f /\ w.todo = changed
      BY <3>1
    <3>4. id \notin DOMAIN rcvFramesCache \/ rcvFramesCache[id] # data
      BY <1>8 DEF Cached
    <3>5. RxOK(w, factory, rcvFramesCache, historyMap, mis)
      BY <2>1, <2>2, <2>8, <3>3, <3>4 DEF RxOK
    <3>6. CacheOK(w, factory, rcvFramesCache, historyMap, mis)
      <4>1. w # Idle
        BY <3>3 DEF Idle
      <4> QED
        BY <1>3, <2>8, <3>3, <4>1 DEF CacheOK
    <3>7. /\ factory' = factory /\ historyMap' = historyMap /\ missed' = mis
      BY <1>1, <2>5
    <3>8. CacheOK(rx, factory, rcvFramesCache, historyMap, missed)'
      BY <3>2, <3>6, <3>7
    <3>9. RxOK(rx, factory, rcvFramesCache, historyMap, missed)'
      BY <3>2, <3>5, <3>7
    <3> QED
      BY <1>2, <3>7, <3>8, <3>9 DEF KeptInv
  <2> QED
    BY <2>9, <2>10
<1> QED
  BY <1>5, <1>6, <1>7, <1>8

\* A key that is not touched.
LEMMA KeyKept ==
  ASSUME NEW m, NEW mis, NEW key, NEW s, Follows(m, mis, key, s),
         NEW o, key \in DOMAIN m => key \in DOMAIN o /\ o[key] = m[key]
  PROVE  Follows(o, mis, key, s)
BY DEF Follows

\* A new history begins empty, and its first sample is added next.
LEMMA SaveKeeps ==
  ASSUME KeptInv, NEW n, SaveToHistory(n), UNCHANGED factory
  PROVE  KeptInv'
<1>1. PICK m, w : m = historyMap' /\ w = rx'
  OBVIOUS
<1>2. \A k \in DOMAIN historyMap : k \in DOMAIN m /\ m[k] = historyMap[k]
  BY <1>1 DEF SaveToHistory
<1>3. /\ w.pc = "add" /\ w.id = rx.id /\ w.data = rx.data /\ w.frame = rx.frame
      /\ w.todo = rx.todo /\ w.spn = n
  BY <1>1 DEF SaveToHistory
<1>4. rx.pc = "save" /\ n \in rx.todo /\ UNCHANGED <<rcvFramesCache, missed>>
  BY DEF SaveToHistory
<1>5. rx # Idle /\ w # Idle
  BY <1>3, <1>4 DEF Idle
<1>6. RxOK(w, factory, rcvFramesCache, m, missed)
  <2>1. /\ Good(factory, rx.id, rx.data)
        /\ rx.frame = getJ1939Frame(factory, rx.id, rx.data).data
        /\ \A k \in DOMAIN rx.frame.spns \ rx.todo :
             Follows(historyMap, missed, <<rx.id, k>>, rx.frame.spns[k])
        /\ rx.id \notin DOMAIN rcvFramesCache \/ rcvFramesCache[rx.id] # rx.data
    BY <1>5 DEF KeptInv, RxOK
  <2>2. \A k \in DOMAIN rx.frame.spns \ rx.todo : Follows(m, missed, <<rx.id, k>>, rx.frame.spns[k])
    BY <1>2, <2>1, KeyKept
  <2> QED
    BY <1>3, <1>4, <2>1, <2>2 DEF RxOK
<1>7. CacheOK(w, factory, rcvFramesCache, m, missed)
  <2>1. ASSUME NEW id \in DOMAIN rcvFramesCache, rx.id # id, NEW k \in DOMAIN factory[PgnOf(id)].spns
        PROVE  Follows(m, missed, <<id, k>>, SignalAt(factory, id, rcvFramesCache[id], k))
    <3>1. Follows(historyMap, missed, <<id, k>>, SignalAt(factory, id, rcvFramesCache[id], k))
      BY <1>5, <2>1 DEF KeptInv, CacheOK
    <3> QED
      BY <1>2, <3>1, KeyKept
  <2>2. \A id \in DOMAIN rcvFramesCache : Good(factory, id, rcvFramesCache[id])
    BY DEF KeptInv, CacheOK
  <2> QED
    BY <1>3, <1>5, <2>1, <2>2 DEF CacheOK
<1>8. RxOK(rx, factory, rcvFramesCache, historyMap, missed)'
  BY <1>1, <1>4, <1>6
<1>9. CacheOK(rx, factory, rcvFramesCache, historyMap, missed)'
  BY <1>1, <1>4, <1>7
<1> QED
  BY <1>8, <1>9 DEF KeptInv

\* The value that was received becomes the last of its history.
LEMMA AddKeeps ==
  ASSUME GraphInv, KeptInv, AddSample, UNCHANGED factory
  PROVE  KeptInv'
<1>1. PICK m, w : m = historyMap' /\ w = rx'
  OBVIOUS
<1>2. PICK key, id, n, f, data : /\ key = <<rx.id, rx.spn>> /\ id = rx.id /\ n = rx.spn
                                 /\ f = rx.frame /\ data = rx.data
  OBVIOUS
<1>3. rx.pc = "add" /\ key \in DOMAIN historyMap
  BY <1>2 DEF AddSample, GraphInv, Stamped
<1>4. rx # Idle
  BY <1>3 DEF Idle
<1>5. /\ Good(factory, id, data)
      /\ f = getJ1939Frame(factory, id, data).data
      /\ n \in rx.todo
      /\ \A k \in DOMAIN f.spns \ rx.todo : Follows(historyMap, missed, <<id, k>>, f.spns[k])
      /\ id \notin DOMAIN rcvFramesCache \/ rcvFramesCache[id] # data
  BY <1>2, <1>3, <1>4 DEF KeptInv, RxOK
<1>6. PICK h : h = addSample(historyMap[key], rx.stamp, f.spns[n])
  OBVIOUS
<1>7. m = [historyMap EXCEPT ![key] = h]
  BY <1>1, <1>2, <1>6 DEF AddSample
<1>8. /\ DOMAIN m = DOMAIN historyMap /\ m[key] = h
      /\ \A k \in DOMAIN historyMap : k # key => m[k] = historyMap[k]
  BY <1>3, <1>7
<1>9. Follows(m, missed, key, f.spns[n])
  <2>1. CASE f.spns[n].type = "string"
    BY <2>1 DEF Follows
  <2>2. CASE f.spns[n].type # "string"
    <3>1. DOMAIN historyMap[key] = {"spec", "samples"} /\ IsSeq(historyMap[key].samples)
      BY <1>3 DEF GraphInv, HistoriesOK, HistoryOK
    <3>2. EndsWith(h, f.spns[n].value)
      BY <1>6, <2>2, <3>1, AddSampleEnds
    <3> QED
      BY <1>3, <1>8, <3>2 DEF Follows
  <2> QED
    BY <2>1, <2>2
<1>10. ASSUME NEW k, <<id, k>> # key, NEW s, Follows(historyMap, missed, <<id, k>>, s)
       PROVE  Follows(m, missed, <<id, k>>, s)
  BY <1>8, <1>10, KeyKept
<1>11. PICK left : left = rx.todo \ {n}
  OBVIOUS
<1>12. \A k \in DOMAIN f.spns \ left : Follows(m, missed, <<id, k>>, f.spns[k])
  <2>1. ASSUME NEW k \in DOMAIN f.spns \ left PROVE Follows(m, missed, <<id, k>>, f.spns[k])
    <3>1. CASE k = n
      BY <1>2, <1>9, <3>1
    <3>2. CASE k # n
      <4>1. k \in DOMAIN f.spns \ rx.todo /\ <<id, k>> # key
        BY <1>2, <1>11, <2>1, <3>2
      <4> QED
        BY <1>5, <1>10, <4>1
    <3> QED
      BY <3>1, <3>2
  <2> QED
    BY <2>1
<1>13. \A k \in DOMAIN rcvFramesCache : Good(factory, k, rcvFramesCache[k])
  BY DEF KeptInv, CacheOK
<1>14. \A k \in DOMAIN rcvFramesCache \ {id} : \A j \in DOMAIN factory[PgnOf(k)].spns :
         Follows(m, missed, <<k, j>>, SignalAt(factory, k, rcvFramesCache[k], j))
  <2>1. ASSUME NEW k \in DOMAIN rcvFramesCache \ {id}, NEW j \in DOMAIN factory[PgnOf(k)].spns
        PROVE  Follows(m, missed, <<k, j>>, SignalAt(factory, k, rcvFramesCache[k], j))
    <3>1. Follows(historyMap, missed, <<k, j>>, SignalAt(factory, k, rcvFramesCache[k], j))
      BY <1>2, <1>4 DEF KeptInv, CacheOK
    <3>2. <<k, j>> # key
      BY <1>2
    <3> QED
      BY <1>8, <3>1, <3>2, KeyKept
  <2> QED
    BY <2>1
<1>15. missed' = missed /\ FactoryOK(factory)
  BY DEF AddSample, KeptInv
<1>16. CASE left = {}
  <2>1. PICK new : CachedIn(new, rcvFramesCache, id, data)
    BY DEF CachedIn
  <2>2. rcvFramesCache' = new /\ rx' = Idle
    BY <1>2, <1>11, <1>16, <2>1 DEF AddSample, Cache, CachedIn
  <2>3. \A k \in DOMAIN f.spns : Follows(m, missed, <<id, k>>, f.spns[k])
    BY <1>12, <1>16
  <2>4. CacheOK(Idle, factory, new, m, missed)
    BY <1>5, <1>13, <1>14, <1>15, <2>1, <2>3, CachedFollows
  <2>5. CacheOK(rx, factory, rcvFramesCache, historyMap, missed)'
    BY <1>1, <1>15, <2>2, <2>4
  <2>6. RxOK(rx, factory, rcvFramesCache, historyMap, missed)'
    BY <2>2 DEF RxOK
  <2> QED
    BY <1>15, <2>5, <2>6 DEF KeptInv
<1>17. CASE left # {}
  <2>1. rcvFramesCache' = rcvFramesCache
    BY <1>2, <1>11, <1>17 DEF AddSample
  <2>2. /\ w.pc = "save" /\ w.id = id /\ w.data = data /\ w.frame = f /\ w.todo = left
    BY <1>1, <1>2, <1>11, <1>17 DEF AddSample
  <2>3. w # Idle
    BY <2>2 DEF Idle
  <2>4. RxOK(w, factory, rcvFramesCache, m, missed)
    BY <1>5, <1>12, <2>2 DEF RxOK
  <2>5. CacheOK(w, factory, rcvFramesCache, m, missed)
    BY <1>13, <1>14, <2>2, <2>3 DEF CacheOK
  <2>6. RxOK(rx, factory, rcvFramesCache, historyMap, missed)'
    BY <1>1, <1>15, <2>1, <2>4
  <2>7. CacheOK(rx, factory, rcvFramesCache, historyMap, missed)'
    BY <1>1, <1>15, <2>1, <2>5
  <2> QED
    BY <1>15, <2>6, <2>7 DEF KeptInv
<1> QED
  BY <1>16, <1>17

-----------------------------------------------------------------------------
\* Only the receiver thread changes what it keeps.
LEMMA KeptNext == GraphInv /\ KeptInv /\ [Next]_vars => KeptInv'
<1> SUFFICES ASSUME GraphInv, KeptInv, [Next]_vars PROVE KeptInv'
  OBVIOUS
<1>1. CASE Sender
  <2>1. UNCHANGED <<factory, rx, rcvFramesCache, historyMap, missed>>
    BY <1>1 DEF Sender, Create, SetSpn, AddDTC, SetDTC, DeleteDTC, SetTTS, Edit, receiverVars,
                graphVars
  <2> QED
    BY <2>1, QuietKeeps
<1>2. CASE Bus
  <2>1. PICK e, data : /\ Len(data) \in 0 .. 8
                       /\ PgnOf(e.id) = DM1_PGN => Len(data) >= 2
                       /\ onRcv(e.id, data)
    BY <1>2, Zenon DEF Bus
  <2>2. PICK id : id = e.id
    OBVIOUS
  <2>3. Len(data) \in Nat /\ (PgnOf(id) = DM1_PGN => Len(data) >= 2) /\ onRcv(id, data)
    BY <2>1, <2>2
  <2> QED
    BY <2>3, OnRcvKeeps
<1>3. CASE Receiver
  <2>1. UNCHANGED factory
    BY <1>3 DEF Receiver, senderVars
  <2>2. AddSample \/ \E n : SaveToHistory(n)
    BY <1>3, Zenon DEF Receiver
  <2> QED
    BY <2>1, <2>2, AddKeeps, SaveKeeps
<1>4. CASE ResetReceiver
  <2>1. rx = Idle /\ UNCHANGED <<factory, rx, historyMap, missed>> /\ rcvFramesCache' = <<>>
    BY <1>4 DEF ResetReceiver, senderVars, graphVars
  <2>2. DOMAIN rcvFramesCache' = {}
    BY <2>1
  <2> QED
    BY <2>1, <2>2 DEF KeptInv, RxOK, CacheOK
<1>5. CASE /\ Tick \/ WebSocket \/ Pages(use.clients, Inserting)
           /\ UNCHANGED <<senderVars, receiverVars, sent, resets>>
  <2>1. UNCHANGED <<factory, rx, rcvFramesCache, missed>>
    BY <1>5 DEF senderVars, receiverVars
  <2>2. UNCHANGED historyMap
    <3>1. CASE Tick
      BY <3>1 DEF Tick, graphVars
    <3>2. CASE WebSocket
      BY <3>2 DEF WebSocket, Point, Endless, Writeable, graphVars
    <3>3. CASE Pages(use.clients, Inserting)
      BY <3>3 DEF Pages, Established, Closed, GetGraph
    <3> QED
      BY <1>5, <3>1, <3>2, <3>3
  <2> QED
    BY <2>1, <2>2, QuietKeeps
<1>6. CASE UNCHANGED vars
  <2>1. UNCHANGED <<factory, rx, rcvFramesCache, historyMap, missed>>
    BY <1>6 DEF vars, senderVars, receiverVars, graphVars
  <2> QED
    BY <2>1, QuietKeeps
<1> QED
  BY <1>1, <1>2, <1>3, <1>4, <1>5, <1>6, Zenon DEF Next

(***************************************************************************)
(* Whatever is in the database, whatever is received and in whatever       *)
(* order, and whenever the receiver is reset: when the receiver thread is  *)
(* done with a frame, the history of every signal in it ends with the      *)
(* value received last, except where compare() had nothing to compare      *)
(* with.                                                                   *)
(***************************************************************************)
THEOREM HistoryFollowsTheBus == Spec => []HistoryFollows
<1>1. Init => GraphInv /\ KeptInv
  BY InvInit, KeptInit
<1>2. GraphInv /\ KeptInv /\ [Next]_vars => (GraphInv /\ KeptInv)'
  BY KeptNext, InvNext
<1>3. GraphInv /\ KeptInv => HistoryFollows
  BY KeptFollows
<1> QED
  BY <1>1, <1>2, <1>3, PTL DEF Spec

-----------------------------------------------------------------------------
(***************************************************************************)
(* Types                                                                   *)
(***************************************************************************)
\* The fields of a frame.
FrameKeys == {"pgn", "priority", "src", "dst", "length", "spns", "dtcs", "block", "tts"}

\* The frame of the sending program has a prototype.
SenderInv ==
  /\ use \in Uses
  /\ ecu # None => ecu.pgn \in DOMAIN factory /\ DOMAIN ecu = FrameKeys
  /\ edits \in 0 .. use.edits

\* An answer waits, and a window is computed, only for a page that is there.
SessionInv ==
  /\ sessions \subseteq Clients /\ waiting \subseteq sessions
  /\ \A c \in Clients : userData[c].toSend => c \in sessions
  /\ ws # Ready => ws.client \in sessions
  /\ queries \in 0 .. MaxQueries

\* The bounds of the behaviours.
BoundsInv ==
  /\ clock <= MaxClock
  /\ sent \in 0 .. use.sent /\ resets \in 0 .. use.resets
  /\ terminated \in BOOLEAN

\* All of it.
TypeInv == GraphInv /\ KeptInv /\ SenderInv /\ SessionInv /\ BoundsInv

\* The types follow.
LEMMA TypeInvOK == TypeInv => TypeOK
<1> SUFFICES ASSUME TypeInv PROVE TypeOK
  OBVIOUS
<1>1. /\ clock \in Nat /\ StartUp <= clock /\ clock <= MaxClock
      /\ StartUp \in Nat /\ MaxClock \in Nat
  BY GraphAssumption DEF TypeInv, GraphInv, BoundsInv
<1>2. clock \in StartUp .. MaxClock
  BY <1>1
<1>3. \A k \in DOMAIN historyMap : HistoryOK(historyMap[k], clock)
  BY DEF TypeInv, GraphInv, HistoriesOK
<1>4. \A k \in DOMAIN historyMap : Len(historyMap[k].samples) <= CAPACITY
  BY <1>3 DEF HistoryOK
<1>5. ws # Ready => ws.client \in sessions /\ ws.pos \in DOMAIN historyMap[ws.key].samples
  <2>1. SUFFICES ASSUME ws # Ready
                 PROVE ws.client \in sessions /\ ws.pos \in DOMAIN historyMap[ws.key].samples
    OBVIOUS
  <2>2. ws.key \in DOMAIN historyMap /\ RightPos(historyMap[ws.key], ws.pos, ws.at, ws.had)
    BY <2>1 DEF TypeInv, GraphInv, WindowFits
  <2>3. PICK h : h = historyMap[ws.key]
    OBVIOUS
  <2>4. DOMAIN h.samples = 1 .. Len(h.samples)
    BY <1>3, <2>2, <2>3, SeqFacts DEF HistoryOK
  <2>5. ws.pos \in 1 .. Len(h.samples)
    BY <2>2, <2>3 DEF RightPos
  <2> QED
    BY <2>1, <2>3, <2>4, <2>5 DEF TypeInv, SessionInv
<1>6. GraphTypeOK
  BY <1>2, <1>4, <1>5 DEF GraphTypeOK, TypeInv, SessionInv
<1>7. \A p \in DOMAIN factory : factory[p].pgn = p
  BY DEF TypeInv, KeptInv, FactoryOK, PrototypeOK
<1>8. rx # Idle => rx.id \notin DOMAIN rcvFramesCache \/ rcvFramesCache[rx.id] # rx.data
  BY DEF TypeInv, KeptInv, RxOK
<1>9. rx.pc = "add" => <<rx.id, rx.spn>> \in DOMAIN historyMap
  BY DEF TypeInv, GraphInv, Stamped
<1> QED
  BY <1>6, <1>7, <1>8, <1>9 DEF TypeOK, TypeInv, SenderInv, BoundsInv

\* They hold at first.
LEMMA TypeInvInit == Init => TypeInv
<1> SUFFICES ASSUME Init PROVE TypeInv
  OBVIOUS
<1>1. GraphInv /\ KeptInv
  BY InvInit, KeptInit
<1>2. use \in Uses /\ {use.edits, use.sent, use.resets} \subseteq Nat
  BY UsesAssumption DEF Init
<1>3. SenderInv
  BY <1>2 DEF SenderInv, Init
<1>4. SessionInv
  <2>1. /\ sessions = {} /\ waiting = {} /\ userData = [c \in Clients |-> NoData]
        /\ ws = Ready /\ queries = 0 /\ MaxQueries \in Nat
    BY GraphAssumption DEF Init, GraphInit
  <2>2. NoData.toSend = FALSE
    BY DEF NoData
  <2>3. \A c \in Clients : ~userData[c].toSend
    BY <2>1, <2>2
  <2> QED
    BY <2>1, <2>3 DEF SessionInv
<1>5. BoundsInv
  <2>1. clock = StartUp /\ sent = 0 /\ resets = 0
    BY DEF Init, GraphInit
  <2>2. terminated \in BOOLEAN
    BY Zenon DEF Init, GraphInit
  <2>3. clock <= MaxClock /\ sent \in 0 .. use.sent /\ resets \in 0 .. use.resets
    BY <1>2, <2>1, GraphAssumption
  <2> QED
    BY <2>2, <2>3 DEF BoundsInv
<1> QED
  BY <1>1, <1>3, <1>4, <1>5 DEF TypeInv

\* The sending program changes the frame, not its PGN.
LEMMA SenderKeeps ==
  ASSUME KeptInv, SenderInv, Sender
  PROVE  SenderInv'
<1>1. CASE \E p \in use.pgns, y \in Priorities, a, d \in Addresses : Create(p, y, a, d)
  <2>1. PICK p, y, a, d : Create(p, y, a, d)
    BY <1>1, Zenon
  <2>2. p \in DOMAIN factory /\ UNCHANGED <<use, factory, edits>>
    BY <2>1 DEF Create
  <2>3. PICK f, dst : /\ f \in IF p = FMS1_PGN THEN {FMS1Frame(b) : b \in {0, 3}} ELSE {factory[p]}
                      /\ ecu' = [f EXCEPT !.priority = y, !.src = a, !.dst = dst]
    <3>1. PICK f : /\ f \in IF p = FMS1_PGN THEN {FMS1Frame(b) : b \in {0, 3}} ELSE {factory[p]}
                   /\ ecu' = [f EXCEPT !.priority = y, !.src = a, !.dst = IF Pdu1(p) THEN d ELSE @]
      BY <2>1, Zenon DEF Create
    <3>2. PICK dst : dst = IF Pdu1(p) THEN d ELSE f.dst
      OBVIOUS
    <3>3. ecu' = [f EXCEPT !.priority = y, !.src = a, !.dst = dst]
      BY <3>1, <3>2
    <3> QED
      BY <3>1, <3>3
  <2>4. f.pgn = p /\ DOMAIN f = FrameKeys
    <3>1. CASE p = FMS1_PGN
      <4>1. PICK b : f = FMS1Frame(b)
        BY <2>3, <3>1
      <4>2. PICK g : g = J1939Frame(FMS1_PGN)
        OBVIOUS
      <4>3. DOMAIN g = FrameKeys /\ g.pgn = FMS1_PGN
        BY <4>2, NewFrame DEF FrameKeys
      <4>4. PICK tts : f = [g EXCEPT !.block = b, !.tts = tts]
        BY <4>1, <4>2 DEF FMS1Frame
      <4> QED
        BY <3>1, <4>3, <4>4 DEF FrameKeys
    <3>2. CASE p # FMS1_PGN
      <4>1. f = factory[p]
        BY <2>3, <3>2
      <4> QED
        BY <2>2, <4>1 DEF KeptInv, FactoryOK, PrototypeOK, FrameFields, FrameKeys
    <3> QED
      BY <3>1, <3>2
  <2>5. PICK g : g = ecu'
    OBVIOUS
  <2>6. g.pgn = p /\ DOMAIN g = FrameKeys
    BY <2>3, <2>4, <2>5 DEF FrameKeys
  <2>7. ecu'.pgn \in DOMAIN factory' /\ DOMAIN ecu' = FrameKeys
    BY <2>2, <2>5, <2>6
  <2> QED
    BY <2>2, <2>7 DEF SenderInv
<1>2. CASE ecu # None /\ (SetSpn \/ AddDTC \/ SetDTC \/ DeleteDTC \/ SetTTS)
  <2>1. ecu.pgn \in DOMAIN factory /\ DOMAIN ecu = FrameKeys
    BY <1>2 DEF SenderInv
  <2>2. PICK g : /\ Edit(g)
                 /\ \/ \E spns : g = [ecu EXCEPT !.spns = spns]
                    \/ \E dtcs : g = [ecu EXCEPT !.dtcs = dtcs]
                    \/ \E tts : g = [ecu EXCEPT !.tts = tts]
                    \/ g = ecu
    <3>1. CASE SetSpn
      <4>1. PICK n, v : Edit([ecu EXCEPT !.spns = setValue(@, n, v)])
        BY <3>1, Zenon DEF SetSpn
      <4>2. PICK spns : spns = setValue(ecu.spns, n, v)
        OBVIOUS
      <4>3. Edit([ecu EXCEPT !.spns = spns])
        BY <4>1, <4>2
      <4> QED
        BY <4>3
    <3>2. CASE AddDTC
      <4>1. PICK d : Edit([ecu EXCEPT !.dtcs = Append(@, d)])
        BY <3>2, Zenon DEF AddDTC
      <4>2. PICK dtcs : dtcs = Append(ecu.dtcs, d)
        OBVIOUS
      <4>3. Edit([ecu EXCEPT !.dtcs = dtcs])
        BY <4>1, <4>2
      <4> QED
        BY <4>3
    <3>3. CASE SetDTC
      <4>1. PICK k, d : Edit([ecu EXCEPT !.dtcs[k] = d])
        BY <3>3, Zenon DEF SetDTC
      <4>2. PICK dtcs : dtcs = [ecu.dtcs EXCEPT ![k] = d]
        OBVIOUS
      <4>3. Edit([ecu EXCEPT !.dtcs = dtcs])
        BY <4>1, <4>2
      <4> QED
        BY <4>3
    <3>4. CASE DeleteDTC
      <4>1. PICK k : Edit([ecu EXCEPT !.dtcs = RemoveAt(@, k)])
        BY <3>4, Zenon DEF DeleteDTC
      <4>2. PICK dtcs : dtcs = RemoveAt(ecu.dtcs, k)
        OBVIOUS
      <4>3. Edit([ecu EXCEPT !.dtcs = dtcs])
        BY <4>1, <4>2
      <4> QED
        BY <4>3
    <3>5. CASE SetTTS
      <4>1. PICK n, s : Edit(setTTS(ecu, n, s))
        BY <3>5, Zenon DEF SetTTS
      <4>2. PICK tts : tts = [ecu.tts EXCEPT ![n] = s]
        OBVIOUS
      <4>3. setTTS(ecu, n, s) = ecu \/ setTTS(ecu, n, s) = [ecu EXCEPT !.tts = tts]
        BY <4>2 DEF setTTS
      <4>4. PICK g : g = setTTS(ecu, n, s)
        OBVIOUS
      <4> QED
        BY <4>1, <4>3, <4>4
    <3> QED
      BY <1>2, <3>1, <3>2, <3>3, <3>4, <3>5
  <2>3. g.pgn = ecu.pgn /\ DOMAIN g = FrameKeys
    BY <2>1, <2>2 DEF FrameKeys
  <2>4. /\ edits < use.edits /\ edits' = edits + 1 /\ ecu' = g
        /\ UNCHANGED <<use, factory>>
    BY <2>2, Zenon DEF Edit
  <2>5. edits \in 0 .. use.edits /\ use \in Uses /\ use.edits \in Nat
    BY UsesAssumption DEF SenderInv
  <2>6. edits' \in 0 .. use.edits
    BY <2>4, <2>5
  <2>7. ecu'.pgn \in DOMAIN factory' /\ DOMAIN ecu' = FrameKeys
    BY <2>1, <2>3, <2>4
  <2> QED
    BY <2>4, <2>5, <2>6, <2>7 DEF SenderInv
<1> QED
  BY <1>1, <1>2, Zenon DEF Sender

-----------------------------------------------------------------------------
\* An answer is left for the page whose request is served.
LEMMA AnswerKeeps ==
  ASSUME GraphInv, SessionInv, NEW c \in sessions, NEW g, Answer(c, g),
         UNCHANGED sessions, queries' \in 0 .. MaxQueries
  PROVE  SessionInv'
<1>1. /\ userData' = [userData EXCEPT ![c] = [graph |-> g, toSend |-> TRUE]]
      /\ waiting' = sessions /\ ws' = Ready
  BY DEF Answer
<1>2. DOMAIN userData = Clients
  BY DEF GraphInv
<1>3. \A d \in Clients : d # c => userData'[d] = userData[d]
  BY <1>1, <1>2
<1>4. \A d \in Clients : userData'[d].toSend => d \in sessions
  BY <1>3 DEF SessionInv
<1> QED
  BY <1>1, <1>4 DEF SessionInv

\* A page that comes or goes has no answer waiting.
LEMMA ForgetKeeps ==
  ASSUME GraphInv, SessionInv, ws = Ready, NEW c, NEW s, s \subseteq Clients,
         sessions' = s, waiting' \subseteq s, sessions \ {c} \subseteq s,
         userData' = [userData EXCEPT ![c] = NoData], UNCHANGED <<ws, queries>>
  PROVE  SessionInv'
<1>1. DOMAIN userData = Clients
  BY DEF GraphInv
<1>2. NoData.toSend = FALSE
  BY DEF NoData
<1>3. ASSUME NEW d \in Clients, userData'[d].toSend PROVE d \in s
  <2>1. CASE d = c
    <3>1. userData'[d] = NoData
      BY <1>1, <2>1
    <3> QED
      BY <1>2, <1>3, <3>1
  <2>2. CASE d # c
    <3>1. userData'[d] = userData[d]
      BY <1>1, <2>2
    <3>2. d \in sessions
      BY <1>3, <3>1 DEF SessionInv
    <3> QED
      BY <2>2, <3>2
  <2> QED
    BY <2>1, <2>2
<1> QED
  BY <1>3 DEF SessionInv

\* Points, the end of a window and the callback that sends.
LEMMA WebSocketKeeps ==
  ASSUME GraphInv, SessionInv, WebSocket
  PROVE  SessionInv'
<1>1. CASE Point
  <2>1. ws # Ready /\ UNCHANGED <<sessions, queries>>
    BY <1>1 DEF Point
  <2>2. ws.client \in sessions /\ queries \in 0 .. MaxQueries
    BY <2>1 DEF SessionInv
  <2>3. PICK points, at, pos, g :
          \/ /\ ws' = [ws EXCEPT !.points = points, !.at = at, !.pos = pos]
             /\ UNCHANGED <<userData, waiting>>
          \/ Answer(ws.client, g)
    <3>1. PICK h, points, at :
            \/ /\ ws' = [ws EXCEPT !.points = points, !.at = at, !.pos = NextPos(h, @, at)]
               /\ UNCHANGED <<userData, waiting>>
            \/ Answer(ws.client, [key |-> ws.key, had |-> ws.had, points |-> points])
      BY <1>1, Zenon DEF Point
    <3>2. PICK pos : pos = NextPos(h, ws.pos, at)
      OBVIOUS
    <3>3. PICK g : g = [key |-> ws.key, had |-> ws.had, points |-> points]
      OBVIOUS
    <3> QED
      BY <3>1, <3>2, <3>3
  <2>4. CASE /\ ws' = [ws EXCEPT !.points = points, !.at = at, !.pos = pos]
             /\ UNCHANGED <<userData, waiting>>
    <3>1. "client" \in DOMAIN ws
      BY <2>1 DEF GraphInv, WindowFits
    <3>2. ws'.client = ws.client
      BY <2>4, <3>1
    <3> QED
      BY <2>1, <2>2, <2>4, <3>2 DEF SessionInv
  <2>5. CASE Answer(ws.client, g)
    <3>1. PICK c : c = ws.client
      OBVIOUS
    <3>2. c \in sessions /\ Answer(c, g) /\ queries' \in 0 .. MaxQueries
      BY <2>1, <2>2, <2>5, <3>1
    <3> QED
      BY <2>1, <3>2, AnswerKeeps
  <2> QED
    BY <2>3, <2>4, <2>5
<1>2. CASE Endless
  BY <1>2 DEF Endless, graphVars, SessionInv
<1>3. ASSUME NEW c, Writeable(c) PROVE SessionInv'
  <2>1. /\ ws = Ready /\ waiting' = waiting \ {c} /\ userData' = [userData EXCEPT ![c] = NoData]
        /\ UNCHANGED <<sessions, ws, queries>>
    BY <1>3 DEF Writeable
  <2>2. PICK s : s = sessions
    OBVIOUS
  <2>3. s \subseteq Clients /\ sessions' = s /\ waiting' \subseteq s /\ sessions \ {c} \subseteq s
    BY <2>1, <2>2 DEF SessionInv
  <2> QED
    BY <2>1, <2>3, ForgetKeeps
<1> QED
  BY <1>1, <1>2, <1>3 DEF WebSocket

\* What a page does.
LEMMA PagesKeep ==
  ASSUME GraphInv, SessionInv, NEW cs, cs \subseteq Clients, NEW i, Pages(cs, i)
  PROVE  SessionInv'
<1>1. PICK c \in cs : Established(c) \/ Closed(c) \/ \E q \in Queries : GetGraph(c, q, i)
  BY DEF Pages
<1>2. CASE Established(c)
  <2>1. /\ ws = Ready /\ sessions' = sessions \cup {c} /\ userData' = [userData EXCEPT ![c] = NoData]
        /\ UNCHANGED <<waiting, ws, queries>>
    BY <1>2 DEF Established
  <2>2. PICK s : s = sessions \cup {c}
    OBVIOUS
  <2>3. s \subseteq Clients /\ sessions' = s /\ waiting' \subseteq s /\ sessions \ {c} \subseteq s
    BY <1>1, <2>1, <2>2 DEF SessionInv
  <2> QED
    BY <2>1, <2>3, ForgetKeeps
<1>3. CASE Closed(c)
  <2>1. /\ ws = Ready /\ sessions' = sessions \ {c} /\ userData' = [userData EXCEPT ![c] = NoData]
        /\ waiting' = waiting \ {c} /\ UNCHANGED <<ws, queries>>
    BY <1>3 DEF Closed
  <2>2. PICK s : s = sessions \ {c}
    OBVIOUS
  <2>3. s \subseteq Clients /\ sessions' = s /\ waiting' \subseteq s /\ sessions \ {c} \subseteq s
    BY <2>1, <2>2 DEF SessionInv
  <2> QED
    BY <2>1, <2>3, ForgetKeeps
<1>4. ASSUME NEW q \in Queries, GetGraph(c, q, i) PROVE SessionInv'
  <2>1. /\ c \in sessions /\ queries < MaxQueries /\ queries' = queries + 1 /\ UNCHANGED sessions
    BY <1>4 DEF GetGraph
  <2>2. queries' \in 0 .. MaxQueries
    BY <2>1, GraphAssumption DEF SessionInv
  <2>3. GraphEmpty(c, q) \/ GraphDivision(q) \/ GraphBegins(c, q) \/ GraphRace(c)
    BY <1>4, Zenon DEF GetGraph
  <2>4. CASE Answer(c, Empty)
    BY <2>1, <2>2, <2>4, AnswerKeeps
  <2>5. CASE UNCHANGED <<userData, waiting, ws>>
    BY <2>1, <2>2, <2>5 DEF SessionInv
  <2>6. CASE GraphBegins(c, q)
    <3>1. PICK w : w = ws'
      OBVIOUS
    <3>2. w.client = c /\ UNCHANGED <<userData, waiting>>
      BY <2>6, <3>1 DEF GraphBegins
    <3>3. ws'.client \in sessions'
      BY <2>1, <3>1, <3>2
    <3> QED
      BY <2>1, <2>2, <3>2, <3>3 DEF SessionInv
  <2> QED
    BY <2>3, <2>4, <2>5, <2>6, Zenon DEF GraphEmpty, GraphDivision, GraphRace
<1> QED
  BY <1>1, <1>2, <1>3, <1>4

\* And they are kept.
LEMMA TypeInvNext == TypeInv /\ [Next]_vars => TypeInv'
<1> SUFFICES ASSUME TypeInv, [Next]_vars PROVE TypeInv'
  OBVIOUS
<1>1. GraphInv' /\ KeptInv'
  BY KeptNext, InvNext DEF TypeInv
<1>2. /\ use \in Uses /\ use.sent \in Nat /\ use.resets \in Nat /\ use.clients \subseteq Clients
      /\ StartUp \in Nat /\ MaxClock \in Nat /\ clock \in Nat
  BY UsesAssumption, GraphAssumption DEF TypeInv, SenderInv, GraphInv
<1>3. SenderInv'
  <2>1. CASE Sender
    BY <2>1, SenderKeeps DEF TypeInv
  <2>2. CASE UNCHANGED senderVars
    BY <2>2 DEF TypeInv, SenderInv, senderVars
  <2>3. Sender \/ UNCHANGED senderVars
    <3>1. CASE Bus
      BY <3>1, Zenon DEF Bus, onRcv
    <3>2. CASE Receiver
      BY <3>2, Zenon DEF Receiver
    <3>3. CASE ResetReceiver
      BY <3>3, Zenon DEF ResetReceiver
    <3>4. CASE UNCHANGED vars
      BY <3>4 DEF vars
    <3>5. CASE UNCHANGED <<senderVars, receiverVars, sent, resets>>
      BY <3>5
    <3> QED
      BY <3>1, <3>2, <3>3, <3>4, <3>5, Zenon DEF Next
  <2> QED
    BY <2>1, <2>2, <2>3
<1>4. SessionInv'
  <2>1. CASE UNCHANGED <<sessions, userData, waiting, ws, queries>>
    BY <2>1 DEF TypeInv, SessionInv
  <2>2. CASE WebSocket
    BY <2>2, WebSocketKeeps DEF TypeInv
  <2>3. CASE Pages(use.clients, Inserting)
    <3>1. PICK cs, i : cs = use.clients /\ i = Inserting
      OBVIOUS
    <3>2. cs \subseteq Clients /\ Pages(cs, i)
      BY <1>2, <2>3, <3>1, Zenon
    <3> QED
      BY <3>2, PagesKeep DEF TypeInv
  <2>4. CASE Sender
    BY <2>1, <2>4 DEF Sender, graphVars
  <2>5. CASE Bus
    <3>1. UNCHANGED graphVars
      BY <2>5, Zenon DEF Bus, onRcv
    <3> QED
      BY <2>1, <3>1 DEF graphVars
  <2>6. CASE Receiver
    BY <2>1, <2>6 DEF Receiver
  <2>7. CASE ResetReceiver
    BY <2>1, <2>7 DEF ResetReceiver, graphVars
  <2>8. CASE Tick
    BY <2>1, <2>8 DEF Tick, graphVars
  <2>9. CASE UNCHANGED vars
    BY <2>1, <2>9 DEF vars, graphVars
  <2> QED
    BY <2>2, <2>3, <2>4, <2>5, <2>6, <2>7, <2>8, <2>9, Zenon DEF Next
<1>5. clock' <= MaxClock
  <2>1. clock <= MaxClock
    BY DEF TypeInv, BoundsInv
  <2>2. CASE Tick
    BY <1>2, <2>2 DEF Tick
  <2>3. CASE UNCHANGED clock
    BY <2>1, <2>3
  <2>4. Tick \/ UNCHANGED clock
    <3>1. CASE Sender
      BY <3>1 DEF Sender
    <3>2. CASE Bus
      BY <3>2, Zenon DEF Bus, onRcv
    <3>3. CASE Receiver
      BY <3>3 DEF Receiver
    <3>4. CASE ResetReceiver
      BY <3>4 DEF ResetReceiver
    <3>5. CASE WebSocket
      BY <3>5 DEF WebSocket, Point, Endless, Writeable
    <3>6. CASE Pages(use.clients, Inserting)
      BY <3>6 DEF Pages, Established, Closed, GetGraph
    <3>7. CASE UNCHANGED vars
      BY <3>7 DEF vars
    <3> QED
      BY <3>1, <3>2, <3>3, <3>4, <3>5, <3>6, <3>7, Zenon DEF Next
  <2> QED
    BY <2>2, <2>3, <2>4
<1>6. use' = use
  BY DEF Next, vars, senderVars, Sender, Create, SetSpn, AddDTC, SetDTC, DeleteDTC, SetTTS, Edit,
         Bus, onRcv, Receiver, ResetReceiver
<1>7. sent' \in 0 .. use.sent
  <2>1. sent \in 0 .. use.sent
    BY DEF TypeInv, BoundsInv
  <2>2. CASE sent < use.sent /\ sent' = sent + 1
    BY <1>2, <2>1, <2>2
  <2>3. CASE UNCHANGED sent
    BY <2>1, <2>3
  <2>4. (sent < use.sent /\ sent' = sent + 1) \/ UNCHANGED sent
    <3>1. CASE Bus
      BY <3>1, Zenon DEF Bus, onRcv
    <3> QED
      BY <3>1 DEF Next, vars, Sender, Receiver, ResetReceiver
  <2> QED
    BY <2>2, <2>3, <2>4
<1>8. resets' \in 0 .. use.resets
  <2>1. resets \in 0 .. use.resets
    BY DEF TypeInv, BoundsInv
  <2>2. CASE resets < use.resets /\ resets' = resets + 1
    BY <1>2, <2>1, <2>2
  <2>3. CASE UNCHANGED resets
    BY <2>1, <2>3
  <2>4. (resets < use.resets /\ resets' = resets + 1) \/ UNCHANGED resets
    <3>1. CASE Bus
      BY <3>1, Zenon DEF Bus, onRcv
    <3> QED
      BY <3>1 DEF Next, vars, Sender, Receiver, ResetReceiver
  <2> QED
    BY <2>2, <2>3, <2>4
<1>9. terminated' \in BOOLEAN
  <2>1. terminated \in BOOLEAN
    BY DEF TypeInv, BoundsInv
  <2>2. terminated' = TRUE \/ UNCHANGED terminated
    <3>1. CASE Sender
      BY <3>1 DEF Sender
    <3>2. CASE Bus
      BY <3>2, Zenon DEF Bus, onRcv
    <3>3. CASE Receiver
      BY <3>3 DEF Receiver
    <3>4. CASE ResetReceiver
      BY <3>4 DEF ResetReceiver
    <3>5. CASE Tick
      BY <3>5 DEF Tick
    <3>6. CASE WebSocket
      BY <3>6 DEF WebSocket, Point, Endless, Writeable
    <3>7. CASE Pages(use.clients, Inserting)
      <4>1. ASSUME NEW c, NEW q, NEW i, GetGraph(c, q, i) PROVE terminated' = TRUE \/ UNCHANGED terminated
        BY <4>1, Zenon DEF GetGraph, GraphEmpty, GraphDivision, GraphBegins, GraphRace
      <4> QED
        BY <3>7, <4>1 DEF Pages, Established, Closed
    <3>8. CASE UNCHANGED vars
      BY <3>8 DEF vars
    <3> QED
      BY <3>1, <3>2, <3>3, <3>4, <3>5, <3>6, <3>7, <3>8, Zenon DEF Next
  <2> QED
    BY <2>1, <2>2, Zenon
<1>10. BoundsInv'
  BY <1>5, <1>6, <1>7, <1>8, <1>9 DEF BoundsInv
<1> QED
  BY <1>1, <1>3, <1>4, <1>10 DEF TypeInv

(***************************************************************************)
(* The type invariant of the whole way of a signal: the factory makes      *)
(* frames of the PGN they are asked for, also after the sender has changed *)
(* its clone in every way it can; the receiver thread works on data that   *)
(* are not in the cache; a window is at a sample of a history that is      *)
(* there; only sessions that are open have something to send.              *)
(***************************************************************************)
THEOREM TypeCorrect == Spec => []TypeOK
BY TypeInvInit, TypeInvNext, TypeInvOK, PTL DEF Spec

=============================================================================

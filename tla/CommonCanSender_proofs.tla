------------------------ MODULE CommonCanSender_proofs ------------------------
(***************************************************************************)
(* Proofs for CommonCanSender: its types, that no two rings carry the same *)
(* ids, that the calls of the application take effect, and the cadence.    *)
(***************************************************************************)
EXTENDS CommonCanSender, WellFoundedInduction, TLAPS

\* < is well-founded on the naturals, as a relation.
LEMMA LessThan ==
  \E R : /\ IsWellFoundedOn(R, Nat)
         /\ \A i, j \in Nat : i < j => <<i, j>> \in R
<1>1. \A i, j \in Nat : i < j => <<i, j>> \in OpToRel(<, Nat)
  BY Zenon DEF OpToRel
<1> QED
  BY <1>1, NatLessThanWellFounded, Zenon

\* Every set of naturals has a minimal element.
LEMMA Minimal ==
  ASSUME NEW R, NEW T, IsWellFoundedOn(R, Nat), T \subseteq Nat, T # {}
  PROVE  \E x \in T : \A y \in T : ~ (<<y, x>> \in R)
BY WFMin, Zenon

\* Of the positions with a match there is a first one.
LEMMA First ==
  \A s, ids : \A n \in Nat :
    (\E k \in 1 .. n : s[k].ids = ids)
      => \E i \in 1 .. n : /\ s[i].ids = ids
                           /\ \A j \in 1 .. i - 1 : s[j].ids # ids
<1> SUFFICES ASSUME NEW s, NEW ids, NEW n \in Nat,
                    \E k \in 1 .. n : s[k].ids = ids
             PROVE  \E i \in 1 .. n : /\ s[i].ids = ids
                                      /\ \A j \in 1 .. i - 1 : s[j].ids # ids
  BY Zenon
<1>1. PICK R : /\ IsWellFoundedOn(R, Nat)
               /\ \A i, j \in Nat : i < j => <<i, j>> \in R
  BY LessThan, Zenon
<1> DEFINE T == {i \in 1 .. n : s[i].ids = ids}
<1>2. T \subseteq Nat /\ T # {}
  OBVIOUS
<1>3. PICK i \in T : \A j \in T : ~ (<<j, i>> \in R)
  <2> HIDE DEF T
  <2>1. \E x \in T : \A y \in T : ~ (<<y, x>> \in R)
    BY <1>1, <1>2, Minimal, Zenon
  <2> QED
    BY <2>1
<1>4. ASSUME NEW j \in 1 .. i - 1 PROVE s[j].ids # ids
  <2>1. SUFFICES ASSUME s[j].ids = ids PROVE FALSE
    OBVIOUS
  <2>2. j \in T /\ j < i /\ j \in Nat /\ i \in Nat
    BY <2>1
  <2> QED
    BY <1>1, <1>3, <2>2
<1> QED
  BY <1>4

\* What the search of sendFrames and unSendFrames finds.
LEMMA FindFacts ==
  ASSUME mFrameRings \in Seq(Rings), NEW ids
  PROVE  /\ Find(ids) \in 0 .. Len(mFrameRings)
         /\ Find(ids) # 0 => mFrameRings[Find(ids)].ids = ids
         /\ Find(ids) = 0 => \A i \in 1 .. Len(mFrameRings) : mFrameRings[i].ids # ids
<1>1. Len(mFrameRings) \in Nat
  OBVIOUS
<1>2. CASE \E i \in 1 .. Len(mFrameRings) : mFrameRings[i].ids = ids
  <2>1. \E i \in 1 .. Len(mFrameRings) :
           /\ mFrameRings[i].ids = ids
           /\ \A j \in 1 .. i - 1 : mFrameRings[j].ids # ids
    <3> DEFINE n == Len(mFrameRings)
               M(i) == mFrameRings[i].ids = ids
               F(i) == M(i) /\ \A j \in 1 .. i - 1 : mFrameRings[j].ids # ids
    <3>1. \A m \in Nat : (\E i \in 1 .. m : M(i)) => \E i \in 1 .. m : F(i)
      BY First
    <3>2. n \in Nat /\ \E i \in 1 .. n : M(i)
      BY <1>1, <1>2
    <3> HIDE DEF M, F, n
    <3>3. \E i \in 1 .. n : F(i)
      BY <3>1, <3>2
    <3> QED
      BY <3>3 DEF n, M, F
  <2>2. Find(ids) = CHOOSE i \in 1 .. Len(mFrameRings) :
                      /\ mFrameRings[i].ids = ids
                      /\ \A j \in 1 .. i - 1 : mFrameRings[j].ids # ids
    BY <1>2 DEF Find
  <2>3. Find(ids) \in 1 .. Len(mFrameRings) /\ mFrameRings[Find(ids)].ids = ids
    BY <2>1, <2>2
  <2> QED
    BY <1>1, <2>3
<1>3. CASE ~ \E i \in 1 .. Len(mFrameRings) : mFrameRings[i].ids = ids
  BY <1>1, <1>3 DEF Find
<1> QED
  BY <1>2, <1>3

\* Erasing what was found moves the rings behind it up by one.
LEMMA ErasedFacts ==
  ASSUME mFrameRings \in Seq(Rings), NEW k \in 0 .. Len(mFrameRings)
  PROVE  /\ Erased(k) \in Seq(Rings)
         /\ Len(Erased(k)) = IF k = 0 THEN Len(mFrameRings) ELSE Len(mFrameRings) - 1
         /\ \A i \in 1 .. Len(Erased(k)) :
              Erased(k)[i] = IF k = 0 \/ i < k THEN mFrameRings[i]
                                               ELSE mFrameRings[i + 1]
<1>1. CASE k = 0
  BY <1>1 DEF Erased
<1>2. CASE k # 0
  <2> DEFINE a == SubSeq(mFrameRings, 1, k - 1)
             b == SubSeq(mFrameRings, k + 1, Len(mFrameRings))
  <2>1. Len(mFrameRings) \in Nat /\ k \in 1 .. Len(mFrameRings)
    BY <1>2
  <2>2. /\ a \in Seq(Rings) /\ Len(a) = k - 1
        /\ \A i \in 1 .. k - 1 : a[i] = mFrameRings[i]
    BY <2>1
  <2>3. /\ b \in Seq(Rings) /\ Len(b) = Len(mFrameRings) - k
        /\ \A i \in 1 .. Len(mFrameRings) - k : b[i] = mFrameRings[k + i]
    BY <2>1
  <2>4. Erased(k) = a \o b
    BY <1>2 DEF Erased
  <2> HIDE DEF a, b
  <2>5. /\ Erased(k) \in Seq(Rings) /\ Len(Erased(k)) = Len(mFrameRings) - 1
        /\ \A i \in 1 .. Len(mFrameRings) - 1 :
             Erased(k)[i] = IF i <= Len(a) THEN a[i] ELSE b[i - Len(a)]
    BY <2>1, <2>2, <2>3, <2>4
  <2>6. ASSUME NEW i \in 1 .. Len(mFrameRings) - 1
        PROVE  Erased(k)[i] = IF i < k THEN mFrameRings[i] ELSE mFrameRings[i + 1]
    <3>1. CASE i < k
      BY <2>1, <2>2, <2>5, <3>1
    <3>2. CASE ~(i < k)
      <4>1. i - (k - 1) \in 1 .. Len(mFrameRings) - k /\ k + (i - (k - 1)) = i + 1
        BY <2>1, <3>2
      <4>2. Erased(k)[i] = b[i - (k - 1)]
        BY <2>1, <2>2, <2>5, <3>2
      <4> QED
        BY <2>3, <3>2, <4>1, <4>2
    <3> QED
      BY <3>1, <3>2
  <2> QED
    BY <1>2, <2>5, <2>6
<1> QED
  BY <1>1, <1>2

-----------------------------------------------------------------------------
(* Types                                                                   *)

\* The period of every frame of a ring is an integer.
LEMMA PeriodType ==
  ASSUME NEW r \in Rings
  PROVE  /\ Len(r.ids) \in Nat \ {0}
         /\ r.period \in Nat
         /\ r.period \div Len(r.ids) \in Nat
         /\ r.period % Len(r.ids) \in Nat
         /\ getCurrentPeriod(r) \in Int
<1>1. r.period \in Nat /\ r.mCurrentpos \in Nat /\ r.ids \in Ids
  BY DEF Rings
<1>2. Len(r.ids) \in Nat \ {0}
  BY <1>1, SetsAssumption DEF Ids
<1>3. r.period \div Len(r.ids) \in Nat /\ r.period % Len(r.ids) \in Nat
  BY <1>1, <1>2
<1> QED
  BY <1>1, <1>2, <1>3 DEF getCurrentPeriod

\* What the fields of a ring are after one of its frames was sent.
LEMMA TransmittedFacts ==
  ASSUME NEW r \in Rings, r.mCurrentpos < Len(r.ids), since \in Nat
  PROVE  /\ Transmitted(r) \in Rings
         /\ shift(r) \in Rings
         /\ Transmitted(r).ids = r.ids
         /\ Transmitted(r).period = r.period
         /\ Transmitted(r).mCurrentpos = shift(r).mCurrentpos
         /\ Transmitted(r).mCurrentpos < Len(r.ids)
         /\ Transmitted(r).sent
         /\ Transmitted(r).age = Timestamp(r, shift(r))
         /\ Transmitted(r).phase = Phase(r)
<1>1. Len(r.ids) \in Nat \ {0} /\ r.mCurrentpos \in Nat /\ r.age \in Int
      /\ r.phase \in Int /\ r.period \in Nat /\ r.sent \in BOOLEAN
  BY PeriodType DEF Rings
<1>2. /\ shift(r) \in Rings /\ shift(r).ids = r.ids /\ shift(r).period = r.period
      /\ shift(r).mCurrentpos \in Nat /\ shift(r).mCurrentpos < Len(r.ids)
  BY <1>1 DEF shift, Rings
<1>3. getCurrentPeriod(shift(r)) \in Int
  BY <1>2, PeriodType
<1>4. Timestamp(r, shift(r)) \in Int /\ Phase(r) \in Int
  BY <1>1, <1>3 DEF Timestamp, Phase
<1> QED
  BY <1>2, <1>4 DEF Transmitted, Rings

\* A ring that grew older.
LEMMA OlderFacts ==
  ASSUME NEW r \in Rings
  PROVE  /\ Older(r) \in Rings
         /\ Older(r).ids = r.ids
         /\ Older(r).period = r.period
         /\ Older(r).mCurrentpos = r.mCurrentpos
         /\ Older(r).sent = r.sent
         /\ r.sent => Older(r).age = r.age + 1 /\ Older(r).phase = r.phase + 1
<1>1. CASE r.sent
  <2>1. r.age + 1 \in Int /\ r.phase + 1 \in Int
    BY DEF Rings
  <2>2. Older(r) = [r EXCEPT !.age = r.age + 1, !.phase = r.phase + 1]
    BY <1>1 DEF Older
  <2> QED
    BY <1>1, <2>1, <2>2 DEF Rings
<1>2. CASE ~r.sent
  BY <1>2 DEF Older
<1> QED
  BY <1>1, <1>2

\* A new ring starts at its first frame and has not been sent.
LEMMA NewRingFacts ==
  ASSUME NEW f \in Sets
  PROVE  /\ NewRing(f) \in Rings
         /\ NewRing(f).ids = f.ids
         /\ NewRing(f).period = f.period
         /\ NewRing(f).mCurrentpos = 0
         /\ ~NewRing(f).sent
         /\ 0 < Len(f.ids)
<1>1. f.ids \in Ids /\ f.period \in Nat /\ 0 < Len(f.ids)
  BY SetsAssumption DEF Ids
<1> QED
  BY <1>1 DEF NewRing, Rings

(***************************************************************************)
(* The rings after a pass's step, in terms of the rings before.            *)
(***************************************************************************)
Visited(i) ==
  IF i = ring /\ Due(mFrameRings[i]) THEN Transmitted(mFrameRings[i])
                                     ELSE mFrameRings[i]

\* A step of the pass changes one ring.
LEMMA VisitFacts ==
  ASSUME TypeOK, Visit
  PROVE  /\ mFrameRings' \in Seq(Rings)
         /\ Len(mFrameRings') = Len(mFrameRings)
         /\ \A i \in 1 .. Len(mFrameRings) : mFrameRings'[i] = Visited(i)
<1>1. ring \in 1 .. Len(mFrameRings) /\ mFrameRings \in Seq(Rings)
      /\ Len(mFrameRings) \in Nat
  BY DEF TypeOK, Visit
<1>2. mFrameRings[ring] \in Rings
      /\ mFrameRings[ring].mCurrentpos < Len(mFrameRings[ring].ids)
      /\ since \in Nat
  BY <1>1, SetsAssumption DEF TypeOK
<1>3. Visited(ring) \in Rings
  BY <1>2, TransmittedFacts DEF Visited
<1>4. mFrameRings' = [mFrameRings EXCEPT ![ring] = Visited(ring)]
  BY <1>1 DEF Visit, Visited
<1>5. \A i \in 1 .. Len(mFrameRings) : i # ring => Visited(i) = mFrameRings[i]
  BY DEF Visited
<1> HIDE DEF Visited
<1> QED
  BY <1>1, <1>3, <1>4, <1>5

\* A millisecond makes every ring older.
LEMMA TickFacts ==
  ASSUME TypeOK, Tick
  PROVE  /\ mFrameRings' \in Seq(Rings)
         /\ Len(mFrameRings') = Len(mFrameRings)
         /\ \A i \in 1 .. Len(mFrameRings) :
              mFrameRings[i] \in Rings /\ mFrameRings'[i] = Older(mFrameRings[i])
<1>1. \A i \in 1 .. Len(mFrameRings) :
        mFrameRings[i] \in Rings /\ Older(mFrameRings[i]) \in Rings
  BY OlderFacts DEF TypeOK
<1>2. Len(mFrameRings) \in Nat
  BY DEF TypeOK
<1>3. mFrameRings' = [i \in 1 .. Len(mFrameRings) |-> Older(mFrameRings[i])]
  BY DEF Tick
<1> QED
  BY <1>1, <1>2, <1>3

-----------------------------------------------------------------------------
(* The rings and the calls                                                 *)

\* The arguments of the call the application is in.
LEMMA CallFacts ==
  ASSUME api \in Calls
  PROVE  /\ api.op = "send" => api.set \in Sets /\ api.found \in Nat
         /\ api.op = "unsend" => api.ids \in Ids /\ api.found \in Nat
BY DEF Calls, Idle

\* k is where ids is among the rings, or 0 if they are not there.
Matches(k, ids) ==
  /\ k \in 0 .. Len(mFrameRings)
  /\ k # 0 => mFrameRings[k].ids = ids
  /\ k = 0 => \A i \in 1 .. Len(mFrameRings) : mFrameRings[i].ids # ids

(***************************************************************************)
(* What was found without the lock is still right when the lock is taken:  *)
(* run() neither moves nor renames a ring.                                 *)
(***************************************************************************)
FoundIsCurrent ==
  /\ api.op = "send" => Matches(api.found, api.set.ids)
  /\ api.op = "unsend" => Matches(api.found, api.ids)

\* Outside of a pass run() is at the first ring.
Outside == run # "pass" => ring = 1

RingsInv == TypeOK /\ Outside /\ FoundIsCurrent /\ UniqueRings

\* At first there are no rings.
LEMMA RingsInit == Init => RingsInv
<1> SUFFICES ASSUME Init PROVE RingsInv
  OBVIOUS
<1>1. mFrameRings = << >> /\ Len(mFrameRings) = 0
  BY DEF Init
<1>2. TypeOK
  <2>1. mFrameRings \in Seq(Rings) /\ ring \in 1 .. Len(mFrameRings) + 1
        /\ since \in 0 .. MaxDelay
    BY <1>1, SetsAssumption DEF Init
  <2>2. api \in Calls
    BY DEF Init, Calls
  <2>3. mFinished \in BOOLEAN /\ run \in {"sleep", "lock", "pass", "done"}
    BY Zenon DEF Init
  <2>4. \A i \in 1 .. Len(mFrameRings) :
          mFrameRings[i].mCurrentpos < Len(mFrameRings[i].ids)
    BY <1>1
  <2> QED
    BY <2>1, <2>2, <2>3, <2>4, Zenon DEF TypeOK
<1> QED
  BY <1>1, <1>2 DEF Init, RingsInv, Outside, FoundIsCurrent, UniqueRings, Idle

\* Steps that keep the ids of every ring keep what was found.
LEMMA SameIds ==
  ASSUME FoundIsCurrent, UniqueRings, TypeOK,
         Len(mFrameRings') = Len(mFrameRings),
         \A i \in 1 .. Len(mFrameRings) : mFrameRings'[i].ids = mFrameRings[i].ids
  PROVE  UniqueRings' /\ (api' = api => FoundIsCurrent')
<1>1. Len(mFrameRings) \in Nat
  BY DEF TypeOK
<1>2. UniqueRings'
  BY <1>1 DEF UniqueRings
<1>3. ASSUME NEW k, NEW ids, Matches(k, ids) PROVE Matches(k, ids)'
  BY <1>1, <1>3 DEF Matches
<1>4. ASSUME api' = api PROVE FoundIsCurrent'
  BY <1>3, <1>4 DEF FoundIsCurrent
<1> QED
  BY <1>2, <1>4

\* The rings left by erase are rings of before, in their order.
LEMMA EraseStep ==
  ASSUME TypeOK, UniqueRings, NEW k, NEW ids, Matches(k, ids)
  PROVE  /\ Erased(k) \in Seq(Rings)
         /\ Len(Erased(k)) \in Nat
         /\ \A i \in 1 .. Len(Erased(k)) :
              /\ Erased(k)[i] \in Rings
              /\ Erased(k)[i].mCurrentpos < Len(Erased(k)[i].ids)
              /\ Erased(k)[i].ids # ids
              /\ \E j \in 1 .. Len(mFrameRings) : Erased(k)[i] = mFrameRings[j]
         /\ \A i, j \in 1 .. Len(Erased(k)) : Erased(k)[i].ids = Erased(k)[j].ids => i = j
<1> DEFINE e == Erased(k)
           to(i) == IF k = 0 \/ i < k THEN i ELSE i + 1
<1>1. k \in 0 .. Len(mFrameRings) /\ mFrameRings \in Seq(Rings)
      /\ Len(mFrameRings) \in Nat /\ k \in Nat
  BY DEF TypeOK, Matches
<1>2. /\ e \in Seq(Rings)
      /\ Len(e) = IF k = 0 THEN Len(mFrameRings) ELSE Len(mFrameRings) - 1
      /\ \A i \in 1 .. Len(e) : e[i] = IF k = 0 \/ i < k THEN mFrameRings[i]
                                                        ELSE mFrameRings[i + 1]
  BY <1>1, ErasedFacts
<1> HIDE DEF e
<1>3. Len(e) \in Nat
  BY <1>2
<1>4. ASSUME NEW i \in 1 .. Len(e)
      PROVE  to(i) \in 1 .. Len(mFrameRings) /\ e[i] = mFrameRings[to(i)]
             /\ (k # 0 => to(i) # k)
  BY <1>1, <1>2, <1>3
<1>5. ASSUME NEW i \in 1 .. Len(e), NEW j \in 1 .. Len(e), to(i) = to(j)
      PROVE  i = j
  BY <1>1, <1>3, <1>5
<1> HIDE DEF to
<1>6. ASSUME NEW i \in 1 .. Len(e)
      PROVE  /\ e[i] \in Rings /\ e[i].mCurrentpos < Len(e[i].ids)
             /\ e[i].ids # ids
             /\ \E j \in 1 .. Len(mFrameRings) : e[i] = mFrameRings[j]
  <2>1. to(i) \in 1 .. Len(mFrameRings) /\ e[i] = mFrameRings[to(i)]
        /\ (k # 0 => to(i) # k)
    BY <1>4
  <2>2. mFrameRings[to(i)] \in Rings
        /\ mFrameRings[to(i)].mCurrentpos < Len(mFrameRings[to(i)].ids)
    BY <2>1 DEF TypeOK
  <2>3. mFrameRings[to(i)].ids # ids
    BY <1>1, <2>1 DEF Matches, UniqueRings
  <2> QED
    BY <2>1, <2>2, <2>3
<1>7. ASSUME NEW i \in 1 .. Len(e), NEW j \in 1 .. Len(e), e[i].ids = e[j].ids
      PROVE  i = j
  BY <1>4, <1>5, <1>7 DEF UniqueRings
<1> QED
  BY <1>2, <1>3, <1>6, <1>7 DEF e

\* Every step keeps what was found current and the rings unique.
LEMMA RingsStep == RingsInv /\ [Next]_vars => RingsInv'
<1> SUFFICES ASSUME RingsInv, [Next]_vars PROVE RingsInv'
  OBVIOUS
<1>0. TypeOK /\ Outside /\ FoundIsCurrent /\ UniqueRings
  BY DEF RingsInv
<1>1. /\ mFrameRings \in Seq(Rings) /\ Len(mFrameRings) \in Nat
      /\ \A i \in 1 .. Len(mFrameRings) :
           mFrameRings[i] \in Rings
           /\ mFrameRings[i].mCurrentpos < Len(mFrameRings[i].ids)
      /\ mFinished \in BOOLEAN /\ run \in {"sleep", "lock", "pass", "done"}
      /\ ring \in 1 .. Len(mFrameRings) + 1 /\ since \in 0 .. MaxDelay
      /\ api \in Calls /\ MaxDelay \in Nat /\ since \in Nat
  BY <1>0, SetsAssumption DEF TypeOK
<1>2. ASSUME UNCHANGED mFrameRings, api' = api, TypeOK', Outside' PROVE RingsInv'
  <2>1. FoundIsCurrent' /\ UniqueRings'
    BY <1>0, <1>2 DEF FoundIsCurrent, Matches, UniqueRings
  <2> QED
    BY <1>2, <2>1 DEF RingsInv
<1>3. CASE ReadClock
  <2>1. since' \in 0 .. MaxDelay /\ run' \in {"done", "lock"} /\ run # "pass"
    BY <1>1, <1>3 DEF ReadClock
  <2> QED
    BY <1>0, <1>2, <1>3, <2>1 DEF ReadClock, TypeOK, Outside
<1>4. CASE Lock
  BY <1>0, <1>1, <1>2, <1>4 DEF Lock, TypeOK, Outside
<1>5. CASE Unlock
  BY <1>0, <1>1, <1>2, <1>5 DEF Unlock, TypeOK, Outside
<1>6. CASE Visit
  <2>1. /\ mFrameRings' \in Seq(Rings) /\ Len(mFrameRings') = Len(mFrameRings)
        /\ \A i \in 1 .. Len(mFrameRings) : mFrameRings'[i] = Visited(i)
    BY <1>0, <1>6, VisitFacts
  <2>2. ASSUME NEW i \in 1 .. Len(mFrameRings)
        PROVE  /\ Visited(i).ids = mFrameRings[i].ids
               /\ Visited(i).mCurrentpos < Len(Visited(i).ids)
    BY <1>1, TransmittedFacts DEF Visited
  <2>3. FoundIsCurrent' /\ UniqueRings'
    BY <1>0, <1>6, <2>1, <2>2, SameIds DEF Visit
  <2>4. TypeOK' /\ Outside'
    BY <1>1, <1>6, <2>1, <2>2 DEF Visit, TypeOK, Outside
  <2> QED
    BY <2>3, <2>4 DEF RingsInv
<1>7. CASE Tick
  <2>1. /\ mFrameRings' \in Seq(Rings) /\ Len(mFrameRings') = Len(mFrameRings)
        /\ \A i \in 1 .. Len(mFrameRings) : mFrameRings'[i] = Older(mFrameRings[i])
    BY <1>0, <1>7, TickFacts
  <2>2. ASSUME NEW i \in 1 .. Len(mFrameRings)
        PROVE  /\ Older(mFrameRings[i]).ids = mFrameRings[i].ids
               /\ Older(mFrameRings[i]).mCurrentpos < Len(Older(mFrameRings[i]).ids)
    BY <1>1, OlderFacts
  <2>3. FoundIsCurrent' /\ UniqueRings'
    BY <1>0, <1>7, <2>1, <2>2, SameIds DEF Tick
  <2>4. TypeOK' /\ Outside'
    BY <1>0, <1>1, <1>7, <2>1, <2>2 DEF Tick, TypeOK, Outside
  <2> QED
    BY <2>3, <2>4 DEF RingsInv
<1>8. ASSUME NEW f \in Sets, sendFrames(f) PROVE RingsInv'
  <2>1. Matches(Find(f.ids), f.ids)
    BY <1>1, FindFacts DEF Matches
  <2>2. api' = [op |-> "send", set |-> f, found |-> Find(f.ids)]
        /\ UNCHANGED <<mFrameRings, mFinished, run, ring, since>>
    BY <1>8 DEF sendFrames
  <2>3. api' \in Calls
    BY <2>1, <2>2 DEF Calls, Matches
  <2>4. FoundIsCurrent'
    BY <2>1, <2>2 DEF FoundIsCurrent, Matches
  <2>5. TypeOK' /\ Outside' /\ UniqueRings'
    BY <1>0, <2>2, <2>3 DEF TypeOK, Outside, UniqueRings
  <2> QED
    BY <2>4, <2>5 DEF RingsInv
<1>9. ASSUME NEW ids \in Ids, unSendFrames(ids) PROVE RingsInv'
  <2>1. Matches(Find(ids), ids)
    BY <1>1, FindFacts DEF Matches
  <2>2. api' = [op |-> "unsend", ids |-> ids, found |-> Find(ids)]
        /\ UNCHANGED <<mFrameRings, mFinished, run, ring, since>>
    BY <1>9 DEF unSendFrames
  <2>3. api' \in Calls
    BY <2>1, <2>2 DEF Calls, Matches
  <2>4. FoundIsCurrent'
    BY <2>1, <2>2 DEF FoundIsCurrent, Matches
  <2>5. TypeOK' /\ Outside' /\ UniqueRings'
    BY <1>0, <2>2, <2>3 DEF TypeOK, Outside, UniqueRings
  <2> QED
    BY <2>4, <2>5 DEF RingsInv
<1>10. CASE Push
  <2> DEFINE f == api.set
             e == Erased(api.found)
  <2>1. f \in Sets /\ Matches(api.found, f.ids)
    BY <1>0, <1>1, <1>10, CallFacts DEF Push, FoundIsCurrent
  <2>2. /\ e \in Seq(Rings) /\ Len(e) \in Nat
        /\ \A i \in 1 .. Len(e) : /\ e[i].mCurrentpos < Len(e[i].ids)
                                 /\ e[i].ids # f.ids
        /\ \A i, j \in 1 .. Len(e) : e[i].ids = e[j].ids => i = j
    BY <1>0, <2>1, EraseStep
  <2>3. /\ NewRing(f) \in Rings /\ NewRing(f).ids = f.ids
        /\ NewRing(f).mCurrentpos = 0 /\ 0 < Len(f.ids)
    BY <2>1, NewRingFacts
  <2>4. mFrameRings' = Append(e, NewRing(f)) /\ api' = Idle
        /\ UNCHANGED <<mFinished, run, ring, since>> /\ run # "pass"
    BY <1>10 DEF Push
  <2> HIDE DEF e, f
  <2>5. /\ mFrameRings' \in Seq(Rings) /\ Len(mFrameRings') = Len(e) + 1
        /\ \A i \in 1 .. Len(e) : mFrameRings'[i] = e[i]
        /\ mFrameRings'[Len(e) + 1] = NewRing(f)
    BY <2>2, <2>3, <2>4
  <2>6. UniqueRings'
    BY <2>2, <2>3, <2>5 DEF UniqueRings
  <2>7. api' \in Calls /\ FoundIsCurrent'
    BY <2>4 DEF Calls, FoundIsCurrent, Idle
  <2>8. TypeOK' /\ Outside'
    BY <1>0, <1>1, <2>2, <2>3, <2>4, <2>5, <2>7 DEF TypeOK, Outside
  <2> QED
    BY <2>6, <2>7, <2>8 DEF RingsInv
<1>11. CASE Remove
  <2> DEFINE e == Erased(api.found)
  <2>1. Matches(api.found, api.ids)
    BY <1>0, <1>11 DEF Remove, FoundIsCurrent
  <2>2. /\ e \in Seq(Rings) /\ Len(e) \in Nat
        /\ \A i \in 1 .. Len(e) : e[i].mCurrentpos < Len(e[i].ids)
        /\ \A i, j \in 1 .. Len(e) : e[i].ids = e[j].ids => i = j
    BY <1>0, <2>1, EraseStep
  <2>3. mFrameRings' = e /\ api' = Idle /\ run # "pass"
        /\ UNCHANGED <<mFinished, run, ring, since>>
    BY <1>11 DEF Remove
  <2> HIDE DEF e
  <2>4. api' \in Calls /\ FoundIsCurrent'
    BY <2>3 DEF Calls, FoundIsCurrent, Idle
  <2>5. TypeOK' /\ Outside' /\ UniqueRings'
    BY <1>0, <1>1, <2>2, <2>3, <2>4 DEF TypeOK, Outside, UniqueRings
  <2> QED
    BY <2>4, <2>5 DEF RingsInv
<1>12. CASE finalize \/ Join
  <2>1. api' \in {[op |-> "join"], [op |-> "ended"]}
        /\ UNCHANGED <<mFrameRings, run, ring, since>>
    BY <1>12 DEF finalize, Join
  <2>2. mFinished' \in BOOLEAN
    BY <1>1, <1>12, Zenon DEF finalize, Join
  <2>3. api' \in Calls /\ api'.op \in {"join", "ended"}
    BY <2>1 DEF Calls
  <2> QED
    BY <1>0, <2>1, <2>2, <2>3 DEF RingsInv, TypeOK, Outside, UniqueRings, FoundIsCurrent
<1>13. CASE UNCHANGED vars
  BY <1>0, <1>2, <1>13 DEF vars, TypeOK, Outside
<1> QED
  BY <1>3, <1>4, <1>5, <1>6, <1>7, <1>8, <1>9, <1>10, <1>11, <1>12, <1>13
  DEF Next, Thread

\* The invariant of the rings holds in every reachable state.
LEMMA RingsInvariant == Spec => []RingsInv
BY RingsInit, RingsStep, PTL DEF Spec

(***************************************************************************)
(* Every variable keeps its type; in particular run() never indexes a ring *)
(* past its last frame nor visits a ring that is not there.                *)
(***************************************************************************)
THEOREM SenderTypeCorrect == Spec => []TypeOK
<1>1. RingsInv => TypeOK
  BY DEF RingsInv
<1> QED
  BY <1>1, RingsInvariant, PTL

(***************************************************************************)
(* No two rings carry the same ids, although sendFrames looks for the ring *)
(* to replace without the lock.                                            *)
(***************************************************************************)
THEOREM RingsAreUnique == Spec => []UniqueRings
<1>1. RingsInv => UniqueRings
  BY DEF RingsInv
<1> QED
  BY <1>1, RingsInvariant, PTL

\* isSent after a step: whether some ring carries the ids.
LEMMA SentAfter ==
  ASSUME mFrameRings' \in Seq(Rings), NEW ids
  PROVE  isSent(ids)' <=> \E i \in 1 .. Len(mFrameRings') : mFrameRings'[i].ids = ids
<1> DEFINE n == Len(mFrameRings')
           M(i) == mFrameRings'[i].ids = ids
           F(i) == M(i) /\ \A j \in 1 .. i - 1 : mFrameRings'[j].ids # ids
           c == CHOOSE i \in 1 .. n : F(i)
<1>1. n \in Nat
  OBVIOUS
<1>2. \A m \in Nat : (\E i \in 1 .. m : M(i)) => \E i \in 1 .. m : F(i)
  BY First
<1>3. isSent(ids)' <=>
        (IF \E i \in 1 .. n : M(i) THEN c ELSE 0) # 0
  BY DEF isSent, Find
<1> HIDE DEF n, M, F
<1>4. (\E i \in 1 .. n : M(i)) => c \in 1 .. n
  BY <1>1, <1>2
<1> HIDE DEF c
<1>5. CASE \E i \in 1 .. n : M(i)
  <2>1. c # 0
    BY <1>1, <1>4, <1>5
  <2>2. isSent(ids)'
    BY <1>3, <1>5, <2>1, Zenon
  <2> QED
    BY <1>5, <2>2 DEF n, M
<1>6. CASE ~ \E i \in 1 .. n : M(i)
  <2>1. ~isSent(ids)'
    BY <1>3, <1>6, Zenon
  <2> QED
    BY <1>6, <2>1 DEF n, M
<1> QED
  BY <1>5, <1>6

\* Only the change itself ends a call to sendFrames or unSendFrames.
LEMMA WhoEnds ==
  ASSUME Next, api' = Idle
  PROVE  (api.op = "send" => Push) /\ (api.op = "unsend" => Remove)
<1>1. CASE Thread \/ Tick
  <2>1. api' = api
    BY <1>1 DEF Thread, ReadClock, Lock, Visit, Unlock, Tick
  <2> QED
    BY <2>1 DEF Idle
<1>2. CASE (\E f \in Sets : sendFrames(f)) \/ \E ids \in Ids : unSendFrames(ids)
  <2>1. api = Idle
    BY <1>2 DEF sendFrames, unSendFrames
  <2> QED
    BY <2>1 DEF Idle
<1>3. CASE finalize \/ Join
  BY <1>3 DEF finalize, Join, Idle
<1>4. CASE Push
  BY <1>4 DEF Push
<1>5. CASE Remove
  BY <1>5 DEF Remove
<1> QED
  BY <1>1, <1>2, <1>3, <1>4, <1>5 DEF Next

(***************************************************************************)
(* The calls of the application do what they say, whatever run() did       *)
(* between the search and the change.                                      *)
(***************************************************************************)
THEOREM CallsAreEffective == Spec => CallsTakeEffect
<1> DEFINE Effect ==
      /\ \A f \in Sets :
           (api.op = "send" /\ api.set = f /\ api' = Idle) => SentOnlyWith(f)'
      /\ \A ids \in Ids :
           (api.op = "unsend" /\ api.ids = ids /\ api' = Idle) => ~isSent(ids)'
<1>1. ASSUME RingsInv, RingsInv', Next
      PROVE  Effect
  <2>0. TypeOK /\ UniqueRings /\ FoundIsCurrent /\ mFrameRings' \in Seq(Rings)
    BY <1>1 DEF RingsInv, TypeOK
  <2>1. ASSUME NEW f \in Sets, api.op = "send", api.set = f, api' = Idle
        PROVE  SentOnlyWith(f)'
    <3>1. Push
      BY <1>1, <2>1, WhoEnds
    <3> DEFINE e == Erased(api.found)
    <3>2. Matches(api.found, f.ids)
      BY <2>0, <2>1 DEF FoundIsCurrent
    <3>3. /\ e \in Seq(Rings) /\ Len(e) \in Nat
          /\ \A i \in 1 .. Len(e) : e[i].ids # f.ids
      BY <2>0, <3>2, EraseStep
    <3>4. /\ NewRing(f) \in Rings /\ NewRing(f).ids = f.ids
          /\ NewRing(f).period = f.period
      BY NewRingFacts
    <3>5. mFrameRings' = Append(e, NewRing(f))
      BY <2>1, <3>1 DEF Push
    <3> HIDE DEF e
    <3>6. /\ Len(mFrameRings') = Len(e) + 1
          /\ \A i \in 1 .. Len(e) : mFrameRings'[i] = e[i]
          /\ mFrameRings'[Len(e) + 1] = NewRing(f)
      BY <3>3, <3>4, <3>5
    <3>7. \E i \in 1 .. Len(mFrameRings') : mFrameRings'[i].ids = f.ids
      BY <3>3, <3>4, <3>6
    <3>8. isSent(f.ids)'
      BY <2>0, <3>7, SentAfter
    <3>9. \A i \in 1 .. Len(mFrameRings') :
            mFrameRings'[i].ids = f.ids => mFrameRings'[i].period = f.period
      BY <3>3, <3>4, <3>6
    <3> QED
      BY <3>8, <3>9 DEF SentOnlyWith
  <2>2. ASSUME NEW ids \in Ids, api.op = "unsend", api.ids = ids, api' = Idle
        PROVE  ~isSent(ids)'
    <3>1. Remove
      BY <1>1, <2>2, WhoEnds
    <3>2. Matches(api.found, ids)
      BY <2>0, <2>2 DEF FoundIsCurrent
    <3>3. \A i \in 1 .. Len(mFrameRings') : mFrameRings'[i].ids # ids
      <4>1. \A i \in 1 .. Len(Erased(api.found)) : Erased(api.found)[i].ids # ids
        BY <2>0, <3>2, EraseStep
      <4>2. mFrameRings' = Erased(api.found)
        BY <3>1 DEF Remove
      <4> QED
        BY <4>1, <4>2
    <3> QED
      BY <2>0, <3>3, SentAfter
  <2> QED
    BY <2>1, <2>2
<1>2. ASSUME RingsInv, RingsInv', [Next]_vars
      PROVE  [Effect]_vars
  BY <1>1, <1>2
<1>3. Spec => [][Effect]_vars
  BY <1>2, RingsInvariant, PTL DEF Spec
<1> QED
  BY <1>3 DEF CallsTakeEffect

-----------------------------------------------------------------------------
(* The cadence                                                             *)

\* A period is the whole parts of its frames and the remainder.
LEMMA Division ==
  ASSUME NEW P \in Nat, NEW n \in Nat \ {0}
  PROVE  P = (P \div n) * n + (P % n)
OBVIOUS

(***************************************************************************)
(* One cycle in numbers: n frames of q ms, the last one of q + m ms, with  *)
(* position p to be sent next.                                             *)
(***************************************************************************)
FramePeriod(q, m, n, p) == IF p + 1 = n THEN q + m ELSE q

Following(n, p) == IF p + 1 = n THEN 0 ELSE p + 1

\* How far the timestamp is into the cycle when p is to be sent next.
Offset(q, m, n, p) ==
  IF p = 0 THEN (q * n + m) - FramePeriod(q, m, n, Following(n, 0))
  ELSE q * (p - 1) + (IF p >= 2 /\ p + 1 = n THEN m ELSE 0)

\* The offset grows by the period of the frame that follows, over the cycle.
LEMMA OffsetStep ==
  ASSUME NEW q \in Nat, NEW m \in Nat, NEW n \in Nat \ {0}, NEW p \in 0 .. n - 1
  PROVE  Offset(q, m, n, Following(n, p)) =
           (Offset(q, m, n, p) + FramePeriod(q, m, n, Following(n, p)))
             - (IF p = 0 THEN q * n + m ELSE 0)
<1>1. CASE p = 0
  <2>1. CASE n = 1
    BY <1>1, <2>1 DEF Offset, Following, FramePeriod
  <2>2. CASE n # 1
    <3>1. Following(n, p) = 1 /\ Following(n, 0) = 1
      BY <1>1, <2>2 DEF Following
    <3>2. q * (1 - 1) = 0
      OBVIOUS
    <3>3. Offset(q, m, n, 1) = 0
      BY <3>2 DEF Offset
    <3>4. q * n \in Nat /\ FramePeriod(q, m, n, 1) \in Nat
      BY DEF FramePeriod
    <3>5. Offset(q, m, n, 0) = (q * n + m) - FramePeriod(q, m, n, 1)
      BY <3>1 DEF Offset
    <3> HIDE DEF Offset
    <3> QED
      BY <1>1, <3>1, <3>3, <3>4, <3>5
  <2> QED
    BY <2>1, <2>2
<1>2. CASE p # 0 /\ p + 1 < n
  <2>1. q * (p + 1 - 1) = q * (p - 1) + q
    OBVIOUS
  <2> QED
    BY <1>2, <2>1 DEF Offset, Following, FramePeriod
<1>3. CASE p # 0 /\ p + 1 = n
  <2>1. q * n = q * (p - 1) + 2 * q
    BY <1>3
  <2>2. q * (p - 1) \in Int
    OBVIOUS
  <2>3. CASE n = 2
    BY <1>3, <2>1, <2>2, <2>3 DEF Offset, Following, FramePeriod
  <2>4. CASE n > 2
    BY <1>3, <2>1, <2>2, <2>4 DEF Offset, Following, FramePeriod
  <2> QED
    BY <1>3, <2>3, <2>4
<1> QED
  BY <1>1, <1>2, <1>3

\* The frame to be sent next lies within the cycle.
LEMMA OffsetBounds ==
  ASSUME NEW q \in Nat, NEW m \in Nat, NEW n \in Nat \ {0}, NEW p \in 0 .. n - 1,
         m <= q
  PROVE  /\ Offset(q, m, n, p) \in Nat
         /\ Offset(q, m, n, p) + FramePeriod(q, m, n, p) <= q * n + m
<1>1. CASE p = 0 /\ n = 1
  BY <1>1 DEF Offset, Following, FramePeriod
<1>2. CASE p = 0 /\ n # 1
  <2>1. q * n = q * (n - 2) + 2 * q /\ q * (n - 2) \in Nat
    BY <1>2
  <2> QED
    BY <1>2, <2>1 DEF Offset, Following, FramePeriod
<1>3. CASE p # 0
  <2>1. q * n = q * (p - 1) + q * (n - p - 1) + 2 * q
    OBVIOUS
  <2>2. q * (p - 1) \in Nat /\ q * (n - p - 1) \in Nat
    BY <1>3
  <2>3. p + 1 = n => q * (n - p - 1) = 0
    OBVIOUS
  <2> QED
    BY <1>3, <2>1, <2>2, <2>3 DEF Offset, FramePeriod
<1> QED
  BY <1>1, <1>2, <1>3

\* getCurrentPeriod in the numbers of the cycle.
LEMMA PeriodFacts ==
  ASSUME NEW r \in Rings, r.mCurrentpos < Len(r.ids)
  PROVE  LET n == Len(r.ids)
             q == r.period \div n
             m == r.period % n
         IN  /\ n \in Nat \ {0} /\ q \in Nat /\ m \in Nat
             /\ r.mCurrentpos \in 0 .. n - 1
             /\ r.period = q * n + m
             /\ getCurrentPeriod(r) = FramePeriod(q, m, n, r.mCurrentpos)
             /\ getCurrentPeriod(shift(r)) =
                  FramePeriod(q, m, n, Following(n, r.mCurrentpos))
             /\ shift(r).mCurrentpos = Following(n, r.mCurrentpos)
<1> DEFINE n == Len(r.ids)
           q == r.period \div n
           m == r.period % n
<1>1. n \in Nat \ {0} /\ r.period \in Nat /\ q \in Nat /\ m \in Nat
  BY PeriodType
<1>2. r.mCurrentpos \in 0 .. n - 1
  BY <1>1 DEF Rings
<1>3. r.period = q * n + m
  BY <1>1, Division
<1>4. shift(r).ids = r.ids /\ shift(r).period = r.period
      /\ shift(r).mCurrentpos = Following(n, r.mCurrentpos)
  BY DEF shift, Rings, Following
<1>5. /\ getCurrentPeriod(r) =
           IF r.mCurrentpos + 1 = n THEN r.period - q * (n - 1) ELSE q
      /\ getCurrentPeriod(shift(r)) =
           IF Following(n, r.mCurrentpos) + 1 = n THEN r.period - q * (n - 1) ELSE q
  BY <1>4 DEF getCurrentPeriod
<1> HIDE DEF n, q, m
<1>6. r.period - q * (n - 1) = q + m
  <2>1. q * (n - 1) = q * n - q /\ q * n \in Nat
    BY <1>1
  <2> QED
    BY <1>1, <1>3, <2>1
<1>7. /\ getCurrentPeriod(r) = FramePeriod(q, m, n, r.mCurrentpos)
      /\ getCurrentPeriod(shift(r)) =
           FramePeriod(q, m, n, Following(n, r.mCurrentpos))
  BY <1>5, <1>6 DEF FramePeriod
<1> QED
  BY <1>1, <1>2, <1>3, <1>4, <1>7 DEF n, q, m

(***************************************************************************)
(* The timestamp of r is the scheduled time of a frame: phase and age      *)
(* differ by its offset in the cycle.  When run() read its clock the next  *)
(* frame was not due yet, or became due within the last slack ms.  A ring  *)
(* that was not sent yet is at its first frame.                            *)
(***************************************************************************)
InCycle(r) ==
  LET n == Len(r.ids)
  IN  r.phase - r.age = Offset(r.period \div n, r.period % n, n, r.mCurrentpos)

NotOverdue(r, now, slack) ==
  r.age - now \in -(r.period % Len(r.ids)) .. getCurrentPeriod(r) - 1 + slack

SteadyRing(r, now, slack) ==
  /\ r.sent /\ Compensable(r) => InCycle(r) /\ NotOverdue(r, now, slack)
  /\ ~r.sent => r.mCurrentpos = 0

\* run() has read its clock and not yet come to ring i.
Slack(i) == IF run = "lock" \/ (run = "pass" /\ i >= ring) THEN MaxDelay ELSE 0

Steady ==
  \A i \in 1 .. Len(mFrameRings) : SteadyRing(mFrameRings[i], since, Slack(i))

\* From the age of the timestamp and its offset to the phase of the cycle.
LEMMA ScheduleArithmetic ==
  ASSUME NEW phase \in Int, NEW age \in Int, NEW now \in Nat, NEW o \in Nat,
         NEW c \in Int, NEW m \in Nat, NEW P \in Nat, NEW D \in Nat, NEW e \in 0 .. D,
         phase - age = o, age - now \in -m .. c - 1 + e, o + c <= P
  PROVE  phase - now \in -m .. P + D - 1
OBVIOUS

\* A steady ring is on schedule.
LEMMA SteadyOnSchedule ==
  ASSUME NEW r \in Rings, r.mCurrentpos < Len(r.ids), since \in Nat,
         NEW slack \in 0 .. MaxDelay, MaxDelay \in Nat,
         SteadyRing(r, since, slack), Compensable(r)
  PROVE  OnSchedule(r)
<1> SUFFICES ASSUME r.sent PROVE OnSchedule(r)
  BY DEF OnSchedule
<1> DEFINE n == Len(r.ids)
           q == r.period \div n
           m == r.period % n
           p == r.mCurrentpos
           o == Offset(q, m, n, p)
           c == getCurrentPeriod(r)
<1>1. /\ n \in Nat \ {0} /\ q \in Nat /\ m \in Nat /\ p \in 0 .. n - 1
      /\ r.period = q * n + m /\ c = FramePeriod(q, m, n, p)
  BY PeriodFacts
<1>2. m + MaxDelay <= q
  BY DEF Compensable
<1>3. r.phase - r.age = o /\ r.age - since \in -m .. c - 1 + slack
  BY DEF SteadyRing, InCycle, NotOverdue
<1>4. r.phase \in Int /\ r.age \in Int /\ r.period \in Nat
  BY DEF Rings
<1> HIDE DEF n, q, m, p, c, o
<1>5. o \in Nat /\ o + c <= r.period /\ c \in Int
  <2>1. c \in Int
    BY <1>1 DEF FramePeriod
  <2>2. m <= q
    BY <1>1, <1>2
  <2>3. /\ Offset(q, m, n, p) \in Nat
        /\ Offset(q, m, n, p) + FramePeriod(q, m, n, p) <= q * n + m
    BY <1>1, <2>2, OffsetBounds
  <2> QED
    BY <1>1, <2>1, <2>3 DEF o
<1>6. r.phase - since \in -m .. r.period + MaxDelay - 1
  <2>1. m \in Nat
    BY <1>1
  <2> QED
    BY <1>3, <1>4, <1>5, <2>1, ScheduleArithmetic
<1> QED
  BY <1>6 DEF OnSchedule, m, n

\* Sending a frame that is due keeps the ring steady.
LEMMA TransmittedSteady ==
  ASSUME NEW r \in Rings, r.mCurrentpos < Len(r.ids), since \in Nat,
         MaxDelay \in Nat \ {0},
         SteadyRing(r, since, MaxDelay), Due(r)
  PROVE  SteadyRing(Transmitted(r), since, 0)
<1> DEFINE t == Transmitted(r)
           n == Len(r.ids)
           q == r.period \div n
           m == r.period % n
           p == r.mCurrentpos
           c == getCurrentPeriod(r)
           d == getCurrentPeriod(shift(r))
<1>1. /\ n \in Nat \ {0} /\ q \in Nat /\ m \in Nat /\ p \in 0 .. n - 1
      /\ r.period = q * n + m /\ c = FramePeriod(q, m, n, p)
      /\ d = FramePeriod(q, m, n, Following(n, p))
      /\ shift(r).mCurrentpos = Following(n, p)
  BY PeriodFacts
<1>2. /\ t.ids = r.ids /\ t.period = r.period /\ t.mCurrentpos = Following(n, p)
      /\ t.age = Timestamp(r, shift(r)) /\ t.phase = Phase(r) /\ t.sent
      /\ t \in Rings
  BY <1>1, TransmittedFacts
<1>3. getCurrentPeriod(t) = d
  BY <1>1, <1>2 DEF getCurrentPeriod, shift, Rings
<1>4. r.phase \in Int /\ r.age \in Int /\ r.period \in Nat
  BY DEF Rings
<1>5. c \in {q, q + m} /\ d \in {q, q + m}
  BY <1>1 DEF FramePeriod
<1> SUFFICES ASSUME Compensable(t) PROVE InCycle(t) /\ NotOverdue(t, since, 0)
  BY <1>2 DEF SteadyRing
<1>6. Compensable(r) /\ m + MaxDelay <= q
  BY <1>2 DEF Compensable
<1>7. CASE r.sent
  <2>1. r.phase - r.age = Offset(q, m, n, p)
        /\ r.age - since \in -m .. c - 1 + MaxDelay
    BY <1>6, <1>7 DEF SteadyRing, InCycle, NotOverdue
  <2>2. Abs(r.age - since) >= c
    BY <1>7 DEF Due
  <2>3. t.age = IF Abs(r.age - d - since) < d THEN r.age - d ELSE since
    BY <1>2, <1>7 DEF Timestamp
  <2>4. t.phase = r.phase - (IF p = 0 THEN r.period ELSE 0)
    BY <1>2, <1>4, <1>7 DEF Phase
  <2> HIDE DEF n, q, m, p, c, d, t
  <2>5. m \in Nat /\ q \in Nat
    BY <1>1
  <2>6. r.age - d - since \in -m .. d - 1 /\ Abs(r.age - d - since) < d
    <3> DEFINE late == r.age - since
    <3>1. late \in Int /\ late \in -m .. c - 1 + MaxDelay /\ Abs(late) >= c
      BY <1>4, <2>1, <2>2
    <3>2. r.age - d - since = late - d
      BY <1>4, <1>5, <2>5
    <3> HIDE DEF late
    <3>3. late - d \in -m .. d - 1 /\ Abs(late - d) < d
      <4>1. c \in Nat /\ d \in Nat /\ m < d /\ c + MaxDelay - d <= d
        BY <1>5, <1>6, <2>5
      <4>2. late >= c
        BY <2>5, <3>1, <4>1, <1>5, <1>6 DEF Abs
      <4>3. late - d \in -m .. d - 1
        BY <1>5, <2>5, <3>1, <4>1, <4>2
      <4> QED
        BY <2>5, <4>1, <4>3 DEF Abs
    <3> QED
      BY <3>2, <3>3
  <2>8. t.age = r.age - d
    BY <2>3, <2>6
  <2>9. NotOverdue(t, since, 0)
    <3>1. t.age - since = r.age - d - since
      BY <2>8
    <3>2. t.period % Len(t.ids) = m
      BY <1>2 DEF m, n
    <3>3. d - 1 + 0 = d - 1
      BY <1>1, <1>5
    <3> QED
      BY <1>3, <2>6, <3>1, <3>2, <3>3 DEF NotOverdue
  <2>10. Offset(q, m, n, Following(n, p)) =
           (Offset(q, m, n, p) + d) - (IF p = 0 THEN r.period ELSE 0)
    BY <1>1, OffsetStep
  <2>11. t.phase - t.age = Offset(q, m, n, Following(n, p))
    <3>1. Offset(q, m, n, p) \in Int /\ d \in Int
      BY <1>4, <1>5, <2>1, <2>5
    <3>2. CASE p = 0
      BY <1>4, <2>1, <2>4, <2>8, <2>10, <3>1, <3>2
    <3>3. CASE p # 0
      BY <1>4, <2>1, <2>4, <2>8, <2>10, <3>1, <3>3
    <3> QED
      BY <3>2, <3>3
  <2>12. InCycle(t)
    BY <1>2, <2>11 DEF InCycle, q, m, n
  <2> QED
    BY <2>9, <2>12
<1>8. CASE ~r.sent
  <2>1. t.age = since /\ t.phase = since /\ p = 0
    BY <1>2, <1>8 DEF Timestamp, Phase, SteadyRing
  <2> HIDE DEF n, q, m, p, c, d, t
  <2>2. d \in Nat /\ d >= 1 /\ m \in Nat
    BY <1>1, <1>5, <1>6
  <2>3. 0 \in -m .. d - 1 + 0
    BY <2>2
  <2>4. NotOverdue(t, since, 0)
    BY <1>2, <1>3, <2>1, <2>3 DEF NotOverdue, m, n
  <2>5. Offset(q, m, n, Following(n, p)) = 0
    <3>1. Offset(q, m, n, p) = (q * n + m) - d
      BY <1>1, <2>1 DEF Offset
    <3>2. Offset(q, m, n, Following(n, p)) = (Offset(q, m, n, p) + d) - (q * n + m)
      BY <1>1, <2>1, OffsetStep
    <3> DEFINE k == q * n + m
    <3>3. k \in Int
      BY <1>1
    <3>4. /\ Offset(q, m, n, p) = k - d
          /\ Offset(q, m, n, Following(n, p)) = (Offset(q, m, n, p) + d) - k
      BY <3>1, <3>2, Zenon
    <3> HIDE DEF k
    <3> QED
      BY <2>2, <3>3, <3>4
  <2>6. InCycle(t)
    BY <1>2, <2>1, <2>5 DEF InCycle, q, m, n
  <2> QED
    BY <2>4, <2>6
<1> QED
  BY <1>7, <1>8

\* A ring whose frame is not due stays steady without slack.
LEMMA NotDueSteady ==
  ASSUME NEW r \in Rings, since \in Nat, MaxDelay \in Nat,
         SteadyRing(r, since, MaxDelay), ~Due(r)
  PROVE  SteadyRing(r, since, 0)
<1>1. r.age \in Int /\ getCurrentPeriod(r) \in Int /\ r.period % Len(r.ids) \in Nat
  BY PeriodType DEF Rings
<1>2. r.sent /\ Abs(r.age - since) < getCurrentPeriod(r)
  BY <1>1 DEF Due, Abs
<1>3. ASSUME NotOverdue(r, since, MaxDelay) PROVE NotOverdue(r, since, 0)
  <2> DEFINE late == r.age - since
             c == getCurrentPeriod(r)
             m == r.period % Len(r.ids)
  <2>1. late \in Int /\ c \in Int /\ m \in Nat /\ late \in -m .. c - 1 + MaxDelay
        /\ Abs(late) < c
    BY <1>1, <1>2, <1>3 DEF NotOverdue
  <2> HIDE DEF late, c, m
  <2>2. late \in -m .. c - 1 + 0
    BY <2>1 DEF Abs
  <2> QED
    BY <2>2 DEF NotOverdue, late, c, m
<1> QED
  BY <1>2, <1>3 DEF SteadyRing

\* Time passes for the ring as it does for the clock run() read.
LEMMA OlderSteady ==
  ASSUME NEW r \in Rings, since \in Nat, NEW slack \in Nat,
         SteadyRing(r, since, slack)
  PROVE  SteadyRing(Older(r), since + 1, slack)
<1> DEFINE o == Older(r)
<1>1. /\ o.ids = r.ids /\ o.period = r.period /\ o.mCurrentpos = r.mCurrentpos
      /\ o.sent = r.sent
      /\ r.sent => o.age = r.age + 1 /\ o.phase = r.phase + 1
  BY OlderFacts
<1>2. r.age \in Int /\ r.phase \in Int
  BY DEF Rings
<1> HIDE DEF o
<1>3. CASE r.sent
  <2>1. o.age - (since + 1) = r.age - since /\ o.phase - o.age = r.phase - r.age
    BY <1>1, <1>2, <1>3
  <2>2. getCurrentPeriod(o) = getCurrentPeriod(r)
    BY <1>1 DEF getCurrentPeriod
  <2>3. Compensable(o) <=> Compensable(r)
    BY <1>1 DEF Compensable
  <2>4. InCycle(r) => InCycle(o)
    BY <1>1, <2>1 DEF InCycle
  <2>5. NotOverdue(r, since, slack) => NotOverdue(o, since + 1, slack)
    BY <1>1, <2>1, <2>2 DEF NotOverdue
  <2> QED
    BY <1>1, <1>3, <2>3, <2>4, <2>5 DEF SteadyRing, o
<1>4. CASE ~r.sent
  BY <1>1, <1>4 DEF SteadyRing, o
<1> QED
  BY <1>3, <1>4

\* Reading the clock gives the ring at most MaxDelay of slack.
LEMMA RereadSteady ==
  ASSUME NEW r \in Rings, MaxDelay \in Nat, since \in 0 .. MaxDelay,
         SteadyRing(r, since, 0)
  PROVE  SteadyRing(r, 0, MaxDelay)
<1>1. r.age \in Int /\ getCurrentPeriod(r) \in Int /\ r.period % Len(r.ids) \in Nat
  BY PeriodType DEF Rings
<1>2. ASSUME NotOverdue(r, since, 0) PROVE NotOverdue(r, 0, MaxDelay)
  BY <1>1, <1>2 DEF NotOverdue
<1> QED
  BY <1>2 DEF SteadyRing

CadenceInv == RingsInv /\ Steady

\* Every step keeps the rings steady.
LEMMA SteadyStep == CadenceInv /\ [Next]_vars => CadenceInv'
<1> SUFFICES ASSUME CadenceInv, [Next]_vars PROVE Steady'
  BY RingsStep DEF CadenceInv
<1>0. RingsInv /\ TypeOK /\ Outside /\ FoundIsCurrent /\ UniqueRings /\ Steady
  BY DEF CadenceInv, RingsInv
<1>1. /\ mFrameRings \in Seq(Rings) /\ Len(mFrameRings) \in Nat
      /\ \A i \in 1 .. Len(mFrameRings) :
           mFrameRings[i] \in Rings
           /\ mFrameRings[i].mCurrentpos < Len(mFrameRings[i].ids)
      /\ run \in {"sleep", "lock", "pass", "done"}
      /\ ring \in 1 .. Len(mFrameRings) + 1 /\ since \in 0 .. MaxDelay
      /\ api \in Calls /\ MaxDelay \in Nat \ {0} /\ since \in Nat
  BY <1>0, SetsAssumption DEF TypeOK
<1>2. \A i \in 1 .. Len(mFrameRings) : Slack(i) \in {0, MaxDelay}
  BY DEF Slack
<1>3. CASE ReadClock
  <2>1. /\ mFrameRings' = mFrameRings /\ run = "sleep"
        /\ (run' = "lock" /\ since' = 0) \/ (run' = "done" /\ since' = since)
    BY <1>3 DEF ReadClock
  <2>2. ASSUME NEW i \in 1 .. Len(mFrameRings)
        PROVE  SteadyRing(mFrameRings[i], since', Slack(i)')
    <3>1. SteadyRing(mFrameRings[i], since, 0)
      BY <1>0, <2>1 DEF Steady, Slack
    <3>2. SteadyRing(mFrameRings[i], 0, MaxDelay)
      BY <1>1, <3>1, RereadSteady
    <3> QED
      BY <2>1, <3>1, <3>2 DEF Slack
  <2> QED
    BY <2>1, <2>2 DEF Steady
<1>4. CASE Lock
  <2>1. \A i \in 1 .. Len(mFrameRings) : Slack(i)' = Slack(i)
    BY <1>4 DEF Lock, Slack
  <2> QED
    BY <1>0, <1>4, <2>1 DEF Lock, Steady
<1>5. CASE Unlock
  <2>1. \A i \in 1 .. Len(mFrameRings) : Slack(i)' = Slack(i)
    BY <1>1, <1>5 DEF Unlock, Slack
  <2> QED
    BY <1>0, <1>5, <2>1 DEF Unlock, Steady
<1>6. CASE Visit
  <2>1. /\ Len(mFrameRings') = Len(mFrameRings)
        /\ \A i \in 1 .. Len(mFrameRings) : mFrameRings'[i] = Visited(i)
        /\ since' = since /\ run' = "pass" /\ run = "pass" /\ ring' = ring + 1
    BY <1>0, <1>6, VisitFacts DEF Visit
  <2>2. ASSUME NEW i \in 1 .. Len(mFrameRings)
        PROVE  SteadyRing(Visited(i), since, Slack(i)')
    <3>1. CASE i = ring
      <4>1. Slack(i)' = 0 /\ Slack(i) = MaxDelay
        BY <1>1, <2>1, <3>1 DEF Slack
      <4>2. SteadyRing(mFrameRings[i], since, MaxDelay)
        BY <1>0, <4>1 DEF Steady
      <4>3. CASE Due(mFrameRings[i])
        BY <1>1, <3>1, <4>1, <4>2, <4>3, TransmittedSteady DEF Visited
      <4>4. CASE ~Due(mFrameRings[i])
        BY <1>1, <3>1, <4>1, <4>2, <4>4, NotDueSteady DEF Visited
      <4> QED
        BY <4>3, <4>4
    <3>2. CASE i # ring
      <4>1. Slack(i)' = Slack(i)
        BY <1>1, <2>1, <3>2 DEF Slack
      <4> QED
        BY <1>0, <3>2, <4>1 DEF Visited, Steady
    <3> QED
      BY <3>1, <3>2
  <2> QED
    BY <2>1, <2>2 DEF Steady
<1>7. CASE Tick
  <2>1. /\ Len(mFrameRings') = Len(mFrameRings)
        /\ \A i \in 1 .. Len(mFrameRings) : mFrameRings'[i] = Older(mFrameRings[i])
        /\ since' = since + 1 /\ run' = run /\ ring' = ring
    BY <1>0, <1>7, TickFacts DEF Tick
  <2>2. ASSUME NEW i \in 1 .. Len(mFrameRings)
        PROVE  SteadyRing(mFrameRings'[i], since', Slack(i)')
    <3>1. Slack(i)' = Slack(i) /\ Slack(i) \in Nat
      BY <1>1, <1>2, <2>1 DEF Slack
    <3>2. SteadyRing(mFrameRings[i], since, Slack(i))
      BY <1>0 DEF Steady
    <3>3. SteadyRing(Older(mFrameRings[i]), since + 1, Slack(i))
      BY <1>1, <3>1, <3>2, OlderSteady
    <3> QED
      BY <2>1, <3>1, <3>3
  <2> QED
    BY <2>1, <2>2 DEF Steady
<1>8. ASSUME NEW e, UNCHANGED <<run, ring, since>>, run # "pass",
             Len(e) \in Nat,
             \A i \in 1 .. Len(e) :
               \E j \in 1 .. Len(mFrameRings) : e[i] = mFrameRings[j]
      PROVE  \A i \in 1 .. Len(e) : SteadyRing(e[i], since', Slack(i)')
  <2>1. \A i, j : Slack(i)' = Slack(j)
    BY <1>8 DEF Slack
  <2> QED
    BY <1>0, <1>8, <2>1 DEF Steady
<1>9. CASE Push
  <2> DEFINE f == api.set
             e == Erased(api.found)
  <2>1. f \in Sets /\ Matches(api.found, f.ids)
    BY <1>0, <1>1, <1>9, CallFacts DEF Push, FoundIsCurrent
  <2>2. /\ e \in Seq(Rings) /\ Len(e) \in Nat
        /\ \A i \in 1 .. Len(e) :
             \E j \in 1 .. Len(mFrameRings) : e[i] = mFrameRings[j]
    BY <1>0, <2>1, EraseStep
  <2>3. NewRing(f) \in Rings /\ ~NewRing(f).sent /\ NewRing(f).mCurrentpos = 0
    BY <2>1, NewRingFacts
  <2>4. mFrameRings' = Append(e, NewRing(f)) /\ run # "pass"
        /\ UNCHANGED <<run, ring, since>>
    BY <1>9 DEF Push
  <2> HIDE DEF e, f
  <2>5. /\ Len(mFrameRings') = Len(e) + 1
        /\ \A i \in 1 .. Len(e) : mFrameRings'[i] = e[i]
        /\ mFrameRings'[Len(e) + 1] = NewRing(f)
    BY <2>2, <2>3, <2>4
  <2>6. \A i \in 1 .. Len(e) : SteadyRing(mFrameRings'[i], since', Slack(i)')
    BY <1>8, <2>2, <2>4, <2>5
  <2>7. ASSUME NEW k PROVE SteadyRing(NewRing(f), since', k)
    BY <2>3 DEF SteadyRing
  <2> QED
    BY <2>2, <2>5, <2>6, <2>7 DEF Steady
<1>10. CASE Remove
  <2> DEFINE e == Erased(api.found)
  <2>1. Matches(api.found, api.ids)
    BY <1>0, <1>10 DEF Remove, FoundIsCurrent
  <2>2. /\ Len(e) \in Nat
        /\ \A i \in 1 .. Len(e) :
             \E j \in 1 .. Len(mFrameRings) : e[i] = mFrameRings[j]
    BY <1>0, <2>1, EraseStep
  <2>3. mFrameRings' = e /\ run # "pass" /\ UNCHANGED <<run, ring, since>>
    BY <1>10 DEF Remove
  <2> HIDE DEF e
  <2> QED
    BY <1>8, <2>2, <2>3 DEF Steady
<1>11. ASSUME UNCHANGED <<mFrameRings, run, ring, since>> PROVE Steady'
  <2>1. \A i : Slack(i)' = Slack(i)
    BY <1>11 DEF Slack
  <2> QED
    BY <1>0, <1>11, <2>1 DEF Steady
<1>12. ASSUME NEW f \in Sets, sendFrames(f) PROVE Steady'
  BY <1>11, <1>12 DEF sendFrames
<1>13. ASSUME NEW ids \in Ids, unSendFrames(ids) PROVE Steady'
  BY <1>11, <1>13 DEF unSendFrames
<1>14. CASE finalize \/ Join \/ UNCHANGED vars
  BY <1>11, <1>14 DEF finalize, Join, vars
<1> QED
  BY <1>3, <1>4, <1>5, <1>6, <1>7, <1>9, <1>10, <1>12, <1>13, <1>14 DEF Next, Thread

(***************************************************************************)
(* No ring drifts away from its period, for any number of rings, of frames *)
(* and any period, as long as the remainder of the division and the delay  *)
(* of run() together stay below the period of one frame.                   *)
(***************************************************************************)
THEOREM RingsKeepTheirCadence == Spec => []Cadence
<1>1. Init => CadenceInv
  <2>1. ASSUME Init PROVE Steady
    BY <2>1 DEF Init, Steady
  <2> QED
    BY <2>1, RingsInit DEF CadenceInv
<1>2. CadenceInv => Cadence
  <2> SUFFICES ASSUME CadenceInv, NEW i \in 1 .. Len(mFrameRings),
                      Compensable(mFrameRings[i])
               PROVE  OnSchedule(mFrameRings[i])
    BY DEF Cadence
  <2>1. TypeOK /\ Steady
    BY DEF CadenceInv, RingsInv
  <2>2. /\ mFrameRings[i] \in Rings
        /\ mFrameRings[i].mCurrentpos < Len(mFrameRings[i].ids)
        /\ since \in Nat /\ MaxDelay \in Nat
    BY <2>1, SetsAssumption DEF TypeOK
  <2>3. SteadyRing(mFrameRings[i], since, Slack(i)) /\ Slack(i) \in 0 .. MaxDelay
    BY <2>1, <2>2 DEF Steady, Slack
  <2> QED
    BY <2>2, <2>3, SteadyOnSchedule
<1> QED
  BY <1>1, <1>2, SteadyStep, PTL DEF Spec
=============================================================================

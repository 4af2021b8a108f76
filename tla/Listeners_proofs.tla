-------------------------- MODULE Listeners_proofs --------------------------
(***************************************************************************)
(* Proofs for the programs that listen: what a receiver hands on, and what *)
(* the sniffer puts together and shows.                                    *)
(***************************************************************************)
EXTENDS Listeners, FiniteSetTheorems, WellFoundedInduction, TLAPS

-----------------------------------------------------------------------------
(***************************************************************************)
(* Selections                                                              *)
(***************************************************************************)
\* A set of natural numbers has a least element.
LEMMA Least ==
  ASSUME NEW S \in SUBSET Nat, S # {}
  PROVE  \E n \in S : \A m \in S : n <= m
<1> DEFINE R == OpToRel(<, Nat)
<1>1. IsWellFoundedOn(R, Nat)
  BY NatLessThanWellFounded
<1>2. PICK x \in S : \A y \in S : ~(<<y, x>> \in R)
  <2> HIDE DEF R
  <2> QED
    BY <1>1, WFMin
<1>3. \A y \in S : y < x => <<y, x>> \in R
  BY DEF OpToRel
<1>4. \A y \in S : ~(y < x)
  <2> HIDE DEF R
  <2> QED
    BY <1>2, <1>3
<1> QED
  BY <1>4

\* Sequences of whatever.
IsSeq(s) == \E S : s \in Seq(S)

LEMMA SeqFacts ==
  ASSUME NEW s, IsSeq(s)
  PROVE  /\ Len(s) \in Nat /\ DOMAIN s = 1 .. Len(s) /\ s = [i \in 1 .. Len(s) |-> s[i]]
         /\ \A e : /\ IsSeq(Append(s, e)) /\ Len(Append(s, e)) = Len(s) + 1
                   /\ Append(s, e)[Len(s) + 1] = e
                   /\ \A i \in 1 .. Len(s) : Append(s, e)[i] = s[i]
<1>1. PICK S : s \in Seq(S)
  BY DEF IsSeq
<1>2. ASSUME NEW e
      PROVE  /\ IsSeq(Append(s, e)) /\ Len(Append(s, e)) = Len(s) + 1
             /\ Append(s, e)[Len(s) + 1] = e
             /\ \A i \in 1 .. Len(s) : Append(s, e)[i] = s[i]
  <2>1. PICK T : T = S \cup {e}
    OBVIOUS
  <2>2. s \in Seq(T) /\ e \in T
    BY <1>1, <2>1
  <2>3. Append(s, e) \in Seq(T)
    BY <2>2
  <2> QED
    BY <2>2, <2>3 DEF IsSeq
<1> QED
  BY <1>1, <1>2

LEMMA SmallSeqs == IsSeq(<<>>) /\ Len(<<>>) = 0 /\ \A e : IsSeq(<<e>>) /\ Len(<<e>>) = 1 /\ <<e>>[1] = e
<1>1. <<>> \in Seq({})
  OBVIOUS
<1>2. ASSUME NEW e PROVE IsSeq(<<e>>) /\ Len(<<e>>) = 1 /\ <<e>>[1] = e
  <2>1. <<e>> \in Seq({e})
    OBVIOUS
  <2> QED
    BY <2>1 DEF IsSeq
<1> QED
  BY <1>1, <1>2 DEF IsSeq

LEMMA TailFacts ==
  ASSUME NEW s, IsSeq(s), s # <<>>
  PROVE  /\ Len(s) # 0 /\ Head(s) = s[1]
         /\ IsSeq(Tail(s)) /\ Len(Tail(s)) = Len(s) - 1
         /\ \A i \in 1 .. Len(s) - 1 : Tail(s)[i] = s[i + 1]
<1>1. PICK S : s \in Seq(S)
  BY DEF IsSeq
<1>2. Tail(s) \in Seq(S)
  BY <1>1
<1> QED
  BY <1>1, <1>2 DEF IsSeq

LEMMA CatFacts ==
  ASSUME NEW p, NEW g, IsSeq(p), IsSeq(g)
  PROVE  /\ IsSeq(p \o g) /\ Len(p \o g) = Len(p) + Len(g)
         /\ \A i \in 1 .. Len(p) : (p \o g)[i] = p[i]
         /\ \A i \in 1 .. Len(g) : (p \o g)[Len(p) + i] = g[i]
<1>1. PICK S, T : p \in Seq(S) /\ g \in Seq(T)
  BY DEF IsSeq
<1>2. PICK U : U = S \cup T
  OBVIOUS
<1>3. p \in Seq(U) /\ g \in Seq(U)
  BY <1>1, <1>2
<1>4. p \o g \in Seq(U)
  BY <1>3
<1> QED
  BY <1>3, <1>4 DEF IsSeq

LEMMA SameSeq ==
  ASSUME NEW l, NEW r, IsSeq(l), IsSeq(r), Len(l) = Len(r),
         \A i \in 1 .. Len(l) : l[i] = r[i]
  PROVE  l = r
<1>1. l = [i \in 1 .. Len(l) |-> l[i]] /\ r = [i \in 1 .. Len(l) |-> r[i]]
  BY SeqFacts
<1>2. [i \in 1 .. Len(l) |-> l[i]] = [i \in 1 .. Len(l) |-> r[i]]
  OBVIOUS
<1> QED
  BY <1>1, <1>2

\* Adding at the end of what is put together.
LEMMA CatAppend ==
  ASSUME NEW p, NEW g, NEW x, IsSeq(p), IsSeq(g)
  PROVE  Append(p \o g, x) = p \o Append(g, x)
<1>1. PICK l, r, c, a : /\ c = p \o g /\ a = Append(g, x) /\ l = Append(c, x) /\ r = p \o a
  OBVIOUS
<1>2. /\ Len(p) \in Nat /\ Len(g) \in Nat
      /\ IsSeq(c) /\ Len(c) = Len(p) + Len(g)
      /\ \A i \in 1 .. Len(p) : c[i] = p[i]
      /\ \A i \in 1 .. Len(g) : c[Len(p) + i] = g[i]
  BY <1>1, CatFacts, SeqFacts
<1>3. /\ IsSeq(a) /\ Len(a) = Len(g) + 1 /\ a[Len(g) + 1] = x
      /\ \A i \in 1 .. Len(g) : a[i] = g[i]
  BY <1>1, SeqFacts
<1>4. /\ IsSeq(l) /\ Len(l) = Len(c) + 1 /\ l[Len(c) + 1] = x
      /\ \A i \in 1 .. Len(c) : l[i] = c[i]
  BY <1>1, <1>2, SeqFacts
<1>5. /\ IsSeq(r) /\ Len(r) = Len(p) + Len(a)
      /\ \A i \in 1 .. Len(p) : r[i] = p[i]
      /\ \A i \in 1 .. Len(a) : r[Len(p) + i] = a[i]
  BY <1>1, <1>3, CatFacts
<1>6. ASSUME NEW i \in 1 .. Len(l) PROVE l[i] = r[i]
  <2>1. CASE i \in 1 .. Len(p)
    BY <1>2, <1>4, <1>5, <2>1
  <2>2. CASE i \in Len(p) + 1 .. Len(p) + Len(g)
    <3>1. PICK j \in 1 .. Len(g) : i = Len(p) + j
      <4>1. i - Len(p) \in 1 .. Len(g) /\ i = Len(p) + (i - Len(p))
        BY <1>2, <2>2
      <4> QED
        BY <4>1
    <3>2. j \in 1 .. Len(a) /\ i \in 1 .. Len(c)
      BY <1>2, <1>3, <2>2, <3>1
    <3> QED
      BY <1>2, <1>3, <1>4, <1>5, <3>1, <3>2
  <2>3. CASE i = Len(p) + Len(g) + 1
    <3>1. Len(g) + 1 \in 1 .. Len(a) /\ i = Len(c) + 1 /\ i = Len(p) + (Len(g) + 1)
      BY <1>2, <1>3, <2>3
    <3> QED
      BY <1>3, <1>4, <1>5, <3>1
  <2> QED
    BY <1>2, <1>4, <2>1, <2>2, <2>3
<1>7. Len(l) = Len(r)
  BY <1>2, <1>3, <1>4, <1>5
<1>8. l = r
  BY <1>4, <1>5, <1>6, <1>7, SameSeq
<1> QED
  BY <1>1, <1>8

\* F counts along s up to n: F[i] are the selected ones of the first i.
Along(s, S, F, n) ==
  F = [i \in 0 .. n |-> IF i = 0 THEN <<>>
                        ELSE IF s[i] \in S THEN Append(F[i - 1], s[i]) ELSE F[i - 1]]

LEMMA AlongSteps ==
  ASSUME NEW s, NEW S, NEW F, NEW n \in Nat, Along(s, S, F, n)
  PROVE  /\ DOMAIN F = 0 .. n /\ F[0] = <<>>
         /\ \A i \in 1 .. n : F[i] = IF s[i] \in S THEN Append(F[i - 1], s[i]) ELSE F[i - 1]
<1> DEFINE G == [i \in 0 .. n |-> IF i = 0 THEN <<>>
                        ELSE IF s[i] \in S THEN Append(F[i - 1], s[i]) ELSE F[i - 1]]
<1>1. F = G
  BY DEF Along
<1>2. G[0] = <<>>
  OBVIOUS
<1>3. \A i \in 1 .. n : G[i] = IF s[i] \in S THEN Append(F[i - 1], s[i]) ELSE F[i - 1]
  OBVIOUS
<1>4. DOMAIN G = 0 .. n
  OBVIOUS
<1> HIDE DEF G
<1> QED
  BY <1>1, <1>2, <1>3, <1>4

LEMMA AlongExists ==
  ASSUME NEW s, NEW S, NEW n \in Nat
  PROVE  \E F : Along(s, S, F, n)
<1> DEFINE Bad == {k \in Nat : ~\E F : Along(s, S, F, k)}
<1> SUFFICES ASSUME Bad # {} PROVE FALSE
  OBVIOUS
<1>1. PICK k \in Bad : \A m \in Bad : k <= m
  <2>1. Bad \in SUBSET Nat
    OBVIOUS
  <2> HIDE DEF Bad
  <2> QED
    BY <2>1, Least
<1>2. CASE k = 0
  <2>1. PICK F : F = [i \in 0 .. 0 |-> <<>>]
    OBVIOUS
  <2>2. Along(s, S, F, 0)
    BY <2>1 DEF Along
  <2> QED
    BY <1>2, <2>2
<1>3. CASE k # 0
  <2>1. k - 1 \in Nat /\ k - 1 \notin Bad
    <3>1. k \in Nat
      OBVIOUS
    <3> HIDE DEF Bad
    <3> QED
      BY <1>1, <1>3, <3>1
  <2>2. PICK G : Along(s, S, G, k - 1)
    BY <2>1
  <2>3. PICK F : F = [i \in 0 .. k |->
                        IF i = k THEN IF s[k] \in S THEN Append(G[k - 1], s[k]) ELSE G[k - 1]
                        ELSE G[i]]
    OBVIOUS
  <2>4. k \in Nat \ {0}
    BY <1>3
  <2>5. /\ G[0] = <<>>
        /\ \A i \in 1 .. k - 1 :
             G[i] = IF s[i] \in S THEN Append(G[i - 1], s[i]) ELSE G[i - 1]
    BY <2>1, <2>2, AlongSteps
  <2> HIDE DEF Bad
  <2>6. /\ \A i \in 0 .. k - 1 : F[i] = G[i]
        /\ F[k] = IF s[k] \in S THEN Append(G[k - 1], s[k]) ELSE G[k - 1]
        /\ DOMAIN F = 0 .. k
    BY <2>3, <2>4
  <2>7. ASSUME NEW i \in 0 .. k
        PROVE  F[i] = IF i = 0 THEN <<>>
                      ELSE IF s[i] \in S THEN Append(F[i - 1], s[i]) ELSE F[i - 1]
    <3>1. CASE i = 0
      BY <2>4, <2>5, <2>6, <3>1
    <3>2. CASE i = k
      <4>1. k - 1 \in 0 .. k - 1
        BY <2>4
      <4> QED
        BY <2>4, <2>6, <3>2, <4>1
    <3>3. CASE i \in 1 .. k - 1
      <4>1. i - 1 \in 0 .. k - 1 /\ i \in 0 .. k - 1 /\ i # 0
        BY <2>4, <3>3
      <4> QED
        BY <2>5, <2>6, <3>3, <4>1
    <3> QED
      BY <2>4, <3>1, <3>2, <3>3
  <2>8. F = [i \in 0 .. k |-> F[i]]
    BY <2>3
  <2>9. Along(s, S, F, k)
    BY <2>7, <2>8 DEF Along
  <2> QED
    BY <2>9 DEF Bad
<1> QED
  BY <1>2, <1>3

LEMMA AlongUnique ==
  ASSUME NEW s, NEW t, NEW S, NEW F, NEW G, NEW n \in Nat, NEW m \in Nat, n <= m,
         Along(s, S, F, n), Along(t, S, G, m), \A i \in 1 .. n : s[i] = t[i]
  PROVE  \A i \in 0 .. n : F[i] = G[i]
<1> DEFINE Bad == {k \in 0 .. n : F[k] # G[k]}
<1> SUFFICES ASSUME Bad # {} PROVE FALSE
  OBVIOUS
<1>1. PICK k \in Bad : \A j \in Bad : k <= j
  <2>1. Bad \in SUBSET Nat
    OBVIOUS
  <2> HIDE DEF Bad
  <2> QED
    BY <2>1, Least
<1>2. k \in 0 .. n /\ F[k] # G[k]
  OBVIOUS
<1>3. k # 0
  BY <1>2, AlongSteps
<1>4. k \in 1 .. n /\ k \in 1 .. m /\ k - 1 \in 0 .. n
  BY <1>2, <1>3
<1>5. F[k - 1] = G[k - 1]
  <2>1. k - 1 \notin Bad
    <3> HIDE DEF Bad
    <3> QED
      BY <1>1, <1>4
  <2> QED
    BY <1>4, <2>1
<1>6. /\ F[k] = IF s[k] \in S THEN Append(F[k - 1], s[k]) ELSE F[k - 1]
      /\ G[k] = IF t[k] \in S THEN Append(G[k - 1], t[k]) ELSE G[k - 1]
  BY <1>4, AlongSteps
<1> QED
  BY <1>2, <1>4, <1>5, <1>6

LEMMA AmongAlong ==
  ASSUME NEW s, NEW S, Len(s) \in Nat
  PROVE  \E F : Along(s, S, F, Len(s)) /\ Among(s, S) = F[Len(s)]
<1>1. PICK G : Along(s, S, G, Len(s))
  BY AlongExists
<1> DEFINE f == CHOOSE f : f = [i \in 0 .. Len(s) |->
                  IF i = 0 THEN <<>> ELSE IF s[i] \in S THEN Append(f[i - 1], s[i]) ELSE f[i - 1]]
<1>2. Along(s, S, f, Len(s))
  BY <1>1 DEF Along
<1>3. Among(s, S) = f[Len(s)]
  BY DEF Among
<1> HIDE DEF f
<1> QED
  BY <1>2, <1>3

LEMMA AmongEmpty == \A S : Among(<<>>, S) = <<>>
<1> SUFFICES ASSUME NEW S PROVE Among(<<>>, S) = <<>>
  OBVIOUS
<1>1. Len(<<>>) = 0
  OBVIOUS
<1>2. PICK F : Along(<<>>, S, F, 0) /\ Among(<<>>, S) = F[0]
  BY <1>1, AmongAlong
<1> QED
  BY <1>2, AlongSteps

LEMMA AmongSeq ==
  ASSUME NEW s, IsSeq(s), NEW S
  PROVE  IsSeq(Among(s, S))
<1>1. Len(s) \in Nat
  BY SeqFacts
<1>2. PICK F : Along(s, S, F, Len(s)) /\ Among(s, S) = F[Len(s)]
  BY <1>1, AmongAlong
<1> DEFINE Bad == {k \in 0 .. Len(s) : ~IsSeq(F[k])}
<1> SUFFICES ASSUME Bad # {} PROVE FALSE
  BY <1>1, <1>2
<1>3. PICK k \in Bad : \A j \in Bad : k <= j
  <2>1. Bad \in SUBSET Nat
    BY <1>1
  <2> HIDE DEF Bad
  <2> QED
    BY <2>1, Least
<1>4. k \in 0 .. Len(s) /\ ~IsSeq(F[k])
  OBVIOUS
<1>5. F[0] = <<>>
  BY <1>1, <1>2, AlongSteps
<1>6. k \in 1 .. Len(s) /\ k - 1 \in 0 .. Len(s)
  <2> HIDE DEF Bad
  <2>1. k # 0
    BY <1>4, <1>5, SmallSeqs
  <2> QED
    BY <1>1, <1>4, <2>1
<1>7. IsSeq(F[k - 1])
  <2>1. k - 1 \notin Bad
    <3> HIDE DEF Bad
    <3> QED
      BY <1>1, <1>3, <1>6
  <2> QED
    BY <1>6, <2>1
<1>8. F[k] = IF s[k] \in S THEN Append(F[k - 1], s[k]) ELSE F[k - 1]
  BY <1>1, <1>2, <1>6, AlongSteps
<1> HIDE DEF Bad
<1> QED
  BY <1>4, <1>7, <1>8, SeqFacts

LEMMA AmongAppend ==
  ASSUME NEW s, IsSeq(s), NEW e, NEW S
  PROVE  Among(Append(s, e), S) = IF e \in S THEN Append(Among(s, S), e) ELSE Among(s, S)
<1>1. PICK t : t = Append(s, e)
  OBVIOUS
<1>2. /\ IsSeq(t) /\ Len(s) \in Nat /\ Len(t) = Len(s) + 1 /\ t[Len(s) + 1] = e
      /\ \A i \in 1 .. Len(s) : s[i] = t[i]
  BY <1>1, SeqFacts
<1>3. PICK n \in Nat : n = Len(s)
  BY <1>2
<1>4. PICK F : Along(s, S, F, n) /\ Among(s, S) = F[n]
  BY <1>3, AmongAlong
<1>5. PICK G : Along(t, S, G, n + 1) /\ Among(t, S) = G[n + 1]
  BY <1>2, <1>3, AmongAlong
<1>6. F[n] = G[n]
  <2>1. n + 1 \in Nat /\ n <= n + 1 /\ \A i \in 1 .. n : s[i] = t[i]
    BY <1>2, <1>3
  <2>2. \A i \in 0 .. n : F[i] = G[i]
    BY <1>4, <1>5, <2>1, AlongUnique
  <2> QED
    BY <2>2
<1>7. G[n + 1] = IF t[n + 1] \in S THEN Append(G[n], t[n + 1]) ELSE G[n]
  <2>1. n + 1 \in Nat /\ n + 1 \in 1 .. n + 1 /\ (n + 1) - 1 = n
    OBVIOUS
  <2>2. \A i \in 1 .. n + 1 : G[i] = IF t[i] \in S THEN Append(G[i - 1], t[i]) ELSE G[i - 1]
    BY <1>5, <2>1, AlongSteps
  <2> QED
    BY <2>1, <2>2
<1> QED
  BY <1>1, <1>2, <1>3, <1>4, <1>5, <1>6, <1>7

LEMMA AmongTail ==
  ASSUME NEW s, IsSeq(s), s # <<>>, NEW S
  PROVE  Among(s, S) = (IF Head(s) \in S THEN <<Head(s)>> ELSE <<>>) \o Among(Tail(s), S)
<1>1. PICK t : t = Tail(s)
  OBVIOUS
<1>2. PICK n \in Nat : /\ Len(t) = n /\ Len(s) = n + 1 /\ IsSeq(t) /\ Head(s) = s[1]
                       /\ \A i \in 1 .. n : t[i] = s[i + 1]
  <2>1. Len(s) \in Nat \ {0} /\ Len(s) - 1 \in Nat /\ Len(s) = (Len(s) - 1) + 1
    BY SeqFacts, TailFacts
  <2> QED
    BY <1>1, <2>1, TailFacts
<1>4. PICK p : p = IF Head(s) \in S THEN <<Head(s)>> ELSE <<>>
  OBVIOUS
<1>5. IsSeq(p)
  BY <1>4, SmallSeqs
<1>6. PICK F : Along(s, S, F, n + 1) /\ Among(s, S) = F[n + 1]
  BY <1>2, AmongAlong
<1>7. PICK G : Along(t, S, G, n) /\ Among(t, S) = G[n]
  BY <1>2, AmongAlong
<1>8. \A i \in 1 .. n + 1 : F[i] = IF s[i] \in S THEN Append(F[i - 1], s[i]) ELSE F[i - 1]
  BY <1>6, AlongSteps
<1>9. \A i \in 1 .. n : G[i] = IF t[i] \in S THEN Append(G[i - 1], t[i]) ELSE G[i - 1]
  BY <1>7, AlongSteps
<1>10. F[0] = <<>> /\ G[0] = <<>>
  BY <1>6, <1>7, AlongSteps
<1> DEFINE Bad == {k \in 0 .. n : ~(IsSeq(G[k]) /\ F[k + 1] = p \o G[k])}
<1>11. Bad = {}
  <2> SUFFICES ASSUME Bad # {} PROVE FALSE
    OBVIOUS
  <2>1. PICK k \in Bad : \A j \in Bad : k <= j
    <3>1. Bad \in SUBSET Nat
      OBVIOUS
    <3> HIDE DEF Bad
    <3> QED
      BY <3>1, Least
  <2>2. k \in 0 .. n /\ ~(IsSeq(G[k]) /\ F[k + 1] = p \o G[k])
    OBVIOUS
  <2>3. CASE k = 0
    <3> HIDE DEF Bad
    <3>1. F[1] = IF s[1] \in S THEN Append(<<>>, s[1]) ELSE <<>>
      <4>1. 1 \in 1 .. n + 1 /\ 1 - 1 = 0
        OBVIOUS
      <4> QED
        BY <1>8, <1>10, <4>1
    <3>2. F[1] = p
      BY <1>2, <1>4, <3>1
    <3>3. p \o <<>> = p
      BY <1>5 DEF IsSeq
    <3>4. k + 1 = 1
      BY <2>3
    <3> QED
      BY <1>10, <2>2, <2>3, <3>2, <3>3, <3>4, SmallSeqs
  <2>4. CASE k # 0
    <3>1. k \in 1 .. n /\ k - 1 \in 0 .. n /\ k + 1 \in 1 .. n + 1 /\ (k + 1) - 1 = k /\ (k - 1) + 1 = k
      BY <2>2, <2>4
    <3>2. k - 1 \notin Bad
      <4> HIDE DEF Bad
      <4> QED
        BY <2>1, <3>1
    <3>3. IsSeq(G[k - 1]) /\ F[k] = p \o G[k - 1]
      BY <3>1, <3>2
    <3> HIDE DEF Bad
    <3>4. /\ F[k + 1] = IF s[k + 1] \in S THEN Append(F[k], s[k + 1]) ELSE F[k]
          /\ G[k] = IF s[k + 1] \in S THEN Append(G[k - 1], s[k + 1]) ELSE G[k - 1]
      BY <1>2, <1>8, <1>9, <3>1
    <3>5. Append(p \o G[k - 1], s[k + 1]) = p \o Append(G[k - 1], s[k + 1])
      <4>1. PICK g, x : g = G[k - 1] /\ x = s[k + 1]
        OBVIOUS
      <4>2. IsSeq(g)
        BY <3>3, <4>1
      <4>3. Append(p \o g, x) = p \o Append(g, x)
        BY <1>5, <4>2, CatAppend
      <4> QED
        BY <4>1, <4>3
    <3>6. CASE s[k + 1] \in S
      <4>1. G[k] = Append(G[k - 1], s[k + 1]) /\ F[k + 1] = Append(p \o G[k - 1], s[k + 1])
        BY <3>3, <3>4, <3>6
      <4>2. IsSeq(G[k])
        BY <3>3, <4>1, SeqFacts
      <4> QED
        BY <2>2, <3>5, <4>1, <4>2
    <3>7. CASE s[k + 1] \notin S
      BY <2>2, <3>3, <3>4, <3>7
    <3> QED
      BY <3>6, <3>7
  <2> QED
    BY <2>3, <2>4
<1>12. F[n + 1] = p \o G[n]
  <2>1. n \in 0 .. n /\ n \notin Bad
    <3> HIDE DEF Bad
    <3> QED
      BY <1>11
  <2> QED
    BY <2>1
<1> QED
  BY <1>1, <1>4, <1>6, <1>7, <1>12

-----------------------------------------------------------------------------
(***************************************************************************)
(* What is handed on, in the callback and waiting, against what arrived    *)
(***************************************************************************)
LEMMA CatAssoc ==
  ASSUME NEW h, NEW p, NEW w, IsSeq(h), IsSeq(p), IsSeq(w)
  PROVE  h \o (p \o w) = (h \o p) \o w
<1>1. PICK a, b, l, r : a = p \o w /\ b = h \o p /\ l = h \o a /\ r = b \o w
  OBVIOUS
<1>2. Len(h) \in Nat /\ Len(p) \in Nat /\ Len(w) \in Nat
  BY SeqFacts
<1>3. /\ IsSeq(a) /\ Len(a) = Len(p) + Len(w)
      /\ \A i \in 1 .. Len(p) : a[i] = p[i]
      /\ \A i \in 1 .. Len(w) : a[Len(p) + i] = w[i]
  BY <1>1, CatFacts
<1>4. /\ IsSeq(b) /\ Len(b) = Len(h) + Len(p)
      /\ \A i \in 1 .. Len(h) : b[i] = h[i]
      /\ \A i \in 1 .. Len(p) : b[Len(h) + i] = p[i]
  BY <1>1, CatFacts
<1>5. /\ IsSeq(l) /\ Len(l) = Len(h) + Len(a)
      /\ \A i \in 1 .. Len(h) : l[i] = h[i]
      /\ \A i \in 1 .. Len(a) : l[Len(h) + i] = a[i]
  BY <1>1, <1>3, CatFacts
<1>6. /\ IsSeq(r) /\ Len(r) = Len(b) + Len(w)
      /\ \A i \in 1 .. Len(b) : r[i] = b[i]
      /\ \A i \in 1 .. Len(w) : r[Len(b) + i] = w[i]
  BY <1>1, <1>4, CatFacts
<1>7. ASSUME NEW i \in 1 .. Len(l) PROVE l[i] = r[i]
  <2>1. CASE i \in 1 .. Len(h)
    <3>1. i \in 1 .. Len(b)
      BY <1>2, <1>4, <2>1
    <3> QED
      BY <1>4, <1>5, <1>6, <2>1, <3>1
  <2>2. CASE i \in Len(h) + 1 .. Len(h) + Len(p)
    <3>1. PICK j \in 1 .. Len(p) : i = Len(h) + j
      <4>1. i - Len(h) \in 1 .. Len(p) /\ i = Len(h) + (i - Len(h))
        BY <1>2, <2>2
      <4> QED
        BY <4>1
    <3>2. j \in 1 .. Len(a) /\ i \in 1 .. Len(b)
      BY <1>2, <1>3, <1>4, <2>2, <3>1
    <3> QED
      BY <1>3, <1>4, <1>5, <1>6, <3>1, <3>2
  <2>3. CASE i \in Len(h) + Len(p) + 1 .. Len(h) + Len(p) + Len(w)
    <3>1. PICK j \in 1 .. Len(w) : i = Len(h) + (Len(p) + j) /\ i = Len(b) + j
      <4>1. i - (Len(h) + Len(p)) \in 1 .. Len(w)
        BY <1>2, <2>3
      <4>2. PICK j \in 1 .. Len(w) : j = i - (Len(h) + Len(p))
        BY <4>1
      <4>3. i = Len(h) + (Len(p) + j) /\ i = Len(b) + j
        BY <1>2, <1>4, <2>3, <4>2
      <4> QED
        BY <4>3
    <3>2. Len(p) + j \in 1 .. Len(a)
      BY <1>2, <1>3, <3>1
    <3> QED
      BY <1>3, <1>5, <1>6, <3>1, <3>2
  <2>4. Len(l) = Len(h) + Len(p) + Len(w)
    BY <1>2, <1>3, <1>5
  <2> QED
    BY <1>2, <2>1, <2>2, <2>3, <2>4
<1>8. Len(l) = Len(r)
  BY <1>2, <1>3, <1>4, <1>5, <1>6
<1>9. l = r
  BY <1>5, <1>6, <1>7, <1>8, SameSeq
<1> QED
  BY <1>1, <1>9

LEMMA CatSmall ==
  ASSUME NEW h, IsSeq(h)
  PROVE  h \o <<>> = h /\ \A e : h \o <<e>> = Append(h, e)
<1>1. h \o <<>> = h
  BY DEF IsSeq
<1>2. ASSUME NEW e PROVE h \o <<e>> = Append(h, e)
  <2>1. PICK l, r, q : q = <<e>> /\ l = h \o q /\ r = Append(h, e)
    OBVIOUS
  <2>2. IsSeq(q) /\ Len(q) = 1 /\ q[1] = e /\ Len(h) \in Nat
    BY <2>1, SmallSeqs, SeqFacts
  <2>3. /\ IsSeq(l) /\ Len(l) = Len(h) + 1
        /\ \A i \in 1 .. Len(h) : l[i] = h[i]
        /\ \A i \in 1 .. 1 : l[Len(h) + i] = q[i]
    BY <2>1, <2>2, CatFacts
  <2>4. /\ IsSeq(r) /\ Len(r) = Len(h) + 1 /\ r[Len(h) + 1] = e
        /\ \A i \in 1 .. Len(h) : r[i] = h[i]
    BY <2>1, SeqFacts
  <2>5. \A i \in 1 .. Len(l) : l[i] = r[i]
    BY <2>2, <2>3, <2>4
  <2>6. l = r
    BY <2>3, <2>4, <2>5, SameSeq
  <2> QED
    BY <2>1, <2>6
<1> QED
  BY <1>1, <1>2

FramesOf(q) == [i \in 1 .. Len(q) |-> q[i].frame]

LEMMA FramesAppend ==
  ASSUME NEW q, IsSeq(q), NEW x
  PROVE  FramesOf(Append(q, x)) = Append(FramesOf(q), x.frame)
<1>1. PICK t, l, f, r : /\ t = Append(q, x) /\ l = FramesOf(t) /\ f = FramesOf(q)
                        /\ r = Append(f, x.frame)
  OBVIOUS
<1>2. /\ Len(q) \in Nat /\ IsSeq(t) /\ Len(t) = Len(q) + 1 /\ t[Len(q) + 1] = x
      /\ \A i \in 1 .. Len(q) : t[i] = q[i]
  BY <1>1, SeqFacts
<1>3. ASSUME NEW u, IsSeq(u) PROVE IsSeq(FramesOf(u)) /\ Len(FramesOf(u)) = Len(u)
  <2>1. Len(u) \in Nat
    BY <1>3, SeqFacts
  <2>2. PICK S : S = {u[i].frame : i \in 1 .. Len(u)}
    OBVIOUS
  <2>3. [i \in 1 .. Len(u) |-> u[i].frame] \in Seq(S)
    BY <2>1, <2>2
  <2>4. PICK g : g = FramesOf(u)
    OBVIOUS
  <2>5. g \in Seq(S) /\ DOMAIN g = 1 .. Len(u)
    BY <2>3, <2>4 DEF FramesOf
  <2>6. Len(g) = Len(u)
    BY <2>1, <2>5
  <2> QED
    BY <2>4, <2>5, <2>6 DEF IsSeq
<1>4. /\ IsSeq(f) /\ Len(f) = Len(q) /\ IsSeq(l) /\ Len(l) = Len(t)
  BY <1>1, <1>2, <1>3
<1>5. /\ IsSeq(r) /\ Len(r) = Len(f) + 1 /\ r[Len(f) + 1] = x.frame
      /\ \A i \in 1 .. Len(f) : r[i] = f[i]
  BY <1>1, <1>4, SeqFacts
<1>6. /\ \A i \in 1 .. Len(t) : l[i] = t[i].frame
      /\ \A i \in 1 .. Len(q) : f[i] = q[i].frame
  BY <1>1 DEF FramesOf
<1>7. ASSUME NEW i \in 1 .. Len(l) PROVE l[i] = r[i]
  <2>1. CASE i \in 1 .. Len(q)
    BY <1>2, <1>4, <1>5, <1>6, <2>1
  <2>2. CASE i = Len(q) + 1
    BY <1>2, <1>4, <1>5, <1>6, <2>2
  <2> QED
    BY <1>2, <1>4, <2>1, <2>2
<1>8. l = r
  BY <1>2, <1>4, <1>5, <1>7, SameSeq
<1> QED
  BY <1>1, <1>8

\* h is handed on, c in the callback, b waits, and a arrived.
Agrees(h, c, b, a, R, L) ==
  /\ IsSeq(h) /\ IsSeq(c) /\ IsSeq(b) /\ IsSeq(a)
  /\ h \o c \o Among(b, R) = FramesOf(Among(a, L))

LEMMA AgreesArrive ==
  ASSUME NEW h, NEW c, NEW b, NEW a, NEW R, NEW L, Agrees(h, c, b, a, R, L), NEW x
  PROVE  /\ x \notin L => Agrees(h, c, b, Append(a, x), R, L)
         /\ (x \in L /\ x.frame \in R)
              => Agrees(h, c, Append(b, x.frame), Append(a, x), R, L)
         /\ \A f : f \notin R => Agrees(h, c, Append(b, f), a, R, L)
<1>1. IsSeq(h) /\ IsSeq(c) /\ IsSeq(b) /\ IsSeq(a)
  BY DEF Agrees
<1>2. PICK w, q, p : w = Among(b, R) /\ q = Among(a, L) /\ p = h \o c
  OBVIOUS
<1>3. IsSeq(w) /\ IsSeq(q) /\ IsSeq(p) /\ p \o w = FramesOf(q)
  BY <1>1, <1>2, AmongSeq, CatFacts DEF Agrees
<1>4. /\ IsSeq(Append(a, x))
      /\ Among(Append(a, x), L) = IF x \in L THEN Append(q, x) ELSE q
  <2>1. IsSeq(Append(a, x))
    BY <1>1, SeqFacts
  <2>2. Among(Append(a, x), L) = IF x \in L THEN Append(Among(a, L), x) ELSE Among(a, L)
    BY <1>1, AmongAppend
  <2> QED
    BY <1>2, <2>1, <2>2
<1>5. ASSUME NEW f
      PROVE  /\ IsSeq(Append(b, f))
             /\ Among(Append(b, f), R) = IF f \in R THEN Append(w, f) ELSE w
  <2>1. IsSeq(Append(b, f))
    BY <1>1, SeqFacts
  <2>2. Among(Append(b, f), R) = IF f \in R THEN Append(Among(b, R), f) ELSE Among(b, R)
    BY <1>1, AmongAppend
  <2> QED
    BY <1>2, <2>1, <2>2
<1>6. x \notin L => Agrees(h, c, b, Append(a, x), R, L)
  BY <1>1, <1>2, <1>3, <1>4 DEF Agrees
<1>7. ASSUME x \in L, x.frame \in R
      PROVE  Agrees(h, c, Append(b, x.frame), Append(a, x), R, L)
  <2>1. Append(p \o w, x.frame) = p \o Append(w, x.frame)
    <3>1. PICK f : f = x.frame
      OBVIOUS
    <3>2. Append(p \o w, f) = p \o Append(w, f)
      BY <1>3, CatAppend
    <3> QED
      BY <3>1, <3>2
  <2>2. FramesOf(Append(q, x)) = Append(FramesOf(q), x.frame)
    BY <1>3, FramesAppend
  <2>3. p \o Append(w, x.frame) = FramesOf(Append(q, x))
    BY <1>3, <2>1, <2>2
  <2> QED
    BY <1>1, <1>2, <1>4, <1>5, <1>7, <2>3 DEF Agrees
<1>8. ASSUME NEW f, f \notin R PROVE Agrees(h, c, Append(b, f), a, R, L)
  BY <1>1, <1>2, <1>3, <1>5, <1>8 DEF Agrees
<1> QED
  BY <1>6, <1>7, <1>8

LEMMA AgreesRead ==
  ASSUME NEW h, NEW b, NEW a, NEW R, NEW L, Agrees(h, <<>>, b, a, R, L), b # <<>>
  PROVE  Agrees(h, IF Head(b) \in R THEN <<Head(b)>> ELSE <<>>, Tail(b), a, R, L)
<1>1. IsSeq(h) /\ IsSeq(b) /\ IsSeq(a) /\ IsSeq(Tail(b))
  BY TailFacts DEF Agrees
<1>2. PICK w, v, p : /\ w = Among(b, R) /\ v = Among(Tail(b), R)
                     /\ p = IF Head(b) \in R THEN <<Head(b)>> ELSE <<>>
  OBVIOUS
<1>3. w = p \o v
  BY <1>1, <1>2, AmongTail
<1>4. IsSeq(v) /\ IsSeq(p)
  BY <1>1, <1>2, AmongSeq, SmallSeqs
<1>5. h \o (p \o v) = (h \o p) \o v
  BY <1>1, <1>4, CatAssoc
<1>6. (h \o <<>>) \o w = FramesOf(Among(a, L))
  BY <1>2 DEF Agrees
<1>7. h \o <<>> = h
  BY <1>1, CatSmall
<1>8. (h \o p) \o v = FramesOf(Among(a, L))
  BY <1>3, <1>5, <1>6, <1>7
<1>9. Agrees(h, p, Tail(b), a, R, L)
  BY <1>1, <1>2, <1>4, <1>8 DEF Agrees
<1> QED
  BY <1>2, <1>9

LEMMA AgreesReturn ==
  ASSUME NEW h, NEW f, NEW b, NEW a, NEW R, NEW L, Agrees(h, <<f>>, b, a, R, L)
  PROVE  Agrees(Append(h, f), <<>>, b, a, R, L)
<1>1. IsSeq(h) /\ IsSeq(b) /\ IsSeq(a) /\ IsSeq(Append(h, f))
  BY SeqFacts DEF Agrees
<1>2. PICK g, w : g = Append(h, f) /\ w = Among(b, R)
  OBVIOUS
<1>3. h \o <<f>> = g /\ g \o <<>> = g /\ IsSeq(g)
  BY <1>1, <1>2, CatSmall
<1>4. (h \o <<f>>) \o w = FramesOf(Among(a, L))
  BY <1>2 DEF Agrees
<1>5. (g \o <<>>) \o w = FramesOf(Among(a, L))
  BY <1>3, <1>4
<1> QED
  BY <1>1, <1>2, <1>5, SmallSeqs DEF Agrees

(***************************************************************************)
(* The kernel does what the filters of the programs ask for.               *)
(***************************************************************************)
ExtendedOnly(fs) == fs \subseteq CanFilters /\ \A q \in fs : q.ext /\ ~q.std

LEMMA KernelTranslates ==
  ASSUME NEW fs, ExtendedOnly(fs), NEW id \in Ids, NEW ext \in BOOLEAN
  PROVE  KernelAccepts(fs, id, ext) <=> Wanted(fs, id, ext)
<1> DEFINE can_id == IF ext THEN id \cup {EFF_FLAG} ELSE id
<1>1. ASSUME NEW f \in fs
      PROVE  (can_id \cap KernelFilter(f).can_mask
                = KernelFilter(f).can_id \cap KernelFilter(f).can_mask)
             <=> (f.id \cap f.mask = id \cap f.mask /\ (f.std = f.ext \/ f.ext = ext))
  <2>1. /\ f.id \subseteq EffBits /\ f.mask \subseteq EffBits /\ id \subseteq EffBits
        /\ f.ext = TRUE /\ f.std = FALSE /\ EFF_FLAG \notin EffBits
    BY BitsAssumption DEF ExtendedOnly, CanFilters, Ids
  <2>2. KernelFilter(f) = [can_id   |-> f.id \cup {EFF_FLAG},
                           can_mask |-> f.mask \cup {EFF_FLAG}]
    <3>1. f.id \cap EffBits = f.id /\ f.mask \cap EffBits = f.mask
      BY <2>1
    <3> QED
      BY <2>1, <3>1 DEF KernelFilter
  <2>3. KernelFilter(f).can_id = f.id \cup {EFF_FLAG}
    BY <2>2
  <2>4. KernelFilter(f).can_mask = f.mask \cup {EFF_FLAG}
    BY <2>2
  <2>5. CASE ext = TRUE
    <3>1. can_id = id \cup {EFF_FLAG}
      BY <2>5
    <3>2. ((id \cup {EFF_FLAG}) \cap (f.mask \cup {EFF_FLAG})
             = (f.id \cup {EFF_FLAG}) \cap (f.mask \cup {EFF_FLAG}))
          <=> (f.id \cap f.mask = id \cap f.mask)
      <4> DEFINE l == (id \cup {EFF_FLAG}) \cap (f.mask \cup {EFF_FLAG})
                 r == (f.id \cup {EFF_FLAG}) \cap (f.mask \cup {EFF_FLAG})
      <4>1. l = (id \cap f.mask) \cup {EFF_FLAG} /\ r = (f.id \cap f.mask) \cup {EFF_FLAG}
        BY <2>1
      <4>2. EFF_FLAG \notin id \cap f.mask /\ EFF_FLAG \notin f.id \cap f.mask
        BY <2>1
      <4> HIDE DEF l, r
      <4>3. l \ {EFF_FLAG} = id \cap f.mask /\ r \ {EFF_FLAG} = f.id \cap f.mask
        BY <4>1, <4>2
      <4>4. (l = r) <=> (f.id \cap f.mask = id \cap f.mask)
        BY <4>1, <4>3
      <4> QED
        BY <4>4 DEF l, r
    <3> QED
      BY <2>1, <2>3, <2>4, <2>5, <3>1, <3>2
  <2>6. CASE ext = FALSE
    <3>1. can_id = id
      BY <2>6
    <3>2. /\ EFF_FLAG \in (f.id \cup {EFF_FLAG}) \cap (f.mask \cup {EFF_FLAG})
          /\ EFF_FLAG \notin id \cap (f.mask \cup {EFF_FLAG})
      BY <2>1
    <3> QED
      BY <2>1, <2>3, <2>4, <2>6, <3>1, <3>2
  <2> QED
    BY <2>5, <2>6
<1>2. KernelAccepts(fs, id, ext)
        <=> (fs = {} \/ \E f \in fs : can_id \cap KernelFilter(f).can_mask
                                        = KernelFilter(f).can_id \cap KernelFilter(f).can_mask)
  BY DEF KernelAccepts
<1>3. Wanted(fs, id, ext)
        <=> (fs = {} \/ \E f \in fs : f.id \cap f.mask = id \cap f.mask
                                       /\ (f.std = f.ext \/ f.ext = ext))
  BY DEF Wanted
<1> HIDE DEF can_id
<1> QED
  BY <1>1, <1>2, <1>3

-----------------------------------------------------------------------------
(***************************************************************************)
(* The invariant                                                           *)
(***************************************************************************)
ProgramOK ==
  /\ program \in Programs
  /\ filters = {} \/ filters = program.filters
  /\ thread # "off" => filters # {}
  /\ progress \in [Message -> Nat]

\* notify() reads only from receivers that have something: nobody else reads from them.
ThreadOK ==
  /\ next \in Nat \ {0}
  /\ thread = "callback" => next <= Len(mReceivers) /\ (frame \in Frames \/ frame = NoFrame)
  /\ thread = "notify" =>
       \A i \in next .. Len(mReceivers) : mReceivers[i] \in rdfs => buffer[mReceivers[i]] # <<>>
  /\ thread = "callback" =>
       \A i \in next + 1 .. Len(mReceivers) :
         mReceivers[i] \in rdfs => buffer[mReceivers[i]] # <<>>

BuffersOK ==
  /\ DOMAIN buffer = Receivers /\ DOMAIN handed = Receivers /\ DOMAIN arrived = Receivers
  /\ \A r \in Receivers : \A i \in 1 .. Len(buffer[r]) : buffer[r][i] \in Frames \cup {Failure}

AllAgree ==
  \A r \in Receivers : Agrees(handed[r], InCallback(r), buffer[r], arrived[r],
                              Readable(r), LetThrough(r))

ListenInv == ProgramOK /\ ThreadOK /\ BuffersOK /\ AllAgree

LEMMA ReceiverFacts ==
  /\ Len(mReceivers) \in Nat
  /\ \A i \in 1 .. Len(mReceivers) : mReceivers[i] \in Receivers
  /\ \A i, j \in 1 .. Len(mReceivers) : mReceivers[i] = mReceivers[j] => i = j
  /\ \A r \in Receivers : Backend[r] = "socket" \/ Backend[r] = "peak"
BY SnifferAssumption DEF Receivers

LEMMA ProgramFilters ==
  ASSUME ProgramOK
  PROVE  /\ ExtendedOnly(program.filters)
         /\ \A q \in program.filters, f \in Frames :
              f.ext = TRUE \/ q.id \cap q.mask # f.id \cap q.mask
         /\ \A f \in Frames : f.id \in Ids /\ f.ext \in BOOLEAN
         /\ Traffic[program].singles \subseteq Frames
<1>1. program \in Programs
  BY DEF ProgramOK
<1>2. \A f \in Frames : f.id \in Ids /\ f.ext \in BOOLEAN
  BY SnifferAssumption
<1>3. \A q \in program.filters : \A f \in Frames : f.ext \/ q.id \cap q.mask # f.id \cap q.mask
  BY <1>1, ListenersAssumption
<1>4. ExtendedOnly(program.filters)
  BY <1>1, ListenersAssumption DEF ExtendedOnly
<1> QED
  BY <1>1, <1>2, <1>3, <1>4, ListenersAssumption

\* In user space the format is not looked at, but there is nothing to be taken for another.
LEMMA UserSpaceFilters ==
  ASSUME ProgramOK, filters = program.filters, NEW f \in Frames
  PROVE  filter(filters, f.id) <=> f \in AskedFor
<1>1. ExtendedOnly(program.filters)
  BY ProgramFilters
<1>2. \A q \in program.filters : f.ext = TRUE \/ q.id \cap q.mask # f.id \cap q.mask
  BY ProgramFilters
<1>3. \A q \in program.filters : q.ext = TRUE /\ q.std = FALSE
  BY <1>1 DEF ExtendedOnly, CanFilters
<1> QED
  BY <1>2, <1>3 DEF filter, AskedFor, Wanted

\* A step that changes nothing of all this.
LEMMA QuietStep ==
  ASSUME AllAgree, UNCHANGED <<buffer, handed, arrived, program>>,
         \A r \in Receivers : InCallback(r)' = InCallback(r)
  PROVE  AllAgree'
<1>1. \A r \in Receivers : Readable(r)' = Readable(r) /\ LetThrough(r)' = LetThrough(r)
  BY DEF Readable, LetThrough, AskedFor
<1> QED
  BY <1>1 DEF AllAgree

LEMMA NoCallback ==
  ASSUME NEW r
  PROVE  /\ thread # "callback" => InCallback(r) = <<>>
         /\ frame = NoFrame => InCallback(r) = <<>>
BY DEF InCallback

LEMMA ArriveKeepsInv ==
  ASSUME ListenInv, NEW r \in Receivers, NEW f \in Frames, OnBus(r, f),
         progress' \in [Message -> Nat]
  PROVE  ListenInv'
<1> DEFINE x == [frame |-> f, early |-> filters = {}]
<1>1. /\ UNCHANGED <<filters, mRunning, thread, rdfs, next, frame, program, handed>>
      /\ arrived' = [arrived EXCEPT ![r] = Append(@, x)]
      /\ buffer' = IF Backend[r] = "socket" /\ ~KernelAccepts(filters, f.id, f.ext)
                   THEN buffer ELSE [buffer EXCEPT ![r] = Append(@, f)]
  BY DEF OnBus, Arrive
<1>2. DOMAIN buffer = Receivers /\ DOMAIN arrived = Receivers /\ DOMAIN handed = Receivers
  BY DEF ListenInv, BuffersOK
<1>3. \A q \in Receivers : IsSeq(buffer[q])
  BY DEF ListenInv, AllAgree, Agrees
<1>4. /\ arrived'[r] = Append(arrived[r], x) /\ DOMAIN arrived' = Receivers
      /\ \A q \in Receivers : q # r => arrived'[q] = arrived[q]
  BY <1>1, <1>2
<1>5. /\ DOMAIN buffer' = Receivers
      /\ \A q \in Receivers : q # r => buffer'[q] = buffer[q]
      /\ buffer'[r] = buffer[r] \/ buffer'[r] = Append(buffer[r], f)
  BY <1>1, <1>2
<1>6. ProgramOK'
  BY <1>1 DEF ListenInv, ProgramOK
<1>7. BuffersOK'
  <2>1. \A i \in 1 .. Len(Append(buffer[r], f)) : Append(buffer[r], f)[i] \in Frames \cup {Failure}
    <3>1. PICK b : b = Append(buffer[r], f)
      OBVIOUS
    <3>2. /\ Len(buffer[r]) \in Nat /\ Len(b) = Len(buffer[r]) + 1 /\ b[Len(buffer[r]) + 1] = f
          /\ \A i \in 1 .. Len(buffer[r]) : b[i] = buffer[r][i]
      BY <1>3, <3>1, SeqFacts
    <3>3. \A i \in 1 .. Len(buffer[r]) : buffer[r][i] \in Frames \cup {Failure}
      BY DEF ListenInv, BuffersOK
    <3>4. \A i \in 1 .. Len(b) : b[i] \in Frames \cup {Failure}
      BY <3>2, <3>3
    <3> QED
      BY <3>1, <3>4
  <2>2. ASSUME NEW q \in Receivers
        PROVE  \A i \in 1 .. Len(buffer'[q]) : buffer'[q][i] \in Frames \cup {Failure}
    BY <1>5, <2>1 DEF ListenInv, BuffersOK
  <2> QED
    BY <1>1, <1>2, <1>4, <1>5, <2>2 DEF BuffersOK
<1>8. \A q \in Receivers : buffer[q] # <<>> => buffer'[q] # <<>>
  <2>1. Append(buffer[r], f) # <<>>
    <3>1. PICK b : b = Append(buffer[r], f)
      OBVIOUS
    <3>2. Len(b) = Len(buffer[r]) + 1 /\ Len(buffer[r]) \in Nat
      BY <1>3, <3>1, SeqFacts
    <3>3. b # <<>>
      BY <3>2, SmallSeqs
    <3> QED
      BY <3>1, <3>3
  <2> QED
    BY <1>5, <2>1
<1>9. ThreadOK'
  <2>1. \A i \in 1 .. Len(mReceivers) :
          buffer[mReceivers[i]] # <<>> => buffer'[mReceivers[i]] # <<>>
    BY <1>8, ReceiverFacts
  <2>2. next \in Nat \ {0}
    BY DEF ListenInv, ThreadOK
  <2>3. \A i : (i \in next .. Len(mReceivers) \/ i \in next + 1 .. Len(mReceivers))
                => i \in 1 .. Len(mReceivers)
    BY <2>2, ReceiverFacts
  <2> QED
    BY <1>1, <2>1, <2>3 DEF ListenInv, ThreadOK
<1>10. ASSUME NEW q \in Receivers
       PROVE  /\ InCallback(q)' = InCallback(q)
              /\ Readable(q)' = Readable(q) /\ LetThrough(q)' = LetThrough(q)
  BY <1>1 DEF InCallback, Readable, LetThrough, AskedFor
<1>11. Agrees(handed[r], InCallback(r), buffer'[r], arrived'[r], Readable(r), LetThrough(r))
  <2>1. Agrees(handed[r], InCallback(r), buffer[r], arrived[r], Readable(r), LetThrough(r))
    BY DEF ListenInv, AllAgree
  <2>2. x \in Arrivals /\ x.frame = f /\ (x.early = TRUE <=> filters = {})
    BY DEF Arrivals
  <2>3. f \in AskedFor <=> Wanted(program.filters, f.id, f.ext)
    BY DEF AskedFor
  <2>4. x \in LetThrough(r) <=> (f \in AskedFor \/ (filters = {} /\ Backend[r] = "socket"))
    BY <2>2 DEF LetThrough
  <2>5. filters = {} \/ filters = program.filters
    BY DEF ListenInv, ProgramOK
  <2>6. filters = program.filters
          => (KernelAccepts(filters, f.id, f.ext) <=> f \in AskedFor)
    <3>1. ExtendedOnly(program.filters) /\ f.id \in Ids /\ f.ext \in BOOLEAN
      BY ProgramFilters DEF ListenInv
    <3>2. KernelAccepts(program.filters, f.id, f.ext) <=> Wanted(program.filters, f.id, f.ext)
      BY <3>1, KernelTranslates
    <3> QED
      BY <2>3, <3>2
  <2>7. filters = {} => KernelAccepts(filters, f.id, f.ext)
    BY DEF KernelAccepts
  <2>8. CASE Backend[r] = "socket" /\ ~KernelAccepts(filters, f.id, f.ext)
    <3>1. x \notin LetThrough(r)
      BY <2>4, <2>5, <2>6, <2>7, <2>8
    <3>2. buffer'[r] = buffer[r]
      BY <1>1, <2>8
    <3>3. Agrees(handed[r], InCallback(r), buffer[r], Append(arrived[r], x), Readable(r), LetThrough(r))
      <4> HIDE DEF x
      <4> QED
        BY <2>1, <3>1, AgreesArrive
    <3> QED
      BY <1>4, <3>2, <3>3
  <2>9. CASE Backend[r] = "socket" /\ KernelAccepts(filters, f.id, f.ext)
    <3>1. x \in LetThrough(r) /\ x.frame \in Readable(r)
      BY <2>2, <2>4, <2>5, <2>6, <2>9 DEF Readable
    <3>2. buffer'[r] = Append(buffer[r], x.frame)
      BY <1>1, <1>2, <2>2, <2>9
    <3>3. Agrees(handed[r], InCallback(r), Append(buffer[r], x.frame), Append(arrived[r], x),
                 Readable(r), LetThrough(r))
      <4> HIDE DEF x
      <4> QED
        BY <2>1, <3>1, AgreesArrive
    <3> QED
      BY <1>4, <3>2, <3>3
  <2>10. CASE Backend[r] = "peak"
    <3>1. buffer'[r] = Append(buffer[r], f) /\ Readable(r) = AskedFor
      BY <1>1, <1>2, <2>10 DEF Readable
    <3>2. x \in LetThrough(r) <=> f \in Readable(r)
      BY <2>4, <2>10, <3>1
    <3>3. CASE f \in Readable(r)
      <4>1. Agrees(handed[r], InCallback(r), Append(buffer[r], x.frame), Append(arrived[r], x),
                   Readable(r), LetThrough(r))
        <5>1. x \in LetThrough(r) /\ x.frame \in Readable(r)
          BY <2>2, <3>2, <3>3
        <5> HIDE DEF x
        <5> QED
          BY <2>1, <5>1, AgreesArrive
      <4> QED
        BY <1>4, <2>2, <3>1, <4>1
    <3>4. CASE f \notin Readable(r)
      <4>1. Agrees(handed[r], InCallback(r), buffer[r], Append(arrived[r], x), Readable(r), LetThrough(r))
        <5>1. x \notin LetThrough(r)
          BY <3>2, <3>4
        <5> HIDE DEF x
        <5> QED
          BY <2>1, <5>1, AgreesArrive
      <4>2. Agrees(handed[r], InCallback(r), Append(buffer[r], f), Append(arrived[r], x),
                   Readable(r), LetThrough(r))
        <5> HIDE DEF x
        <5> QED
          BY <3>4, <4>1, AgreesArrive
      <4> QED
        BY <1>4, <3>1, <4>2
    <3> QED
      BY <3>3, <3>4
  <2> QED
    BY <2>8, <2>9, <2>10, ReceiverFacts
<1>12. AllAgree'
  <2>1. ASSUME NEW q \in Receivers
        PROVE  Agrees(handed'[q], InCallback(q)', buffer'[q], arrived'[q], Readable(q)', LetThrough(q)')
    <3>1. CASE q = r
      BY <1>1, <1>10, <1>11, <3>1
    <3>2. CASE q # r
      <4>1. buffer'[q] = buffer[q] /\ arrived'[q] = arrived[q] /\ handed' = handed
        BY <1>1, <1>4, <1>5, <3>2
      <4>2. Agrees(handed[q], InCallback(q), buffer[q], arrived[q], Readable(q), LetThrough(q))
        BY DEF ListenInv, AllAgree
      <4> QED
        BY <1>10, <4>1, <4>2
    <3> QED
      BY <3>1, <3>2
  <2> QED
    BY <2>1 DEF AllAgree
<1> QED
  BY <1>6, <1>7, <1>9, <1>12 DEF ListenInv

LEMMA FailKeepsInv ==
  ASSUME ListenInv, NEW r \in Receivers, Failing(r), progress' \in [Message -> Nat]
  PROVE  ListenInv'
<1>1. /\ UNCHANGED <<filters, mRunning, thread, rdfs, next, frame, program, arrived, handed>>
      /\ buffer' = [buffer EXCEPT ![r] = Append(@, Failure)]
  BY DEF Failing, Fail, listenerVars
<1>2. DOMAIN buffer = Receivers /\ \A q \in Receivers : IsSeq(buffer[q])
  BY DEF ListenInv, BuffersOK, AllAgree, Agrees
<1>3. /\ DOMAIN buffer' = Receivers /\ buffer'[r] = Append(buffer[r], Failure)
      /\ \A q \in Receivers : q # r => buffer'[q] = buffer[q]
  BY <1>1, <1>2
<1>4. PICK b : b = Append(buffer[r], Failure)
  OBVIOUS
<1>5. /\ Len(buffer[r]) \in Nat /\ Len(b) = Len(buffer[r]) + 1 /\ b[Len(buffer[r]) + 1] = Failure
      /\ \A i \in 1 .. Len(buffer[r]) : b[i] = buffer[r][i]
  BY <1>2, <1>4, SeqFacts
<1>6. ProgramOK'
  BY <1>1 DEF ListenInv, ProgramOK
<1>7. BuffersOK'
  <2>1. \A i \in 1 .. Len(b) : b[i] \in Frames \cup {Failure}
    BY <1>5 DEF ListenInv, BuffersOK
  <2>2. ASSUME NEW q \in Receivers
        PROVE  \A i \in 1 .. Len(buffer'[q]) : buffer'[q][i] \in Frames \cup {Failure}
    BY <1>3, <1>4, <2>1 DEF ListenInv, BuffersOK
  <2> QED
    BY <1>1, <1>3, <2>2 DEF ListenInv, BuffersOK
<1>8. ThreadOK'
  <2>1. b # <<>>
    BY <1>5, SmallSeqs
  <2>2. \A q \in Receivers : buffer[q] # <<>> => buffer'[q] # <<>>
    BY <1>3, <1>4, <2>1
  <2>3. \A i \in 1 .. Len(mReceivers) :
          buffer[mReceivers[i]] # <<>> => buffer'[mReceivers[i]] # <<>>
    BY <2>2, ReceiverFacts
  <2>4. next \in Nat \ {0}
    BY DEF ListenInv, ThreadOK
  <2>5. \A i : (i \in next .. Len(mReceivers) \/ i \in next + 1 .. Len(mReceivers))
                => i \in 1 .. Len(mReceivers)
    BY <2>4, ReceiverFacts
  <2> QED
    BY <1>1, <2>3, <2>5 DEF ListenInv, ThreadOK
<1>9. AllAgree'
  <2>1. ASSUME NEW q \in Receivers
        PROVE  Agrees(handed'[q], InCallback(q)', buffer'[q], arrived'[q], Readable(q)', LetThrough(q)')
    <3>1. /\ InCallback(q)' = InCallback(q)
          /\ Readable(q)' = Readable(q) /\ LetThrough(q)' = LetThrough(q)
      BY <1>1 DEF InCallback, Readable, LetThrough, AskedFor
    <3>2. Agrees(handed[q], InCallback(q), buffer[q], arrived[q], Readable(q), LetThrough(q))
      BY DEF ListenInv, AllAgree
    <3>3. CASE q = r
      <4>1. Failure \notin Readable(r)
        BY SnifferAssumption DEF Readable, AskedFor
      <4>2. Agrees(handed[r], InCallback(r), Append(buffer[r], Failure), arrived[r],
                   Readable(r), LetThrough(r))
        BY <3>2, <3>3, <4>1, AgreesArrive
      <4> QED
        BY <1>1, <1>3, <3>1, <3>3, <4>2
    <3>4. CASE q # r
      BY <1>1, <1>3, <3>1, <3>2, <3>4
    <3> QED
      BY <3>3, <3>4
  <2> QED
    BY <2>1 DEF AllAgree
<1> QED
  BY <1>6, <1>7, <1>8, <1>9 DEF ListenInv

LEMMA MainKeepsInv ==
  ASSUME ListenInv, Main, UNCHANGED progress
  PROVE  ListenInv'
<1>1. UNCHANGED <<program, arrived, handed, progress>>
  BY DEF Main, listenerVars
<1>2. CASE filters = {} /\ setFilters(program.filters)
  <2>1. UNCHANGED <<buffer, thread, rdfs, next, frame>> /\ filters' = program.filters
        /\ program.filters # {}
    BY <1>2 DEF setFilters
  <2>2. \A r \in Receivers : InCallback(r)' = InCallback(r)
    BY <2>1 DEF InCallback
  <2>3. AllAgree'
    BY <1>1, <2>1, <2>2, QuietStep DEF ListenInv
  <2>4. ProgramOK'
    BY <1>1, <2>1 DEF ListenInv, ProgramOK
  <2>5. ThreadOK' /\ BuffersOK'
    BY <1>1, <2>1 DEF ListenInv, ThreadOK, BuffersOK
  <2> QED
    BY <2>3, <2>4, <2>5 DEF ListenInv
<1>3. CASE filters # {} /\ sniff
  <2>1. UNCHANGED <<buffer, filters, rdfs, next, frame>> /\ thread = "off" /\ thread' = "select"
    BY <1>3 DEF sniff
  <2>2. \A r \in Receivers : InCallback(r)' = InCallback(r)
    BY <2>1 DEF InCallback
  <2>3. AllAgree'
    BY <1>1, <2>1, <2>2, QuietStep DEF ListenInv
  <2>4. ProgramOK'
    BY <1>1, <1>3, <2>1 DEF ListenInv, ProgramOK
  <2>5. ThreadOK' /\ BuffersOK'
    BY <1>1, <2>1 DEF ListenInv, ThreadOK, BuffersOK
  <2> QED
    BY <2>3, <2>4, <2>5 DEF ListenInv
<1> QED
  BY <1>2, <1>3 DEF Main

LEMMA ReturnKeepsInv ==
  ASSUME ListenInv, thread = "callback", Returned, UNCHANGED progress
  PROVE  ListenInv'
<1> DEFINE r == mReceivers[next]
<1>1. /\ UNCHANGED <<buffer, filters, rdfs, program, arrived, progress>>
      /\ thread' = "notify" /\ next' = next + 1 /\ frame' = NoFrame
      /\ handed' = IF frame = NoFrame THEN handed ELSE [handed EXCEPT ![r] = Append(@, frame)]
  BY DEF Returned, CallbackReturns
<1>2. next \in 1 .. Len(mReceivers) /\ r \in Receivers
  BY ReceiverFacts DEF ListenInv, ThreadOK
<1>3. DOMAIN handed = Receivers
  BY DEF ListenInv, BuffersOK
<1>4. ProgramOK'
  BY <1>1 DEF ListenInv, ProgramOK
<1>5. ThreadOK'
  <2>1. next' \in Nat \ {0}
    BY <1>1, <1>2
  <2>2. \A i \in next + 1 .. Len(mReceivers) :
          mReceivers[i] \in rdfs => buffer[mReceivers[i]] # <<>>
    BY DEF ListenInv, ThreadOK
  <2> QED
    BY <1>1, <2>1, <2>2 DEF ThreadOK
<1>6. BuffersOK'
  <2>1. DOMAIN handed' = Receivers
    BY <1>1, <1>3
  <2> QED
    BY <1>1, <2>1 DEF ListenInv, BuffersOK
<1>7. ASSUME NEW q \in Receivers
      PROVE  Agrees(handed'[q], InCallback(q)', buffer'[q], arrived'[q], Readable(q)', LetThrough(q)')
  <2>1. /\ InCallback(q)' = <<>>
        /\ Readable(q)' = Readable(q) /\ LetThrough(q)' = LetThrough(q)
    BY <1>1 DEF InCallback, Readable, LetThrough, AskedFor
  <2>2. Agrees(handed[q], InCallback(q), buffer[q], arrived[q], Readable(q), LetThrough(q))
    BY DEF ListenInv, AllAgree
  <2>3. CASE q = r /\ frame # NoFrame
    <3>1. InCallback(q) = <<frame>>
      BY <2>3 DEF InCallback
    <3>2. handed'[q] = Append(handed[q], frame)
      BY <1>1, <1>2, <1>3, <2>3
    <3>3. Agrees(Append(handed[q], frame), <<>>, buffer[q], arrived[q], Readable(q), LetThrough(q))
      BY <2>2, <3>1, AgreesReturn
    <3> QED
      BY <1>1, <2>1, <3>2, <3>3
  <2>4. CASE ~(q = r /\ frame # NoFrame)
    <3>1. InCallback(q) = <<>>
      BY <2>4 DEF InCallback
    <3>2. handed'[q] = handed[q]
      BY <1>1, <1>2, <1>3, <2>4
    <3> QED
      BY <1>1, <2>1, <2>2, <3>1, <3>2
  <2> QED
    BY <2>3, <2>4
<1>8. AllAgree'
  BY <1>7 DEF AllAgree
<1> QED
  BY <1>4, <1>5, <1>6, <1>8 DEF ListenInv

\* Steps of sniff() that do not touch a frame.
LEMMA IdleKeepsInv ==
  ASSUME ListenInv, wait_fd \/ WaitTimeout \/ NotifyEnds \/ Check, UNCHANGED listenerVars,
         UNCHANGED progress
  PROVE  ListenInv'
<1>1. UNCHANGED <<buffer, filters, frame, program, arrived, handed, progress>>
  BY DEF wait_fd, WaitTimeout, NotifyEnds, Check, listenerVars
<1>2. thread # "callback" /\ thread' # "callback" /\ thread # "off"
  BY DEF wait_fd, WaitTimeout, NotifyEnds, Check
<1>3. \A r \in Receivers : InCallback(r)' = InCallback(r)
  BY <1>2 DEF InCallback
<1>4. AllAgree'
  BY <1>1, <1>3, QuietStep DEF ListenInv
<1>5. ProgramOK' /\ BuffersOK'
  BY <1>1, <1>2 DEF ListenInv, ProgramOK, BuffersOK
<1>6. ThreadOK'
  <2>1. CASE wait_fd
    <3>1. thread' = "notify" /\ next' = 1 /\ rdfs' = {r \in Receivers : buffer[r] # <<>>}
      BY <2>1 DEF wait_fd
    <3> QED
      BY <1>1, <3>1 DEF ThreadOK
  <2>2. CASE WaitTimeout \/ NotifyEnds \/ Check
    <3>1. thread' # "notify" /\ (next' = next \/ next' = 1)
      BY <2>2 DEF WaitTimeout, NotifyEnds, Check
    <3> QED
      BY <1>2, <3>1 DEF ListenInv, ThreadOK
  <2> QED
    BY <2>1, <2>2
<1> QED
  BY <1>4, <1>5, <1>6 DEF ListenInv

\* One receiver is read, or is not ready.
LEMMA NotifyKeepsInv ==
  ASSUME ListenInv, notify, UNCHANGED listenerVars, UNCHANGED progress
  PROVE  ListenInv'
<1> DEFINE r == mReceivers[next]
<1>1. /\ thread = "notify" /\ next <= Len(mReceivers)
      /\ UNCHANGED <<filters, rdfs, program, arrived, handed, progress>>
  BY DEF notify, listenerVars
<1>2. next \in 1 .. Len(mReceivers) /\ r \in Receivers /\ next + 1 \in Nat \ {0}
  BY <1>1, ReceiverFacts DEF ListenInv, ThreadOK
<1>3. filters # {} /\ filters = program.filters
  BY <1>1 DEF ListenInv, ProgramOK
<1>4. ASSUME NEW q \in Receivers
      PROVE  /\ InCallback(q) = <<>>
             /\ Readable(q)' = Readable(q) /\ LetThrough(q)' = LetThrough(q)
             /\ Agrees(handed[q], <<>>, buffer[q], arrived[q], Readable(q), LetThrough(q))
  <2>1. InCallback(q) = <<>>
    BY <1>1 DEF InCallback
  <2>2. Readable(q)' = Readable(q) /\ LetThrough(q)' = LetThrough(q)
    BY <1>1 DEF Readable, LetThrough, AskedFor
  <2>3. Agrees(handed[q], InCallback(q), buffer[q], arrived[q], Readable(q), LetThrough(q))
    BY DEF ListenInv, AllAgree
  <2> QED
    BY <2>1, <2>2, <2>3
<1>5. CASE r \notin rdfs
  <2>1. next' = next + 1 /\ UNCHANGED <<buffer, thread, frame>>
    BY <1>5 DEF notify
  <2>2. \A q \in Receivers : InCallback(q)' = InCallback(q)
    BY <1>1, <2>1 DEF InCallback
  <2>3. AllAgree'
    BY <1>1, <2>1, <2>2, QuietStep DEF ListenInv
  <2>4. ProgramOK' /\ BuffersOK'
    BY <1>1, <2>1 DEF ListenInv, ProgramOK, BuffersOK
  <2>5. \A i \in next + 1 .. Len(mReceivers) : i \in next .. Len(mReceivers)
    BY <1>2
  <2>6. ThreadOK'
    BY <1>1, <1>2, <2>1, <2>5 DEF ListenInv, ThreadOK
  <2> QED
    BY <2>3, <2>4, <2>6 DEF ListenInv
<1>6. CASE r \in rdfs
  <2>1. /\ buffer' = [buffer EXCEPT ![r] = Tail(@)]
        /\ IF Handed(r) = {} THEN next' = next + 1 /\ UNCHANGED <<thread, frame>>
           ELSE frame' \in Handed(r) /\ thread' = "callback" /\ next' = next
    BY <1>6 DEF notify
  <2>2. DOMAIN buffer = Receivers /\ \A q \in Receivers : IsSeq(buffer[q])
    BY DEF ListenInv, BuffersOK, AllAgree, Agrees
  <2>3. buffer[r] # <<>>
    <3>1. next \in next .. Len(mReceivers)
      BY <1>2
    <3> QED
      BY <1>1, <1>6, <3>1 DEF ListenInv, ThreadOK
  <2>4. /\ DOMAIN buffer' = Receivers /\ buffer'[r] = Tail(buffer[r])
        /\ \A q \in Receivers : q # r => buffer'[q] = buffer[q]
    BY <1>2, <2>1, <2>2
  <2>5. PICK f, b : f = Head(buffer[r]) /\ b = Tail(buffer[r])
    OBVIOUS
  <2>6. /\ Len(buffer[r]) \in Nat \ {0} /\ f = buffer[r][1] /\ Len(b) = Len(buffer[r]) - 1
        /\ \A i \in 1 .. Len(buffer[r]) - 1 : b[i] = buffer[r][i + 1]
    BY <1>2, <2>2, <2>3, <2>5, SeqFacts, TailFacts
  <2>7. \A i \in 1 .. Len(buffer[r]) : buffer[r][i] \in Frames \cup {Failure}
    BY <1>2 DEF ListenInv, BuffersOK
  <2>8. f \in Frames \cup {Failure} /\ \A i \in 1 .. Len(b) : b[i] \in Frames \cup {Failure}
    BY <2>6, <2>7
  \* What is handed to the callback is what counts as readable, or no frame.
  <2>9. \/ f \in Readable(r) /\ f \in Frames /\ Handed(r) = {f}
        \/ f \notin Readable(r) /\ (Handed(r) = {} \/ Handed(r) = {NoFrame})
    <3>1. CASE f = Failure
      <4>1. f \notin Readable(r)
        BY <3>1, SnifferAssumption DEF Readable, AskedFor
      <4> QED
        BY <2>5, <3>1, <4>1 DEF Handed
    <3>2. CASE f \in Frames
      <4>1. f # Failure
        BY <3>2, SnifferAssumption
      <4>2. filter(filters, f.id) <=> f \in AskedFor
        BY <1>3, <3>2, UserSpaceFilters DEF ListenInv
      <4>3. Handed(r) = IF Backend[r] = "peak" /\ ~filter(filters, f.id) THEN {} ELSE {f}
        BY <2>5, <4>1 DEF Handed
      <4>4. Backend[r] = "socket" \/ Backend[r] = "peak"
        BY <1>2, ReceiverFacts
      <4> QED
        BY <3>2, <4>2, <4>3, <4>4 DEF Readable
    <3> QED
      BY <2>8, <3>1, <3>2
  <2>10. Agrees(handed[r], IF f \in Readable(r) THEN <<f>> ELSE <<>>, b, arrived[r],
                Readable(r), LetThrough(r))
    BY <1>2, <1>4, <2>3, <2>5, AgreesRead
  <2>11. NoFrame \notin Frames
    BY SnifferAssumption
  <2>12. \A q \in Receivers :
           InCallback(q)' = IF q = r /\ f \in Readable(r) THEN <<f>> ELSE <<>>
    <3>1. CASE f \in Readable(r) /\ Handed(r) = {f} /\ f \in Frames
      <4>1. thread' = "callback" /\ frame' = f /\ next' = next
        BY <2>1, <3>1
      <4> QED
        BY <2>11, <3>1, <4>1 DEF InCallback
    <3>2. CASE f \notin Readable(r) /\ Handed(r) = {}
      <4>1. thread' = "notify"
        BY <1>1, <2>1, <3>2
      <4> QED
        BY <3>2, <4>1 DEF InCallback
    <3>3. CASE f \notin Readable(r) /\ Handed(r) = {NoFrame}
      <4>1. frame' = NoFrame
        BY <2>1, <3>3
      <4> QED
        BY <3>3, <4>1 DEF InCallback
    <3> QED
      BY <2>9, <3>1, <3>2, <3>3
  <2>13. AllAgree'
    <3>1. ASSUME NEW q \in Receivers
          PROVE  Agrees(handed'[q], InCallback(q)', buffer'[q], arrived'[q], Readable(q)', LetThrough(q)')
      <4>1. CASE q = r
        <5>1. /\ handed'[q] = handed[r] /\ arrived'[q] = arrived[r] /\ buffer'[q] = b
          BY <1>1, <1>2, <2>4, <2>5, <4>1
        <5>2. Readable(q)' = Readable(r) /\ LetThrough(q)' = LetThrough(r)
          BY <1>2, <1>4, <4>1
        <5>3. InCallback(q)' = IF f \in Readable(r) THEN <<f>> ELSE <<>>
          BY <2>12, <4>1
        <5> QED
          BY <2>10, <5>1, <5>2, <5>3
      <4>2. CASE q # r
        BY <1>1, <1>4, <2>4, <2>12, <4>2
      <4> QED
        BY <4>1, <4>2
    <3> QED
      BY <3>1 DEF AllAgree
  <2>14. ProgramOK'
    <3>1. thread' = "notify" \/ thread' = "callback"
      BY <1>1, <2>1
    <3> QED
      BY <1>1, <1>3 DEF ListenInv, ProgramOK
  <2>15. BuffersOK'
    <3>1. ASSUME NEW q \in Receivers
          PROVE  \A i \in 1 .. Len(buffer'[q]) : buffer'[q][i] \in Frames \cup {Failure}
      BY <2>4, <2>5, <2>8 DEF ListenInv, BuffersOK
    <3> QED
      BY <1>1, <2>4, <3>1 DEF ListenInv, BuffersOK
  <2>16. ThreadOK'
    <3>1. ASSUME NEW i \in next + 1 .. Len(mReceivers), mReceivers[i] \in rdfs
          PROVE  buffer'[mReceivers[i]] # <<>>
      <4>1. i \in next .. Len(mReceivers) /\ i \in 1 .. Len(mReceivers) /\ i # next
        BY <1>2, ReceiverFacts
      <4>2. mReceivers[i] # r /\ mReceivers[i] \in Receivers
        BY <1>2, <4>1, ReceiverFacts
      <4>3. buffer[mReceivers[i]] # <<>>
        BY <1>1, <3>1, <4>1 DEF ListenInv, ThreadOK
      <4> QED
        BY <2>4, <4>2, <4>3
    <3>2. CASE Handed(r) = {}
      <4>1. next' = next + 1 /\ thread' = "notify"
        BY <1>1, <2>1, <3>2
      <4> QED
        BY <1>1, <1>2, <3>1, <4>1 DEF ThreadOK
    <3>3. CASE Handed(r) # {}
      <4>1. next' = next /\ thread' = "callback" /\ frame' \in Handed(r)
        BY <2>1, <3>3
      <4>2. frame' \in Frames \/ frame' = NoFrame
        BY <2>9, <4>1
      <4> QED
        BY <1>1, <1>2, <3>1, <4>1, <4>2 DEF ThreadOK
    <3> QED
      BY <3>2, <3>3
  <2> QED
    BY <2>13, <2>14, <2>15, <2>16 DEF ListenInv
<1> QED
  BY <1>5, <1>6

LEMMA StutterKeepsInv ==
  ASSUME ListenInv, UNCHANGED <<snifferVars, program, arrived, handed, progress>>
  PROVE  ListenInv'
<1>1. UNCHANGED <<buffer, filters, thread, rdfs, next, frame, program, arrived, handed, progress>>
  BY DEF snifferVars
<1>2. \A r \in Receivers : InCallback(r)' = InCallback(r)
  BY <1>1 DEF InCallback
<1>3. AllAgree'
  BY <1>1, <1>2, QuietStep DEF ListenInv
<1>4. ProgramOK' /\ BuffersOK' /\ ThreadOK'
  BY <1>1 DEF ListenInv, ProgramOK, BuffersOK, ThreadOK
<1> QED
  BY <1>3, <1>4 DEF ListenInv

LEMMA PartsAreCounted ==
  ASSUME NEW m \in Message
  PROVE  Bam!DataFrames(m) \in Nat
<1>1. Size[m] \in Nat
  BY ListenersAssumption
<1>2. Bam!Packets(m) \in Nat
  BY <1>1 DEF Bam!Packets, Bam!TP_DT_PACKET_SIZE
<1> QED
  BY <1>2 DEF Bam!DataFrames, Bam!U8

\* The callback of either program.
LEMMA CallbackKeepsInv ==
  ASSUME ListenInv, onRcv, UNCHANGED progress
  PROVE  ListenInv'
<1>1. CASE MapName
  <2>1. thread = "callback" /\ Returned
    BY <1>1 DEF MapName
  <2> QED
    BY <2>1, ReturnKeepsInv
<1>2. CASE SniffFrame
  <2>1. thread = "callback" /\ (Returned \/ Stays)
    <3>1. thread = "callback"
      BY <1>2 DEF SniffFrame
    <3>2. CASE SniffIgnored
      BY <3>1, <3>2 DEF SniffIgnored
    <3>3. CASE SniffThrows
      BY <3>1, <3>3 DEF SniffThrows
    <3>4. CASE SniffSimple
      BY <3>1, <3>4 DEF SniffSimple
    <3>5. CASE SniffPart
      <4>1. IF LastOfBad \/ mReassembledFrames' # <<>> THEN Stays ELSE Returned
        BY <3>5 DEF SniffPart
      <4> QED
        BY <3>1, <4>1
    <3>6. CASE SniffWhole
      BY <3>1, <3>6 DEF SniffWhole
    <3> QED
      BY <1>2, <3>2, <3>3, <3>4, <3>5, <3>6 DEF SniffFrame
  <2>2. CASE Returned
    BY <2>1, <2>2, ReturnKeepsInv
  <2>3. CASE Stays
    <3>1. UNCHANGED <<snifferVars, program, arrived, handed, progress>>
      BY <2>3 DEF Stays
    <3> QED
      BY <3>1, StutterKeepsInv
  <2> QED
    BY <2>1, <2>2, <2>3
<1> QED
  BY <1>1, <1>2 DEF onRcv

LEMMA BusKeepsInv ==
  ASSUME ListenInv, Bus
  PROVE  ListenInv'
<1>1. progress \in [Message -> Nat]
  BY DEF ListenInv, ProgramOK
<1>2. ASSUME NEW m \in Message, SendPart(m) PROVE ListenInv'
  <2>1. /\ ~Done(m) /\ OnBus(OnBusOf[m], CanFrame(m, progress[m]))
        /\ progress' = [progress EXCEPT ![m] = @ + 1]
    BY <1>2 DEF SendPart
  <2>2. progress[m] \in Nat /\ progress' \in [Message -> Nat]
    BY <1>1, <2>1
  <2>3. Bam!DataFrames(m) \in Nat
    BY PartsAreCounted
  <2>4. progress[m] \in 0 .. Bam!DataFrames(m)
    BY <2>1, <2>2, <2>3 DEF Done
  <2>5. OnBusOf[m] \in Receivers /\ CanFrame(m, progress[m]) \in Frames
    BY <2>4, ListenersAssumption
  <2> QED
    BY <2>1, <2>2, <2>5, ArriveKeepsInv
<1>3. CASE SendSingle
  <2>1. PICK r \in Receivers, f \in Traffic[program].singles : OnBus(r, f)
    BY <1>3 DEF SendSingle
  <2>2. f \in Frames
    BY <2>1, ProgramFilters DEF ListenInv
  <2>3. progress' \in [Message -> Nat]
    BY <1>1, <1>3 DEF SendSingle
  <2> QED
    BY <2>1, <2>2, <2>3, ArriveKeepsInv
<1>4. CASE FailRead
  <2>1. PICK r \in Receivers : Failing(r)
    BY <1>4 DEF FailRead
  <2>2. progress' \in [Message -> Nat]
    BY <1>1, <1>4 DEF FailRead
  <2> QED
    BY <2>1, <2>2, FailKeepsInv
<1> QED
  BY <1>2, <1>3, <1>4 DEF Bus

LEMMA InvInit == Init => ListenInv
<1> SUFFICES ASSUME Init PROVE ListenInv
  OBVIOUS
<1>1. /\ buffer = [r \in Receivers |-> <<>>] /\ filters = {} /\ thread = "off"
      /\ next = 1 /\ frame = NoFrame /\ program \in Programs
      /\ arrived = [r \in Receivers |-> <<>>] /\ handed = [r \in Receivers |-> <<>>]
      /\ progress \in [Message -> {0, 1}]
  BY DEF Init, ListenerInit, SnifferInit
<1>2. progress \in [Message -> Nat]
  BY <1>1
<1>3. ProgramOK
  BY <1>1, <1>2 DEF ProgramOK
<1>4. ThreadOK
  BY <1>1 DEF ThreadOK
<1>5. BuffersOK
  <2>1. ASSUME NEW r \in Receivers
        PROVE  \A i \in 1 .. Len(buffer[r]) : buffer[r][i] \in Frames \cup {Failure}
    <3>1. buffer[r] = <<>> /\ Len(<<>>) = 0
      BY <1>1, SmallSeqs
    <3>2. Len(buffer[r]) = 0
      BY <3>1
    <3> QED
      BY <3>2
  <2> QED
    BY <1>1, <2>1 DEF BuffersOK
<1>6. ASSUME NEW R, NEW L PROVE Agrees(<<>>, <<>>, <<>>, <<>>, R, L)
  <2>1. PICK e : e = <<>>
    OBVIOUS
  <2>2. IsSeq(e) /\ Among(e, R) = e /\ Among(e, L) = e
    BY <2>1, AmongEmpty, SmallSeqs
  <2>3. e \o e \o e = e
    BY <2>1, <2>2, CatSmall
  <2>4. FramesOf(e) = e
    <3>1. Len(e) = 0
      BY <2>1, SmallSeqs
    <3>2. 1 .. Len(e) = {}
      BY <3>1
    <3> QED
      BY <2>1, <3>2 DEF FramesOf
  <2> QED
    BY <2>1, <2>2, <2>3, <2>4 DEF Agrees
<1>7. ASSUME NEW r \in Receivers
      PROVE  Agrees(handed[r], InCallback(r), buffer[r], arrived[r], Readable(r), LetThrough(r))
  <2>1. handed[r] = <<>> /\ buffer[r] = <<>> /\ arrived[r] = <<>>
    BY <1>1
  <2>2. InCallback(r) = <<>>
    BY <1>1 DEF InCallback
  <2> QED
    BY <1>6, <2>1, <2>2
<1> QED
  BY <1>3, <1>4, <1>5, <1>7 DEF ListenInv, AllAgree

LEMMA InvNext == ListenInv /\ [Next]_vars => ListenInv'
<1> SUFFICES ASSUME ListenInv, [Next]_vars PROVE ListenInv'
  OBVIOUS
<1>1. CASE Bus
  BY <1>1, BusKeepsInv
<1>2. CASE Listens
  <2>1. UNCHANGED progress
    BY <1>2 DEF Listens
  <2>2. CASE MainThread
    BY <2>1, <2>2, MainKeepsInv DEF MainThread
  <2>3. CASE onRcv
    BY <2>1, <2>3, CallbackKeepsInv
  <2>4. CASE Sniffer /\ UNCHANGED <<listenerVars, names, sniffVars>>
    <3>1. UNCHANGED listenerVars
      BY <2>4
    <3>2. CASE notify
      BY <2>1, <3>1, <3>2, NotifyKeepsInv
    <3>3. CASE wait_fd \/ WaitTimeout \/ NotifyEnds \/ Check
      BY <2>1, <3>1, <3>3, IdleKeepsInv
    <3> QED
      BY <2>4, <3>2, <3>3 DEF Sniffer
  <2> QED
    BY <1>2, <2>2, <2>3, <2>4 DEF Listens, Thread
<1>3. CASE UNCHANGED vars
  <2>1. UNCHANGED <<snifferVars, program, arrived, handed, progress>>
    BY <1>3 DEF vars, listenerVars
  <2> QED
    BY <2>1, StutterKeepsInv
<1> QED
  BY <1>1, <1>2, <1>3 DEF Next

LEMMA AgreeIsHandsOn == ListenInv => HandsOnWanted
BY DEF ListenInv, AllAgree, Agrees, FramesOf, HandsOnWanted

(***************************************************************************)
(* Whatever the buses carry, whatever the number and the kind of the       *)
(* receivers and wherever reads fail, every receiver hands on what the     *)
(* filters of the program ask for, all of it and in order, and besides     *)
(* only what a socket had let in before setFilters (CanSniffer::sniff,     *)
(* SocketCanReceiver::setFilters, PeakCanReceiver::filter).                *)
(***************************************************************************)
THEOREM EveryWantedFrameHandedOn == Spec => []HandsOnWanted
<1>1. Init => ListenInv
  BY InvInit
<1>2. ListenInv /\ [Next]_vars => ListenInv'
  BY InvNext
<1>3. ListenInv => HandsOnWanted
  BY AgreeIsHandsOn
<1> QED
  BY <1>1, <1>2, <1>3, PTL DEF Spec

-----------------------------------------------------------------------------
(***************************************************************************)
(* Long messages                                                           *)
(***************************************************************************)
\* The numbers of the packets fit a u8.
Small(m) == Bam!Packets(m) < 256

\* How many packets a message has, and how many of them are sent.
LEMMA MessageFacts ==
  ASSUME NEW m \in Message
  PROVE  /\ Size[m] \in Nat /\ Bam!Packets(m) \in Nat /\ SrcOf[m] \in Source /\ PgnOf[m] \in Pgn
         /\ Bam!DataFrames(m) \in 0 .. 256
         /\ Small(m) => Bam!DataFrames(m) = Bam!Packets(m) /\ Bam!DataFrames(m) % 256 = Bam!Packets(m)
         /\ ~Small(m) => Bam!DataFrames(m) = 256 /\ Bam!DataFrames(m) % 256 = 0
<1>1. Size[m] \in Nat /\ SrcOf[m] \in Source /\ PgnOf[m] \in Pgn
  BY ListenersAssumption
<1>2. PICK n : n = Bam!Packets(m)
  OBVIOUS
<1>3. n \in Nat
  BY <1>1, <1>2 DEF Bam!Packets, Bam!TP_DT_PACKET_SIZE
<1>4. Bam!DataFrames(m) = IF n < 256 THEN n ELSE 256
  BY <1>2 DEF Bam!DataFrames, Bam!U8
<1> QED
  BY <1>1, <1>2, <1>3, <1>4 DEF Small

\* The frames of a message on the bus.
LEMMA CanFrameIs ==
  ASSUME NEW m, NEW k, NEW b, b = Bam!BusFrame(m, k), NEW field \in DOMAIN b \ {"id", "ext", "of"}
  PROVE  CanFrame(m, k)[field] = b[field]
BY DEF CanFrame

\* What all its frames have,
LEMMA EveryFrame ==
  ASSUME NEW m, NEW k
  PROVE  /\ CanFrame(m, k).of = <<m, k>> /\ CanFrame(m, k).ext = TRUE
         /\ CanFrame(m, k).id
              = SourceId[SrcOf[m]] \cup SpecificBits \cup (IF k = 0 THEN TP_CM_ID ELSE TP_DT_ID)
BY DEF CanFrame

\* what the TP.CM has,
LEMMA ConnFields ==
  ASSUME NEW m
  PROVE  /\ CanFrame(m, 0).kind = "BAM" /\ CanFrame(m, 0).src = SrcOf[m]
         /\ CanFrame(m, 0).pgn = PgnOf[m] /\ CanFrame(m, 0).size = Size[m] % 65536
         /\ CanFrame(m, 0).packets = Bam!DataFrames(m) % 256
<1>1. PICK b : b = Bam!BusFrame(m, 0)
  OBVIOUS
<1>2. b = [kind |-> "BAM", src |-> SrcOf[m], pgn |-> PgnOf[m],
           size |-> Size[m] % 65536, packets |-> Bam!DataFrames(m) % 256]
  BY <1>1 DEF Bam!BusFrame, Bam!ConnFrame, Bam!U8, Bam!U16
<1>3. {"kind", "src", "pgn", "size", "packets"} \subseteq DOMAIN b \ {"id", "ext", "of"}
  BY <1>2
<1>4. \A field \in {"kind", "src", "pgn", "size", "packets"} : CanFrame(m, 0)[field] = b[field]
  BY <1>1, <1>3, CanFrameIs
<1> QED
  BY <1>2, <1>4

\* and what a TP.DT has.
LEMMA DataFields ==
  ASSUME NEW m, NEW k, k # 0
  PROVE  /\ CanFrame(m, k).kind = "DT" /\ CanFrame(m, k).src = SrcOf[m]
         /\ CanFrame(m, k).sq = Bam!SqAt(m, k)
         /\ CanFrame(m, k).data = Bam!PacketData(m, Bam!PacketAt(m, k))
<1>1. PICK b : b = Bam!BusFrame(m, k)
  OBVIOUS
<1>2. b = [kind |-> "DT", src |-> SrcOf[m], sq |-> Bam!SqAt(m, k),
           data |-> Bam!PacketData(m, Bam!PacketAt(m, k))]
  BY <1>1 DEF Bam!BusFrame, Bam!DataFrame
<1>3. {"kind", "src", "sq", "data"} \subseteq DOMAIN b \ {"id", "ext", "of"}
  BY <1>2
<1>4. \A field \in {"kind", "src", "sq", "data"} : CanFrame(m, k)[field] = b[field]
  BY <1>1, <1>3, CanFrameIs
<1> QED
  BY <1>2, <1>4

\* The number of a packet that fits, and which one it is.
LEMMA SmallPackets ==
  ASSUME NEW m \in Message, Small(m), NEW k \in 1 .. Bam!DataFrames(m)
  PROVE  Bam!SqAt(m, k) = k /\ Bam!PacketAt(m, k) = k
<1>1. PICK n : n = Bam!Packets(m)
  OBVIOUS
<1>2. n \in Nat /\ n < 256 /\ k \in 1 .. n
  BY <1>1, MessageFacts DEF Small
<1>3. Bam!SqAt(m, k) = k
  BY <1>1, <1>2 DEF Bam!SqAt, Bam!U8
<1>4. Bam!PacketAt(m, k) = n - ((n - k) % 256)
  BY <1>1, <1>3 DEF Bam!PacketAt, Bam!U8
<1> QED
  BY <1>2, <1>3, <1>4

(***************************************************************************)
(* The first j packets of m with what announced them.                      *)
(***************************************************************************)
Prefix(q, m, j) ==
  /\ IsSeq(q) /\ j \in 0 .. Bam!DataFrames(m) /\ Len(q) = j + 1
  /\ \A i \in 1 .. j + 1 : q[i] = CanFrame(m, i - 1)

\* The first element of what is not empty.
LEMMA HeadFirst ==
  ASSUME NEW q, IsSeq(q), Len(q) # 0
  PROVE  Head(q) = q[1] /\ q # <<>>
BY TailFacts, SmallSeqs

\* The TP.CM alone is a beginning.
LEMMA SinglePrefix ==
  ASSUME NEW m \in Message
  PROVE  Prefix(<<CanFrame(m, 0)>>, m, 0)
<1>1. PICK q : q = <<CanFrame(m, 0)>>
  OBVIOUS
<1>2. IsSeq(q) /\ Len(q) = 1 /\ q[1] = CanFrame(m, 0)
  BY <1>1, SmallSeqs
<1>3. 0 \in 0 .. Bam!DataFrames(m)
  BY MessageFacts
<1>4. \A i \in 1 .. 1 : q[i] = CanFrame(m, i - 1)
  <2>1. \A i \in 1 .. 1 : i = 1 /\ i - 1 = 0
    OBVIOUS
  <2> QED
    BY <1>2, <2>1
<1> QED
  BY <1>1, <1>2, <1>3, <1>4 DEF Prefix

\* The next packet of a message that fits is the one expected, and only that one is.
LEMMA NextExpected ==
  ASSUME NEW m \in Message, Small(m), NEW j, NEW q, Prefix(q, m, j), j + 1 \in 1 .. Bam!DataFrames(m),
         NEW f, f = CanFrame(m, j + 1)
  PROVE  /\ q[1].packets >= f.sq /\ Bam!getLastSQ(q) + 1 = f.sq
         /\ f.sq = j + 1 /\ q[1].packets = Bam!Packets(m)
         /\ Prefix(Append(q, f), m, j + 1)
<1>1. j \in Nat /\ Len(q) = j + 1 /\ IsSeq(q) /\ q[1] = CanFrame(m, 0)
  <2>1. j \in 0 .. Bam!DataFrames(m) /\ Bam!DataFrames(m) \in Nat
    BY MessageFacts DEF Prefix
  <2>2. 1 \in 1 .. j + 1 /\ 1 - 1 = 0
    BY <2>1
  <2> QED
    BY <2>1, <2>2 DEF Prefix
<1>2. f.sq = j + 1
  <2>1. j + 1 \in 0 .. Bam!DataFrames(m) /\ j + 1 # 0
    BY <1>1
  <2>2. f.sq = Bam!SqAt(m, j + 1)
    BY <2>1, DataFields
  <2> QED
    BY <2>2, SmallPackets
<1>3. q[1].packets = Bam!Packets(m) /\ Bam!DataFrames(m) = Bam!Packets(m) /\ Bam!Packets(m) \in Nat
  <2>1. 0 \in 0 .. Bam!DataFrames(m)
    BY MessageFacts
  <2> QED
    BY <1>1, <2>1, ConnFields, MessageFacts
<1>4. Bam!getLastSQ(q) = j
  <2>1. CASE j = 0
    BY <1>1, <2>1 DEF Bam!getLastSQ
  <2>2. CASE j # 0
    <3>1. j \in 1 .. Bam!DataFrames(m) /\ j \in 0 .. Bam!DataFrames(m) /\ j + 1 \in 1 .. j + 1
          /\ (j + 1) - 1 = j
      BY <1>1, <2>2, <1>3
    <3>2. q[Len(q)] = CanFrame(m, j)
      BY <1>1, <3>1 DEF Prefix
    <3>3. q[Len(q)].sq = j
      <4>1. q[Len(q)].sq = Bam!SqAt(m, j)
        BY <3>1, <3>2, <2>2, DataFields
      <4> QED
        BY <3>1, <4>1, SmallPackets
    <3>4. Len(q) # 1
      BY <1>1, <2>2
    <3> QED
      BY <3>3, <3>4 DEF Bam!getLastSQ
  <2> QED
    BY <2>1, <2>2
<1>5. Prefix(Append(q, f), m, j + 1)
  <2>1. PICK t : t = Append(q, f)
    OBVIOUS
  <2>2. /\ IsSeq(t) /\ Len(t) = (j + 1) + 1 /\ t[(j + 1) + 1] = f
        /\ \A i \in 1 .. j + 1 : t[i] = q[i]
    BY <1>1, <2>1, SeqFacts
  <2>3. ASSUME NEW i \in 1 .. (j + 1) + 1 PROVE t[i] = CanFrame(m, i - 1)
    <3>1. CASE i \in 1 .. j + 1
      BY <2>2, <3>1 DEF Prefix
    <3>2. CASE i = (j + 1) + 1
      <4>1. i - 1 = j + 1
        BY <1>1, <3>2
      <4> QED
        BY <2>2, <3>2, <4>1
    <3> QED
      BY <1>1, <3>1, <3>2
  <2>4. j + 1 \in 0 .. Bam!DataFrames(m)
    BY <1>1
  <2>5. Prefix(t, m, j + 1)
    BY <2>2, <2>3, <2>4 DEF Prefix
  <2> QED
    BY <2>1, <2>5
<1>6. q[1].packets >= f.sq
  BY <1>1, <1>2, <1>3
<1> QED
  BY <1>2, <1>3, <1>4, <1>5, <1>6

\* Of a message that does not fit nothing is expected.
LEMMA BigUnexpected ==
  ASSUME NEW m \in Message, ~Small(m), NEW q, q = <<CanFrame(m, 0)>>, NEW f
  PROVE  ~(q[1].packets >= f.sq /\ Bam!getLastSQ(q) + 1 = f.sq)
<1>1. q[1].packets = 0
  <2>1. 0 \in 0 .. Bam!DataFrames(m) /\ q[1] = CanFrame(m, 0)
    BY MessageFacts
  <2> QED
    BY <2>1, ConnFields, MessageFacts
<1>2. Bam!getLastSQ(q) = 0
  BY DEF Bam!getLastSQ
<1> QED
  BY <1>1, <1>2

\* The packet and the place in it of the i-th byte,
LEMMA ByteOfPacket ==
  ASSUME NEW i \in Nat \ {0}
  PROVE  LET k == ((i - 1) \div 7) + 2
             b == ((i - 1) % 7) + 1
         IN  k \in Nat /\ k >= 2 /\ b \in 1 .. 7 /\ (k - 2) * 7 + b = i
OBVIOUS

\* which is one of the packets there are.
LEMMA PacketOfByte ==
  ASSUME NEW size \in Nat, NEW i \in 1 .. size
  PROVE  ((i - 1) \div 7) + 2 <= ((size + 7 - 1) \div 7) + 1
OBVIOUS

\* The size of a message whose packets have numbers of their own fits a u16.
LEMMA SmallSize ==
  ASSUME NEW size \in Nat, (size + 7 - 1) \div 7 < 256
  PROVE  size % 65536 = size
OBVIOUS

\* All packets of a message that fits are the message.
LEMMA WholeMessage ==
  ASSUME NEW m \in Message, Small(m), NEW q, Prefix(q, m, Bam!Packets(m))
  PROVE  Bam!reassemble(q) = Bam!Bytes(m)
<1>1. PICK n : n = Bam!Packets(m)
  OBVIOUS
<1>2. n \in Nat /\ n < 256 /\ n = (Size[m] + 7 - 1) \div 7 /\ Size[m] \in Nat /\ Bam!DataFrames(m) = n
  BY <1>1, MessageFacts DEF Small, Bam!Packets, Bam!TP_DT_PACKET_SIZE
<1>3. /\ IsSeq(q) /\ Len(q) = n + 1
      /\ \A i \in 1 .. n + 1 : q[i] = CanFrame(m, i - 1)
  BY <1>1 DEF Prefix
<1>4. Head(q) = q[1] /\ q[1] = CanFrame(m, 0) /\ q[1].size = Size[m]
  <2>1. 0 \in 0 .. Bam!DataFrames(m) /\ 1 \in 1 .. n + 1 /\ 1 - 1 = 0 /\ n + 1 # 0
    BY <1>2
  <2>2. q[1] = CanFrame(m, 0)
    BY <1>3, <2>1
  <2>3. q[1].size = Size[m] % 65536
    BY <2>1, <2>2, ConnFields
  <2>4. Head(q) = q[1]
    BY <1>3, <2>1, HeadFirst
  <2>5. Size[m] % 65536 = Size[m]
    BY <1>2, SmallSize
  <2> QED
    BY <2>2, <2>3, <2>4, <2>5
<1>5. ASSUME NEW i \in 1 .. Size[m]
      PROVE  (LET k == ((i - 1) \div 7) + 2
              IN IF k <= Len(q) THEN q[k].data[((i - 1) % 7) + 1] ELSE "uninitialised") = <<m, i>>
  <2>1. PICK k, b : k = ((i - 1) \div 7) + 2 /\ b = ((i - 1) % 7) + 1
    OBVIOUS
  <2>2. k \in Nat /\ k >= 2 /\ b \in 1 .. 7 /\ (k - 2) * 7 + b = i
    <3>1. i \in Nat \ {0}
      BY <1>2
    <3> QED
      BY <2>1, <3>1, ByteOfPacket
  <2>3. k <= n + 1
    BY <1>2, <2>1, PacketOfByte
  <2>4. /\ q[k] = CanFrame(m, k - 1) /\ k - 1 \in 1 .. Bam!DataFrames(m)
        /\ k - 1 \in 0 .. Bam!DataFrames(m)
    BY <1>2, <1>3, <2>2, <2>3
  <2>5. q[k].data = Bam!PacketData(m, k - 1)
    <3>1. k - 1 # 0
      BY <2>2
    <3>2. q[k].data = Bam!PacketData(m, Bam!PacketAt(m, k - 1))
      BY <2>4, <3>1, DataFields
    <3> QED
      BY <2>4, <3>2, SmallPackets
  <2>6. Bam!PacketData(m, k - 1)[b] = <<m, i>>
    <3>1. Bam!PacketData(m, k - 1)
            = [c \in 1 .. 7 |-> IF ((k - 1) - 1) * 7 + c <= Size[m]
                                THEN <<m, ((k - 1) - 1) * 7 + c>> ELSE "0xFF"]
      BY DEF Bam!PacketData, Bam!TP_DT_PACKET_SIZE, Bam!Pad
    <3>2. ((k - 1) - 1) * 7 + b = i /\ i <= Size[m]
      BY <1>2, <2>2
    <3>3. Bam!PacketData(m, k - 1)[b]
            = IF ((k - 1) - 1) * 7 + b <= Size[m] THEN <<m, ((k - 1) - 1) * 7 + b>> ELSE "0xFF"
      BY <2>2, <3>1
    <3> QED
      BY <3>2, <3>3
  <2> QED
    BY <1>3, <2>1, <2>3, <2>5, <2>6
<1>6. Bam!reassemble(q)
        = [i \in 1 .. Size[m] |->
             LET k == ((i - 1) \div 7) + 2
             IN IF k <= Len(q) THEN q[k].data[((i - 1) % 7) + 1] ELSE "uninitialised"]
  BY <1>4 DEF Bam!reassemble, Bam!TP_DT_PACKET_SIZE, Bam!Uninit
<1>7. Bam!Bytes(m) = [i \in 1 .. Size[m] |-> <<m, i>>]
  BY DEF Bam!Bytes
<1> QED
  BY <1>5, <1>6, <1>7

-----------------------------------------------------------------------------
(***************************************************************************)
(* Streams of frames                                                       *)
(***************************************************************************)
PartOf(f, s) == Bam!toBeHandled(f) /\ f.src = s

\* Of the first n frames, the last one that is a part of something s sends is o.
LastPart(q, n, s, o) ==
  \E h \in 1 .. n : /\ PartOf(q[h], s) /\ q[h].of = o
                    /\ \A i \in h + 1 .. n : ~PartOf(q[i], s)

NoPart(q, n, s) == \A i \in 1 .. n : ~PartOf(q[i], s)

\* A packet comes after the one before it, unless that one was never seen, nor anything
\* before it.
Comes(q, n, m, k) == LastPart(q, n, SrcOf[m], <<m, k - 1>>) \/ NoPart(q, n, SrcOf[m])

Chained(q) ==
  \A i \in 1 .. Len(q) : \A m \in Message : \A k \in 1 .. Bam!DataFrames(m) :
    q[i] = CanFrame(m, k) => Comes(q, i - 1, m, k)

Same(q, t, n) == \A i \in 1 .. n : t[i] = q[i]

\* The positions of a stream are those of whatever goes on from it.
LEMMA SameComes ==
  ASSUME NEW q, NEW t, NEW n \in Nat, Same(q, t, n)
  PROVE  /\ \A s, o : LastPart(q, n, s, o) => LastPart(t, n, s, o)
         /\ \A s : NoPart(q, n, s) => NoPart(t, n, s)
         /\ \A m, k : Comes(q, n, m, k) => Comes(t, n, m, k)
<1>1. ASSUME NEW s, NEW o, LastPart(q, n, s, o) PROVE LastPart(t, n, s, o)
  <2>1. PICK h \in 1 .. n : /\ PartOf(q[h], s) /\ q[h].of = o
                            /\ \A i \in h + 1 .. n : ~PartOf(q[i], s)
    BY <1>1 DEF LastPart
  <2>2. t[h] = q[h] /\ \A i \in h + 1 .. n : i \in 1 .. n /\ t[i] = q[i]
    BY DEF Same
  <2>3. PartOf(t[h], s) /\ t[h].of = o /\ \A i \in h + 1 .. n : ~PartOf(t[i], s)
    BY <2>1, <2>2
  <2> QED
    BY <2>3 DEF LastPart
<1>2. ASSUME NEW s, NoPart(q, n, s) PROVE NoPart(t, n, s)
  <2>1. \A i \in 1 .. n : t[i] = q[i] /\ ~PartOf(q[i], s)
    BY <1>2 DEF NoPart, Same
  <2> QED
    BY <2>1 DEF NoPart
<1> QED
  BY <1>1, <1>2 DEF Comes

\* One frame more: it is the last part of its source, and nothing for the others.
LEMMA OneMore ==
  ASSUME NEW q, NEW n \in Nat, NEW f, f = q[n + 1]
  PROVE  /\ \A s, o : LastPart(q, n, s, o) /\ ~PartOf(f, s) => LastPart(q, n + 1, s, o)
         /\ \A s : NoPart(q, n, s) /\ ~PartOf(f, s) => NoPart(q, n + 1, s)
         /\ \A s : PartOf(f, s) => LastPart(q, n + 1, s, f.of)
<1>0. \A i \in Int : i \in 1 .. n + 1 => i \in 1 .. n \/ i = n + 1
  OBVIOUS
<1>1. ASSUME NEW s, NEW o, LastPart(q, n, s, o), ~PartOf(f, s) PROVE LastPart(q, n + 1, s, o)
  <2>1. PICK h \in 1 .. n : /\ PartOf(q[h], s) /\ q[h].of = o
                            /\ \A i \in h + 1 .. n : ~PartOf(q[i], s)
    BY <1>1 DEF LastPart
  <2>2. \A i \in h + 1 .. n + 1 : i \in h + 1 .. n \/ i = n + 1
    OBVIOUS
  <2>3. \A i \in h + 1 .. n + 1 : ~PartOf(q[i], s)
    BY <1>1, <2>1, <2>2
  <2>4. h \in 1 .. n + 1
    OBVIOUS
  <2> QED
    BY <2>1, <2>3, <2>4 DEF LastPart
<1>2. ASSUME NEW s, NoPart(q, n, s), ~PartOf(f, s) PROVE NoPart(q, n + 1, s)
  BY <1>0, <1>2 DEF NoPart
<1>3. ASSUME NEW s, PartOf(f, s) PROVE LastPart(q, n + 1, s, f.of)
  <2>1. n + 1 \in 1 .. n + 1 /\ (n + 1) + 1 .. n + 1 = {}
    OBVIOUS
  <2> QED
    BY <1>3, <2>1 DEF LastPart
<1> QED
  BY <1>1, <1>2, <1>3

\* A frame may be added if it does not come out of turn.
LEMMA ChainedAppend ==
  ASSUME NEW q, IsSeq(q), Chained(q), NEW f,
         \A m \in Message : \A k \in 1 .. Bam!DataFrames(m) :
           f = CanFrame(m, k) => Comes(q, Len(q), m, k)
  PROVE  Chained(Append(q, f))
<1>1. PICK t, n : t = Append(q, f) /\ n = Len(q)
  OBVIOUS
<1>2. n \in Nat /\ Len(t) = n + 1 /\ t[n + 1] = f /\ \A i \in 1 .. n : t[i] = q[i]
  BY <1>1, SeqFacts
<1>3. ASSUME NEW i \in 1 .. n + 1, NEW m \in Message, NEW k \in 1 .. Bam!DataFrames(m),
             t[i] = CanFrame(m, k)
      PROVE  Comes(t, i - 1, m, k)
  <2>1. i - 1 \in Nat /\ Same(q, t, i - 1)
    BY <1>2 DEF Same
  <2>2. Comes(q, i - 1, m, k)
    <3>1. CASE i \in 1 .. n
      BY <1>1, <1>2, <1>3, <3>1 DEF Chained
    <3>2. CASE i = n + 1
      <4>1. i - 1 = Len(q) /\ f = CanFrame(m, k)
        BY <1>1, <1>2, <1>3, <3>2
      <4> QED
        BY <4>1
    <3> QED
      BY <1>2, <3>1, <3>2
  <2> QED
    BY <2>1, <2>2, SameComes
<1>4. Chained(t)
  BY <1>2, <1>3 DEF Chained
<1> QED
  BY <1>1, <1>4

-----------------------------------------------------------------------------
(***************************************************************************)
(* What reaches the callback of the sniffer                                *)
(***************************************************************************)
\* What was let through of what arrived at r.
Stream(r) == FramesOf(Among(arrived[r], LetThrough(r)))

IsSniffer == program.kind = "sniffer"

\* What main() was asked for.
LEMMA SnifferFacts ==
  ASSUME ListenInv, IsSniffer
  PROVE  \E q \in Pgn, sources \in SUBSET Source :
           /\ sources = {} \/ \E s \in Source : sources = {s}
           /\ program.sources = sources /\ program.wanted = q
           /\ program.filters = SniffFilters(q, sources)
           /\ \/ program.pgn = q /\ program.title = ""
              \/ /\ program.pgn = 0 /\ program.title = NameOf[q]
                 /\ NameOf[q] # "" /\ \A other \in Pgn \ {q} : NameOf[other] # NameOf[q]
<1>1. program \in Programs
  BY DEF ListenInv, ProgramOK
<1>2. PICK q \in Pgn, sources \in SUBSET Source :
         /\ sources = {} \/ \E s \in Source : sources = {s}
         /\ \/ program = ByPgn(q, sources)
            \/ /\ program = ByTitle(q, sources)
               /\ NameOf[q] # "" /\ \A other \in Pgn \ {q} : NameOf[other] # NameOf[q]
  BY <1>1, SniffersAssumption DEF IsSniffer
<1>3. /\ program.sources = sources /\ program.wanted = q
      /\ program.filters = SniffFilters(q, sources)
      /\ \/ program.pgn = q /\ program.title = ""
         \/ /\ program.pgn = 0 /\ program.title = NameOf[q]
            /\ NameOf[q] # "" /\ \A other \in Pgn \ {q} : NameOf[other] # NameOf[q]
  <2>1. CASE program = ByPgn(q, sources)
    BY <2>1 DEF ByPgn
  <2>2. CASE program = ByTitle(q, sources)
    <3>1. /\ program.sources = sources /\ program.wanted = q
          /\ program.filters = SniffFilters(q, sources)
          /\ program.pgn = 0 /\ program.title = NameOf[q]
      BY <2>2 DEF ByTitle
    <3>2. CASE program = ByPgn(q, sources)
      BY <2>1, <3>2
    <3>3. CASE NameOf[q] # "" /\ \A other \in Pgn \ {q} : NameOf[other] # NameOf[q]
      BY <3>1, <3>3
    <3> QED
      BY <1>2, <3>2, <3>3
  <2> QED
    BY <1>2, <2>1, <2>2
<1> QED
  BY <1>2, <1>3

\* The frames there are: single ones and the parts of messages.
Genuine(f) ==
  \/ f \in Traffic[program].singles
  \/ \E m \in Message : \E k \in 0 .. Bam!DataFrames(m) : f = CanFrame(m, k)

\* The source of a frame is in its identifier, and a long message is in TP frames.
LEMMA GenuineFacts ==
  ASSUME ListenInv, IsSniffer, NEW f, Genuine(f)
  PROVE  /\ f \in Frames /\ f.src \in Source /\ f.id \cap SourceBits = SourceId[f.src]
         /\ f.kind = "Other" => f.pgn \in Pgn
         /\ \/ f.kind = "Other"
            \/ \E m \in Message : \E k \in 0 .. Bam!DataFrames(m) :
                 f = CanFrame(m, k) /\ f.src = SrcOf[m]
<1>1. program \in Programs
  BY DEF ListenInv, ProgramOK
<1>2. CASE f \in Traffic[program].singles
  BY <1>1, <1>2, ListenersAssumption, SniffersAssumption, IdentifiersAssumption DEF IsSniffer
<1>3. ASSUME NEW m \in Message, NEW k \in 0 .. Bam!DataFrames(m), f = CanFrame(m, k)
      PROVE  /\ f \in Frames /\ f.src = SrcOf[m] /\ f.src \in Source
             /\ f.kind # "Other" /\ f.id \cap SourceBits = SourceId[f.src]
  <2>1. f \in Frames /\ SrcOf[m] \in Source
    BY <1>3, ListenersAssumption
  <2>2. f.src = SrcOf[m] /\ f.kind # "Other"
    <3>1. CASE k = 0
      BY <1>3, <3>1, ConnFields
    <3>2. CASE k # 0
      BY <1>3, <3>2, DataFields
    <3> QED
      BY <3>1, <3>2
  <2>3. f.id = SourceId[SrcOf[m]] \cup SpecificBits \cup (IF k = 0 THEN TP_CM_ID ELSE TP_DT_ID)
    BY <1>3, EveryFrame
  <2>4. /\ SourceId[SrcOf[m]] \subseteq SourceBits /\ SpecificBits \cap SourceBits = {}
        /\ TP_CM_ID \cap SourceBits = {} /\ TP_DT_ID \cap SourceBits = {}
    BY <2>1, IdentifiersAssumption
  <2>5. f.id \cap SourceBits = SourceId[SrcOf[m]]
    BY <2>3, <2>4
  <2> QED
    BY <2>1, <2>2, <2>5
<1> QED
  BY <1>2, <1>3 DEF Genuine

\* With a source the filters ask for its frames only,
LEMMA WantedIsAsked ==
  ASSUME ListenInv, IsSniffer, NEW f, Genuine(f), f \in AskedFor
  PROVE  Asked(f.src)
<1>1. PICK q \in Pgn, sources \in SUBSET Source :
        /\ sources = {} \/ \E s \in Source : sources = {s}
        /\ program.sources = sources /\ program.filters = SniffFilters(q, sources)
  BY SnifferFacts
<1>2. CASE sources = {}
  BY <1>1, <1>2 DEF Asked
<1>3. ASSUME NEW s \in Source, sources = {s} PROVE Asked(f.src)
  <2>1. PICK x \in program.filters : x.id \cap x.mask = f.id \cap x.mask
    <3>1. program.filters # {}
      BY <1>1 DEF SniffFilters
    <3> QED
      BY <3>1, Zenon DEF AskedFor, Wanted
  <2>2. PICK id \in {TP_CM_ID, TP_DT_ID} \cup {DataId[p] : p \in Pgn} :
          \E mask : x = [id |-> id \cup SourceId[s], mask |-> mask \cup SourceBits,
                        std |-> FALSE, ext |-> TRUE]
    <3>1. \A id, mask : Extended(id, mask, {s})
                          = [id |-> id \cup SourceId[s], mask |-> mask \cup SourceBits,
                             std |-> FALSE, ext |-> TRUE]
      BY DEF Extended
    <3>2. \E id \in {TP_CM_ID, TP_DT_ID} \cup {DataId[p] : p \in Pgn} : \E mask :
            x = Extended(id, mask, {s})
      <4>1. x \in {Extended(DataId[q], FormatBits \cup SpecificBits, {s}),
                    Extended(TP_CM_ID, FormatBits, {s}), Extended(TP_DT_ID, FormatBits, {s})}
        BY <1>1, <1>3, <2>1 DEF SniffFilters
      <4>2. /\ DataId[q] \in {DataId[p] : p \in Pgn}
            /\ \/ x = Extended(DataId[q], FormatBits \cup SpecificBits, {s})
               \/ x = Extended(TP_CM_ID, FormatBits, {s})
               \/ x = Extended(TP_DT_ID, FormatBits, {s})
        BY <4>1
      <4> QED
        BY <4>2, Zenon
    <3> QED
      BY <3>1, <3>2, Zenon
  <2>3. PICK mask : x = [id |-> id \cup SourceId[s], mask |-> mask \cup SourceBits,
                         std |-> FALSE, ext |-> TRUE]
    BY <2>2
  <2>4. x.id = id \cup SourceId[s] /\ x.mask = mask \cup SourceBits
    BY <2>3
  <2>5. id \cap SourceBits = {} /\ SourceId[s] \subseteq SourceBits
    BY IdentifiersAssumption
  <2>6. x.id \cap SourceBits = SourceId[s]
    BY <2>4, <2>5
  <2>7. x.id \cap SourceBits = f.id \cap SourceBits
    BY <2>1, <2>4
  <2>8. f.src \in Source /\ SourceId[f.src] = SourceId[s]
    BY <2>6, <2>7, GenuineFacts
  <2> QED
    BY <1>1, <1>3, <2>8, IdentifiersAssumption DEF Asked
<1> QED
  BY <1>1, <1>2, <1>3

\* and for every part of what it sends.
LEMMA AskedIsWanted ==
  ASSUME ListenInv, IsSniffer, NEW m \in Message, NEW k \in 0 .. Bam!DataFrames(m),
         Asked(SrcOf[m])
  PROVE  CanFrame(m, k) \in AskedFor
<1>1. PICK q \in Pgn, sources \in SUBSET Source :
        /\ sources = {} \/ \E s \in Source : sources = {s}
        /\ program.sources = sources /\ program.filters = SniffFilters(q, sources)
  BY SnifferFacts
<1>2. PICK f, id : f = CanFrame(m, k) /\ id = IF k = 0 THEN TP_CM_ID ELSE TP_DT_ID
  OBVIOUS
<1>3. f \in Frames /\ SrcOf[m] \in Source
  BY <1>2, ListenersAssumption
<1>4. f.ext = TRUE /\ f.id = SourceId[SrcOf[m]] \cup SpecificBits \cup id
  BY <1>2, EveryFrame
<1>5. /\ SourceId[SrcOf[m]] \subseteq SourceBits /\ SpecificBits \cap SourceBits = {}
      /\ FormatBits \cap SpecificBits = {} /\ FormatBits \cap SourceBits = {}
      /\ id \cap SourceBits = {}
  BY <1>2, <1>3, IdentifiersAssumption
<1>6. PICK x : x = Extended(id, FormatBits, sources)
  OBVIOUS
<1>7. x \in program.filters
  BY <1>1, <1>2, <1>6 DEF SniffFilters
<1>8. x.ext = TRUE /\ x.id \cap x.mask = f.id \cap x.mask
  <2>1. CASE sources = {}
    <3>1. x.id = id /\ x.mask = FormatBits /\ x.ext = TRUE
      BY <1>6, <2>1 DEF Extended
    <3> QED
      BY <1>4, <1>5, <3>1
  <2>2. CASE sources # {}
    <3>1. sources = {SrcOf[m]}
      BY <1>1, <2>2 DEF Asked
    <3>2. x.id = id \cup SourceId[SrcOf[m]] /\ x.mask = FormatBits \cup SourceBits /\ x.ext = TRUE
      BY <1>6, <3>1 DEF Extended
    <3> QED
      BY <1>4, <1>5, <3>2
  <2> QED
    BY <2>1, <2>2
<1>9. Wanted(program.filters, f.id, f.ext)
  BY <1>4, <1>7, <1>8, Zenon DEF Wanted
<1> QED
  BY <1>2, <1>3, <1>9 DEF AskedFor

\* A source that is asked for, or of which something came in before the filters.
Seen(s) == Asked(s) \/ \E r \in Receivers : \E i \in From(r, s) : arrived[r][i].early

Came(r, f) == Genuine(f) /\ From(r, f.src) # {} /\ Seen(f.src)

\* What comes next from s will be let through.
Passes(r, s) == Asked(s) \/ (filters = {} /\ Backend[r] = "socket")

ProgressOK ==
  \A m \in Message : /\ progress[m] \in 0 .. Bam!DataFrames(m) + 1
                     /\ progress[m] # 0 => m \in Traffic[program].messages

\* The part of m that is sent next comes after what was let through.
NextOK(r, m) ==
  progress[m] \in 1 .. Bam!DataFrames(m) /\ Passes(r, SrcOf[m])
    => Comes(Stream(r), Len(Stream(r)), m, progress[m])

StreamOK(r) ==
  /\ Chained(Stream(r))
  /\ \A i \in 1 .. Len(Stream(r)) : Came(r, Stream(r)[i])
  /\ \A m \in Message : OnBusOf[m] = r => NextOK(r, m)

StreamInv == IsSniffer => ProgressOK /\ \A r \in Receivers : StreamOK(r)

\* The frames of a sequence of arrivals.
LEMMA FramesSeq ==
  ASSUME NEW q, IsSeq(q)
  PROVE  IsSeq(FramesOf(q)) /\ Len(FramesOf(q)) = Len(q)
<1>1. PICK n, f : n = Len(q) /\ f = FramesOf(q)
  OBVIOUS
<1>2. n \in Nat /\ f = [i \in 1 .. n |-> q[i].frame]
  BY <1>1, SeqFacts DEF FramesOf
<1>3. PICK S : S = {q[i].frame : i \in 1 .. n}
  OBVIOUS
<1>4. f \in [1 .. n -> S]
  BY <1>2, <1>3
<1>5. f \in Seq(S) /\ Len(f) = n
  BY <1>2, <1>4
<1> QED
  BY <1>1, <1>5 DEF IsSeq

\* A stream is a sequence.
LEMMA StreamSeq ==
  ASSUME ListenInv, NEW r \in Receivers
  PROVE  IsSeq(arrived[r]) /\ IsSeq(Among(arrived[r], LetThrough(r))) /\ IsSeq(Stream(r))
<1>1. IsSeq(arrived[r])
  BY DEF ListenInv, AllAgree, Agrees
<1>2. IsSeq(Among(arrived[r], LetThrough(r)))
  BY <1>1, AmongSeq
<1> QED
  BY <1>1, <1>2, FramesSeq DEF Stream

\* A frame arrives.
LEMMA ArriveStream ==
  ASSUME ListenInv, NEW r \in Receivers, NEW f \in Frames, OnBus(r, f)
  PROVE  /\ program' = program /\ filters' = filters
         /\ \A q \in Receivers : q # r => Stream(q)' = Stream(q)
         /\ Stream(r)' = IF f \in AskedFor \/ (filters = {} /\ Backend[r] = "socket")
                         THEN Append(Stream(r), f) ELSE Stream(r)
         /\ \A q \in Receivers : \A s : \A i \in From(q, s) :
              i \in From(q, s)' /\ arrived'[q][i] = arrived[q][i]
         /\ \E i \in From(r, f.src)' : arrived'[r][i] = [frame |-> f, early |-> filters = {}]
<1>1. PICK x : x = [frame |-> f, early |-> filters = {}]
  OBVIOUS
<1>2. /\ program' = program /\ filters' = filters
      /\ arrived' = [arrived EXCEPT ![r] = Append(@, x)]
  BY <1>1 DEF OnBus, Arrive
<1>3. DOMAIN arrived = Receivers
  BY DEF ListenInv, BuffersOK
<1>4. /\ \A q \in Receivers : q # r => arrived'[q] = arrived[q]
      /\ arrived'[r] = Append(arrived[r], x)
  BY <1>2, <1>3
<1>5. \A q \in Receivers : LetThrough(q)' = LetThrough(q)
  BY <1>2 DEF LetThrough, AskedFor
<1>6. ASSUME NEW q \in Receivers, q # r PROVE Stream(q)' = Stream(q)
  BY <1>4, <1>5, <1>6 DEF Stream
<1>7. /\ IsSeq(arrived[r]) /\ IsSeq(Among(arrived[r], LetThrough(r)))
  BY StreamSeq
<1>8. x \in LetThrough(r) <=> f \in AskedFor \/ (filters = {} /\ Backend[r] = "socket")
  <2>1. x \in Arrivals
    <3>1. (filters = {}) \in BOOLEAN
      BY Zenon
    <3> QED
      BY <1>1, <3>1, Zenon DEF Arrivals
  <2>2. x.frame = f
    BY <1>1
  <2>3. x.early <=> filters = {}
    BY <1>1, Zenon
  <2> QED
    BY <2>1, <2>2, <2>3, Zenon DEF LetThrough
<1>9. Stream(r)' = IF x \in LetThrough(r) THEN Append(Stream(r), f) ELSE Stream(r)
  <2>1. PICK a, L, q : a = arrived[r] /\ L = LetThrough(r) /\ q = Among(a, L)
    OBVIOUS
  <2>2. Stream(r)' = FramesOf(Among(Append(a, x), L)) /\ Stream(r) = FramesOf(q)
    <3>1. Stream(r)' = FramesOf(Among(arrived'[r], LetThrough(r)'))
      BY Zenon DEF Stream
    <3>2. arrived'[r] = Append(a, x) /\ LetThrough(r)' = L
      BY <1>4, <1>5, <2>1
    <3>3. Stream(r)' = FramesOf(Among(Append(a, x), L))
      BY <3>1, <3>2
    <3>4. Stream(r) = FramesOf(q)
      BY <2>1 DEF Stream
    <3> QED
      BY <3>3, <3>4
  <2>3. Among(Append(a, x), L) = IF x \in L THEN Append(q, x) ELSE q
    <3>1. IsSeq(a) /\ q = Among(a, L)
      BY <1>7, <2>1
    <3>2. Among(Append(a, x), L) = IF x \in L THEN Append(Among(a, L), x) ELSE Among(a, L)
      BY <3>1, AmongAppend, SMTT(30)
    <3> QED
      BY <3>1, <3>2
  <2>4. FramesOf(Append(q, x)) = Append(FramesOf(q), x.frame)
    BY <1>7, <2>1, FramesAppend
  <2>5. x.frame = f
    BY <1>1
  <2> QED
    BY <2>1, <2>2, <2>3, <2>4, <2>5
<1>10. /\ Len(arrived[r]) \in Nat
       /\ Len(arrived'[r]) = Len(arrived[r]) + 1 /\ arrived'[r][Len(arrived[r]) + 1] = x
       /\ \A i \in 1 .. Len(arrived[r]) : arrived'[r][i] = arrived[r][i]
  BY <1>4, <1>7, SeqFacts
<1>11. ASSUME NEW q \in Receivers, NEW s, NEW i \in From(q, s)
       PROVE  i \in From(q, s)' /\ arrived'[q][i] = arrived[q][i]
  <2>1. i \in 1 .. Len(arrived[q]) /\ arrived[q][i].frame.src = s
    BY DEF From
  <2>2. i \in 1 .. Len(arrived'[q]) /\ arrived'[q][i] = arrived[q][i]
    BY <1>4, <1>10, <2>1
  <2> QED
    BY <2>1, <2>2 DEF From
<1>12. Len(arrived[r]) + 1 \in From(r, f.src)'
  <2>1. Len(arrived[r]) + 1 \in 1 .. Len(arrived'[r]) /\ x.frame.src = f.src
    BY <1>1, <1>10
  <2> QED
    BY <1>10, <2>1 DEF From
<1> QED
  BY <1>1, <1>2, <1>6, <1>8, <1>9, <1>10, <1>11, <1>12

\* What was seen stays seen.
LEMMA SeenStays ==
  ASSUME program' = program,
         \A q \in Receivers : \A s : \A i \in From(q, s) :
           i \in From(q, s)' /\ arrived'[q][i] = arrived[q][i]
  PROVE  /\ \A s : Seen(s) => Seen(s)'
         /\ \A r \in Receivers : \A f : Came(r, f) => Came(r, f)'
<1>1. ASSUME NEW s, Seen(s) PROVE Seen(s)'
  <2>1. CASE Asked(s)
    BY <2>1 DEF Seen, Asked
  <2>2. ASSUME NEW r \in Receivers, NEW i \in From(r, s), arrived[r][i].early PROVE Seen(s)'
    <3>1. i \in From(r, s)' /\ arrived'[r][i].early
      BY <2>2, Zenon
    <3> QED
      BY <3>1, Zenon DEF Seen
  <2> QED
    BY <1>1, <2>1, <2>2, Zenon DEF Seen
<1>2. ASSUME NEW r \in Receivers, NEW f, Came(r, f) PROVE Came(r, f)'
  <2>1. Genuine(f)'
    BY <1>2 DEF Came, Genuine
  <2>2. From(r, f.src)' # {}
    <3>1. PICK i : i \in From(r, f.src)
      BY <1>2 DEF Came
    <3> QED
      BY <3>1
  <2>3. Seen(f.src)'
    BY <1>1, <1>2 DEF Came
  <2> QED
    BY <2>1, <2>2, <2>3, Zenon DEF Came
<1> QED
  BY <1>1, <1>2

\* What is let through may be added.
LEMMA ArriveKeepsChain ==
  ASSUME ListenInv, IsSniffer, NEW r \in Receivers, StreamOK(r),
         NEW f, Genuine(f), OnBus(r, f),
         Passes(r, f.src) => \A m \in Message : \A k \in 1 .. Bam!DataFrames(m) :
                               f = CanFrame(m, k) => Comes(Stream(r), Len(Stream(r)), m, k)
  PROVE  /\ Chained(Stream(r))'
         /\ (\A i \in 1 .. Len(Stream(r)) : Came(r, Stream(r)[i]))'
<1>1. f \in Frames
  BY GenuineFacts
<1>2. /\ program' = program /\ filters' = filters
      /\ Stream(r)' = IF f \in AskedFor \/ (filters = {} /\ Backend[r] = "socket")
                      THEN Append(Stream(r), f) ELSE Stream(r)
      /\ \A q \in Receivers : \A s : \A i \in From(q, s) :
           i \in From(q, s)' /\ arrived'[q][i] = arrived[q][i]
      /\ \E i \in From(r, f.src)' : arrived'[r][i] = [frame |-> f, early |-> filters = {}]
  BY <1>1, ArriveStream
<1>3. PICK q : q = Stream(r)
  OBVIOUS
<1>4. /\ IsSeq(q) /\ Chained(q) /\ \A i \in 1 .. Len(q) : Came(r, q[i])
  BY <1>3, StreamSeq DEF StreamOK
<1>5. \A i \in 1 .. Len(q) : Came(r, q[i])'
  BY <1>2, <1>4, SeenStays
<1>6. CASE Stream(r)' = q
  BY <1>4, <1>5, <1>6
<1>7. CASE /\ Stream(r)' = Append(q, f)
           /\ f \in AskedFor \/ (filters = {} /\ Backend[r] = "socket")
  <2>1. Passes(r, f.src)
    BY <1>7, WantedIsAsked DEF Passes
  <2>2. Chained(Append(q, f))
    BY <1>3, <1>4, <2>1, ChainedAppend
  <2>3. Seen(f.src)'
    <3>1. CASE f \in AskedFor
      <4>1. Asked(f.src)
        BY <3>1, WantedIsAsked
      <4> QED
        BY <1>2, <4>1 DEF Seen, Asked
    <3>2. CASE filters = {}
      <4>1. PICK i \in From(r, f.src)' : arrived'[r][i] = [frame |-> f, early |-> filters = {}]
        BY <1>2
      <4>2. arrived'[r][i].early
        <5>1. PICK x : x = [frame |-> f, early |-> filters = {}]
          OBVIOUS
        <5>2. x.early <=> filters = {}
          BY <5>1, Zenon
        <5> QED
          BY <3>2, <4>1, <5>1, <5>2, Zenon
      <4> QED
        BY <4>1, <4>2, Zenon DEF Seen
    <3> QED
      BY <1>7, <3>1, <3>2
  <2>4. Came(r, f)'
    <3>1. Genuine(f)'
      BY <1>2 DEF Genuine
    <3>2. From(r, f.src)' # {}
      BY <1>2
    <3> QED
      BY <2>3, <3>1, <3>2, Zenon DEF Came
  <2>5. PICK t : t = Append(q, f)
    OBVIOUS
  <2>6. Len(q) \in Nat /\ Len(t) = Len(q) + 1 /\ t[Len(q) + 1] = f /\ \A i \in 1 .. Len(q) : t[i] = q[i]
    BY <1>4, <2>5, SeqFacts
  <2>7. ASSUME NEW i \in 1 .. Len(t) PROVE Came(r, t[i])'
    <3>1. i \in 1 .. Len(q) \/ i = Len(q) + 1
      BY <2>6
    <3> QED
      BY <1>5, <2>4, <2>6, <3>1
  <2> QED
    BY <1>7, <2>2, <2>5, <2>7
<1> QED
  BY <1>2, <1>3, <1>6, <1>7

\* A frame that is no part of what the source of n sends does not come between its parts.
LEMMA KeepsComing ==
  ASSUME ListenInv, NEW r \in Receivers, NEW f \in Frames, OnBus(r, f),
         NEW n, NEW k, ~PartOf(f, SrcOf[n]), Comes(Stream(r), Len(Stream(r)), n, k)
  PROVE  Comes(Stream(r), Len(Stream(r)), n, k)'
<1>1. PICK q, t : q = Stream(r) /\ t = Stream(r)'
  OBVIOUS
<1>2. t = q \/ t = Append(q, f)
  BY <1>1, ArriveStream
<1>3. IsSeq(q) /\ Comes(q, Len(q), n, k)
  BY <1>1, StreamSeq
<1>4. CASE t = Append(q, f)
  <2>1. PICK l : l = Len(q)
    OBVIOUS
  <2>2. l \in Nat /\ Len(t) = l + 1 /\ t[l + 1] = f /\ \A i \in 1 .. l : t[i] = q[i]
    BY <1>3, <1>4, <2>1, SeqFacts
  <2>3. Same(q, t, l)
    BY <2>2 DEF Same
  <2>4. Comes(t, l, n, k)
    BY <1>3, <2>1, <2>2, <2>3, SameComes
  <2>5. /\ \A s, o : LastPart(t, l, s, o) /\ ~PartOf(f, s) => LastPart(t, l + 1, s, o)
        /\ \A s : NoPart(t, l, s) /\ ~PartOf(f, s) => NoPart(t, l + 1, s)
    BY <2>2, OneMore
  <2>6. Comes(t, l + 1, n, k)
    BY <2>4, <2>5 DEF Comes
  <2>7. Comes(t, Len(t), n, k)
    BY <2>2, <2>6
  <2> QED
    BY <1>1, <2>7 DEF Comes, LastPart, NoPart
<1>5. CASE t = q
  BY <1>1, <1>3, <1>5 DEF Comes, LastPart, NoPart
<1> QED
  BY <1>2, <1>4, <1>5

\* Nothing happens at the other receivers.
LEMMA OthersKeep ==
  ASSUME ListenInv, NEW r \in Receivers, NEW f \in Frames, OnBus(r, f),
         NEW q \in Receivers, q # r, StreamOK(q),
         \A n \in Message : OnBusOf[n] = q => progress'[n] = progress[n]
  PROVE  StreamOK(q)'
<1>1. /\ program' = program /\ filters' = filters /\ Stream(q)' = Stream(q)
      /\ \A x \in Receivers : \A s : \A i \in From(x, s) :
           i \in From(x, s)' /\ arrived'[x][i] = arrived[x][i]
  BY ArriveStream
<1>2. PICK t : t = Stream(q)
  OBVIOUS
<1>3. t = Stream(q)'
  BY <1>1, <1>2
<1>4. Chained(t) /\ \A i \in 1 .. Len(t) : Came(q, t[i])
  BY <1>2 DEF StreamOK
<1>5. \A i \in 1 .. Len(t) : Came(q, t[i])'
  BY <1>1, <1>4, SeenStays
<1>6. ASSUME NEW n \in Message, OnBusOf[n] = q PROVE NextOK(q, n)'
  <2>1. NextOK(q, n) /\ progress'[n] = progress[n]
    BY <1>6 DEF StreamOK
  <2>2. Passes(q, SrcOf[n])' => Passes(q, SrcOf[n])
    BY <1>1 DEF Passes, Asked
  <2>3. Comes(t, Len(t), n, progress[n]) => Comes(Stream(q)', Len(Stream(q)'), n, progress'[n])
    BY <1>3, <2>1
  <2> QED
    BY <1>2, <2>1, <2>2, <2>3 DEF NextOK
<1> QED
  BY <1>3, <1>4, <1>5, <1>6 DEF StreamOK

\* The next part of a message is sent.
LEMMA PartKeepsStream ==
  ASSUME ListenInv, IsSniffer, ProgressOK, \A r \in Receivers : StreamOK(r),
         NEW m \in Message, SendPart(m)
  PROVE  ProgressOK' /\ \A r \in Receivers : StreamOK(r)'
<1>1. PICK r, k, f, D : r = OnBusOf[m] /\ k = progress[m] /\ f = CanFrame(m, k)
                     /\ D = Bam!DataFrames(m)
  OBVIOUS
<1>2. /\ OnBus(r, f) /\ ~(k > D) /\ m \in Traffic[program].messages
      /\ progress' = [progress EXCEPT ![m] = @ + 1]
  BY <1>1 DEF SendPart, Done
<1>3. progress \in [Message -> Nat] /\ D \in Nat /\ k \in 0 .. D + 1
  BY <1>1, MessageFacts DEF ListenInv, ProgramOK, ProgressOK
<1>4. k \in 0 .. D /\ r \in Receivers /\ f \in Frames
  BY <1>1, <1>2, <1>3, ListenersAssumption
<1>5. progress'[m] = k + 1 /\ \A n \in Message : n # m => progress'[n] = progress[n]
  BY <1>1, <1>2, <1>3
<1>6. program' = program /\ filters' = filters
  BY <1>2, <1>4, ArriveStream
<1>7. ProgressOK'
  <2>1. ASSUME NEW n \in Message
        PROVE  /\ progress'[n] \in 0 .. Bam!DataFrames(n) + 1
               /\ progress'[n] # 0 => n \in Traffic[program'].messages
    <3>1. CASE n = m
      BY <1>1, <1>2, <1>3, <1>4, <1>5, <1>6, <3>1
    <3>2. CASE n # m
      BY <1>5, <1>6, <3>2 DEF ProgressOK
    <3> QED
      BY <3>1, <3>2
  <2> QED
    BY <2>1 DEF ProgressOK
<1>8. f.src = SrcOf[m] /\ PartOf(f, SrcOf[m]) /\ f.of = <<m, k>>
  <2>1. f.src = SrcOf[m] /\ (f.kind = "BAM" \/ f.kind = "DT")
    <3>1. CASE k = 0
      BY <1>1, <3>1, ConnFields
    <3>2. CASE k # 0
      BY <1>1, <3>2, DataFields
    <3> QED
      BY <3>1, <3>2
  <2>2. CanFrame(m, k).of = <<m, k>>
    BY EveryFrame
  <2> QED
    BY <1>1, <2>1, <2>2 DEF PartOf, Bam!toBeHandled
<1>9. Genuine(f)
  BY <1>1, <1>4 DEF Genuine
<1>10. ASSUME NEW q \in Receivers, q # r PROVE StreamOK(q)'
  <2>1. \A n \in Message : OnBusOf[n] = q => progress'[n] = progress[n]
    BY <1>1, <1>5, <1>10
  <2> QED
    BY <1>2, <1>4, <1>10, <2>1, OthersKeep
<1>11. StreamOK(r)'
  <2>1. StreamOK(r)
    BY <1>4
  <2>2. ASSUME Passes(r, f.src), NEW n \in Message, NEW j \in 1 .. Bam!DataFrames(n),
               f = CanFrame(n, j)
        PROVE  Comes(Stream(r), Len(Stream(r)), n, j)
    <3>1. n = m /\ j = k
      <4>1. CanFrame(n, j).of = <<n, j>>
        BY EveryFrame
      <4>2. <<n, j>> = <<m, k>>
        BY <1>8, <2>2, <4>1
      <4> QED
        BY <4>2
    <3>2. NextOK(r, m)
      BY <1>1, <2>1 DEF StreamOK
    <3> QED
      BY <1>1, <1>8, <2>2, <3>1, <3>2 DEF NextOK
  <2>3. /\ Chained(Stream(r))'
        /\ (\A i \in 1 .. Len(Stream(r)) : Came(r, Stream(r)[i]))'
    BY <1>2, <1>4, <1>9, <2>1, <2>2, ArriveKeepsChain
  <2>4. ASSUME NEW n \in Message, OnBusOf[n] = r,
               progress'[n] \in 1 .. Bam!DataFrames(n), Passes(r, SrcOf[n])'
        PROVE  Comes(Stream(r)', Len(Stream(r)'), n, progress'[n])
    <3>1. Passes(r, SrcOf[n])
      BY <1>6, <2>4 DEF Passes, Asked
    <3>2. CASE n = m
      <4>1. f \in AskedFor \/ (filters = {} /\ Backend[r] = "socket")
        BY <1>1, <1>4, <3>1, <3>2, AskedIsWanted DEF Passes
      <4>2. Stream(r)' = Append(Stream(r), f)
        BY <1>2, <1>4, <4>1, ArriveStream
      <4>3. PICK q, t, l : q = Stream(r) /\ t = Append(q, f) /\ l = Len(q)
        OBVIOUS
      <4>4. l \in Nat /\ Len(t) = l + 1 /\ t[l + 1] = f
        BY <1>4, <4>3, StreamSeq, SeqFacts
      <4>5. LastPart(t, l + 1, SrcOf[m], <<m, k>>)
        BY <1>8, <4>4, OneMore
      <4>6. progress'[n] - 1 = k
        BY <1>3, <1>5, <3>2
      <4>7. Comes(t, Len(t), n, progress'[n])
        BY <3>2, <4>4, <4>5, <4>6 DEF Comes
      <4> QED
        BY <4>2, <4>3, <4>7
    <3>3. CASE n # m
      <4>1. progress'[n] = progress[n] /\ progress[n] \in 1 .. Bam!DataFrames(n)
        BY <1>5, <2>4, <3>3
      <4>2. SrcOf[n] # SrcOf[m]
        <5>1. n \in Traffic[program].messages
          BY <4>1 DEF ProgressOK
        <5>2. Bam!DataFrames(n) \in Nat
          BY MessageFacts
        <5>3. ~(progress[n] = 0 \/ Done(n))
          BY <4>1, <5>2 DEF Done
        <5>4. \A x \in Traffic[program].messages \ {m} :
                 SrcOf[x] = SrcOf[m] /\ OnBusOf[x] = OnBusOf[m] => progress[x] = 0 \/ Done(x)
          BY DEF SendPart
        <5> QED
          BY <1>1, <2>4, <3>3, <5>1, <5>3, <5>4
      <4>3. ~PartOf(f, SrcOf[n])
        BY <1>8, <4>2 DEF PartOf
      <4>4. Comes(Stream(r), Len(Stream(r)), n, progress[n])
        BY <2>1, <2>4, <3>1, <4>1 DEF StreamOK, NextOK
      <4>5. PICK p : p = progress[n]
        OBVIOUS
      <4>6. Comes(Stream(r), Len(Stream(r)), n, p)
        BY <4>4, <4>5
      <4>7. Comes(Stream(r)', Len(Stream(r)'), n, p)
        BY <1>2, <1>4, <4>3, <4>6, KeepsComing DEF Comes, LastPart, NoPart
      <4> QED
        BY <4>1, <4>5, <4>7
    <3> QED
      BY <3>2, <3>3
  <2>5. \A n \in Message : OnBusOf[n] = r => NextOK(r, n)'
    BY <2>4 DEF NextOK
  <2> QED
    BY <2>3, <2>5 DEF StreamOK
<1> QED
  BY <1>7, <1>10, <1>11

\* Another frame is sent.
LEMMA SingleKeepsStream ==
  ASSUME ListenInv, IsSniffer, ProgressOK, \A r \in Receivers : StreamOK(r), SendSingle
  PROVE  ProgressOK' /\ \A r \in Receivers : StreamOK(r)'
<1>1. progress' = progress
  BY DEF SendSingle
<1>2. PICK r \in Receivers, f \in Traffic[program].singles : OnBus(r, f)
  BY DEF SendSingle
<1>3. Genuine(f)
  BY DEF Genuine
<1>4. f \in Frames /\ f.kind = "Other"
  BY <1>3, GenuineFacts, SniffersAssumption DEF ListenInv, ProgramOK, IsSniffer
<1>5. program' = program /\ filters' = filters
  BY <1>2, <1>4, ArriveStream
<1>6. ProgressOK'
  BY <1>1, <1>5 DEF ProgressOK
<1>7. ASSUME NEW q \in Receivers, q # r PROVE StreamOK(q)'
  BY <1>1, <1>2, <1>4, <1>7, OthersKeep
<1>8. StreamOK(r)'
  <2>1. StreamOK(r)
    OBVIOUS
  <2>2. ASSUME NEW n \in Message, NEW j \in 1 .. Bam!DataFrames(n), f = CanFrame(n, j)
        PROVE  FALSE
    <3>1. j # 0
      OBVIOUS
    <3>2. f.kind = "DT"
      BY <2>2, <3>1, DataFields
    <3> QED
      BY <1>4, <3>2
  <2>3. /\ Chained(Stream(r))'
        /\ (\A i \in 1 .. Len(Stream(r)) : Came(r, Stream(r)[i]))'
    BY <1>2, <1>3, <2>1, <2>2, ArriveKeepsChain
  <2>4. ASSUME NEW n \in Message, OnBusOf[n] = r,
               progress'[n] \in 1 .. Bam!DataFrames(n), Passes(r, SrcOf[n])'
        PROVE  Comes(Stream(r)', Len(Stream(r)'), n, progress'[n])
    <3>1. Passes(r, SrcOf[n])
      BY <1>5, <2>4 DEF Passes, Asked
    <3>2. ~PartOf(f, SrcOf[n])
      BY <1>4 DEF PartOf, Bam!toBeHandled
    <3>3. PICK p : p = progress[n]
      OBVIOUS
    <3>4. Comes(Stream(r), Len(Stream(r)), n, p)
      BY <1>1, <2>1, <2>4, <3>1, <3>3 DEF StreamOK, NextOK
    <3>5. Comes(Stream(r)', Len(Stream(r)'), n, p)
      BY <1>2, <1>4, <3>2, <3>4, KeepsComing DEF Comes, LastPart, NoPart
    <3> QED
      BY <1>1, <3>3, <3>5
  <2>5. \A n \in Message : OnBusOf[n] = r => NextOK(r, n)'
    BY <2>4 DEF NextOK
  <2> QED
    BY <2>3, <2>5 DEF StreamOK
<1> QED
  BY <1>6, <1>7, <1>8

\* Nothing arrives.
LEMMA NothingArrives ==
  ASSUME ListenInv, StreamInv, UNCHANGED <<program, arrived, progress>>,
         filters' = {} => filters = {}
  PROVE  StreamInv'
<1> SUFFICES ASSUME IsSniffer' PROVE ProgressOK' /\ \A r \in Receivers : StreamOK(r)'
  BY DEF StreamInv
<1>1. IsSniffer /\ ProgressOK /\ \A r \in Receivers : StreamOK(r)
  BY DEF StreamInv, IsSniffer
<1>2. ProgressOK'
  BY <1>1 DEF ProgressOK
<1>3. ASSUME NEW r \in Receivers PROVE StreamOK(r)'
  <2>1. PICK t : t = Stream(r)
    OBVIOUS
  <2>2. t = Stream(r)'
    BY <2>1 DEF Stream, LetThrough, AskedFor
  <2>3. Chained(t) /\ \A i \in 1 .. Len(t) : Came(r, t[i])
    BY <1>1, <2>1 DEF StreamOK
  <2>4. \A i \in 1 .. Len(t) : Came(r, t[i])'
    <3>1. \A q \in Receivers : \A s : \A i \in From(q, s) :
           i \in From(q, s)' /\ arrived'[q][i] = arrived[q][i]
      BY DEF From
    <3> QED
      BY <2>3, <3>1, SeenStays
  <2>5. ASSUME NEW n \in Message, OnBusOf[n] = r PROVE NextOK(r, n)'
    <3>1. NextOK(r, n)
      BY <1>1, <2>5 DEF StreamOK
    <3>2. Passes(r, SrcOf[n])' => Passes(r, SrcOf[n])
      BY DEF Passes, Asked
    <3> QED
      BY <2>1, <2>2, <3>1, <3>2 DEF NextOK
  <2> QED
    BY <2>2, <2>3, <2>4, <2>5 DEF StreamOK
<1> QED
  BY <1>2, <1>3

\* At first nothing was let through, and nothing is out of turn.
LEMMA StreamInit == Init => StreamInv
<1> SUFFICES ASSUME Init, IsSniffer PROVE ProgressOK /\ \A r \in Receivers : StreamOK(r)
  BY DEF StreamInv
<1>1. /\ arrived = [r \in Receivers |-> <<>>] /\ progress \in [Message -> {0, 1}]
      /\ \A m \in Message : m \notin Traffic[program].messages => progress[m] = 0
  BY DEF Init, ListenerInit
<1>2. ASSUME NEW m \in Message
      PROVE  /\ progress[m] \in 0 .. Bam!DataFrames(m) + 1
             /\ progress[m] # 0 => m \in Traffic[program].messages
  <2>1. Bam!DataFrames(m) \in Nat /\ (progress[m] = 0 \/ progress[m] = 1)
    BY <1>1, MessageFacts
  <2> QED
    BY <1>1, <2>1
<1>3. ASSUME NEW r \in Receivers PROVE StreamOK(r)
  <2>1. PICK e : e = <<>>
    OBVIOUS
  <2>2. Len(e) = 0 /\ arrived[r] = e /\ Among(e, LetThrough(r)) = e
    BY <1>1, <2>1, SmallSeqs, AmongEmpty
  <2>3. PICK t : t = Stream(r)
    OBVIOUS
  <2>4. t = FramesOf(e)
    BY <2>2, <2>3 DEF Stream
  <2>5. IsSeq(e)
    BY <2>1, SmallSeqs
  <2>6. Len(t) = 0
    BY <2>2, <2>4, <2>5, FramesSeq
  <2>7. Chained(t) /\ \A i \in 1 .. Len(t) : Came(r, t[i])
    BY <2>6 DEF Chained
  <2>8. \A m, k : Comes(t, Len(t), m, k)
    BY <2>6 DEF Comes, NoPart
  <2> QED
    BY <2>3, <2>7, <2>8 DEF StreamOK, NextOK
<1> QED
  BY <1>2, <1>3 DEF ProgressOK

\* Every step keeps the streams in order.
LEMMA StreamNext == ListenInv /\ StreamInv /\ [Next]_vars => StreamInv'
<1> SUFFICES ASSUME ListenInv, StreamInv, [Next]_vars PROVE StreamInv'
  OBVIOUS
<1>1. ASSUME Bus PROVE StreamInv'
  <2>1. CASE FailRead
    <3>1. UNCHANGED <<program, arrived, progress, filters>>
      BY <2>1 DEF FailRead, Failing, Fail, listenerVars
    <3> QED
      BY <3>1, NothingArrives
  <2>2. ASSUME (\E m \in Message : SendPart(m)) \/ SendSingle PROVE StreamInv'
    <3>1. program' = program
      BY <2>2 DEF SendPart, SendSingle, OnBus
    <3> SUFFICES ASSUME IsSniffer PROVE ProgressOK' /\ \A r \in Receivers : StreamOK(r)'
      BY <3>1 DEF StreamInv, IsSniffer
    <3>2. ProgressOK /\ \A r \in Receivers : StreamOK(r)
      BY DEF StreamInv
    <3> QED
      BY <2>2, <3>2, PartKeepsStream, SingleKeepsStream
  <2> QED
    BY <1>1, <2>1, <2>2 DEF Bus
<1>2. CASE Listens
  <2>1. UNCHANGED progress
    BY <1>2 DEF Listens
  <2>2. CASE MainThread
    <3>1. UNCHANGED <<program, arrived>> /\ (filters' = {} => filters = {})
      BY <2>2 DEF MainThread, Main, listenerVars, setFilters, sniff
    <3> QED
      BY <2>1, <3>1, NothingArrives
  <2>3. CASE onRcv
    <3>1. UNCHANGED <<program, arrived, filters>>
      BY <2>3 DEF onRcv, MapName, SniffFrame, SniffIgnored, SniffThrows, SniffSimple, SniffPart,
                  SniffWhole, Returned, Stays, CallbackReturns, snifferVars
    <3> QED
      BY <2>1, <3>1, NothingArrives
  <2>4. CASE Sniffer /\ UNCHANGED <<listenerVars, names, sniffVars>>
    <3>1. UNCHANGED <<program, arrived, filters>>
      BY <2>4 DEF listenerVars, Sniffer, wait_fd, WaitTimeout, notify, NotifyEnds, Check
    <3> QED
      BY <2>1, <3>1, NothingArrives
  <2> QED
    BY <1>2, <2>2, <2>3, <2>4 DEF Listens, Thread
<1>3. CASE UNCHANGED vars
  <2>1. UNCHANGED <<program, arrived, progress, filters>>
    BY <1>3 DEF vars, listenerVars, snifferVars
  <2> QED
    BY <2>1, NothingArrives
<1> QED
  BY <1>1, <1>2, <1>3 DEF Next

-----------------------------------------------------------------------------
(***************************************************************************)
(* Sources of one bus                                                      *)
(***************************************************************************)
Unique(s) == \A r, q \in Receivers : From(r, s) # {} /\ From(q, s) # {} => r = q

\* A set with at most one element.
LEMMA OneBusUnique ==
  ASSUME NEW s, OneBus(s)
  PROVE  Unique(s)
<1>1. IsFiniteSet(Receivers)
  <2>1. Len(mReceivers) \in Nat
    BY ReceiverFacts
  <2>2. IsFiniteSet(1 .. Len(mReceivers))
    BY <2>1, FS_Interval
  <2>3. PICK f : f = [i \in 1 .. Len(mReceivers) |-> mReceivers[i]]
    OBVIOUS
  <2>4. f \in Surjection(1 .. Len(mReceivers), Receivers)
    BY <2>3 DEF Surjection, Receivers
  <2> QED
    BY <2>2, <2>4, FS_Surjection
<1>2. PICK S : S = {r \in Receivers : From(r, s) # {}}
  OBVIOUS
<1>3. IsFiniteSet(S) /\ Cardinality(S) <= 1
  BY <1>1, <1>2, FS_Subset DEF OneBus
<1>4. ASSUME NEW r \in S, NEW q \in S, r # q PROVE FALSE
  <2>1. IsFiniteSet({r}) /\ Cardinality({r}) = 1
    BY FS_Singleton
  <2>2. PICK T : T = {r} \cup {q}
    OBVIOUS
  <2>3. IsFiniteSet(T) /\ Cardinality(T) = 2
    <3>1. q \notin {r}
      BY <1>4
    <3>2. Cardinality({r} \cup {q}) = Cardinality({r}) + 1 /\ IsFiniteSet({r} \cup {q})
      BY <2>1, <3>1, FS_AddElement
    <3> QED
      BY <2>1, <2>2, <3>2
  <2>4. T \in SUBSET S
    BY <2>2
  <2>5. Cardinality(T) <= Cardinality(S) /\ Cardinality(S) \in Nat
    BY <1>3, <2>4, FS_Subset, FS_CardinalityType
  <2> QED
    BY <1>3, <2>3, <2>5
<1> QED
  BY <1>2, <1>4 DEF Unique

-----------------------------------------------------------------------------
(***************************************************************************)
(* Where the callback is in the stream of its receiver                     *)
(***************************************************************************)
LEMMA HandedOn ==
  ASSUME ListenInv, NEW r \in Receivers
  PROVE  Len(handed[r]) \in Nat /\ Len(Stream(r)) \in Nat /\ Len(handed[r]) <= Len(Stream(r))
<1>1. Agrees(handed[r], InCallback(r), buffer[r], arrived[r], Readable(r), LetThrough(r))
  BY DEF ListenInv, AllAgree
<1>2. PICK h, c, w, t : /\ h = handed[r] /\ c = InCallback(r) /\ w = Among(buffer[r], Readable(r))
                        /\ t = Stream(r)
  OBVIOUS
<1>3. IsSeq(h) /\ IsSeq(c) /\ IsSeq(w) /\ (h \o c) \o w = t
  BY <1>1, <1>2, AmongSeq DEF Agrees, Stream
<1>4. PICK d : d = h \o c
  OBVIOUS
<1>5. IsSeq(d) /\ Len(d) = Len(h) + Len(c) /\ Len(t) = Len(d) + Len(w)
  <2>1. IsSeq(d) /\ Len(d) = Len(h) + Len(c)
    BY <1>3, <1>4, CatFacts
  <2>2. d \o w = t
    BY <1>3, <1>4
  <2>3. Len(d \o w) = Len(d) + Len(w)
    BY <1>3, <2>1, CatFacts
  <2> QED
    BY <2>1, <2>2, <2>3, Zenon
<1>6. Len(h) \in Nat /\ Len(c) \in Nat /\ Len(w) \in Nat
  BY <1>3, SeqFacts
<1>7. Len(h) \in Nat /\ Len(t) \in Nat /\ Len(h) <= Len(t)
  BY <1>5, <1>6
<1> QED
  BY <1>2, <1>7, Zenon

\* The frame in the callback is the one after those that were handed on.
LEMMA FrameInStream ==
  ASSUME ListenInv, thread = "callback", frame # NoFrame, NEW r, r = mReceivers[next]
  PROVE  /\ r \in Receivers /\ Len(handed[r]) + 1 <= Len(Stream(r))
         /\ Stream(r)[Len(handed[r]) + 1] = frame
<1>1. r \in Receivers
  BY ReceiverFacts DEF ListenInv, ThreadOK
<1>2. Agrees(handed[r], InCallback(r), buffer[r], arrived[r], Readable(r), LetThrough(r))
  BY <1>1 DEF ListenInv, AllAgree
<1>3. PICK h, w, t, c : /\ h = handed[r] /\ w = Among(buffer[r], Readable(r))
                        /\ t = Stream(r) /\ c = <<frame>>
  OBVIOUS
<1>4. InCallback(r) = c
  BY <1>3 DEF InCallback
<1>5. IsSeq(h) /\ IsSeq(w) /\ (h \o c) \o w = t /\ IsSeq(c) /\ Len(c) = 1 /\ c[1] = frame
  <2>1. IsSeq(h) /\ IsSeq(w) /\ (h \o c) \o w = t
    BY <1>2, <1>3, <1>4, AmongSeq DEF Agrees, Stream
  <2>2. IsSeq(c) /\ Len(c) = 1 /\ c[1] = frame
    BY <1>3, SmallSeqs
  <2> QED
    BY <2>1, <2>2
<1>6. PICK d : d = h \o c
  OBVIOUS
<1>7. IsSeq(d) /\ Len(d) = Len(h) + 1 /\ d[Len(h) + 1] = c[1]
  <2>1. h \o c = Append(h, frame)
    BY <1>3, <1>5, CatSmall
  <2>2. d = Append(h, frame)
    BY <1>6, <2>1
  <2> QED
    BY <1>5, <2>2, SeqFacts
<1>8. Len(t) = Len(d) + Len(w) /\ \A i \in 1 .. Len(d) : t[i] = d[i]
  <2>1. t = d \o w
    BY <1>5, <1>6
  <2>2. Len(d \o w) = Len(d) + Len(w) /\ \A i \in 1 .. Len(d) : (d \o w)[i] = d[i]
    BY <1>5, <1>7, CatFacts
  <2> QED
    BY <2>1, <2>2
<1>9. Len(h) \in Nat /\ Len(w) \in Nat
  BY <1>5, SeqFacts
<1>10. Len(h) + 1 \in 1 .. Len(d) /\ d[Len(h) + 1] = frame /\ Len(h) + 1 <= Len(t)
  BY <1>5, <1>7, <1>8, <1>9
<1> QED
  BY <1>1, <1>3, <1>8, <1>10

\* Between two parts of a source there is none of it.
LEMMA OneLast ==
  ASSUME NEW q, NEW n \in Nat, NEW s, NEW o, NEW p, LastPart(q, n, s, o)
  PROVE  (LastPart(q, n, s, p) => o = p) /\ ~NoPart(q, n, s)
<1>1. PICK h \in 1 .. n : /\ PartOf(q[h], s) /\ q[h].of = o
                          /\ \A i \in h + 1 .. n : ~PartOf(q[i], s)
  BY DEF LastPart
<1>2. ASSUME LastPart(q, n, s, p) PROVE o = p
  <2>1. PICK g \in 1 .. n : /\ PartOf(q[g], s) /\ q[g].of = p
                            /\ \A i \in g + 1 .. n : ~PartOf(q[i], s)
    BY <1>2 DEF LastPart
  <2>2. ~(g > h) /\ ~(h > g)
    BY <1>1, <2>1
  <2>3. g = h
    BY <2>2
  <2> QED
    BY <1>1, <2>1, <2>3
<1> QED
  BY <1>1, <1>2 DEF NoPart

\* What is in a stream came from its source, here.
LEMMA PartCame ==
  ASSUME StreamInv, IsSniffer, ListenInv, NEW r \in Receivers, NEW s, NEW o,
         LastPart(Stream(r), Len(handed[r]), s, o)
  PROVE  From(r, s) # {}
<1>1. PICK h \in 1 .. Len(handed[r]) : PartOf(Stream(r)[h], s)
  BY DEF LastPart
<1>2. h \in 1 .. Len(Stream(r))
  BY HandedOn
<1>3. Came(r, Stream(r)[h]) /\ Stream(r)[h].src = s
  BY <1>1, <1>2 DEF StreamInv, StreamOK, PartOf
<1> QED
  BY <1>3 DEF Came

-----------------------------------------------------------------------------
(***************************************************************************)
(* The invariant of the sniffer                                            *)
(***************************************************************************)
\* The callback had the first part of o of s and none since.
LastHad(s, o) == \E r \in Receivers : LastPart(Stream(r), Len(handed[r]), s, o)

\* q is what was put aside of a message of s so far.
Session(q, s) ==
  \E m \in Message :
    /\ SrcOf[m] = s
    /\ IF Small(m) THEN \E j \in Nat : Prefix(q, m, j) /\ LastHad(s, <<m, j>>)
                   ELSE q = <<CanFrame(m, 0)>>

\* With two sources of the same address anything may follow the TP.CM.
SessionOK(s) ==
  /\ IsSeq(mFragments[s]) /\ Len(mFragments[s]) # 0 /\ Seen(s)
  /\ \E m \in Message : SrcOf[m] = s /\ mFragments[s][1] = CanFrame(m, 0)
  /\ Unique(s) => Session(mFragments[s], s)

\* A message that was put together.
WholeOK(g) ==
  /\ Seen(g.src) /\ g.pgn \in Pgn
  /\ Unique(g.src) => \E m \in Message : g = Bam!Sent(m)

\* Something is ready only while the callback still has the last packet.
QueueOK ==
  \/ mReassembledFrames = <<>>
  \/ /\ \E g : mReassembledFrames = <<g>> /\ WholeOK(g)
     /\ thread = "callback" /\ frame # NoFrame /\ Bam!toBeHandled(frame)
     /\ mFragments[frame.src] = <<>>

IsOther(f) == \E g \in Frames : /\ g.kind = "Other" /\ g.src = f.src
                                /\ g.pgn = f.pgn /\ g.data = f.data

AskedPgn(f) ==
  \/ f.pgn = program.wanted
  \/ IF program.title # "" THEN f.pgn = 0 ELSE NameOf[f.pgn] = ""

ShownOK(f) == f # Blank =>
  /\ AskedPgn(f) /\ Seen(f.src)
  /\ Unique(f.src) => (\E m \in Message : f = Bam!Sent(m)) \/ IsOther(f)

Collects ==
  /\ QueueOK
  /\ \A s \in Source : mFragments[s] # <<>> => SessionOK(s)

SniffInv ==
  IsSniffer => /\ DOMAIN mFragments = Source
               /\ \A f \in shown : ShownOK(f)
               /\ ~terminated => Collects

\* The invariant is enough.
LEMMA SniffIsShown == ListenInv /\ SniffInv => ShownIsSent
<1> SUFFICES ASSUME ListenInv, SniffInv, IsSniffer, NEW f \in shown \ {Blank}
             PROVE  /\ AskedPgn(f)
                    /\ OneBus(f.src) => (\E m \in Message : f = Bam!Sent(m)) \/ IsOther(f)
                    /\ Seen(f.src)
  BY DEF ShownIsSent, IsSniffer, AskedPgn, IsOther, Seen
<1>1. ShownOK(f)
  BY DEF SniffInv
<1> QED
  BY <1>1, OneBusUnique DEF ShownOK

\* Nothing is put aside or shown at first.
LEMMA SniffInitially == Init => SniffInv
BY DEF Init, SniffInit, Bam!ReassemblerInit, SniffInv, Collects, QueueOK

-----------------------------------------------------------------------------
(***************************************************************************)
(* What is kept                                                            *)
(***************************************************************************)
Kept ==
  /\ program' = program
  /\ \A s : Seen(s) => Seen(s)'
  /\ \A s : Unique(s)' => Unique(s)

\* Frames that arrive only add to what was seen of a source.
LEMMA NothingLost ==
  ASSUME program' = program,
         \A q \in Receivers : \A s : \A i \in From(q, s) :
           i \in From(q, s)' /\ arrived'[q][i] = arrived[q][i]
  PROVE  Kept
<1>1. ASSUME NEW s, Unique(s)' PROVE Unique(s)
  <2>1. \A q \in Receivers : From(q, s) # {} => From(q, s)' # {}
    OBVIOUS
  <2> QED
    BY <1>1, <2>1 DEF Unique
<1>2. \A s : Seen(s) => Seen(s)'
  BY SeenStays
<1> QED
  BY <1>1, <1>2 DEF Kept

\* And so does a step in which none arrives.
LEMMA NothingNew ==
  ASSUME UNCHANGED <<program, arrived>>
  PROVE  Kept
<1>1. \A q \in Receivers : \A s : \A i \in From(q, s) :
        i \in From(q, s)' /\ arrived'[q][i] = arrived[q][i]
  BY DEF From
<1> QED
  BY <1>1, NothingLost

\* What may be shown stays so,
LEMMA ShownStays ==
  ASSUME Kept, NEW f, ShownOK(f)
  PROVE  ShownOK(f)'
BY DEF Kept, ShownOK, AskedPgn, IsOther, Blank

\* as does what was put together,
LEMMA WholeStays ==
  ASSUME Kept, NEW g, WholeOK(g)
  PROVE  WholeOK(g)'
BY DEF Kept, WholeOK

\* and a session that is left alone.
LEMMA SessionStays ==
  ASSUME Kept, NEW s, SessionOK(s), mFragments'[s] = mFragments[s],
         \A o : LastHad(s, o) => LastHad(s, o)'
  PROVE  SessionOK(s)'
<1>1. PICK q : q = mFragments[s]
  OBVIOUS
<1>2. q = mFragments'[s]
  BY <1>1
<1>3. /\ IsSeq(q) /\ Len(q) # 0 /\ Seen(s)
      /\ \E m \in Message : SrcOf[m] = s /\ q[1] = CanFrame(m, 0)
      /\ Unique(s) => Session(q, s)
  BY <1>1 DEF SessionOK
<1>4. Session(q, s) => Session(q, s)'
  <2> SUFFICES ASSUME Session(q, s) PROVE Session(q, s)'
    OBVIOUS
  <2>1. PICK m \in Message :
          /\ SrcOf[m] = s
          /\ IF Small(m) THEN \E j \in Nat : Prefix(q, m, j) /\ LastHad(s, <<m, j>>)
                         ELSE q = <<CanFrame(m, 0)>>
    BY DEF Session
  <2>2. IF Small(m) THEN \E j \in Nat : Prefix(q, m, j) /\ LastHad(s, <<m, j>>)'
                    ELSE q = <<CanFrame(m, 0)>>
    BY <2>1
  <2> QED
    BY <2>1, <2>2 DEF Session
<1>5. (Unique(s) => Session(q, s))'
  BY <1>3, <1>4 DEF Kept
<1>6. Seen(s)'
  BY <1>3 DEF Kept
<1> QED
  BY <1>2, <1>3, <1>5, <1>6 DEF SessionOK

\* Where streams only grow, what came last is still the last.
LEMMA HadStays ==
  ASSUME ListenInv, handed' = handed,
         \A r \in Receivers : Same(Stream(r), Stream(r)', Len(Stream(r))),
         NEW s, NEW o, LastHad(s, o)
  PROVE  LastHad(s, o)'
<1>1. PICK r \in Receivers : LastPart(Stream(r), Len(handed[r]), s, o)
  BY DEF LastHad
<1>2. PICK q, t, n : q = Stream(r) /\ t = Stream(r)' /\ n = Len(handed[r])
  OBVIOUS
<1>3. n \in Nat /\ Len(q) \in Nat /\ n <= Len(q) /\ Same(q, t, Len(q))
  BY <1>2, HandedOn
<1>4. Same(q, t, n)
  BY <1>3 DEF Same
<1>5. LastPart(t, n, s, o)
  BY <1>1, <1>2, <1>3, <1>4, SameComes
<1>6. LastPart(Stream(r)', Len(handed'[r]), s, o)
  BY <1>2, <1>5
<1> QED
  BY <1>6 DEF LastHad

\* A step of the bus or of main().
LEMMA ElsewhereKeepsSniff ==
  ASSUME ListenInv, SniffInv, Kept, UNCHANGED <<sniffVars, handed, terminated>>,
         \A r \in Receivers : Same(Stream(r), Stream(r)', Len(Stream(r))),
         mReassembledFrames # <<>> /\ IsSniffer /\ ~terminated => UNCHANGED <<thread, frame>>
  PROVE  SniffInv'
<1> SUFFICES ASSUME IsSniffer
             PROVE  /\ DOMAIN mFragments' = Source
                    /\ \A f \in shown' : ShownOK(f)'
                    /\ ~terminated' => Collects'
  BY DEF SniffInv, IsSniffer, Kept
<1>1. UNCHANGED <<mFragments, mReassembledFrames, shown>>
  BY DEF sniffVars
<1>2. \A f \in shown' : ShownOK(f)'
  BY <1>1, ShownStays DEF SniffInv
<1>3. ASSUME ~terminated' PROVE Collects'
  <2>1. ~terminated /\ Collects
    BY <1>3 DEF SniffInv
  <2>2. QueueOK'
    <3>1. CASE mReassembledFrames = <<>>
      BY <1>1, <3>1 DEF QueueOK
    <3>2. CASE mReassembledFrames # <<>>
      <4>1. PICK g : mReassembledFrames = <<g>> /\ WholeOK(g)
        BY <2>1, <3>2 DEF Collects, QueueOK
      <4>2. WholeOK(g)'
        BY <4>1, WholeStays
      <4>3. UNCHANGED <<thread, frame>>
        BY <2>1, <3>2
      <4> QED
        BY <1>1, <2>1, <3>2, <4>1, <4>2, <4>3 DEF Collects, QueueOK
    <3> QED
      BY <3>1, <3>2
  <2>3. ASSUME NEW s \in Source, mFragments'[s] # <<>> PROVE SessionOK(s)'
    <3>1. SessionOK(s) /\ mFragments'[s] = mFragments[s]
      BY <1>1, <2>1, <2>3 DEF Collects
    <3>2. \A o : LastHad(s, o) => LastHad(s, o)'
      BY HadStays
    <3> QED
      BY <3>1, <3>2, SessionStays
  <2> QED
    BY <2>2, <2>3 DEF Collects
<1> QED
  BY <1>1, <1>2, <1>3 DEF SniffInv

-----------------------------------------------------------------------------
(***************************************************************************)
(* The callback of the sniffer                                             *)
(***************************************************************************)
InRcv == ListenInv /\ StreamInv /\ IsSniffer /\ thread = "callback"

\* The frame in the callback came from its source, and what it is.
LEMMA CameFrame ==
  ASSUME InRcv, frame # NoFrame
  PROVE  /\ mReceivers[next] \in Receivers /\ Came(mReceivers[next], frame)
         /\ frame \in Frames /\ frame.src \in Source /\ Seen(frame.src)
         /\ Bam!toBeHandled(frame) <=> frame.kind # "Other"
         /\ frame.kind = "Other" => frame.pgn \in Pgn
         /\ frame.kind # "Other" =>
              \E m \in Message : \E k \in 0 .. Bam!DataFrames(m) :
                frame = CanFrame(m, k) /\ SrcOf[m] = frame.src /\ frame.of = <<m, k>>
                /\ (k = 0 <=> frame.kind = "BAM") /\ (k # 0 <=> frame.kind = "DT")
<1>1. PICK r : r = mReceivers[next]
  OBVIOUS
<1>2. /\ r \in Receivers /\ Len(handed[r]) + 1 <= Len(Stream(r))
      /\ Stream(r)[Len(handed[r]) + 1] = frame
  BY <1>1, FrameInStream DEF InRcv
<1>3. Len(handed[r]) + 1 \in 1 .. Len(Stream(r))
  BY <1>2, HandedOn DEF InRcv
<1>4. StreamOK(r)
  BY <1>2 DEF InRcv, StreamInv
<1>5. Came(r, frame)
  BY <1>2, <1>3, <1>4 DEF StreamOK
<1>6. Genuine(frame) /\ Seen(frame.src)
  BY <1>5 DEF Came
<1>7. /\ frame \in Frames /\ frame.src \in Source
      /\ frame.kind = "Other" => frame.pgn \in Pgn
      /\ \/ frame.kind = "Other"
         \/ \E m \in Message : \E k \in 0 .. Bam!DataFrames(m) :
              frame = CanFrame(m, k) /\ frame.src = SrcOf[m]
  BY <1>6, GenuineFacts DEF InRcv
<1>8. ASSUME NEW m \in Message, NEW k \in 0 .. Bam!DataFrames(m), frame = CanFrame(m, k)
      PROVE  /\ frame.of = <<m, k>>
             /\ k = 0 => frame.kind = "BAM"
             /\ k # 0 => frame.kind = "DT"
  <2>1. CanFrame(m, k).of = <<m, k>>
    BY EveryFrame
  <2>2. CASE k = 0
    BY <1>8, <2>1, <2>2, ConnFields
  <2>3. CASE k # 0
    BY <1>8, <2>1, <2>3, DataFields
  <2> QED
    BY <2>2, <2>3
<1>9. ASSUME frame.kind # "Other"
      PROVE  /\ \E m \in Message : \E k \in 0 .. Bam!DataFrames(m) :
                  frame = CanFrame(m, k) /\ SrcOf[m] = frame.src /\ frame.of = <<m, k>>
                  /\ (k = 0 <=> frame.kind = "BAM") /\ (k # 0 <=> frame.kind = "DT")
             /\ frame.kind \in {"BAM", "DT"}
  <2>1. PICK m \in Message : \E k \in 0 .. Bam!DataFrames(m) :
          frame = CanFrame(m, k) /\ frame.src = SrcOf[m]
    BY <1>7, <1>9
  <2>2. PICK k \in 0 .. Bam!DataFrames(m) : frame = CanFrame(m, k) /\ frame.src = SrcOf[m]
    BY <2>1
  <2>3. /\ frame.of = <<m, k>>
        /\ k = 0 => frame.kind = "BAM"
        /\ k # 0 => frame.kind = "DT"
    BY <1>8, <2>2
  <2>4. (k = 0 <=> frame.kind = "BAM") /\ (k # 0 <=> frame.kind = "DT")
    BY <2>3
  <2> QED
    BY <2>2, <2>3, <2>4
<1>10. Bam!toBeHandled(frame) <=> frame.kind # "Other"
  BY <1>9 DEF Bam!toBeHandled
<1> QED
  BY <1>1, <1>2, <1>5, <1>6, <1>7, <1>9, <1>10

\* A callback that returns moves on by a frame.
LEMMA MovesOn ==
  ASSUME InRcv, Returned
  PROVE  /\ program' = program /\ arrived' = arrived /\ thread' = "notify"
         /\ \A r \in Receivers : Stream(r)' = Stream(r)
         /\ \A r \in Receivers : r # mReceivers[next] => handed'[r] = handed[r]
         /\ frame = NoFrame => handed' = handed
         /\ frame # NoFrame => Len(handed'[mReceivers[next]]) = Len(handed[mReceivers[next]]) + 1
<1>1. /\ program' = program /\ arrived' = arrived /\ thread' = "notify"
      /\ handed' = IF frame = NoFrame THEN handed
                   ELSE [handed EXCEPT ![mReceivers[next]] = Append(@, frame)]
  BY DEF Returned, CallbackReturns
<1>2. \A r \in Receivers : Stream(r)' = Stream(r)
  BY <1>1 DEF Stream, LetThrough, AskedFor
<1>3. DOMAIN handed = Receivers
  BY DEF InRcv, ListenInv, BuffersOK
<1>4. \A r \in Receivers : r # mReceivers[next] => handed'[r] = handed[r]
  BY <1>1, <1>3
<1>5. ASSUME frame # NoFrame
      PROVE  Len(handed'[mReceivers[next]]) = Len(handed[mReceivers[next]]) + 1
  <2>1. PICK r : r = mReceivers[next]
    OBVIOUS
  <2>2. r \in Receivers
    BY <1>5, <2>1, CameFrame
  <2>3. handed'[r] = Append(handed[r], frame)
    BY <1>1, <1>3, <1>5, <2>1, <2>2
  <2>4. IsSeq(handed[r])
    BY <2>2 DEF InRcv, ListenInv, AllAgree, Agrees
  <2>5. Len(handed'[r]) = Len(handed[r]) + 1
    BY <2>3, <2>4, SeqFacts
  <2> QED
    BY <2>1, <2>5
<1> QED
  BY <1>1, <1>2, <1>4, <1>5

\* A frame that is no part for s leaves its last part the last one,
LEMMA HadBefore ==
  ASSUME InRcv, Returned, NEW s, NEW o, frame = NoFrame \/ ~PartOf(frame, s), LastHad(s, o)
  PROVE  LastHad(s, o)'
<1>1. PICK q \in Receivers : LastPart(Stream(q), Len(handed[q]), s, o)
  BY DEF LastHad
<1>2. PICK t, n : t = Stream(q) /\ n = Len(handed[q])
  OBVIOUS
<1>3. t = Stream(q)'
  BY <1>2, MovesOn
<1>4. n \in Nat /\ LastPart(t, n, s, o)
  BY <1>1, <1>2, HandedOn DEF InRcv
<1>5. CASE frame = NoFrame \/ q # mReceivers[next]
  <2>1. handed'[q] = handed[q]
    BY <1>5, MovesOn
  <2>2. LastPart(Stream(q)', Len(handed'[q]), s, o)
    BY <1>2, <1>3, <1>4, <2>1
  <2> QED
    BY <2>2 DEF LastHad
<1>6. CASE frame # NoFrame /\ q = mReceivers[next]
  <2>1. t[n + 1] = frame
    BY <1>2, <1>6, FrameInStream DEF InRcv
  <2>2. LastPart(t, n + 1, s, o)
    BY <1>4, <1>6, <2>1, OneMore
  <2>3. Len(handed'[q]) = n + 1
    BY <1>2, <1>6, MovesOn
  <2>4. LastPart(Stream(q)', Len(handed'[q]), s, o)
    BY <1>3, <2>2, <2>3
  <2> QED
    BY <2>4 DEF LastHad
<1> QED
  BY <1>5, <1>6

\* and a part is the last one then.
LEMMA HadNow ==
  ASSUME InRcv, Returned, frame # NoFrame, Bam!toBeHandled(frame),
         NEW s, NEW o, s = frame.src, o = frame.of
  PROVE  LastHad(s, o)'
<1>1. PICK q, t, n : q = mReceivers[next] /\ t = Stream(q) /\ n = Len(handed[q])
  OBVIOUS
<1>2. q \in Receivers /\ t[n + 1] = frame
  BY <1>1, FrameInStream DEF InRcv
<1>3. n \in Nat /\ t = Stream(q)' /\ Len(handed'[q]) = n + 1
  BY <1>1, <1>2, MovesOn, HandedOn DEF InRcv
<1>4. PartOf(frame, s)
  BY DEF PartOf
<1>5. LastPart(t, n + 1, s, o)
  BY <1>2, <1>3, <1>4, OneMore
<1>6. LastPart(Stream(q)', Len(handed'[q]), s, o)
  BY <1>3, <1>5
<1> QED
  BY <1>2, <1>6 DEF LastHad

\* A packet in the callback is the next one of the message put aside for its source.
LEMMA InTurn ==
  ASSUME InRcv, frame # NoFrame, frame.kind = "DT", Unique(frame.src),
         NEW m \in Message, Small(m), NEW j, LastHad(frame.src, <<m, j>>), j \in Nat
  PROVE  j + 1 \in 1 .. Bam!DataFrames(m) /\ frame = CanFrame(m, j + 1)
<1>1. PICK r, s : r = mReceivers[next] /\ s = frame.src
  OBVIOUS
<1>2. /\ r \in Receivers /\ Came(r, frame)
      /\ \E n \in Message : \E k \in 0 .. Bam!DataFrames(n) :
           frame = CanFrame(n, k) /\ SrcOf[n] = s /\ k # 0
  BY <1>1, CameFrame
<1>3. PICK n \in Message : \E k \in 0 .. Bam!DataFrames(n) :
        frame = CanFrame(n, k) /\ SrcOf[n] = s /\ k # 0
  BY <1>2
<1>4. PICK k \in 0 .. Bam!DataFrames(n) : frame = CanFrame(n, k) /\ SrcOf[n] = s /\ k # 0
  BY <1>3
<1>5. LastPart(Stream(r), Len(handed[r]), s, <<m, j>>)
  <2>1. PICK q \in Receivers : LastPart(Stream(q), Len(handed[q]), s, <<m, j>>)
    BY <1>1 DEF LastHad
  <2>2. From(q, s) # {}
    BY <2>1, PartCame DEF InRcv
  <2>3. From(r, s) # {}
    BY <1>1, <1>2 DEF Came
  <2>4. q = r
    BY <1>1, <1>2, <2>2, <2>3 DEF Unique
  <2> QED
    BY <2>1, <2>4
<1>6. PICK t, i : t = Stream(r) /\ i = Len(handed[r])
  OBVIOUS
<1>7. i \in Nat /\ i + 1 \in 1 .. Len(t) /\ t[i + 1] = frame
  BY <1>1, <1>2, <1>6, HandedOn, FrameInStream DEF InRcv
<1>8. Chained(t)
  BY <1>2, <1>6 DEF InRcv, StreamInv, StreamOK
<1>9. k \in 1 .. Bam!DataFrames(n) /\ k - 1 \in Nat
  BY <1>4, MessageFacts
<1>10. Comes(t, i, n, k)
  <2>1. (i + 1) - 1 = i
    BY <1>7
  <2>2. Comes(t, (i + 1) - 1, n, k)
    BY <1>4, <1>7, <1>8, <1>9 DEF Chained
  <2> QED
    BY <2>1, <2>2
<1>11. LastPart(t, i, s, <<m, j>>)
  BY <1>5, <1>6
<1>12. LastPart(t, i, s, <<n, k - 1>>)
  BY <1>4, <1>7, <1>10, <1>11, OneLast DEF Comes
<1>13. <<m, j>> = <<n, k - 1>>
  BY <1>7, <1>11, <1>12, OneLast
<1>14. m = n /\ j = k - 1
  BY <1>13
<1> QED
  BY <1>4, <1>9, <1>14

\* What the packet does to what was put aside.
LEMMA GoesOn ==
  ASSUME InRcv, frame # NoFrame, frame.kind = "DT", NEW s, s = frame.src, Unique(s),
         NEW q, q = mFragments[s], q # <<>>, SessionOK(s)
  PROVE  \E m \in Message :
           /\ SrcOf[m] = s
           /\ \/ /\ Small(m) /\ Bam!Expected(frame)
                 /\ \E j \in Nat : /\ frame.of = <<m, j>> /\ Prefix(Append(q, frame), m, j)
                                   /\ frame.sq = q[1].packets => j = Bam!Packets(m)
              \/ ~Small(m) /\ ~Bam!Expected(frame) /\ q = <<CanFrame(m, 0)>>
<1>1. IsSeq(q) /\ Len(q) # 0 /\ Session(q, s)
  BY DEF SessionOK
<1>2. PICK m \in Message :
        /\ SrcOf[m] = s
        /\ IF Small(m) THEN \E j \in Nat : Prefix(q, m, j) /\ LastHad(s, <<m, j>>)
                       ELSE q = <<CanFrame(m, 0)>>
  BY <1>1 DEF Session
<1>3. Head(q) = q[1]
  BY <1>1, HeadFirst
<1>4. Bam!Expected(frame) <=> q[1].packets >= frame.sq /\ Bam!getLastSQ(q) + 1 = frame.sq
  BY <1>3 DEF Bam!Expected
<1>5. CASE Small(m)
  <2>1. PICK i \in Nat : Prefix(q, m, i) /\ LastHad(s, <<m, i>>)
    BY <1>2, <1>5
  <2>2. i + 1 \in 1 .. Bam!DataFrames(m) /\ frame = CanFrame(m, i + 1)
    BY <1>5, <2>1, InTurn
  <2>3. PICK f : f = frame
    OBVIOUS
  <2>4. /\ q[1].packets >= f.sq /\ Bam!getLastSQ(q) + 1 = f.sq
        /\ f.sq = i + 1 /\ q[1].packets = Bam!Packets(m)
        /\ Prefix(Append(q, f), m, i + 1)
    <3>1. f = CanFrame(m, i + 1) /\ i + 1 \in 1 .. Bam!DataFrames(m) /\ Prefix(q, m, i)
      BY <2>1, <2>2, <2>3
    <3>2. PICK k : k = i
      OBVIOUS
    <3>3. f = CanFrame(m, k + 1) /\ k + 1 \in 1 .. Bam!DataFrames(m) /\ Prefix(q, m, k)
      BY <3>1, <3>2
    <3>4. /\ q[1].packets >= f.sq /\ Bam!getLastSQ(q) + 1 = f.sq
          /\ f.sq = k + 1 /\ q[1].packets = Bam!Packets(m)
          /\ Prefix(Append(q, f), m, k + 1)
      BY <1>5, <3>3, NextExpected, SMTT(30)
    <3> QED
      BY <3>2, <3>4
  <2>5. f.of = <<m, i + 1>>
    BY <2>2, <2>3, EveryFrame
  <2>6. Bam!Expected(frame)
    BY <1>4, <2>3, <2>4
  <2>7. i + 1 \in Nat /\ (f.sq = q[1].packets => i + 1 = Bam!Packets(m))
    BY <2>4
  <2>8. \E j \in Nat : /\ frame.of = <<m, j>> /\ Prefix(Append(q, frame), m, j)
                       /\ frame.sq = q[1].packets => j = Bam!Packets(m)
    BY <2>3, <2>4, <2>5, <2>7
  <2> QED
    BY <1>2, <1>5, <2>6, <2>8
<1>6. CASE ~Small(m)
  <2>1. q = <<CanFrame(m, 0)>>
    BY <1>2, <1>6
  <2>2. ~(q[1].packets >= frame.sq /\ Bam!getLastSQ(q) + 1 = frame.sq)
    BY <1>6, <2>1, BigUnexpected
  <2> QED
    BY <1>2, <1>4, <1>6, <2>1, <2>2
<1> QED
  BY <1>5, <1>6

\* What is shown has the PGN that is asked for.
LEMMA MatchesAsked ==
  ASSUME ListenInv, IsSniffer, NEW f, f.pgn \in Pgn, Matches(f)
  PROVE  AskedPgn(f)
<1>1. PICK q \in Pgn :
        /\ program.wanted = q
        /\ \/ program.pgn = q /\ program.title = ""
           \/ /\ program.pgn = 0 /\ program.title = NameOf[q]
              /\ NameOf[q] # "" /\ \A other \in Pgn \ {q} : NameOf[other] # NameOf[q]
  BY SnifferFacts
<1>2. program.pgn = f.pgn \/ program.title = NameOf[f.pgn]
  BY DEF Matches
<1> QED
  BY <1>1, <1>2 DEF AskedPgn

\* A frame that was sent, or put together from what was, may be shown.
LEMMA ShowKeeps ==
  ASSUME ListenInv, IsSniffer, \A x \in shown : ShownOK(x), Kept,
         NEW f, Show(f), f.pgn \in Pgn, Seen(f.src),
         Unique(f.src) => (\E m \in Message : f = Bam!Sent(m)) \/ (f \in Frames /\ f.kind = "Other")
  PROVE  \A x \in shown' : ShownOK(x)'
<1>1. PICK g : g = [src |-> f.src, pgn |-> f.pgn, data |-> f.data]
  OBVIOUS
<1>2. g.src = f.src /\ g.pgn = f.pgn /\ g.data = f.data
  BY <1>1
<1>3. shown' = IF Matches(f) THEN shown \cup {g} ELSE shown
  BY <1>1 DEF Show
<1>4. ASSUME Matches(f) PROVE ShownOK(g)
  <2>1. AskedPgn(f)
    BY <1>4, MatchesAsked
  <2>2. AskedPgn(g)
    BY <1>2, <2>1 DEF AskedPgn
  <2>3. ASSUME NEW m \in Message, f = Bam!Sent(m) PROVE g = Bam!Sent(m)
    BY <1>1, <2>3 DEF Bam!Sent
  <2>4. ASSUME f \in Frames, f.kind = "Other" PROVE IsOther(g)
    BY <1>2, <2>4 DEF IsOther
  <2> QED
    BY <1>2, <2>2, <2>3, <2>4 DEF ShownOK
<1>5. \A x \in shown' : ShownOK(x)
  BY <1>3, <1>4
<1> QED
  BY <1>5, ShownStays

SniffOK == DOMAIN mFragments = Source /\ (\A f \in shown : ShownOK(f)) /\ Collects

\* A frame that is no part finds nothing put together.
LEMMA QueueEmpty ==
  ASSUME InRcv, SniffOK, frame = NoFrame \/ ~Bam!toBeHandled(frame)
  PROVE  mReassembledFrames = <<>>
BY DEF SniffOK, Collects, QueueOK

\* The callback leaves alone what arrived.
LEMMA ReturnedKeeps ==
  ASSUME Returned \/ Stays
  PROVE  Kept
BY NothingNew DEF Returned, Stays

\* A frame that is no part of anything.
LEMMA PlainKeeps ==
  ASSUME InRcv, SniffOK, Returned, frame = NoFrame \/ ~Bam!toBeHandled(frame),
         ReassemblerUnchanged
  PROVE  Collects'
<1>1. mReassembledFrames' = <<>> /\ mFragments' = mFragments
  BY QueueEmpty DEF ReassemblerUnchanged
<1>2. ASSUME NEW s \in Source, mFragments'[s] # <<>> PROVE SessionOK(s)'
  <2>1. SessionOK(s) /\ mFragments'[s] = mFragments[s]
    BY <1>1, <1>2 DEF SniffOK, Collects
  <2>2. frame = NoFrame \/ ~PartOf(frame, s)
    BY DEF PartOf
  <2>3. \A o : LastHad(s, o) => LastHad(s, o)'
    BY <2>2, HadBefore
  <2> QED
    BY <2>1, <2>3, ReturnedKeeps, SessionStays
<1> QED
  BY <1>1, <1>2 DEF Collects, QueueOK

\* A frame the factory makes nothing of.
LEMMA IgnoredKeeps ==
  ASSUME InRcv, SniffOK, SniffIgnored
  PROVE  SniffOK'
<1>1. Returned /\ ReassemblerUnchanged /\ shown' = shown /\ Decoded = "null"
  BY DEF SniffIgnored
<1>2. frame = NoFrame \/ ~Bam!toBeHandled(frame)
  BY <1>1 DEF Decoded, Bam!toBeHandled
<1>3. Collects'
  BY <1>1, <1>2, PlainKeeps
<1>4. \A f \in shown' : ShownOK(f)'
  BY <1>1, ReturnedKeeps, ShownStays DEF SniffOK
<1> QED
  BY <1>1, <1>3, <1>4 DEF SniffOK, ReassemblerUnchanged

\* A frame that is shown at once.
LEMMA SimpleKeeps ==
  ASSUME InRcv, SniffOK, SniffSimple
  PROVE  SniffOK'
<1>1. /\ Returned /\ ReassemblerUnchanged
      /\ \/ frame = NoFrame /\ Show(Blank)
         \/ frame # NoFrame /\ Show(frame) /\ ~Bam!toBeHandled(frame)
  BY DEF SniffSimple
<1>2. Collects'
  BY <1>1, PlainKeeps
<1>3. ASSUME frame = NoFrame PROVE \A x \in shown' : ShownOK(x)'
  <2>1. shown' \subseteq shown \cup {Blank}
    BY <1>1, <1>3 DEF Show, Blank
  <2>2. \A x \in shown' : ShownOK(x)
    BY <2>1 DEF SniffOK, ShownOK
  <2> QED
    BY <1>1, <2>2, ReturnedKeeps, ShownStays
<1>4. ASSUME frame # NoFrame PROVE \A x \in shown' : ShownOK(x)'
  <2>1. frame \in Frames /\ frame.kind = "Other" /\ frame.pgn \in Pgn /\ Seen(frame.src)
    BY <1>1, <1>4, CameFrame
  <2>2. PICK f : f = frame
    OBVIOUS
  <2>3. ListenInv /\ IsSniffer /\ Kept /\ \A x \in shown : ShownOK(x)
    BY <1>1, ReturnedKeeps DEF InRcv, SniffOK
  <2>4. /\ Show(f) /\ f.pgn \in Pgn /\ Seen(f.src) /\ f \in Frames /\ f.kind = "Other"
    BY <1>1, <1>4, <2>1, <2>2
  <2> QED
    BY <2>3, <2>4, ShowKeeps
<1>5. \A x \in shown' : ShownOK(x)'
  BY <1>3, <1>4
<1> QED
  BY <1>1, <1>2, <1>5 DEF SniffOK, ReassemblerUnchanged

\* A message that was put together is shown.
LEMMA WholeKeeps ==
  ASSUME InRcv, SniffOK, SniffWhole
  PROVE  SniffOK'
<1>1. /\ mReassembledFrames # <<>> /\ mReassembledFrames' = Tail(mReassembledFrames)
      /\ Show(Head(mReassembledFrames)) /\ Returned /\ mFragments' = mFragments
  BY DEF SniffWhole
<1>2. /\ frame # NoFrame /\ Bam!toBeHandled(frame) /\ mFragments[frame.src] = <<>>
      /\ \E g : mReassembledFrames = <<g>> /\ WholeOK(g)
  BY <1>1 DEF SniffOK, Collects, QueueOK
<1>3. PICK g : mReassembledFrames = <<g>> /\ WholeOK(g)
  BY <1>2
<1>4. Head(mReassembledFrames) = g /\ mReassembledFrames' = <<>>
  BY <1>1, <1>3
<1>5. \A x \in shown' : ShownOK(x)'
  <2>1. ListenInv /\ IsSniffer /\ Kept /\ \A x \in shown : ShownOK(x)
    BY <1>1, ReturnedKeeps DEF InRcv, SniffOK
  <2>2. Show(g) /\ g.pgn \in Pgn /\ Seen(g.src) /\ (Unique(g.src) => \E m \in Message : g = Bam!Sent(m))
    BY <1>1, <1>3, <1>4 DEF WholeOK
  <2> QED
    BY <2>1, <2>2, ShowKeeps
<1>6. ASSUME NEW s \in Source, mFragments'[s] # <<>> PROVE SessionOK(s)'
  <2>1. SessionOK(s) /\ mFragments'[s] = mFragments[s]
    BY <1>1, <1>6 DEF SniffOK, Collects
  <2>2. ~PartOf(frame, s)
    BY <1>1, <1>2, <1>6 DEF PartOf
  <2>3. \A o : LastHad(s, o) => LastHad(s, o)'
    BY <1>1, <2>2, HadBefore
  <2> QED
    BY <1>1, <2>1, <2>3, ReturnedKeeps, SessionStays
<1> QED
  BY <1>1, <1>4, <1>5, <1>6 DEF SniffOK, Collects, QueueOK

-----------------------------------------------------------------------------
\* What is put aside for the other sources is left alone.
LEMMA AsideKeeps ==
  ASSUME InRcv, SniffOK, Returned \/ Stays, frame # NoFrame,
         NEW s \in Source, s # frame.src, mFragments'[s] = mFragments[s], mFragments'[s] # <<>>
  PROVE  SessionOK(s)'
<1>1. SessionOK(s)
  BY DEF SniffOK, Collects
<1>2. ASSUME Returned PROVE \A o : LastHad(s, o) => LastHad(s, o)'
  BY <1>2, HadBefore DEF PartOf
<1>3. ASSUME Stays PROVE \A o : LastHad(s, o) => LastHad(s, o)'
  BY <1>3 DEF Stays, LastHad, Stream, LetThrough, AskedFor
<1> QED
  BY <1>1, <1>2, <1>3, ReturnedKeeps, SessionStays

\* A TP.CM begins a session, whatever there was.
LEMMA ConnKeeps ==
  ASSUME InRcv, SniffOK, SniffPart, frame.kind = "BAM"
  PROVE  Collects'
<1>1. PICK s, f : s = frame.src /\ f = frame
  OBVIOUS
<1>2. frame # NoFrame /\ Bam!toBeHandled(frame) /\ mReassembledFrames = <<>>
  BY DEF SniffPart
<1>3. mFragments' = [mFragments EXCEPT ![s] = <<f>>] /\ mReassembledFrames' = <<>>
  BY <1>1, <1>2 DEF SniffPart, Bam!handleFrame, Bam!handleConn
<1>4. Returned
  <2>1. ~LastOfBad /\ ~(mReassembledFrames' # <<>>)
    BY <1>3 DEF LastOfBad
  <2> QED
    BY <2>1 DEF SniffPart
<1>5. s \in Source /\ Seen(s)
  BY <1>1, <1>2, CameFrame
<1>6. PICK m \in Message : f = CanFrame(m, 0) /\ SrcOf[m] = s /\ f.of = <<m, 0>>
  <2>1. PICK m \in Message : \E k \in 0 .. Bam!DataFrames(m) :
                frame = CanFrame(m, k) /\ SrcOf[m] = frame.src /\ frame.of = <<m, k>>
                /\ (k = 0 <=> frame.kind = "BAM")
    BY <1>2, CameFrame
  <2> QED
    BY <1>1, <2>1
<1>7. PICK q : q = <<f>>
  OBVIOUS
<1>8. IsSeq(q) /\ Len(q) # 0 /\ q[1] = CanFrame(m, 0) /\ q = <<CanFrame(m, 0)>>
  BY <1>6, <1>7, SmallSeqs
<1>9. Prefix(q, m, 0)
  BY <1>8, SinglePrefix
<1>10. LastHad(s, <<m, 0>>)'
  <2>1. PICK o : o = <<m, 0>>
    OBVIOUS
  <2>2. s = frame.src /\ o = frame.of
    BY <1>1, <1>6, <2>1
  <2>3. LastHad(s, o)'
    BY <1>2, <1>4, <2>2, HadNow
  <2> QED
    BY <2>1, <2>3
<1>11. Session(q, s)'
  BY <1>6, <1>8, <1>9, <1>10 DEF Session
<1>12. mFragments'[s] = q /\ \A x \in Source : x # s => mFragments'[x] = mFragments[x]
  BY <1>3, <1>5, <1>7 DEF SniffOK
<1>13. Seen(s)'
  BY <1>4, <1>5, ReturnedKeeps DEF Kept
<1>14. SessionOK(s)'
  BY <1>6, <1>8, <1>11, <1>12, <1>13 DEF SessionOK
<1>15. ASSUME NEW x \in Source, mFragments'[x] # <<>> PROVE SessionOK(x)'
  BY <1>1, <1>2, <1>4, <1>12, <1>14, <1>15, AsideKeeps
<1> QED
  BY <1>3, <1>15 DEF Collects, QueueOK

\* A packet nobody waits for.
LEMMA UnexpectedKeeps ==
  ASSUME InRcv, SniffOK, SniffPart, frame.kind = "DT", ~Bam!Expected(frame)
  PROVE  Collects'
<1>1. PICK s : s = frame.src
  OBVIOUS
<1>2. frame # NoFrame /\ mReassembledFrames = <<>>
  BY DEF SniffPart
<1>3. mFragments' = mFragments /\ mReassembledFrames' = <<>>
  BY <1>2 DEF SniffPart, Bam!handleFrame, Bam!handleData, Bam!Unexpected
<1>4. Returned
  <2>1. ~LastOfBad /\ ~(mReassembledFrames' # <<>>)
    BY <1>3 DEF LastOfBad
  <2> QED
    BY <2>1 DEF SniffPart
<1>5. s \in Source
  BY <1>1, <1>2, CameFrame
<1>6. ASSUME mFragments'[s] # <<>> PROVE SessionOK(s)'
  <2>1. PICK q : q = mFragments[s]
    OBVIOUS
  <2>2. SessionOK(s) /\ q # <<>> /\ mFragments'[s] = q
    BY <1>3, <1>5, <1>6, <2>1 DEF SniffOK, Collects
  <2>3. ASSUME Unique(s) PROVE Session(q, s)'
    <3>1. PICK m \in Message : SrcOf[m] = s /\ ~Small(m) /\ q = <<CanFrame(m, 0)>>
      BY <1>1, <1>2, <2>1, <2>2, <2>3, GoesOn
    <3> QED
      BY <3>1 DEF Session
  <2>4. Kept
    BY <1>4, ReturnedKeeps
  <2>5. Seen(s)' /\ (Unique(s)' => Unique(s))
    BY <2>2, <2>4 DEF Kept, SessionOK
  <2>6. /\ IsSeq(q) /\ Len(q) # 0
        /\ \E m \in Message : SrcOf[m] = s /\ q[1] = CanFrame(m, 0)
    BY <2>1, <2>2 DEF SessionOK
  <2> QED
    BY <2>2, <2>3, <2>5, <2>6 DEF SessionOK
<1>7. ASSUME NEW x \in Source, mFragments'[x] # <<>> PROVE SessionOK(x)'
  BY <1>1, <1>2, <1>3, <1>4, <1>6, <1>7, AsideKeeps
<1> QED
  BY <1>3, <1>7 DEF Collects, QueueOK

\* The next packet, and more to come.
LEMMA NextKeeps ==
  ASSUME InRcv, SniffOK, SniffPart, frame.kind = "DT", Bam!Expected(frame),
         frame.sq # Head(mFragments[frame.src]).packets
  PROVE  Collects'
<1>1. PICK s, f, q, t : s = frame.src /\ f = frame /\ q = mFragments[s] /\ t = Append(q, f)
  OBVIOUS
<1>2. frame # NoFrame /\ mReassembledFrames = <<>> /\ Bam!toBeHandled(frame)
  BY DEF SniffPart
<1>3. mFragments' = [mFragments EXCEPT ![s] = t] /\ mReassembledFrames' = <<>>
  BY <1>1, <1>2 DEF SniffPart, Bam!handleFrame, Bam!handleData
<1>4. Returned
  <2>1. ~LastOfBad /\ ~(mReassembledFrames' # <<>>)
    BY <1>3 DEF LastOfBad
  <2> QED
    BY <2>1 DEF SniffPart
<1>5. s \in Source
  BY <1>1, <1>2, CameFrame
<1>6. mFragments'[s] = t /\ \A x \in Source : x # s => mFragments'[x] = mFragments[x]
  BY <1>3, <1>5 DEF SniffOK
<1>7. q # <<>> /\ SessionOK(s)
  BY <1>1, <1>5 DEF SniffOK, Collects, Bam!Expected
<1>8. /\ IsSeq(q) /\ Len(q) # 0 /\ Seen(s)
      /\ \E m \in Message : SrcOf[m] = s /\ q[1] = CanFrame(m, 0)
  BY <1>1, <1>7 DEF SessionOK
<1>9. IsSeq(t) /\ Len(t) # 0 /\ t[1] = q[1]
  <2>1. Len(q) \in Nat
    BY <1>8, SeqFacts
  <2>2. IsSeq(t) /\ Len(t) = Len(q) + 1 /\ \A i \in 1 .. Len(q) : t[i] = q[i]
    BY <1>1, <1>8, SeqFacts
  <2>3. 1 \in 1 .. Len(q)
    BY <1>8, <2>1
  <2> QED
    BY <2>1, <2>2, <2>3
<1>10. ASSUME Unique(s) PROVE Session(t, s)'
  <2>1. PICK m \in Message :
           /\ SrcOf[m] = s /\ Small(m)
           /\ \E j \in Nat : frame.of = <<m, j>> /\ Prefix(Append(q, frame), m, j)
    BY <1>1, <1>2, <1>7, <1>10, GoesOn
  <2>2. PICK j \in Nat : frame.of = <<m, j>> /\ Prefix(t, m, j)
    BY <1>1, <2>1
  <2>3. PICK o : o = <<m, j>>
    OBVIOUS
  <2>4. s = frame.src /\ o = frame.of
    BY <1>1, <2>2, <2>3
  <2>5. LastHad(s, o)'
    BY <1>2, <1>4, <2>4, HadNow
  <2> QED
    BY <2>1, <2>2, <2>3, <2>5 DEF Session
<1>11. Seen(s)' /\ (Unique(s)' => Unique(s))
  BY <1>4, <1>8, ReturnedKeeps DEF Kept
<1>12. SessionOK(s)'
  BY <1>6, <1>8, <1>9, <1>10, <1>11 DEF SessionOK
<1>13. ASSUME NEW x \in Source, mFragments'[x] # <<>> PROVE SessionOK(x)'
  BY <1>1, <1>2, <1>4, <1>6, <1>12, <1>13, AsideKeeps
<1> QED
  BY <1>3, <1>13 DEF Collects, QueueOK

\* The last packet: the message is what was sent.
LEMMA LastKeeps ==
  ASSUME InRcv, SniffOK, SniffPart, frame.kind = "DT", Bam!Expected(frame),
         frame.sq = Head(mFragments[frame.src]).packets, ~LastOfBad
  PROVE  Collects'
<1>1. PICK s, f, q, t : s = frame.src /\ f = frame /\ q = mFragments[s] /\ t = Append(q, f)
  OBVIOUS
<1>2. frame # NoFrame /\ mReassembledFrames = <<>> /\ Bam!toBeHandled(frame)
  BY DEF SniffPart
<1>3. s \in Source
  BY <1>1, <1>2, CameFrame
<1>4. q # <<>> /\ SessionOK(s)
  BY <1>1, <1>3 DEF SniffOK, Collects, Bam!Expected
<1>5. PICK n \in Message : SrcOf[n] = s /\ q[1] = CanFrame(n, 0)
  BY <1>1, <1>4 DEF SessionOK
<1>6. IsSeq(q) /\ Len(q) # 0 /\ Seen(s)
  BY <1>1, <1>4 DEF SessionOK
<1>7. Head(q) = q[1] /\ Head(t) = q[1]
  <2>1. Len(q) \in Nat
    BY <1>6, SeqFacts
  <2>2. IsSeq(t) /\ Len(t) = Len(q) + 1 /\ \A i \in 1 .. Len(q) : t[i] = q[i]
    BY <1>1, <1>6, SeqFacts
  <2>3. 1 \in 1 .. Len(q) /\ Len(t) # 0
    BY <1>6, <2>1, <2>2
  <2> QED
    BY <1>6, <2>2, <2>3, HeadFirst
<1>8. PICK cm : cm = q[1] /\ cm.src = s /\ cm.pgn = PgnOf[n] /\ cm.packets = f.sq
  BY <1>1, <1>5, <1>7, ConnFields
<1>9. PICK g : g = [src |-> cm.src, pgn |-> cm.pgn, data |-> Bam!reassemble(t)]
  OBVIOUS
<1>10. Factory[cm.pgn] # "throw"
  BY <1>1, <1>7, <1>8 DEF LastOfBad
<1>11. /\ mFragments' = [mFragments EXCEPT ![s] = <<>>]
       /\ \/ mReassembledFrames' = Append(mReassembledFrames, g)
          \/ mReassembledFrames' = mReassembledFrames
  <2>1. Bam!Complete(s, t)
    BY <1>1 DEF SniffPart, Bam!handleFrame, Bam!handleData
  <2> QED
    BY <1>7, <1>8, <1>9, <1>10, <2>1 DEF Bam!Complete
<1>12. mFragments'[s] = <<>> /\ \A x \in Source : x # s => mFragments'[x] = mFragments[x]
  BY <1>3, <1>11 DEF SniffOK
<1>13. WholeOK(g)
  <2>1. g.src = s /\ g.pgn = PgnOf[n] /\ PgnOf[n] \in Pgn
    BY <1>8, <1>9, MessageFacts
  <2>2. ASSUME Unique(s) PROVE \E m \in Message : g = Bam!Sent(m)
    <3>1. PICK m \in Message :
             /\ SrcOf[m] = s /\ Small(m)
             /\ \E j \in Nat : /\ frame.of = <<m, j>> /\ Prefix(Append(q, frame), m, j)
                               /\ frame.sq = q[1].packets => j = Bam!Packets(m)
      BY <1>1, <1>2, <1>4, <2>2, GoesOn
    <3>2. Prefix(t, m, Bam!Packets(m))
      BY <1>1, <1>8, <3>1
    <3>3. Bam!reassemble(t) = Bam!Bytes(m)
      BY <3>1, <3>2, WholeMessage
    <3>4. t[1] = CanFrame(m, 0)
      <4>1. Bam!Packets(m) \in Nat
        BY MessageFacts
      <4>2. 1 \in 1 .. Bam!Packets(m) + 1 /\ 1 - 1 = 0
        BY <4>1
      <4> QED
        BY <3>2, <4>2 DEF Prefix
    <3>5. t[1] = q[1]
      <4>1. Len(q) \in Nat /\ \A i \in 1 .. Len(q) : t[i] = q[i]
        BY <1>1, <1>6, SeqFacts
      <4> QED
        BY <1>6, <4>1
    <3>6. cm.pgn = PgnOf[m]
      BY <1>8, <3>4, <3>5, ConnFields
    <3> QED
      BY <1>8, <1>9, <3>1, <3>3, <3>6 DEF Bam!Sent
  <2> QED
    BY <1>6, <2>1, <2>2 DEF WholeOK
<1>14. Returned \/ Stays
  BY DEF SniffPart
<1>15. QueueOK'
  <2>1. CASE mReassembledFrames' = <<>>
    BY <2>1 DEF QueueOK
  <2>2. CASE mReassembledFrames' = Append(mReassembledFrames, g)
    <3>1. mReassembledFrames' = <<g>>
      BY <1>2, <2>2
    <3>2. mReassembledFrames' # <<>>
      BY <3>1
    <3>3. Stays
      BY <3>2 DEF SniffPart
    <3>4. thread' = "callback" /\ frame' = frame
      BY <3>3 DEF Stays, snifferVars, InRcv
    <3>5. WholeOK(g)'
      BY <1>13, <3>3, ReturnedKeeps, WholeStays
    <3>6. mFragments'[frame'.src] = <<>>
      BY <1>1, <1>12, <3>4
    <3> QED
      BY <1>2, <3>1, <3>4, <3>5, <3>6 DEF QueueOK, Bam!toBeHandled
  <2> QED
    BY <1>2, <1>11, <2>1, <2>2
<1>16. ASSUME NEW x \in Source, mFragments'[x] # <<>> PROVE SessionOK(x)'
  BY <1>1, <1>2, <1>12, <1>14, <1>16, AsideKeeps
<1> QED
  BY <1>15, <1>16 DEF Collects

\* A part of a message, whichever it is.
LEMMA PartKeeps ==
  ASSUME InRcv, SniffOK, SniffPart
  PROVE  DOMAIN mFragments' = Source /\ (\A x \in shown' : ShownOK(x)') /\ (~terminated' => Collects')
<1>1. /\ frame # NoFrame /\ Bam!toBeHandled(frame) /\ shown' = shown
      /\ Bam!handleFrame(frame) /\ (Returned \/ Stays)
  BY DEF SniffPart
<1>2. \A x \in shown' : ShownOK(x)'
  BY <1>1, ReturnedKeeps, ShownStays DEF SniffOK
<1>3. frame.kind = "BAM" \/ frame.kind = "DT"
  BY <1>1 DEF Bam!toBeHandled
<1>4. DOMAIN mFragments' = Source
  <2>1. DOMAIN mFragments = Source
    BY DEF SniffOK
  <2> QED
    BY <1>1, <2>1 DEF Bam!handleFrame, Bam!handleConn, Bam!handleData, Bam!Complete, Bam!Unexpected
<1>5. ASSUME ~terminated' PROVE Collects'
  <2>1. ~LastOfBad
    <3>1. terminated' = LastOfBad
      BY DEF SniffPart
    <3> QED
      BY <1>5, <3>1, Zenon
  <2> QED
    BY <1>3, <2>1, ConnKeeps, UnexpectedKeeps, NextKeeps, LastKeeps
<1> QED
  BY <1>2, <1>4, <1>5

\* The callback of the sniffer keeps the invariant.
LEMMA RcvKeepsSniff ==
  ASSUME InRcv, SniffInv, ~terminated, SniffFrame
  PROVE  SniffInv'
<1>1. SniffOK
  BY DEF SniffInv, SniffOK, InRcv
<1>2. CASE SniffIgnored
  BY <1>1, <1>2, IgnoredKeeps DEF SniffOK, SniffInv
<1>3. CASE SniffThrows
  <2>1. Stays /\ terminated' = TRUE /\ mFragments' = mFragments /\ shown' = shown
    BY <1>3 DEF SniffThrows, ReassemblerUnchanged
  <2>2. \A f \in shown' : ShownOK(f)'
    BY <1>1, <2>1, ReturnedKeeps, ShownStays DEF SniffOK
  <2> QED
    BY <1>1, <2>1, <2>2 DEF SniffInv, SniffOK
<1>4. CASE SniffSimple
  BY <1>1, <1>4, SimpleKeeps DEF SniffOK, SniffInv
<1>5. CASE SniffPart
  BY <1>1, <1>5, PartKeeps DEF SniffInv
<1>6. CASE SniffWhole
  BY <1>1, <1>6, WholeKeeps DEF SniffOK, SniffInv
<1> QED
  BY <1>2, <1>3, <1>4, <1>5, <1>6 DEF SniffFrame

\* And so does every other step.
LEMMA SniffNext == ListenInv /\ StreamInv /\ SniffInv /\ [Next]_vars => SniffInv'
<1> SUFFICES ASSUME ListenInv, StreamInv, SniffInv, [Next]_vars PROVE SniffInv'
  OBVIOUS
<1>1. CASE ~IsSniffer
  <2>1. program' = program
    BY DEF Next, vars, Bus, SendPart, SendSingle, FailRead, OnBus, Failing, Listens, MainThread, Main,
           Thread, onRcv, MapName, SniffFrame, SniffIgnored, SniffThrows, SniffSimple, SniffPart,
           SniffWhole, Returned, Stays, listenerVars
  <2> QED
    BY <1>1, <2>1 DEF SniffInv, IsSniffer
<1> SUFFICES ASSUME IsSniffer PROVE SniffInv'
  BY <1>1
<1>2. ASSUME NEW r \in Receivers, IsSeq(Stream(r)), Stream(r)' = Stream(r)
      PROVE  Same(Stream(r), Stream(r)', Len(Stream(r)))
  BY <1>2 DEF Same
<1>3. ASSUME UNCHANGED <<program, arrived>>
      PROVE  Kept /\ \A r \in Receivers : Same(Stream(r), Stream(r)', Len(Stream(r)))
  <2>1. \A r \in Receivers : Stream(r)' = Stream(r)
    BY <1>3 DEF Stream, LetThrough, AskedFor
  <2> QED
    BY <1>2, <1>3, <2>1, NothingNew, StreamSeq
<1>4. ASSUME ~terminated PROVE mReassembledFrames # <<>> => thread = "callback"
  BY <1>4 DEF SniffInv, Collects, QueueOK
<1>5. ASSUME ~terminated, Bus PROVE SniffInv'
  <2>1. UNCHANGED sniffVars
    BY <1>5 DEF Bus
  <2>2. CASE FailRead
    <3>1. UNCHANGED <<program, arrived, handed, terminated, thread, frame>>
      BY <2>2 DEF FailRead, Failing, Fail, listenerVars
    <3> QED
      BY <1>3, <2>1, <3>1, ElsewhereKeepsSniff
  <2>3. ASSUME NEW r \in Receivers, NEW f \in Frames, OnBus(r, f) PROVE SniffInv'
    <3>1. UNCHANGED <<handed, terminated, thread, frame>>
      BY <2>3 DEF OnBus, Arrive
    <3>2. Kept
      BY <2>3, ArriveStream, NothingLost
    <3>3. ASSUME NEW q \in Receivers PROVE Same(Stream(q), Stream(q)', Len(Stream(q)))
      <4>1. PICK a, b : a = Stream(q) /\ b = Stream(q)'
        OBVIOUS
      <4>2. b = a \/ b = Append(a, f)
        BY <2>3, <4>1, ArriveStream
      <4>3. IsSeq(a)
        BY <4>1, StreamSeq
      <4>4. \A i \in 1 .. Len(a) : b[i] = a[i]
        BY <4>2, <4>3, SeqFacts
      <4> QED
        BY <4>1, <4>4 DEF Same
    <3> QED
      BY <2>1, <3>1, <3>2, <3>3, ElsewhereKeepsSniff
  <2>4. ASSUME NEW m \in Message, SendPart(m) PROVE SniffInv'
    <3>1. OnBus(OnBusOf[m], CanFrame(m, progress[m])) /\ ~(progress[m] > Bam!DataFrames(m))
      BY <2>4 DEF SendPart, Done
    <3>2. progress[m] \in Nat /\ Bam!DataFrames(m) \in Nat
      BY MessageFacts DEF ListenInv, ProgramOK
    <3>3. progress[m] \in 0 .. Bam!DataFrames(m)
      BY <3>1, <3>2
    <3>4. OnBusOf[m] \in Receivers /\ CanFrame(m, progress[m]) \in Frames
      BY <3>3, ListenersAssumption
    <3> QED
      BY <2>3, <3>1, <3>4
  <2>5. CASE SendSingle
    <3>1. PICK r \in Receivers, f \in Traffic[program].singles : OnBus(r, f)
      BY <2>5 DEF SendSingle
    <3>2. f \in Frames
      BY <3>1, ProgramFilters DEF ListenInv
    <3> QED
      BY <2>3, <3>1, <3>2
  <2> QED
    BY <1>5, <2>2, <2>4, <2>5 DEF Bus
<1>6. ASSUME ~terminated, Listens PROVE SniffInv'
  <2>1. CASE MainThread
    <3>1. UNCHANGED <<program, arrived, handed, terminated, sniffVars>>
      BY <2>1 DEF MainThread, Main, listenerVars
    <3>2. thread = "callback" => UNCHANGED <<thread, frame>>
      BY <2>1 DEF MainThread, Main, setFilters, sniff
    <3> QED
      BY <1>3, <1>4, <1>6, <3>1, <3>2, ElsewhereKeepsSniff
  <2>2. CASE onRcv
    <3>1. SniffFrame /\ thread = "callback"
      BY <2>2 DEF onRcv, IsSniffer, SniffFrame
    <3> QED
      BY <1>6, <3>1, RcvKeepsSniff DEF InRcv
  <2>3. CASE Sniffer /\ UNCHANGED <<listenerVars, names, sniffVars>>
    <3>1. UNCHANGED <<program, arrived, handed, terminated, sniffVars>> /\ thread # "callback"
      BY <2>3 DEF listenerVars, Sniffer, wait_fd, WaitTimeout, notify, NotifyEnds, Check
    <3> QED
      BY <1>3, <1>4, <1>6, <3>1, ElsewhereKeepsSniff
  <2> QED
    BY <1>6, <2>1, <2>2, <2>3 DEF Listens, Thread
<1>7. CASE UNCHANGED vars
  <2>1. UNCHANGED <<program, arrived, handed, terminated, sniffVars, thread, frame>>
    BY <1>7 DEF vars, listenerVars, snifferVars
  <2> QED
    BY <1>3, <2>1, ElsewhereKeepsSniff
<1> QED
  BY <1>5, <1>6, <1>7 DEF Next

(***************************************************************************)
(* Whatever the buses carry, in whatever order it arrives between the      *)
(* opening of the interfaces, the filters and sniff(), and wherever reads  *)
(* fail: what j1939Sniffer shows was asked for, and unless two interfaces  *)
(* have the source in common it was sent as it is shown (onRcv,            *)
(* BamReassembler::handleFrame, BamFragmenter::fragment).                  *)
(***************************************************************************)
THEOREM SnifferShowsWhatWasSent == Spec => []ShownIsSent
<1>1. Init => ListenInv /\ StreamInv /\ SniffInv
  BY InvInit, StreamInit, SniffInitially
<1>2. ListenInv /\ StreamInv /\ SniffInv /\ [Next]_vars => (ListenInv /\ StreamInv /\ SniffInv)'
  BY InvNext, StreamNext, SniffNext
<1>3. ListenInv /\ StreamInv /\ SniffInv => ShownIsSent
  BY SniffIsShown
<1> QED
  BY <1>1, <1>2, <1>3, PTL DEF Spec
=============================================================================

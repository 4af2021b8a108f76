------------------------ MODULE AddressClaimer_proofs ------------------------
(***************************************************************************)
(* Proofs about AddressClaimer for every set of ECUs, every assignment of  *)
(* NAMEs (equal ones included) and every list of preferred addresses.      *)
(***************************************************************************)
EXTENDS AddressClaimer, TLAPS

\* A claim is a frame.
LEMMA ClaimType ==
  ASSUME NEW n \in Nodes, NEW a \in Address
  PROVE  Claim(n, a) \in Frame
BY ConstantsAssumption
DEF Claim, Frame, Address, ADDRESS_CLAIM_PGN, J1939_BROADCAST_ADDRESS

\* sendFrame fills the receive queues with frames only.
LEMMA SendType ==
  ASSUME TypeOK, NEW n \in Nodes, NEW f \in Frame, sendFrame(n, f)
  PROVE  rx' \in [Nodes -> Seq(Frame)] /\ lost' \in Nat
<1>1. \A m \in Nodes : Append(rx[m], f) \in Seq(Frame)
  BY DEF TypeOK
<1>2. CASE rx' = [m \in Nodes |-> IF m = n \/ pc[m] = "off"
                                  THEN rx[m] ELSE Append(rx[m], f)]
           /\ UNCHANGED lost
  BY <1>1, <1>2 DEF TypeOK
<1>3. CASE lost' = lost + 1 /\ UNCHANGED rx
  BY <1>3 DEF TypeOK
<1> QED
  BY <1>2, <1>3 DEF sendFrame

\* read takes a frame out of the mailbox.
LEMMA ReadType ==
  ASSUME TypeOK, NEW n \in Nodes, NEW f, read(n, f)
  PROVE  mFrames' \in [Nodes -> SUBSET Frame] /\ f \in Frame
BY DEF TypeOK, read

\* Rotating the queue of preferred addresses keeps its type.
LEMMA RotateType ==
  ASSUME NEW q \in AddressQueue
  PROVE  /\ Head(q) \in Address
         /\ Append(Tail(q), Head(q)) \in AddressQueue
BY DEF AddressQueue

\* J1939_INVALID_ADDRESS is one of the addresses.
LEMMA InvalidIsAddress == J1939_INVALID_ADDRESS \in Address
BY DEF J1939_INVALID_ADDRESS, Address

(***************************************************************************)
(* Every step keeps every variable in its type.                            *)
(***************************************************************************)
LEMMA TypeStep == TypeOK /\ [Next]_vars => TypeOK'
<1> SUFFICES ASSUME TypeOK, [Next]_vars PROVE TypeOK'
  OBVIOUS
<1> USE DEF PC, Goto
<1>1. ASSUME NEW n \in Nodes, Start(n) PROVE TypeOK'
  BY <1>1 DEF TypeOK, Start
<1>2. ASSUME NEW n \in Nodes, Receive(n) PROVE TypeOK'
  <2>1. Head(rx[n]) \in Frame /\ Tail(rx[n]) \in Seq(Frame)
    BY <1>2 DEF TypeOK, Receive
  <2>2. rx' \in [Nodes -> Seq(Frame)]
    BY <1>2, <2>1 DEF TypeOK, Receive
  <2>3. mFrames' \in [Nodes -> SUBSET Frame]
    BY <1>2, <2>1 DEF TypeOK, Receive
  <2> QED
    BY <1>2, <2>2, <2>3 DEF TypeOK, Receive
<1>3. ASSUME NEW n \in Nodes, Begin(n) PROVE TypeOK'
  BY <1>3, InvalidIsAddress DEF TypeOK, Begin
<1>4. ASSUME NEW n \in Nodes, CannotClaim(n) PROVE TypeOK'
  <2>1. rx' \in [Nodes -> Seq(Frame)] /\ lost' \in Nat
    BY <1>4, ClaimType, SendType, InvalidIsAddress DEF CannotClaim
  <2> QED
    BY <1>4, <2>1 DEF TypeOK, CannotClaim
<1>5. ASSUME NEW n \in Nodes, TryNext(n) PROVE TypeOK'
  <2>1. /\ Head(mPreferred[n]) \in Address
        /\ Append(Tail(mPreferred[n]), Head(mPreferred[n]))
             \in AddressQueue
    BY RotateType DEF TypeOK
  <2>2. rx' \in [Nodes -> Seq(Frame)] /\ lost' \in Nat
    BY <1>5, <2>1, ClaimType, SendType DEF TryNext, Announce
  <2>3. mPreferred' \in [Nodes -> AddressQueue]
    BY <1>5, <2>1 DEF TypeOK, TryNext
  <2>4. address' \in [Nodes -> Address]
    BY <1>5, <2>1 DEF TypeOK, TryNext
  <2> QED
    BY <1>5, <2>2, <2>3, <2>4 DEF TypeOK, TryNext, Announce
<1>6. ASSUME NEW n \in Nodes, Retry(n) PROVE TypeOK'
  <2>1. rx' \in [Nodes -> Seq(Frame)] /\ lost' \in Nat
    BY <1>6, ClaimType, SendType DEF Retry, Announce, TypeOK
  <2> QED
    BY <1>6, <2>1 DEF TypeOK, Retry, Announce
<1>7. ASSUME NEW n \in Nodes, Timeout(n) \/ SpuriousWakeup(n) PROVE TypeOK'
  BY <1>7 DEF TypeOK, Timeout, SpuriousWakeup, Obtain
<1>8. ASSUME NEW n \in Nodes, Answer(n) PROVE TypeOK'
  <2>1. rx' \in [Nodes -> Seq(Frame)] /\ lost' \in Nat
    BY <1>8, ClaimType, SendType DEF Answer, TypeOK
  <2> QED
    BY <1>8, <2>1 DEF TypeOK, Answer
<1>9. ASSUME NEW n \in Nodes, Read(n) PROVE TypeOK'
  <2> PICK f \in mFrames[n] :
        \/ Contend(n, f) \/ OtherClaim(n, f) \/ DropRequest(n, f)
        \/ MainRequest(n, f) \/ processAddressClaim(n, f)
    BY <1>9 DEF Read
  <2>1. mFrames' \in [Nodes -> SUBSET Frame]
    BY ReadType DEF Contend, OtherClaim, DropRequest, MainRequest,
                    processAddressClaim
  <2>2. CASE Contend(n, f)
    BY <2>1, <2>2 DEF TypeOK, Contend
  <2>3. CASE OtherClaim(n, f)
    BY <2>1, <2>3 DEF TypeOK, OtherClaim
  <2>4. CASE DropRequest(n, f)
    BY <2>1, <2>4 DEF TypeOK, DropRequest, Obtain
  <2>5. CASE MainRequest(n, f)
    BY <2>1, <2>5 DEF TypeOK, MainRequest
  <2>6. CASE processAddressClaim(n, f)
    BY <2>1, <2>6 DEF TypeOK, processAddressClaim
  <2> QED
    BY <2>2, <2>3, <2>4, <2>5, <2>6
<1>10. CASE Request
  BY <1>10, ConstantsAssumption DEF TypeOK, Request
<1>11. CASE Tick
  BY <1>11 DEF TypeOK, Tick
<1>12. CASE UNCHANGED vars
  BY <1>12 DEF TypeOK, vars
<1> QED
  BY <1>1, <1>2, <1>3, <1>4, <1>5, <1>6, <1>7, <1>8, <1>9, <1>10, <1>11, <1>12
  DEF Next, Claimer

(***************************************************************************)
(* The variables of the model, and so the fields of every AddressClaimer,  *)
(* keep their types; the queue of preferred addresses never runs empty.    *)
(***************************************************************************)
THEOREM TypeCorrect == Spec => []TypeOK
<1>1. Init => TypeOK
  BY ConstantsAssumption, InvalidIsAddress DEF Init, TypeOK, PC
<1> QED
  BY <1>1, TypeStep, PTL DEF Spec

-----------------------------------------------------------------------------
(***************************************************************************)
(* No silent conflict.  What a step does to one ECU n that occupies a      *)
(* usable address afterwards is one of two things: it leaves the address   *)
(* as it was and takes no alert away (Steady), or it announces the address *)
(* to everybody (Announced).                                               *)
(***************************************************************************)
Steady(n) ==
  /\ Occupied(n)' = Occupied(n)
  /\ Alerted(n, Occupied(n)) => Alerted(n, Occupied(n))'

Announced(n) ==
  \A m \in Nodes \ {n} : pc'[m] # "off" => ClaimPending(m, Occupied(n))'

\* A frame that arrives takes no alert away.
LEMMA AppendKeepsPending ==
  ASSUME TypeOK, NEW n \in Nodes, NEW a \in Address, NEW f \in Frame,
         rx'[n] \in {rx[n], Append(rx[n], f)}, mFrames'[n] = mFrames[n],
         ClaimPending(n, a)
  PROVE  ClaimPending(n, a)'
<1>1. \A i \in 1 .. Len(rx[n]) : i \in 1 .. Len(rx'[n]) /\ rx'[n][i] = rx[n][i]
  BY DEF TypeOK
<1> QED
  BY <1>1 DEF ClaimPending, IsClaimOf

\* A transmission that succeeds reaches every other running ECU.
LEMMA SendAnnounces ==
  ASSUME TypeOK, NEW n \in Nodes, NEW a \in Address, lost' = 0,
         sendFrame(n, Claim(n, a)), NEW m \in Nodes \ {n}, pc[m] # "off"
  PROVE  ClaimPending(m, a)'
<1> DEFINE f == Claim(n, a)
<1>1. rx'[m] = Append(rx[m], f)
  BY DEF sendFrame, TypeOK
<1>2. f \in Frame /\ IsClaimOf(f, a)
  BY ClaimType DEF IsClaimOf, Claim
<1>3. /\ Len(rx[m]) + 1 \in 1 .. Len(rx'[m])
      /\ rx'[m][Len(rx[m]) + 1] = f
  <2> HIDE DEF f
  <2> QED
    BY <1>1, <1>2 DEF TypeOK
<1> QED
  BY <1>2, <1>3 DEF ClaimPending

\* A transmission takes no alert away.
LEMMA SendKeepsPending ==
  ASSUME TypeOK, NEW n \in Nodes, NEW f \in Frame, sendFrame(n, f),
         NEW m \in Nodes, NEW a \in Address, mFrames'[m] = mFrames[m],
         ClaimPending(m, a)
  PROVE  ClaimPending(m, a)'
<1>1. rx'[m] \in {rx[m], Append(rx[m], f)}
  BY DEF sendFrame, TypeOK
<1> QED
  BY <1>1, AppendKeepsPending

\* What an ECU occupies is an address.
LEMMA OccupiedType ==
  ASSUME TypeOK, NEW n \in Nodes
  PROVE  Occupied(n) \in Address
BY InvalidIsAddress DEF TypeOK, Occupied

\* What n's own variables say is unchanged when another ECU steps.
LEMMA OthersKeepOccupied ==
  ASSUME TypeOK, NEW n \in Nodes,
         pc'[n] = pc[n], address'[n] = address[n],
         mCurrentSrc'[n] = mCurrentSrc[n]
  PROVE  Occupied(n)' = Occupied(n)
BY DEF Occupied

\* The identifier tells apart the frames of this protocol.
LEMMA IdentifierSeparates ==
  ASSUME NEW f \in Frame, NEW g \in Frame, Identifier(f) = Identifier(g)
  PROVE  f.pgn = g.pgn /\ f.dst = g.dst /\ f.src = g.src
<1> DEFINE P == {REQUEST_PGN, ADDRESS_CLAIM_PGN}
           Id(p, d, s) == (p + d) * 256 + s
<1>1. ASSUME NEW p \in P, NEW q \in P, NEW d \in Address, NEW e \in Address,
             NEW s \in Address, NEW t \in Address, Id(p, d, s) = Id(q, e, t)
      PROVE  p = q /\ d = e /\ s = t
  <2>1. s = t /\ p + d = q + e
    BY <1>1 DEF Address, REQUEST_PGN, ADDRESS_CLAIM_PGN
  <2> QED
    BY <2>1 DEF Address, REQUEST_PGN, ADDRESS_CLAIM_PGN
<1>2. /\ f.pgn \in P /\ f.dst \in Address /\ f.src \in Address
      /\ g.pgn \in P /\ g.dst \in Address /\ g.src \in Address
  BY DEF Frame
<1>3. Id(f.pgn, f.dst, f.src) = Id(g.pgn, g.dst, g.src)
  BY DEF Identifier
<1> HIDE DEF P, Id
<1> QED
  BY <1>1, <1>2, <1>3

\* Moving a frame from the socket into the mailbox keeps it pending: the
\* frame it replaces has the same identifier, hence the same source.
LEMMA ReceiveKeepsPending ==
  ASSUME TypeOK, NEW n \in Nodes, Receive(n), NEW m \in Nodes,
         NEW a \in Address, ClaimPending(m, a)
  PROVE  ClaimPending(m, a)'
<1>1. CASE m # n
  <2>1. rx'[m] = rx[m] /\ mFrames'[m] = mFrames[m]
    BY <1>1 DEF Receive, TypeOK
  <2> QED
    BY <2>1 DEF ClaimPending, IsClaimOf
<1>2. CASE m = n
  <2> DEFINE f == Head(rx[n])
  <2>1. f \in Frame
    BY DEF Receive, TypeOK
  <2>2. rx'[n] = Tail(rx[n])
    BY DEF Receive, TypeOK
  <2>3. mFrames'[n] = IF toBeHandled(f)
                      THEN {g \in mFrames[n] : Identifier(g) # Identifier(f)}
                             \cup {f}
                      ELSE mFrames[n]
    BY DEF Receive, TypeOK
  <2>4. ASSUME IsClaimOf(f, a) PROVE f \in mFrames'[n]
    BY <2>3, <2>4 DEF toBeHandled, IsClaimOf, ADDRESS_CLAIM_PGN, REQUEST_PGN
  <2>5. ASSUME NEW i \in 1 .. Len(rx[n]), IsClaimOf(rx[n][i], a)
        PROVE  ClaimPending(n, a)'
    <3>1. CASE i = 1
      <4>1. rx[n][i] = f
        BY <3>1 DEF Receive, TypeOK
      <4> QED
        BY <4>1, <2>4, <2>5 DEF ClaimPending
    <3>2. CASE i # 1
      <4>1. i - 1 \in 1 .. Len(Tail(rx[n])) /\ Tail(rx[n])[i - 1] = rx[n][i]
        BY <3>2 DEF Receive, TypeOK
      <4> QED
        BY <4>1, <2>2, <2>5 DEF ClaimPending
    <3> QED
      BY <3>1, <3>2
  <2>6. ASSUME NEW g \in mFrames[n], IsClaimOf(g, a)
        PROVE  ClaimPending(n, a)'
    <3>1. g \in Frame
      BY DEF TypeOK
    <3>2. CASE Identifier(g) = Identifier(f) /\ toBeHandled(f)
      <4>1. IsClaimOf(f, a)
        BY <2>1, <2>6, <3>1, <3>2, IdentifierSeparates DEF IsClaimOf
      <4> QED
        BY <4>1, <2>4 DEF ClaimPending
    <3>3. CASE ~(Identifier(g) = Identifier(f) /\ toBeHandled(f))
      BY <2>3, <2>6, <3>3 DEF ClaimPending
    <3> QED
      BY <3>2, <3>3
  <2> QED
    BY <1>2, <2>5, <2>6 DEF ClaimPending
<1> QED
  BY <1>1, <1>2

\* Reading a frame takes no other claim away.
LEMMA ReadKeepsPending ==
  ASSUME TypeOK, NEW n \in Nodes, NEW f, read(n, f), UNCHANGED rx,
         NEW m \in Nodes, NEW a \in Address,
         m # n \/ ~IsClaimOf(f, a), ClaimPending(m, a)
  PROVE  ClaimPending(m, a)'
<1>1. \A g \in mFrames[m] : IsClaimOf(g, a) => g \in mFrames'[m]
  BY DEF read, TypeOK
<1> QED
  BY <1>1 DEF ClaimPending

\* The auxiliary invariant: an ECU that looks for an address has none.
Unaddressed ==
  \A n \in Nodes : pc[n] \in {"off", "select", "retry", "wait"} =>
                     mCurrentSrc[n] = J1939_INVALID_ADDRESS

\* Every step leaves the ECUs outside of operation without an address.
LEMMA UnaddressedStep == TypeOK /\ Unaddressed /\ [Next]_vars => Unaddressed'
<1> SUFFICES ASSUME TypeOK, Unaddressed, [Next]_vars PROVE Unaddressed'
  OBVIOUS
<1> USE DEF Goto, TypeOK, Unaddressed
<1>1. ASSUME NEW n \in Nodes, Start(n) \/ Receive(n) PROVE Unaddressed'
  BY <1>1 DEF Start, Receive
<1>2. ASSUME NEW n \in Nodes, Begin(n) \/ CannotClaim(n) \/ Answer(n)
      PROVE  Unaddressed'
  BY <1>2 DEF Begin, CannotClaim, Answer
<1>3. ASSUME NEW n \in Nodes, TryNext(n) \/ Retry(n) PROVE Unaddressed'
  BY <1>3 DEF TryNext, Retry, Announce
<1>4. ASSUME NEW n \in Nodes, Timeout(n) \/ SpuriousWakeup(n)
      PROVE  Unaddressed'
  BY <1>4 DEF Timeout, SpuriousWakeup, Obtain
<1>5. ASSUME NEW n \in Nodes, Read(n) PROVE Unaddressed'
  BY <1>5 DEF Read, Contend, OtherClaim, DropRequest, Obtain, MainRequest,
              processAddressClaim
<1>6. CASE Request \/ Tick \/ UNCHANGED vars
  BY <1>6 DEF Request, Tick, vars
<1> QED
  BY <1>1, <1>2, <1>3, <1>4, <1>5, <1>6 DEF Next, Claimer

\* One step, seen from an ECU that occupies a usable address after it.
LEMMA OneStep ==
  ASSUME TypeOK, Unaddressed, [Next]_vars, lost' = 0, NEW n \in Nodes,
         Occupied(n)' \in Usable
  PROVE  Steady(n) \/ Announced(n)
<1> DEFINE a == Occupied(n)
<1>0. a \in Address
  BY OccupiedType
<1> USE DEF Goto
<1>1. ASSUME NEW k \in Nodes, Start(k) PROVE Steady(n)
  <2>1. a' = a
    BY <1>1 DEF Start, Occupied, TypeOK, Usable
  <2>2. Alerted(n, a) => Alerted(n, a)'
    BY <1>1, <2>1 DEF Start, Alerted, ClaimPending, TypeOK
  <2> QED
    BY <2>1, <2>2 DEF Steady
<1>2. ASSUME NEW k \in Nodes, Receive(k) PROVE Steady(n)
  <2>1. a' = a /\ pc' = pc
    BY <1>2 DEF Receive, Occupied
  <2>2. ClaimPending(n, a) => ClaimPending(n, a)'
    <3> HIDE DEF a
    <3>1. \A b \in Address : ClaimPending(n, b) => ClaimPending(n, b)'
      BY <1>2, ReceiveKeepsPending
    <3> QED
      BY <1>0, <2>1, <3>1
  <2> QED
    BY <2>1, <2>2 DEF Steady, Alerted
<1>3. ASSUME NEW k \in Nodes, Begin(k) PROVE Steady(n)
  <2>1. n # k
    BY <1>3 DEF Begin, Occupied, TypeOK, Usable
  <2>2. a' = a /\ rx' = rx /\ mFrames'[n] = mFrames[n] /\ pc'[n] = pc[n]
    BY <1>3, <2>1 DEF Begin, Occupied, TypeOK
  <2> QED
    BY <2>2 DEF Steady, Alerted, ClaimPending
<1>4. ASSUME NEW k \in Nodes, NEW b \in Address, sendFrame(k, Claim(k, b)),
             mFrames' = mFrames, a' = a, pc'[n] = pc[n]
      PROVE  Steady(n)
  <2>1. Claim(k, b) \in Frame
    BY ClaimType
  <2>2. \A c \in Address : ClaimPending(n, c) => ClaimPending(n, c)'
    BY <1>4, <2>1, SendKeepsPending
  <2> QED
    BY <1>0, <1>4, <2>2 DEF Steady, Alerted
<1>5. ASSUME NEW b \in Address, sendFrame(n, Claim(n, b)), a' = b,
             \A m \in Nodes \ {n} : pc'[m] = pc[m]
      PROVE  Announced(n)
  <2>1. \A m \in Nodes \ {n} : pc[m] # "off" => ClaimPending(m, b)'
    BY <1>5, SendAnnounces
  <2> QED
    BY <1>5, <2>1 DEF Announced
<1>6. ASSUME NEW k \in Nodes, CannotClaim(k) PROVE Steady(n) \/ Announced(n)
  <2>1. sendFrame(k, Claim(k, J1939_INVALID_ADDRESS))
    BY <1>6 DEF CannotClaim
  <2>2. k # n
    BY <1>6 DEF CannotClaim, Unaddressed, Occupied, Usable, TypeOK
  <2>3. mFrames' = mFrames /\ a' = a /\ pc'[n] = pc[n]
    BY <1>6, <2>2 DEF CannotClaim, Occupied, TypeOK
  <2> QED
    BY <1>4, <2>1, <2>3, InvalidIsAddress
<1>7. ASSUME NEW k \in Nodes, TryNext(k) PROVE Steady(n) \/ Announced(n)
  <2> DEFINE b == Head(mPreferred[k])
  <2>1. b \in Address /\ sendFrame(k, Claim(k, b))
    BY <1>7, RotateType DEF TryNext, Announce, TypeOK
  <2>2. CASE k = n
    <3>1. a' = b /\ \A m \in Nodes \ {n} : pc'[m] = pc[m]
      BY <1>7, <2>2 DEF TryNext, Announce, Occupied, TypeOK
    <3> QED
      BY <1>5, <2>1, <2>2, <3>1
  <2>3. CASE k # n
    <3>1. mFrames' = mFrames /\ a' = a /\ pc'[n] = pc[n]
      BY <1>7, <2>3 DEF TryNext, Announce, Occupied, TypeOK
    <3> QED
      BY <1>4, <2>1, <3>1
  <2> QED
    BY <2>2, <2>3
<1>8. ASSUME NEW k \in Nodes, Retry(k) PROVE Steady(n) \/ Announced(n)
  <2>1. address[k] \in Address /\ sendFrame(k, Claim(k, address[k]))
    BY <1>8 DEF Retry, Announce, TypeOK
  <2>2. CASE k = n
    <3>1. a' = address[n] /\ \A m \in Nodes \ {n} : pc'[m] = pc[m]
      BY <1>8, <2>2 DEF Retry, Announce, Occupied, TypeOK
    <3> QED
      BY <1>5, <2>1, <2>2, <3>1
  <2>3. CASE k # n
    <3>1. mFrames' = mFrames /\ a' = a /\ pc'[n] = pc[n]
      BY <1>8, <2>3 DEF Retry, Announce, Occupied, TypeOK
    <3> QED
      BY <1>4, <2>1, <3>1
  <2> QED
    BY <2>2, <2>3
<1>9. ASSUME NEW k \in Nodes, Answer(k) PROVE Steady(n) \/ Announced(n)
  <2>1. mCurrentSrc[k] \in Address /\ sendFrame(k, Claim(k, mCurrentSrc[k]))
    BY <1>9 DEF Answer, TypeOK
  <2>2. CASE k = n
    <3>1. a' = mCurrentSrc[n] /\ \A m \in Nodes \ {n} : pc'[m] = pc[m]
      BY <1>9, <2>2 DEF Answer, Occupied, TypeOK
    <3> QED
      BY <1>5, <2>1, <2>2, <3>1
  <2>3. CASE k # n
    <3>1. mFrames' = mFrames /\ a' = a /\ pc'[n] = pc[n]
      BY <1>9, <2>3 DEF Answer, Occupied, TypeOK
    <3> QED
      BY <1>4, <2>1, <3>1
  <2> QED
    BY <2>2, <2>3
<1>10. ASSUME NEW k \in Nodes, Timeout(k) \/ SpuriousWakeup(k)
       PROVE  Steady(n)
  <2>1. a' = a /\ rx' = rx /\ mFrames' = mFrames
    BY <1>10 DEF Timeout, SpuriousWakeup, Obtain, Occupied, TypeOK
  <2>2. pc[n] = "answer" => pc'[n] = "answer"
    BY <1>10 DEF Timeout, SpuriousWakeup, Obtain, TypeOK
  <2> QED
    BY <2>1, <2>2 DEF Steady, Alerted, ClaimPending
<1>11. ASSUME NEW k \in Nodes, Read(k) PROVE Steady(n)
  <2> PICK f \in mFrames[k] :
        \/ Contend(k, f) \/ OtherClaim(k, f) \/ DropRequest(k, f)
        \/ MainRequest(k, f) \/ processAddressClaim(k, f)
    BY <1>11 DEF Read
  <2>1. read(k, f) /\ UNCHANGED rx
    BY DEF Contend, OtherClaim, DropRequest, MainRequest, processAddressClaim
  <2>2. a' = a
    BY DEF Contend, OtherClaim, DropRequest, MainRequest, processAddressClaim,
           Obtain, Occupied, TypeOK, Usable
  <2>3. pc[n] = "answer" => pc'[n] = "answer"
    BY DEF Contend, OtherClaim, DropRequest, MainRequest, processAddressClaim,
           Obtain, TypeOK
  <2>4. k # n \/ ~IsClaimOf(f, a) \/ pc'[n] = "answer"
    BY DEF Contend, OtherClaim, DropRequest, MainRequest, processAddressClaim,
           Obtain, Occupied, TypeOK, Usable, IsClaimOf, REQUEST_PGN,
           ADDRESS_CLAIM_PGN
  <2>5. \A c \in Address : (k # n \/ ~IsClaimOf(f, c)) /\ ClaimPending(n, c)
                             => ClaimPending(n, c)'
    BY <2>1, ReadKeepsPending
  <2> QED
    BY <1>0, <2>2, <2>3, <2>4, <2>5 DEF Steady, Alerted
<1>12. CASE Request
  <2>1. PICK f \in Requests :
          rx' = [m \in Nodes |-> IF pc[m] = "off" THEN rx[m]
                                 ELSE Append(rx[m], f)]
    BY <1>12 DEF Request
  <2>2. f \in Frame /\ rx'[n] \in {rx[n], Append(rx[n], f)}
    BY <2>1, ConstantsAssumption DEF TypeOK
  <2>3. mFrames' = mFrames /\ pc' = pc /\ a' = a
    BY <1>12 DEF Request, Occupied
  <2>4. \A c \in Address : ClaimPending(n, c) => ClaimPending(n, c)'
    BY <2>2, <2>3, AppendKeepsPending
  <2> QED
    BY <1>0, <2>3, <2>4 DEF Steady, Alerted
<1>13. CASE Tick \/ UNCHANGED vars
  BY <1>13 DEF Tick, vars, Steady, Alerted, ClaimPending, Occupied
<1> QED
  BY <1>1, <1>2, <1>3, <1>6, <1>7, <1>8, <1>9, <1>10, <1>11, <1>12, <1>13
  DEF Next, Claimer

\* Every step keeps conflicts noticed.
LEMMA ConflictStep ==
  TypeOK /\ Unaddressed /\ NoSilentConflict /\ [Next]_vars => NoSilentConflict'
<1> SUFFICES ASSUME TypeOK, Unaddressed, NoSilentConflict, [Next]_vars,
                    lost' = 0, NEW m \in Nodes, NEW n \in Nodes, m # n,
                    Occupied(m)' = Occupied(n)', Occupied(n)' \in Usable
             PROVE  Alerted(m, Occupied(m))' \/ Alerted(n, Occupied(n))'
  BY DEF NoSilentConflict
<1>1. lost = 0
  <2>1. lost' = lost \/ lost' = lost + 1
    BY DEF Next, Claimer, Read, Start, Receive, Begin, TryNext, CannotClaim,
           Retry, Timeout, SpuriousWakeup, Answer, Contend, OtherClaim,
           DropRequest, MainRequest, processAddressClaim, Request, Tick, vars,
           Announce, sendFrame
  <2> QED
    BY <2>1 DEF TypeOK
<1>2. pc'[m] # "off" /\ pc'[n] # "off"
  BY DEF Occupied, Usable
<1>3. (Steady(m) \/ Announced(m)) /\ (Steady(n) \/ Announced(n))
  BY OneStep
<1>4. CASE Announced(m)
  BY <1>2, <1>4 DEF Announced, Alerted
<1>5. CASE Announced(n)
  BY <1>2, <1>5 DEF Announced, Alerted
<1>6. CASE Steady(m) /\ Steady(n)
  BY <1>1, <1>6 DEF Steady, NoSilentConflict
<1> QED
  BY <1>3, <1>4, <1>5, <1>6

(***************************************************************************)
(* As long as no transmission fails, two ECUs never keep one address with  *)
(* nothing left to make either of them notice: for every number of ECUs,   *)
(* every order of deliveries and timeouts, and with spurious wakeups.      *)
(***************************************************************************)
THEOREM ConflictsAreNoticed == Spec => []NoSilentConflict
<1>1. Init => TypeOK /\ Unaddressed /\ NoSilentConflict
  <2>1. Init => TypeOK
    BY ConstantsAssumption, InvalidIsAddress DEF Init, TypeOK, PC
  <2>2. Init => Unaddressed /\ NoSilentConflict
    BY DEF Init, Unaddressed, NoSilentConflict, Occupied, Usable
  <2> QED
    BY <2>1, <2>2
<1>2. TypeOK /\ Unaddressed /\ NoSilentConflict /\ [Next]_vars
        => (TypeOK /\ Unaddressed /\ NoSilentConflict)'
  BY TypeStep, UnaddressedStep, ConflictStep
<1> QED
  BY <1>1, <1>2, PTL DEF Spec

-----------------------------------------------------------------------------
(***************************************************************************)
(* Unique addresses, when frames are handled faster than the claimer waits *)
(* and wait_for returns early for no reason never.  An ECU is ready once   *)
(* its wait is over or it uses an address; of two ECUs on the same address *)
(* at most one is ready, because time passes only when nothing is pending  *)
(* and then, by NoSilentConflict, no two ECUs are on the same address.     *)
(***************************************************************************)
On(n, a) == Occupied(n) = a \/ mCurrentSrc[n] = a

Ready(n) == waited[n] \/ mCurrentSrc[n] \in Usable

OneReady ==
  lost = 0 =>
    \A m, n \in Nodes : \A a \in Usable :
      m # n /\ On(m, a) /\ On(n, a) => ~(Ready(m) /\ Ready(n))

\* With timely frames, of two ECUs on one address only one is ready to use it.
LEMMA ReadyStep ==
  ASSUME Timely, ~SpuriousWakeups
  PROVE  TypeOK /\ Unaddressed /\ NoSilentConflict /\ OneReady /\ [Next]_vars
           => OneReady'
<1> SUFFICES ASSUME TypeOK, Unaddressed, NoSilentConflict, OneReady,
                    [Next]_vars, lost' = 0, NEW m \in Nodes, NEW n \in Nodes,
                    NEW a \in Usable, m # n, On(m, a)', On(n, a)',
                    Ready(m)', Ready(n)'
             PROVE  FALSE
  BY DEF OneReady
<1>1. lost = 0
  <2>1. lost' = lost \/ lost' = lost + 1
    BY DEF Next, Claimer, Read, Start, Receive, Begin, TryNext, CannotClaim,
           Retry, Timeout, SpuriousWakeup, Answer, Contend, OtherClaim,
           DropRequest, MainRequest, processAddressClaim, Request, Tick, vars,
           Announce, sendFrame
  <2> QED
    BY <2>1 DEF TypeOK
<1>2. CASE Tick
  <2>1. \A k \in Nodes : /\ rx[k] = << >> /\ mFrames[k] = {}
                         /\ pc[k] \in {"off", "wait", "main"}
    BY <1>2 DEF Tick, Quiet
  <2>2. Occupied(m) = a /\ Occupied(n) = a
    BY <1>2, <2>1 DEF Tick, On, Occupied, Unaddressed, Usable
  <2>3. ~Alerted(m, a) /\ ~Alerted(n, a)
    BY <2>1 DEF Alerted, ClaimPending
  <2> QED
    BY <1>1, <2>2, <2>3 DEF NoSilentConflict
<1>3. ASSUME NEW k \in Nodes, On(k, a)', Ready(k)', ~Tick
      PROVE  On(k, a) /\ Ready(k)
  <2> USE DEF Goto
  <2>1. ASSUME NEW l \in Nodes, Start(l) \/ Receive(l)
        PROVE  On(k, a) /\ Ready(k)
    BY <1>3, <2>1 DEF Start, Receive, On, Ready, Occupied, TypeOK, Usable
  <2>2. ASSUME NEW l \in Nodes, Begin(l) \/ CannotClaim(l) \/ Answer(l)
        PROVE  On(k, a) /\ Ready(k)
    BY <1>3, <2>2 DEF Begin, CannotClaim, Answer, On, Ready, Occupied, TypeOK,
                      Usable, Unaddressed
  <2>3. ASSUME NEW l \in Nodes, TryNext(l) \/ Retry(l)
        PROVE  On(k, a) /\ Ready(k)
    BY <1>3, <2>3 DEF TryNext, Retry, Announce, On, Ready, Occupied, TypeOK,
                      Usable, Unaddressed
  <2>4. ASSUME NEW l \in Nodes, Timeout(l) \/ SpuriousWakeup(l)
        PROVE  On(k, a) /\ Ready(k)
    BY <1>3, <2>4 DEF Timeout, SpuriousWakeup, Obtain, Elapsed, On, Ready,
                      Occupied, TypeOK, Usable, Unaddressed
  <2>5. ASSUME NEW l \in Nodes, Read(l) PROVE On(k, a) /\ Ready(k)
    BY <1>3, <2>5 DEF Read, Contend, OtherClaim, DropRequest, Obtain, Elapsed,
                      MainRequest, processAddressClaim, On, Ready, Occupied,
                      TypeOK, Usable, Unaddressed
  <2>6. CASE Request \/ UNCHANGED vars
    BY <1>3, <2>6 DEF Request, vars, On, Ready, Occupied
  <2> QED
    BY <1>3, <2>1, <2>2, <2>3, <2>4, <2>5, <2>6 DEF Next, Claimer
<1> QED
  BY <1>1, <1>2, <1>3 DEF OneReady

(***************************************************************************)
(* When a frame is handled within the time the claimer waits, transmissions*)
(* succeed and wait_for does not return early, no two ECUs ever use the    *)
(* same address, for every number of ECUs and whatever their NAMEs are.    *)
(***************************************************************************)
THEOREM AddressesAreUnique ==
  ASSUME Timely, ~SpuriousWakeups
  PROVE  Spec => []UniqueAddress
<1> DEFINE IInv == TypeOK /\ Unaddressed /\ NoSilentConflict /\ OneReady
<1>1. Init => IInv
  <2>1. Init => TypeOK
    BY ConstantsAssumption, InvalidIsAddress DEF Init, TypeOK, PC
  <2>2. Init => Unaddressed /\ NoSilentConflict /\ OneReady
    BY DEF Init, Unaddressed, NoSilentConflict, OneReady, On, Occupied, Usable
  <2> QED
    BY <2>1, <2>2
<1>2. IInv /\ [Next]_vars => IInv'
  BY TypeStep, UnaddressedStep, ConflictStep, ReadyStep
<1>3. IInv => UniqueAddress
  BY DEF OneReady, UniqueAddress, On, Ready, Usable, TypeOK
<1> QED
  BY <1>1, <1>2, <1>3, PTL DEF Spec

-----------------------------------------------------------------------------
(***************************************************************************)
(* Who yields to whom.  The claims on their way are genuine: the ECU whose *)
(* NAME they carry wants the address.  So is what an ECU tries and uses.   *)
(***************************************************************************)
Genuine(n, f) ==
  f.pgn = ADDRESS_CLAIM_PGN =>
    \E m \in Nodes \ {n} : /\ f.data = EcuName[m]
                           /\ f.src = J1939_INVALID_ADDRESS \/ Wants(m, f.src)

GenuineSockets ==
  \A n \in Nodes : \A i \in 1 .. Len(rx[n]) : Genuine(n, rx[n][i])

GenuineMailboxes == \A n \in Nodes : \A f \in mFrames[n] : Genuine(n, f)

TriesWanted ==
  \A n \in Nodes :
    /\ \A i \in 1 .. Len(mPreferred[n]) : Wants(n, mPreferred[n][i])
    /\ pc[n] \in {"wait", "retry"} => Wants(n, address[n])
    /\ mCurrentSrc[n] = J1939_INVALID_ADDRESS \/ Wants(n, mCurrentSrc[n])

Stronger(n, a) == \E m \in Nodes \ {n} : EcuName[m] <= EcuName[n] /\ Wants(m, a)

\* An ECU that starts over with an address still in use has lost it.
Overruled ==
  \A n \in Nodes : pc[n] = "begin" /\ mCurrentSrc[n] \in Usable =>
                     Stronger(n, mCurrentSrc[n])

YieldInv == GenuineSockets /\ GenuineMailboxes /\ TriesWanted /\ Overruled

\* A claim that n may send is genuine for every other ECU.
LEMMA SendGenuine ==
  ASSUME TypeOK, GenuineSockets, NEW n \in Nodes, NEW a \in Address,
         a = J1939_INVALID_ADDRESS \/ Wants(n, a), sendFrame(n, Claim(n, a))
  PROVE  GenuineSockets'
<1> DEFINE f == Claim(n, a)
<1>1. f \in Frame /\ f.data = EcuName[n] /\ f.src = a
  BY ClaimType DEF Claim
<1> SUFFICES ASSUME NEW m \in Nodes, NEW i \in 1 .. Len(rx'[m]) PROVE Genuine(m, rx'[m][i])
  BY DEF GenuineSockets, Genuine, Wants
<1>2. CASE rx'[m] = rx[m]
  BY <1>2 DEF GenuineSockets
<1>3. CASE m # n /\ rx'[m] = Append(rx[m], f)
  <2>1. Genuine(m, f)
    BY <1>1, <1>3 DEF Genuine
  <2>2. rx'[m][i] = f \/ (i \in 1 .. Len(rx[m]) /\ rx'[m][i] = rx[m][i])
    <3> HIDE DEF f
    <3> QED
      BY <1>1, <1>3 DEF TypeOK
  <2> QED
    BY <2>1, <2>2 DEF GenuineSockets
<1>4. rx'[m] = rx[m] \/ (m # n /\ rx'[m] = Append(rx[m], f))
  BY DEF sendFrame, TypeOK
<1> QED
  BY <1>2, <1>3, <1>4

\* The addresses in the queue stay those the ECU was given, in turn.
LEMMA RotateWanted ==
  ASSUME NEW n \in Nodes, NEW q \in AddressQueue,
         \A i \in 1 .. Len(q) : Wants(n, q[i])
  PROVE  /\ Wants(n, Head(q))
         /\ \A i \in 1 .. Len(Append(Tail(q), Head(q))) : Wants(n, Append(Tail(q), Head(q))[i])
<1> DEFINE t == Append(Tail(q), Head(q))
<1>1. q \in Seq(Address) /\ Len(q) > 0 /\ Len(q) \in Nat
  BY DEF AddressQueue
<1>2. Head(q) = q[1] /\ 1 \in 1 .. Len(q)
  BY <1>1
<1>3. ASSUME NEW i \in 1 .. Len(t) PROVE \E j \in 1 .. Len(q) : t[i] = q[j]
  <2>1. Len(t) = Len(q) /\ t[i] = IF i < Len(q) THEN q[i + 1] ELSE q[1]
    BY <1>1
  <2>2. CASE i < Len(q)
    <3>1. i + 1 \in 1 .. Len(q) /\ t[i] = q[i + 1]
      BY <1>1, <2>1, <2>2
    <3> QED
      BY <3>1, Zenon
  <2>3. CASE ~(i < Len(q))
    BY <1>2, <2>1, <2>3
  <2> QED
    BY <2>2, <2>3
<1> HIDE DEF t
<1>4. \A i \in 1 .. Len(t) : Wants(n, t[i])
  BY <1>3, Zenon
<1> QED
  BY <1>2, <1>4 DEF t

\* Every step keeps the claims genuine and the addresses wanted.
LEMMA YieldStep == TypeOK /\ Unaddressed /\ YieldInv /\ [Next]_vars => YieldInv'
<1> SUFFICES ASSUME TypeOK, Unaddressed, YieldInv, [Next]_vars PROVE YieldInv'
  OBVIOUS
<1> USE DEF Goto
<1>0. /\ mFrames' = mFrames => GenuineMailboxes'
      /\ rx' = rx => GenuineSockets'
  BY DEF YieldInv, GenuineMailboxes, GenuineSockets
<1>1. ASSUME NEW n \in Nodes, Start(n) PROVE YieldInv'
  <2>1. TriesWanted'
    BY <1>1 DEF Start, YieldInv, TriesWanted, TypeOK
  <2>2. Overruled'
    BY <1>1 DEF Start, YieldInv, Overruled, Unaddressed, Usable, TypeOK, Stronger
  <2> QED
    BY <1>0, <1>1, <2>1, <2>2 DEF Start, YieldInv
<1>2. ASSUME NEW n \in Nodes, Receive(n) PROVE YieldInv'
  <2> DEFINE f == Head(rx[n])
  <2>1. Genuine(n, f)
    <3>1. f = rx[n][1] /\ 1 \in 1 .. Len(rx[n])
      BY <1>2 DEF Receive, TypeOK
    <3> QED
      BY <3>1 DEF YieldInv, GenuineSockets
  <2>2. GenuineSockets'
    <3> SUFFICES ASSUME NEW m \in Nodes, NEW i \in 1 .. Len(rx'[m]) PROVE Genuine(m, rx'[m][i])
      BY DEF GenuineSockets
    <3>1. CASE m = n
      <4>1. i + 1 \in 1 .. Len(rx[n]) /\ rx'[n][i] = rx[n][i + 1]
        BY <1>2, <3>1 DEF Receive, TypeOK
      <4> QED
        BY <3>1, <4>1 DEF YieldInv, GenuineSockets
    <3>2. CASE m # n
      BY <1>2, <3>2 DEF Receive, TypeOK, YieldInv, GenuineSockets
    <3> QED
      BY <3>1, <3>2
  <2>3. GenuineMailboxes'
    <3>1. ASSUME NEW m \in Nodes, NEW g \in mFrames'[m]
          PROVE  g \in mFrames[m] \/ (m = n /\ g = f)
      BY <1>2 DEF Receive, TypeOK
    <3> QED
      BY <2>1, <3>1 DEF YieldInv, GenuineMailboxes
  <2> QED
    BY <1>2, <2>2, <2>3 DEF Receive, YieldInv, TriesWanted, Overruled, Stronger
<1>3. ASSUME NEW n \in Nodes, Begin(n) PROVE YieldInv'
  <2>1. GenuineMailboxes'
    BY <1>3 DEF Begin, YieldInv, GenuineMailboxes, TypeOK
  <2>2. TriesWanted'
    BY <1>3 DEF Begin, YieldInv, TriesWanted, TypeOK
  <2>3. Overruled'
    BY <1>3 DEF Begin, YieldInv, Overruled, TypeOK
  <2> QED
    BY <1>0, <1>3, <2>1, <2>2, <2>3 DEF Begin, YieldInv
<1>4. ASSUME NEW n \in Nodes, CannotClaim(n) PROVE YieldInv'
  <2>1. GenuineSockets'
    BY <1>4, SendGenuine, InvalidIsAddress DEF CannotClaim, YieldInv
  <2>2. TriesWanted' /\ Overruled'
    BY <1>4 DEF CannotClaim, YieldInv, TriesWanted, Overruled, TypeOK
  <2> QED
    BY <1>0, <1>4, <2>1, <2>2 DEF CannotClaim, YieldInv
<1>5. ASSUME NEW n \in Nodes, TryNext(n) PROVE YieldInv'
  <2> DEFINE q == mPreferred[n]
  <2>1. /\ q \in AddressQueue /\ Head(q) \in Address
        /\ Wants(n, Head(q))
        /\ \A i \in 1 .. Len(Append(Tail(q), Head(q))) : Wants(n, Append(Tail(q), Head(q))[i])
    BY RotateType, RotateWanted DEF YieldInv, TriesWanted, TypeOK
  <2>2. GenuineSockets'
    BY <1>5, <2>1, SendGenuine DEF TryNext, Announce, YieldInv
  <2>3. TriesWanted'
    <3> SUFFICES ASSUME NEW m \in Nodes
                 PROVE  /\ \A i \in 1 .. Len(mPreferred'[m]) : Wants(m, mPreferred'[m][i])
                        /\ pc'[m] \in {"wait", "retry"} => Wants(m, address'[m])
                        /\ mCurrentSrc'[m] = J1939_INVALID_ADDRESS \/ Wants(m, mCurrentSrc'[m])
      BY DEF TriesWanted
    <3>1. CASE m = n
      <4>1. mPreferred'[m] = Append(Tail(q), Head(q)) /\ address'[m] = Head(q) /\ mCurrentSrc' = mCurrentSrc
        BY <1>5, <3>1 DEF TryNext, TypeOK
      <4> HIDE DEF q
      <4> QED
        BY <2>1, <3>1, <4>1 DEF YieldInv, TriesWanted
    <3>2. CASE m # n
      BY <1>5, <3>2 DEF TryNext, Announce, TypeOK, YieldInv, TriesWanted
    <3> QED
      BY <3>1, <3>2
  <2>4. Overruled'
    BY <1>5 DEF TryNext, Announce, YieldInv, Overruled, TypeOK
  <2> QED
    BY <1>0, <1>5, <2>2, <2>3, <2>4 DEF TryNext, YieldInv
<1>6. ASSUME NEW n \in Nodes, Retry(n) PROVE YieldInv'
  <2>1. address[n] \in Address /\ Wants(n, address[n])
    BY <1>6 DEF Retry, YieldInv, TriesWanted, TypeOK
  <2>2. GenuineSockets'
    BY <1>6, <2>1, SendGenuine DEF Retry, Announce, YieldInv
  <2>3. TriesWanted' /\ Overruled'
    BY <1>6 DEF Retry, Announce, YieldInv, TriesWanted, Overruled, TypeOK
  <2> QED
    BY <1>0, <1>6, <2>2, <2>3 DEF Retry, YieldInv
<1>7. ASSUME NEW n \in Nodes, Timeout(n) \/ SpuriousWakeup(n) PROVE YieldInv'
  <2>1. TriesWanted' /\ Overruled'
    BY <1>7 DEF Timeout, SpuriousWakeup, Obtain, YieldInv, TriesWanted, Overruled, TypeOK
  <2> QED
    BY <1>0, <1>7, <2>1 DEF Timeout, SpuriousWakeup, YieldInv
<1>8. ASSUME NEW n \in Nodes, Answer(n) PROVE YieldInv'
  <2>1. /\ mCurrentSrc[n] \in Address
        /\ mCurrentSrc[n] = J1939_INVALID_ADDRESS \/ Wants(n, mCurrentSrc[n])
    BY DEF YieldInv, TriesWanted, TypeOK
  <2>2. GenuineSockets'
    BY <1>8, <2>1, SendGenuine DEF Answer, YieldInv
  <2>3. TriesWanted' /\ Overruled'
    BY <1>8 DEF Answer, YieldInv, TriesWanted, Overruled, TypeOK
  <2> QED
    BY <1>0, <1>8, <2>2, <2>3 DEF Answer, YieldInv
<1>9. ASSUME NEW n \in Nodes, Read(n) PROVE YieldInv'
  <2> PICK f \in mFrames[n] :
        \/ Contend(n, f) \/ OtherClaim(n, f) \/ DropRequest(n, f)
        \/ MainRequest(n, f) \/ processAddressClaim(n, f)
    BY <1>9 DEF Read
  <2>1. read(n, f) /\ rx' = rx
    BY DEF Contend, OtherClaim, DropRequest, MainRequest, processAddressClaim
  <2>2. GenuineMailboxes'
    BY <2>1 DEF read, YieldInv, GenuineMailboxes, TypeOK
  <2>3. CASE Contend(n, f)
    <3>1. TriesWanted' /\ Overruled'
      BY <2>3 DEF Contend, YieldInv, TriesWanted, Overruled, TypeOK
    <3> QED
      BY <1>0, <2>1, <2>2, <3>1 DEF YieldInv
  <2>4. CASE OtherClaim(n, f)
    BY <1>0, <2>1, <2>2, <2>4 DEF OtherClaim, YieldInv, TriesWanted, Overruled, Stronger
  <2>5. CASE DropRequest(n, f)
    <3>1. TriesWanted' /\ Overruled'
      BY <2>5 DEF DropRequest, Obtain, YieldInv, TriesWanted, Overruled, TypeOK
    <3> QED
      BY <1>0, <2>1, <2>2, <3>1 DEF YieldInv
  <2>6. CASE MainRequest(n, f)
    <3>1. TriesWanted' /\ Overruled'
      BY <2>6 DEF MainRequest, YieldInv, TriesWanted, Overruled, TypeOK
    <3> QED
      BY <1>0, <2>1, <2>2, <3>1 DEF YieldInv
  <2>7. CASE processAddressClaim(n, f)
    <3>1. TriesWanted'
      BY <2>7 DEF processAddressClaim, YieldInv, TriesWanted, TypeOK
    <3>2. pc'[n] = "begin" => Stronger(n, mCurrentSrc[n])
      <4> SUFFICES ASSUME pc'[n] = "begin" PROVE Stronger(n, mCurrentSrc[n])
        OBVIOUS
      <4>1. /\ f.pgn = ADDRESS_CLAIM_PGN /\ f.src = mCurrentSrc[n]
            /\ f.src # J1939_INVALID_ADDRESS /\ ~(EcuName[n] < f.data)
        BY <2>7 DEF processAddressClaim, TypeOK
      <4>2. PICK m \in Nodes \ {n} : f.data = EcuName[m] /\ Wants(m, f.src)
        BY <4>1 DEF YieldInv, GenuineMailboxes, Genuine
      <4>3. EcuName[m] <= EcuName[n]
        BY <4>1, <4>2, ConstantsAssumption
      <4> QED
        BY <4>1, <4>2, <4>3 DEF Stronger
    <3>3. Overruled'
      <4> SUFFICES ASSUME NEW m \in Nodes, pc'[m] = "begin", mCurrentSrc'[m] \in Usable
                   PROVE  Stronger(m, mCurrentSrc'[m])
        BY DEF Overruled, Stronger
      <4>1. mCurrentSrc' = mCurrentSrc /\ (m # n => pc'[m] = pc[m])
        BY <2>7 DEF processAddressClaim, TypeOK
      <4> QED
        BY <3>2, <4>1 DEF YieldInv, Overruled
    <3> QED
      BY <1>0, <2>1, <2>2, <3>1, <3>3 DEF YieldInv
  <2> QED
    BY <2>3, <2>4, <2>5, <2>6, <2>7
<1>10. CASE Request
  <2>1. PICK f \in Requests :
          rx' = [m \in Nodes |-> IF pc[m] = "off" THEN rx[m] ELSE Append(rx[m], f)]
    BY <1>10 DEF Request
  <2>2. f \in Frame /\ \A m \in Nodes : Genuine(m, f)
    BY ConstantsAssumption DEF Genuine, REQUEST_PGN, ADDRESS_CLAIM_PGN
  <2>3. GenuineSockets'
    <3> SUFFICES ASSUME NEW m \in Nodes, NEW i \in 1 .. Len(rx'[m]) PROVE Genuine(m, rx'[m][i])
      BY DEF GenuineSockets
    <3>1. rx'[m][i] = f \/ (i \in 1 .. Len(rx[m]) /\ rx'[m][i] = rx[m][i])
      BY <2>1, <2>2 DEF TypeOK
    <3> QED
      BY <2>2, <3>1 DEF YieldInv, GenuineSockets
  <2> QED
    BY <1>0, <1>10, <2>3 DEF Request, YieldInv, TriesWanted, Overruled, Stronger
<1>11. CASE Tick \/ UNCHANGED vars
  BY <1>0, <1>11 DEF Tick, vars, YieldInv, TriesWanted, Overruled, Stronger
<1> QED
  BY <1>1, <1>2, <1>3, <1>4, <1>5, <1>6, <1>7, <1>8, <1>9, <1>10, <1>11
  DEF Next, Claimer

\* Nothing is on its way at first, and the queues are the given ones.
LEMMA YieldInitial == Init => TypeOK /\ Unaddressed /\ YieldInv
<1> SUFFICES ASSUME Init PROVE TypeOK /\ Unaddressed /\ YieldInv
  OBVIOUS
<1>1. TypeOK
  BY ConstantsAssumption, InvalidIsAddress DEF Init, TypeOK, PC
<1>2. Unaddressed
  BY DEF Init, Unaddressed
<1>3. GenuineSockets /\ GenuineMailboxes /\ Overruled
  BY DEF Init, GenuineSockets, GenuineMailboxes, Overruled
<1>4. TriesWanted
  BY DEF Init, TriesWanted, Wants
<1> QED
  BY <1>1, <1>2, <1>3, <1>4 DEF YieldInv

(***************************************************************************)
(* An ECU gives an address up only to one whose NAME is not larger and     *)
(* that lists the address, whatever is lost, delayed or overwritten.       *)
(***************************************************************************)
THEOREM OnlyStrongerTakes == Spec => YieldsToStronger
<1> DEFINE A == \A n \in Nodes :
                  mCurrentSrc[n] \in Usable /\ mCurrentSrc'[n] # mCurrentSrc[n] =>
                    \E m \in Nodes \ {n} : EcuName[m] <= EcuName[n]
                                           /\ Wants(m, mCurrentSrc[n])
           IInv == TypeOK /\ Unaddressed /\ YieldInv
<1>1. IInv /\ [Next]_vars => IInv'
  BY TypeStep, UnaddressedStep, YieldStep
<1>2. IInv /\ [Next]_vars => [A]_vars
  <2> SUFFICES ASSUME TypeOK, Unaddressed, YieldInv, Next, NEW n \in Nodes,
                      mCurrentSrc[n] \in Usable, mCurrentSrc'[n] # mCurrentSrc[n]
               PROVE  Stronger(n, mCurrentSrc[n])
    BY DEF Stronger
  <2>1. pc[n] = "begin"
    BY DEF Next, Claimer, Read, Start, Receive, Begin, TryNext, CannotClaim,
           Retry, Timeout, SpuriousWakeup, Answer, Contend, OtherClaim,
           DropRequest, MainRequest, processAddressClaim, Request, Tick,
           Obtain, Unaddressed, Usable, TypeOK
  <2> QED
    BY <2>1 DEF YieldInv, Overruled
<1>3. Spec => []IInv
  BY <1>1, YieldInitial, PTL DEF Spec
<1>4. Spec => [][A]_vars
  BY <1>2, <1>3, PTL DEF Spec
<1> QED
  BY <1>4 DEF YieldsToStronger

-----------------------------------------------------------------------------
(***************************************************************************)
(* The ECU with the smallest NAME never gets past its first choice: every  *)
(* claim it meets is genuine, hence weaker.                                *)
(***************************************************************************)
FirstChoice ==
  \A n \in Nodes : Lowest(n) =>
    /\ pc[n] \in {"off", "begin", "select"} => mPreferred[n] = Preferred[n]
    /\ pc[n] = "select" => pos[n] = 0
    /\ pc[n] \in {"wait", "retry"} => address[n] = Head(Preferred[n])
    /\ pc[n] \in {"main", "answer"} => mCurrentSrc[n] = Head(Preferred[n])

\* A claim that reaches the ECU with the smallest NAME carries a larger one.
LEMMA ClaimsAreWeaker ==
  ASSUME YieldInv, NEW n \in Nodes, Lowest(n), NEW f \in mFrames[n],
         f.pgn = ADDRESS_CLAIM_PGN
  PROVE  EcuName[n] < f.data
BY DEF YieldInv, GenuineMailboxes, Genuine, Lowest

LEMMA FirstChoiceStep ==
  TypeOK /\ YieldInv /\ FirstChoice /\ [Next]_vars => FirstChoice'
<1> SUFFICES ASSUME TypeOK, YieldInv, FirstChoice, [Next]_vars PROVE FirstChoice'
  OBVIOUS
<1> USE DEF Goto, FirstChoice, TypeOK
<1>1. ASSUME NEW n \in Nodes, Start(n) \/ Receive(n) PROVE FirstChoice'
  BY <1>1 DEF Start, Receive, Lowest
<1>2. ASSUME NEW n \in Nodes, Begin(n) \/ Answer(n) PROVE FirstChoice'
  BY <1>2 DEF Begin, Answer, Lowest
<1>3. ASSUME NEW n \in Nodes, CannotClaim(n) PROVE FirstChoice'
  <2>1. ~Lowest(n)
    BY <1>3 DEF CannotClaim, AddressQueue
  <2> QED
    BY <1>3, <2>1 DEF CannotClaim, Lowest
<1>4. ASSUME NEW n \in Nodes, TryNext(n) PROVE FirstChoice'
  BY <1>4 DEF TryNext, Announce, Lowest
<1>5. ASSUME NEW n \in Nodes, Retry(n) PROVE FirstChoice'
  BY <1>5 DEF Retry, Announce, Lowest
<1>6. ASSUME NEW n \in Nodes, Timeout(n) \/ SpuriousWakeup(n) PROVE FirstChoice'
  BY <1>6 DEF Timeout, SpuriousWakeup, Obtain, Lowest
<1>7. ASSUME NEW n \in Nodes, NEW f \in mFrames[n], Contend(n, f) PROVE FirstChoice'
  <2>1. Lowest(n) => pc'[n] = "retry"
    BY <1>7, ClaimsAreWeaker DEF Contend
  <2> QED
    BY <1>7, <2>1 DEF Contend, Lowest
<1>8. ASSUME NEW n \in Nodes, NEW f \in mFrames[n],
             OtherClaim(n, f) \/ DropRequest(n, f) \/ MainRequest(n, f)
      PROVE  FirstChoice'
  BY <1>8 DEF OtherClaim, DropRequest, MainRequest, Obtain, Lowest
<1>9. ASSUME NEW n \in Nodes, NEW f \in mFrames[n], processAddressClaim(n, f)
      PROVE  FirstChoice'
  <2>1. Lowest(n) => pc'[n] \in {"main", "answer"}
    BY <1>9, ClaimsAreWeaker DEF processAddressClaim
  <2> QED
    BY <1>9, <2>1 DEF processAddressClaim, Lowest
<1>10. CASE Request \/ Tick \/ UNCHANGED vars
  BY <1>10 DEF Request, Tick, vars, Lowest
<1> QED
  BY <1>1, <1>2, <1>3, <1>4, <1>5, <1>6, <1>7, <1>8, <1>9, <1>10
  DEF Next, Claimer, Read

(***************************************************************************)
(* However late it starts, whatever the others do and whatever is lost,    *)
(* the ECU with the smallest NAME only ever uses its first preferred       *)
(* address.                                                                *)
(***************************************************************************)
THEOREM LowestWins == Spec => []LowestKeepsFirstChoice
<1> DEFINE IInv == TypeOK /\ Unaddressed /\ YieldInv /\ FirstChoice
<1>1. Init => IInv
  <2>1. Init => FirstChoice
    BY DEF Init, FirstChoice
  <2> QED
    BY <2>1, YieldInitial
<1>2. IInv /\ [Next]_vars => IInv'
  BY TypeStep, UnaddressedStep, YieldStep, FirstChoiceStep
<1>3. IInv => LowestKeepsFirstChoice
  BY DEF FirstChoice, LowestKeepsFirstChoice
<1> QED
  BY <1>1, <1>2, <1>3, PTL DEF Spec
=============================================================================

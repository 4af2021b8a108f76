------------------------- MODULE BamTransport_proofs -------------------------
(***************************************************************************)
(* Proofs about BamTransport for every set of sources, messages, sizes and *)
(* PGNs.                                                                   *)
(***************************************************************************)
EXTENDS BamTransport, TLAPS

\* The packets of a message are counted; at most 256 fit the map.
LEMMA PacketsType ==
  ASSUME NEW m \in Message
  PROVE  Size[m] \in Nat /\ Packets(m) \in Nat /\ DataFrames(m) \in 0 .. 256
<1>1. Size[m] \in Nat
  BY MessagesAssumption
<1>2. Packets(m) \in Nat
  BY <1>1 DEF Packets, TP_DT_PACKET_SIZE
<1> QED
  BY <1>1, <1>2 DEF DataFrames, U8

\* Which packet the i-th TP.DT of a message holds, and its number.
LEMMA PacketFacts ==
  ASSUME NEW m \in Message, NEW i \in 1 .. DataFrames(m)
  PROVE  /\ SqAt(m, i) \in 0 .. 255
         /\ PacketAt(m, i) \in Nat \ {0}
         /\ Packets(m) < U8 => SqAt(m, i) = i /\ PacketAt(m, i) = i
<1>1. Packets(m) \in Nat
  BY PacketsType
<1>2. CASE Packets(m) < 256
  BY <1>1, <1>2 DEF DataFrames, SqAt, PacketAt, U8
<1>3. CASE Packets(m) >= 256
  BY <1>1, <1>3 DEF DataFrames, SqAt, PacketAt, U8
<1> QED
  BY <1>1, <1>2, <1>3

\* The announcement of a message is a TP.CM.
LEMMA ConnFrameType ==
  ASSUME NEW m \in Message
  PROVE  ConnFrame(m) \in ConnFrames
<1>1. Size[m] % U16 \in Nat /\ DataFrames(m) % U8 \in 0 .. U8 - 1
  BY PacketsType DEF U8, U16
<1> QED
  BY <1>1, MessagesAssumption DEF ConnFrame, ConnFrames

\* Every packet carries seven bytes, the last one with padding.
LEMMA PacketDataType ==
  ASSUME NEW m \in Message, NEW k \in Nat \ {0}
  PROVE  PacketData(m, k) \in [1 .. TP_DT_PACKET_SIZE -> Byte]
<1>1. ASSUME NEW b \in 1 .. TP_DT_PACKET_SIZE
      PROVE  (k - 1) * TP_DT_PACKET_SIZE + b \in Nat
  BY <1>1 DEF TP_DT_PACKET_SIZE
<1> QED
  BY <1>1 DEF PacketData, Byte

\* Every packet of a message is a TP.DT.
LEMMA DataFrameType ==
  ASSUME NEW m \in Message, NEW i \in 1 .. DataFrames(m)
  PROVE  DataFrame(m, i) \in TPDTFrames
<1>1. PacketData(m, PacketAt(m, i)) \in [1 .. TP_DT_PACKET_SIZE -> Byte]
  BY PacketFacts, PacketDataType
<1>2. SqAt(m, i) \in 0 .. U8 - 1
  BY PacketFacts DEF U8
<1> QED
  BY <1>1, <1>2, MessagesAssumption DEF DataFrame, TPDTFrames

-----------------------------------------------------------------------------
(* The reassembler on its own: what handleFrame preserves.                 *)

AnyFrame == ConnFrames \cup TPDTFrames \cup StrayFrames

\* The fields of the frames, by their kind.
LEMMA Kinds ==
  /\ \A f \in ConnFrames : f.kind = "BAM" /\ f.src \in Source /\ f.pgn \in Pgn
                           /\ f.size \in Nat /\ f.packets \in 0 .. 255
  /\ \A f \in TPDTFrames : f.kind = "DT" /\ f.src \in Source
                           /\ f.sq \in 0 .. 255
                           /\ f.data \in [1 .. TP_DT_PACKET_SIZE -> Byte]
  /\ \A f \in StrayFrames : f.kind \in {"CM", "ToOne", "Other"}
BY DEF ConnFrames, TPDTFrames, StrayFrames, U8

\* The fragments of a source: the TP.CM first, then TP.DTs 1, 2, 3...
Session(q) ==
  /\ q \in Seq(ConnFrames \cup TPDTFrames)
  /\ Len(q) >= 1
  /\ q[1] \in ConnFrames
  /\ Len(q) <= q[1].packets + 1
  /\ \A i \in 2 .. Len(q) : q[i] \in TPDTFrames /\ q[i].sq = i - 1

\* Contiguous says that every session kept is a Session.
LEMMA ContiguousIsSession ==
  ReassemblerTypeOK =>
    (Contiguous <=> \A s \in Source : mFragments[s] # << >> => Session(mFragments[s]))
<1> SUFFICES ASSUME ReassemblerTypeOK, NEW s \in Source, mFragments[s] # << >>
             PROVE  (/\ mFragments[s][1].kind = "BAM"
                     /\ Len(mFragments[s]) <= mFragments[s][1].packets + 1
                     /\ \A i \in 2 .. Len(mFragments[s]) :
                          mFragments[s][i].kind = "DT" /\ mFragments[s][i].sq = i - 1)
                    <=> Session(mFragments[s])
  BY DEF Contiguous
<1> DEFINE q == mFragments[s]
<1>1. q \in Seq(ConnFrames \cup TPDTFrames) /\ Len(q) >= 1
  BY DEF ReassemblerTypeOK
<1>2. \A i \in 1 .. Len(q) : q[i] \in ConnFrames \cup TPDTFrames
  BY <1>1
<1>3. \A i \in 1 .. Len(q) : /\ q[i].kind = "BAM" <=> q[i] \in ConnFrames
                             /\ q[i].kind = "DT" <=> q[i] \in TPDTFrames
  BY <1>2, Kinds
<1> QED
  BY <1>1, <1>3 DEF Session

Sessions == \A s \in Source : mFragments[s] # << >> => Session(mFragments[s])

\* A TP.CM alone is a session.
LEMMA SingleSession ==
  ASSUME NEW f \in ConnFrames
  PROVE  Session(<<f>>)
<1>1. f.packets \in 0 .. 255
  BY Kinds
<1> QED
  BY <1>1 DEF Session

\* The two cases of a session's length.
LEMMA OneOrMore ==
  \A n \in Nat : n >= 1 => n = 1 \/ n >= 2
OBVIOUS

\* The last sequence number of a session counts its TP.DTs.
LEMMA LastSQ ==
  ASSUME NEW q, Session(q)
  PROVE  getLastSQ(q) = Len(q) - 1
<1>1. Len(q) \in Nat /\ Len(q) >= 1
  BY DEF Session
<1>2. CASE Len(q) = 1
  BY <1>2 DEF getLastSQ
<1>3. CASE Len(q) >= 2
  <2>1. Len(q) \in 2 .. Len(q)
    BY <1>1, <1>3
  <2>2. q[Len(q)].sq = Len(q) - 1
    BY <2>1 DEF Session
  <2> QED
    BY <1>1, <1>3, <2>2 DEF getLastSQ
<1> QED
  BY <1>1, <1>2, <1>3, OneOrMore

\* Expected, spelled out for one session.
LEMMA AppendSession ==
  ASSUME NEW q, Session(q), NEW f \in TPDTFrames,
         q[1].packets >= f.sq, getLastSQ(q) + 1 = f.sq
  PROVE  Session(Append(q, f)) /\ f.sq = Len(q)
<1> DEFINE r == Append(q, f)
<1>1. q \in Seq(ConnFrames \cup TPDTFrames) /\ Len(q) \in Nat /\ Len(q) >= 1
  BY DEF Session
<1>2. q[1].packets \in 0 .. 255 /\ f.sq \in 0 .. 255
  BY Kinds DEF Session
<1>3. getLastSQ(q) = Len(q) - 1
  BY LastSQ
<1>4. f.sq = Len(q)
  BY <1>1, <1>2, <1>3
<1>5. r \in Seq(ConnFrames \cup TPDTFrames) /\ Len(r) = Len(q) + 1
  BY <1>1
<1>6. r[1] = q[1]
  BY <1>1
<1>7. Len(r) <= r[1].packets + 1
  <2> DEFINE p == q[1].packets
  <2>1. p = r[1].packets /\ p \in 0 .. 255 /\ p >= Len(q)
    BY <1>2, <1>4, <1>6
  <2> HIDE DEF p, r
  <2>2. Len(r) <= p + 1
    BY <1>1, <1>5, <2>1
  <2> QED
    BY <2>1, <2>2
<1>8. ASSUME NEW i \in 2 .. Len(r)
      PROVE  r[i] \in TPDTFrames /\ r[i].sq = i - 1
  <2>1. CASE i <= Len(q)
    BY <1>1, <1>5, <2>1 DEF Session
  <2>2. CASE i = Len(q) + 1
    BY <1>1, <1>4, <2>2
  <2> QED
    BY <1>1, <1>5, <2>1, <2>2
<1> QED
  BY <1>1, <1>4, <1>5, <1>6, <1>7, <1>8 DEF Session

\* Byte j of a message is byte b of packet k - 1.
LEMMA DivMod ==
  ASSUME NEW j \in Nat \ {0}
  PROVE  LET k == ((j - 1) \div TP_DT_PACKET_SIZE) + 2
             b == ((j - 1) % TP_DT_PACKET_SIZE) + 1
         IN  /\ k \in Nat
             /\ k >= 2
             /\ b \in 1 .. TP_DT_PACKET_SIZE
             /\ (k - 1 - 1) * TP_DT_PACKET_SIZE + b = j
BY DEF TP_DT_PACKET_SIZE

\* What reassemble puts together is a sequence of bytes.
LEMMA ReassembleType ==
  ASSUME NEW q, Session(q)
  PROVE  reassemble(q) \in Seq(Byte)
<1>1. Head(q) = q[1] /\ q[1].size \in Nat /\ Len(q) \in Nat
  BY Kinds DEF Session
<1> DEFINE k(j) == ((j - 1) \div TP_DT_PACKET_SIZE) + 2
<1> DEFINE b(j) == ((j - 1) % TP_DT_PACKET_SIZE) + 1
<1>2. \A j \in Nat \ {0} : k(j) \in Nat /\ k(j) >= 2
                           /\ b(j) \in 1 .. TP_DT_PACKET_SIZE
  BY DivMod
<1>3. reassemble(q) = [j \in 1 .. q[1].size |->
                         IF k(j) <= Len(q) THEN q[k(j)].data[b(j)] ELSE Uninit]
  BY <1>1 DEF reassemble
<1> HIDE DEF k, b
<1>4. ASSUME NEW j \in 1 .. q[1].size
      PROVE  (IF k(j) <= Len(q) THEN q[k(j)].data[b(j)] ELSE Uninit) \in Byte
  <2>0. j \in Nat \ {0}
    BY <1>1
  <2>1. CASE k(j) <= Len(q)
    <3>1. k(j) \in 2 .. Len(q)
      BY <1>1, <1>2, <2>0, <2>1
    <3>2. q[k(j)].data \in [1 .. TP_DT_PACKET_SIZE -> Byte]
      BY <3>1, Kinds DEF Session
    <3> QED
      BY <1>2, <2>0, <2>1, <3>2
  <2>2. CASE ~(k(j) <= Len(q))
    BY <2>2 DEF Byte
  <2> QED
    BY <2>1, <2>2
<1>5. reassemble(q) \in [1 .. q[1].size -> Byte]
  BY <1>3, <1>4
<1> QED
  BY <1>1, <1>5

-----------------------------------------------------------------------------
(* One step of the receiver.                                               *)

\* One session replaced by a session or by nothing.
LEMMA ReplaceSession ==
  ASSUME ReassemblerTypeOK, Sessions, NEW s \in Source, NEW q,
         q = << >> \/ Session(q),
         mFragments' = [mFragments EXCEPT ![s] = q]
  PROVE  /\ mFragments' \in [Source -> Seq(ConnFrames \cup TPDTFrames)]
         /\ Sessions'
<1>1. q \in Seq(ConnFrames \cup TPDTFrames)
  <2>1. << >> \in Seq(ConnFrames \cup TPDTFrames)
    OBVIOUS
  <2>2. Session(q) => q \in Seq(ConnFrames \cup TPDTFrames)
    BY DEF Session
  <2> QED
    BY <2>1, <2>2
<1>2. \A t \in Source : mFragments'[t] = IF t = s THEN q ELSE mFragments[t]
  BY DEF ReassemblerTypeOK
<1>3. mFragments' \in [Source -> Seq(ConnFrames \cup TPDTFrames)]
  BY <1>1 DEF ReassemblerTypeOK
<1>4. Sessions'
  BY <1>2 DEF Sessions
<1> QED
  BY <1>3, <1>4

\* Complete erases the session or, when the factory throws, keeps it.
LEMMA CompleteStep ==
  ASSUME ReassemblerTypeOK, Sessions, NEW s \in Source, NEW q, Session(q),
         Complete(s, q)
  PROVE  ReassemblerTypeOK' /\ Sessions'
<1>1. Head(q) = q[1] /\ q[1] \in ConnFrames
  BY DEF Session
<1>2. q[1].src \in Source /\ q[1].pgn \in Pgn
  BY <1>1, Kinds
<1>3. [src |-> q[1].src, pgn |-> q[1].pgn, data |-> reassemble(q)] \in Reassembled
  BY <1>2, ReassembleType DEF Reassembled
<1>4. Decode[q[1].pgn] \in {"frame", "null", "throw"}
  BY <1>2, DecodeAssumption
<1>5. CASE Decode[q[1].pgn] = "frame"
  <2>1. /\ mFragments' = [mFragments EXCEPT ![s] = << >>]
        /\ mReassembledFrames' = Append(mReassembledFrames,
             [src |-> q[1].src, pgn |-> q[1].pgn, data |-> reassemble(q)])
        /\ mLastError' = "OK"
    BY <1>1, <1>5 DEF Complete
  <2>2. mReassembledFrames' \in Seq(Reassembled)
    BY <1>3, <2>1 DEF ReassemblerTypeOK
  <2> QED
    BY <2>1, <2>2, ReplaceSession DEF ReassemblerTypeOK, BamError
<1>6. CASE Decode[q[1].pgn] = "null"
  <2>1. /\ mFragments' = [mFragments EXCEPT ![s] = << >>]
        /\ mLastError' = "DECODING"
        /\ UNCHANGED mReassembledFrames
    BY <1>1, <1>6 DEF Complete
  <2> QED
    BY <2>1, ReplaceSession DEF ReassemblerTypeOK, BamError
<1>7. CASE Decode[q[1].pgn] = "throw"
  <2>1. /\ mFragments' = [mFragments EXCEPT ![s] = q]
        /\ UNCHANGED <<mReassembledFrames, mLastError>>
    BY <1>1, <1>7 DEF Complete
  <2> QED
    BY <2>1, ReplaceSession DEF ReassemblerTypeOK
<1> QED
  BY <1>4, <1>5, <1>6, <1>7

\* The reassembler keeps its sessions contiguous whatever frame arrives.
LEMMA HandleStep ==
  ASSUME ReassemblerTypeOK, Sessions, NEW f \in AnyFrame, handleFrame(f)
  PROVE  ReassemblerTypeOK' /\ Sessions'
<1>0. ASSUME UNCHANGED <<mFragments, mReassembledFrames>>,
             mLastError' \in BamError
      PROVE  ReassemblerTypeOK' /\ Sessions'
  BY <1>0 DEF ReassemblerTypeOK, Sessions
<1>1. CASE f \in ConnFrames
  <2>1. handleConn(f)
    BY <1>1, Kinds DEF handleFrame
  <2>2. mLastError' \in BamError
    BY <2>1 DEF handleConn, BamError
  <2> QED
    BY <1>1, <2>1, <2>2, Kinds, SingleSession, ReplaceSession
       DEF handleConn, ReassemblerTypeOK
<1>2. CASE f \in TPDTFrames
  <2>1. handleData(f) /\ f.src \in Source
    BY <1>2, Kinds DEF handleFrame
  <2>2. CASE ~Expected(f)
    BY <2>1, <2>2, <1>0 DEF handleData, Unexpected, BamError
  <2>3. CASE Expected(f)
    <3> DEFINE q == mFragments[f.src]
    <3>1. Session(q) /\ Head(q) = q[1]
      BY <2>1, <2>3 DEF Expected, Sessions, Session
    <3>2. Session(Append(q, f))
      BY <1>2, <2>3, <3>1, AppendSession DEF Expected
    <3>3. CASE f.sq = Head(q).packets
      BY <2>1, <2>3, <3>2, <3>3, CompleteStep DEF handleData
    <3>4. CASE f.sq # Head(q).packets
      BY <2>1, <2>3, <3>2, <3>4, ReplaceSession DEF handleData, ReassemblerTypeOK
    <3> QED
      BY <3>3, <3>4
  <2> QED
    BY <2>2, <2>3
<1>3. CASE f \in StrayFrames
  BY <1>3, <1>0, Kinds DEF handleFrame, Unexpected, BamError
<1> QED
  BY <1>1, <1>2, <1>3 DEF AnyFrame

-----------------------------------------------------------------------------
(* The senders, and the invariant that holds whatever is lost.             *)

Sending ==
  \A s \in Source : sending[s] # NoMessage =>
    /\ SrcOf[sending[s]] = s
    /\ Fragments(sending[s])
    /\ next[s] \in 0 .. DataFrames(sending[s])

\* Every frame a sender puts on the bus is a TP.CM or a TP.DT.
LEMMA BusFrameType ==
  ASSUME NEW m \in Message, NEW i \in 0 .. DataFrames(m)
  PROVE  BusFrame(m, i) \in AnyFrame
<1>1. CASE i = 0
  BY <1>1, ConnFrameType DEF BusFrame, AnyFrame
<1>2. CASE i # 0
  <2>1. i \in 1 .. DataFrames(m)
    BY <1>2, PacketsType
  <2> QED
    BY <1>2, <2>1, DataFrameType DEF BusFrame, AnyFrame
<1> QED
  BY <1>1, <1>2

\* A receiver that filters passes on what a sender puts on the bus.
LEMMA BusFrameHandled ==
  ASSUME NEW m, NEW i, onRcv(BusFrame(m, i))
  PROVE  handleFrame(BusFrame(m, i))
<1>1. BusFrame(m, i).kind \in {"BAM", "DT"}
  BY DEF BusFrame, ConnFrame, DataFrame
<1> QED
  BY <1>1 DEF onRcv, toBeHandled

\* What a filtering or an unfiltering receiver makes of another protocol.
LEMMA StrayHandled ==
  ASSUME NEW f \in Strays, Stray(f)
  PROVE  /\ UNCHANGED <<mFragments, mReassembledFrames>>
         /\ mLastError' \in BamError \cup {mLastError}
<1>1. f.kind \in {"CM", "ToOne", "Other"}
  BY TransportAssumption, Kinds
<1>2. CASE handleFrame(f)
  BY <1>1, <1>2 DEF handleFrame, Unexpected, BamError
<1>3. CASE ~handleFrame(f)
  BY <1>1, <1>3 DEF Stray, onRcv, toBeHandled, reassemblerVars
<1> QED
  BY <1>2, <1>3

\* Advance keeps the senders in order.
LEMMA AdvanceStep ==
  ASSUME TypeOK, Sending, NEW s \in Source, Advance(s)
  PROVE  /\ sending' \in [Source -> Message \cup {NoMessage}]
         /\ next' \in [Source -> Nat]
         /\ messages' \in Nat /\ aborts' \in Nat
         /\ Sending'
<1>1. /\ sending[s] \in Message
      /\ next[s] \in 0 .. DataFrames(sending[s])
      /\ DataFrames(sending[s]) \in Nat
      /\ next[s] \in Nat
  <2>1. sending[s] \in Message /\ next[s] \in Nat
        /\ next[s] \in 0 .. DataFrames(sending[s])
    BY DEF TypeOK, Advance, Sending
  <2>2. DataFrames(sending[s]) \in 0 .. 256
    BY <2>1, PacketsType
  <2> QED
    BY <2>1, <2>2
<1>2. next' = [next EXCEPT ![s] = next[s] + 1]
      /\ sending' = [sending EXCEPT ![s] = IF next[s] = DataFrames(sending[s])
                                           THEN NoMessage ELSE sending[s]]
  BY DEF Advance
<1>3. sending' \in [Source -> Message \cup {NoMessage}]
      /\ next' \in [Source -> Nat]
  BY <1>1, <1>2 DEF TypeOK
<1>4. ASSUME NEW t \in Source, sending'[t] # NoMessage
      PROVE  /\ SrcOf[sending'[t]] = t
             /\ Fragments(sending'[t])
             /\ next'[t] \in 0 .. DataFrames(sending'[t])
  <2>1. CASE t = s
    <3>1. sending'[t] = sending[s] /\ next'[t] = next[s] + 1
          /\ next[s] # DataFrames(sending[s])
      BY <1>2, <1>4, <2>1 DEF TypeOK
    <3>2. next[s] + 1 \in 0 .. DataFrames(sending[s])
      BY <1>1, <3>1
    <3> QED
      BY <1>4, <2>1, <3>1, <3>2 DEF Sending
  <2>2. CASE t # s
    BY <1>2, <1>4, <2>2 DEF TypeOK, Sending
  <2> QED
    BY <2>1, <2>2
<1> QED
  BY <1>3, <1>4 DEF Sending, TypeOK, Advance

SessionInv == TypeOK /\ Sending /\ Sessions

\* No session is open at first.
LEMMA SessionInit == Init => SessionInv
BY DEF Init, ReassemblerInit, SessionInv, TypeOK, ReassemblerTypeOK, Sending,
       Sessions, BamError

\* Every step keeps the senders in order and the sessions contiguous.
LEMMA SessionStep == SessionInv /\ [Next]_vars => SessionInv'
<1> SUFFICES ASSUME SessionInv, [Next]_vars
             PROVE  SessionInv'
  OBVIOUS
<1> USE DEF SessionInv
<1>1. ASSUME NEW s \in Source, NEW m \in Message, Begin(s, m)
      PROVE  SessionInv'
  <2>1. ReassemblerTypeOK' /\ Sessions'
    BY <1>1 DEF Begin, TypeOK, ReassemblerTypeOK, Sessions
  <2>2. TypeOK'
    BY <1>1, <2>1 DEF Begin, TypeOK
  <2>3. DataFrames(m) \in 0 .. 256
    BY PacketsType
  <2>4. 0 \in 0 .. DataFrames(m)
    BY <2>3
  <2>5. ASSUME NEW t \in Source, sending'[t] # NoMessage
        PROVE  /\ SrcOf[sending'[t]] = t
               /\ Fragments(sending'[t])
               /\ next'[t] \in 0 .. DataFrames(sending'[t])
    <3>1. CASE t = s
      BY <1>1, <2>4, <3>1 DEF Begin, TypeOK
    <3>2. CASE t # s
      BY <1>1, <2>5, <3>2 DEF Begin, TypeOK, Sending
    <3> QED
      BY <3>1, <3>2
  <2>6. Sending'
    BY <2>5 DEF Sending
  <2> QED
    BY <2>1, <2>2, <2>6
<1>2. ASSUME NEW s \in Source, Receive(s)
      PROVE  SessionInv'
  <2>1. BusFrame(sending[s], next[s]) \in AnyFrame
    BY <1>2, BusFrameType DEF Receive, Advance, TypeOK, Sending
  <2>2. ReassemblerTypeOK' /\ Sessions'
    BY <1>2, <2>1, BusFrameHandled, HandleStep DEF Receive, TypeOK
  <2>3. Advance(s)
    BY <1>2 DEF Receive
  <2>4. current' \in [Source -> Message \cup {NoMessage}]
    BY <1>2 DEF Receive, TypeOK
  <2> QED
    BY <1>2, <2>2, <2>3, <2>4, AdvanceStep DEF Receive, TypeOK
<1>3. ASSUME NEW s \in Source, Lose(s)
      PROVE  SessionInv'
  <2>1. ReassemblerTypeOK' /\ Sessions'
    BY <1>3 DEF Lose, TypeOK, ReassemblerTypeOK, Sessions
  <2>2. Advance(s)
    BY <1>3 DEF Lose
  <2> QED
    BY <1>3, <2>1, <2>2, AdvanceStep DEF Lose, TypeOK
<1>4. ASSUME NEW s \in Source, Abort(s)
      PROVE  SessionInv'
  <2>1. ReassemblerTypeOK' /\ Sessions'
    BY <1>4 DEF Abort, TypeOK, ReassemblerTypeOK, Sessions
  <2>2. TypeOK'
    BY <1>4, <2>1 DEF Abort, TypeOK
  <2>3. Sending'
    BY <1>4 DEF Abort, TypeOK, Sending
  <2> QED
    BY <2>1, <2>2, <2>3
<1>5. ASSUME NEW f \in Strays, Stray(f)
      PROVE  SessionInv'
  <2>1. ReassemblerTypeOK' /\ Sessions'
    BY <1>5, StrayHandled DEF TypeOK, ReassemblerTypeOK, Sessions
  <2> QED
    BY <1>5, <2>1 DEF Stray, TypeOK, Sending
<1>6. ASSUME dequeueReassembledFrame
      PROVE  SessionInv'
  <2>1. /\ Head(mReassembledFrames) \in Reassembled
        /\ Tail(mReassembledFrames) \in Seq(Reassembled)
    BY <1>6 DEF dequeueReassembledFrame, TypeOK, ReassemblerTypeOK
  <2>2. ReassemblerTypeOK' /\ Sessions'
    BY <1>6, <2>1 DEF dequeueReassembledFrame, TypeOK, ReassemblerTypeOK, Sessions
  <2> QED
    BY <1>6, <2>1, <2>2 DEF dequeueReassembledFrame, TypeOK, Sending
<1>7. ASSUME Clear
      PROVE  SessionInv'
  <2>1. ReassemblerTypeOK' /\ Sessions'
    BY <1>7 DEF Clear, clear, ReassemblerTypeOK, Sessions, BamError
  <2> QED
    BY <1>7, <2>1 DEF Clear, TypeOK, Sending
<1>8. CASE UNCHANGED vars
  BY <1>8 DEF vars, TypeOK, ReassemblerTypeOK, Sending, Sessions
<1> QED
  BY <1>1, <1>2, <1>3, <1>4, <1>5, <1>6, <1>7, <1>8 DEF Next

\* The session invariant holds in every reachable state.
LEMMA SessionInvariant == Spec => []SessionInv
BY SessionInit, SessionStep, PTL DEF Spec

(***************************************************************************)
(* Every variable keeps its type.                                          *)
(***************************************************************************)
THEOREM TransportTypeCorrect == Spec => []TypeOK
<1>1. SessionInv => TypeOK
  BY DEF SessionInv
<1> QED
  BY <1>1, SessionInvariant, PTL

(***************************************************************************)
(* A session never holds a gap or more packets than announced, whatever is *)
(* lost, given up, cleared or mixed in from other protocols.               *)
(***************************************************************************)
THEOREM SessionsAreContiguous == Spec => []Contiguous
<1>1. SessionInv => Contiguous
  BY ContiguousIsSession DEF SessionInv, TypeOK, Sessions
<1> QED
  BY <1>1, SessionInvariant, PTL

-----------------------------------------------------------------------------
(* Without losses the receiver's session mirrors what the sender has sent. *)

\* The session after frames 0 .. k of m: a message whose packets cannot be
\* counted in a u8 announces 0 packets and gets none accepted.
Prefix(m, k) ==
  IF Packets(m) < U8 THEN [i \in 1 .. k + 1 |-> BusFrame(m, i - 1)]
  ELSE <<ConnFrame(m)>>

\* The fields of the frames of m.
LEMMA FrameFields ==
  ASSUME NEW m \in Message
  PROVE  /\ Packets(m) < U8 => ConnFrame(m).packets = Packets(m)
         /\ Packets(m) >= U8 => ConnFrame(m).packets = 0
         /\ ConnFrame(m).src = SrcOf[m] /\ ConnFrame(m).pgn = PgnOf[m]
         /\ ConnFrame(m).kind = "BAM"
         /\ ConnFrame(m).size = Size[m] % U16
<1>1. Packets(m) \in Nat
  BY PacketsType
<1>2. Packets(m) < U8 => DataFrames(m) % U8 = Packets(m)
  BY <1>1 DEF DataFrames, U8
<1>3. Packets(m) >= U8 => DataFrames(m) % U8 = 0
  BY <1>1 DEF DataFrames, U8
<1> QED
  BY <1>2, <1>3 DEF ConnFrame

\* A message of at most 255 packets fits the size field.
LEMMA SizeFits ==
  ASSUME NEW m \in Message, Packets(m) < U8
  PROVE  Size[m] % U16 = Size[m]
<1>1. Size[m] \in Nat
  BY PacketsType
<1>2. \A x \in Nat : (x + 7 - 1) \div 7 < 256 => x < 65536
  OBVIOUS
<1>3. Size[m] < 65536
  BY <1>1, <1>2 DEF Packets, TP_DT_PACKET_SIZE, U8
<1>4. \A x \in Nat : x < 65536 => x % 65536 = x
  OBVIOUS
<1> QED
  BY <1>1, <1>3, <1>4 DEF U16

\* The first k packets of a message, with its TP.CM.
LEMMA PrefixFacts ==
  ASSUME NEW m \in Message, Packets(m) < U8, NEW k \in 0 .. Packets(m)
  PROVE  /\ Prefix(m, k) = [i \in 1 .. k + 1 |-> BusFrame(m, i - 1)]
         /\ Prefix(m, k) \in Seq(ConnFrames \cup TPDTFrames)
         /\ Len(Prefix(m, k)) = k + 1
         /\ Prefix(m, k)[1] = ConnFrame(m)
         /\ Head(Prefix(m, k)) = ConnFrame(m)
         /\ \A i \in 2 .. k + 1 : Prefix(m, k)[i] = DataFrame(m, i - 1)
<1>1. Packets(m) \in Nat /\ k \in Nat /\ DataFrames(m) = Packets(m)
  BY PacketsType DEF DataFrames
<1>2. Prefix(m, k) = [i \in 1 .. k + 1 |-> BusFrame(m, i - 1)]
  BY DEF Prefix
<1>3. \A i \in 1 .. k + 1 : BusFrame(m, i - 1) \in ConnFrames \cup TPDTFrames
  <2> SUFFICES ASSUME NEW i \in 1 .. k + 1
               PROVE  BusFrame(m, i - 1) \in ConnFrames \cup TPDTFrames
    OBVIOUS
  <2>1. i - 1 = 0 \/ i - 1 \in 1 .. DataFrames(m)
    BY <1>1
  <2> QED
    BY <2>1, ConnFrameType, DataFrameType DEF BusFrame
<1>4. Prefix(m, k) \in Seq(ConnFrames \cup TPDTFrames) /\ Len(Prefix(m, k)) = k + 1
  BY <1>1, <1>2, <1>3
<1>5. Prefix(m, k)[1] = ConnFrame(m)
  BY <1>1, <1>2 DEF BusFrame
<1>6. \A i \in 2 .. k + 1 : Prefix(m, k)[i] = DataFrame(m, i - 1)
  BY <1>1, <1>2 DEF BusFrame
<1>7. Head(Prefix(m, k)) = Prefix(m, k)[1]
  <2> DEFINE q == Prefix(m, k)
  <2>1. q \in Seq(ConnFrames \cup TPDTFrames) /\ Len(q) >= 1
    BY <1>1, <1>4
  <2> HIDE DEF q
  <2>2. Head(q) = q[1]
    BY <2>1
  <2> QED
    BY <2>2 DEF q
<1> QED
  BY <1>2, <1>4, <1>5, <1>6, <1>7

\* The next packet extends the prefix by one.
LEMMA AppendPrefix ==
  ASSUME NEW m \in Message, Packets(m) < U8, NEW k \in 1 .. Packets(m)
  PROVE  Append(Prefix(m, k - 1), DataFrame(m, k)) = Prefix(m, k)
<1>1. Packets(m) \in Nat /\ k \in Nat /\ k - 1 \in 0 .. Packets(m)
      /\ k \in 0 .. Packets(m) /\ k - 1 + 1 = k
  BY PacketsType
<1> DEFINE a == Append(Prefix(m, k - 1), DataFrame(m, k))
<1>2. /\ Prefix(m, k - 1) \in Seq(ConnFrames \cup TPDTFrames)
      /\ Len(Prefix(m, k - 1)) = k
      /\ Prefix(m, k - 1) = [i \in 1 .. k |-> BusFrame(m, i - 1)]
  BY <1>1, PrefixFacts
<1>3. Prefix(m, k) = [i \in 1 .. k + 1 |-> BusFrame(m, i - 1)]
  BY <1>1, PrefixFacts
<1>4. a = [i \in 1 .. k + 1 |-> IF i = k + 1 THEN DataFrame(m, k)
                                ELSE Prefix(m, k - 1)[i]]
  BY <1>1, <1>2
<1>5. ASSUME NEW i \in 1 .. k + 1
      PROVE  (IF i = k + 1 THEN DataFrame(m, k) ELSE Prefix(m, k - 1)[i])
               = BusFrame(m, i - 1)
  BY <1>1, <1>2 DEF BusFrame
<1> QED
  BY <1>3, <1>4, <1>5

\* reassemble undoes fragment.
LEMMA ReassemblePrefix ==
  ASSUME NEW m \in Message, Packets(m) < U8
  PROVE  reassemble(Prefix(m, Packets(m))) = Bytes(m)
<1> DEFINE q == Prefix(m, Packets(m))
<1> DEFINE k(j) == ((j - 1) \div TP_DT_PACKET_SIZE) + 2
<1> DEFINE b(j) == ((j - 1) % TP_DT_PACKET_SIZE) + 1
<1>1. Packets(m) \in Nat /\ Size[m] \in Nat /\ DataFrames(m) = Packets(m)
  BY PacketsType DEF DataFrames
<1>2. Len(q) = Packets(m) + 1 /\ Head(q) = ConnFrame(m)
      /\ \A i \in 2 .. Packets(m) + 1 : q[i] = DataFrame(m, i - 1)
  BY <1>1, PrefixFacts
<1>3. Head(q).size = Size[m]
  BY <1>2, FrameFields, SizeFits
<1>4. reassemble(q) = [j \in 1 .. Size[m] |->
                         IF k(j) <= Len(q) THEN q[k(j)].data[b(j)] ELSE Uninit]
  BY <1>3 DEF reassemble
<1>5. ASSUME NEW j \in 1 .. Size[m]
      PROVE  (IF k(j) <= Len(q) THEN q[k(j)].data[b(j)] ELSE Uninit) = <<m, j>>
  <2>1. /\ k(j) \in Nat /\ k(j) >= 2
        /\ b(j) \in 1 .. TP_DT_PACKET_SIZE
        /\ (k(j) - 1 - 1) * TP_DT_PACKET_SIZE + b(j) = j
    BY <1>1, DivMod
  <2>2. k(j) <= Packets(m) + 1
    BY <1>1 DEF Packets, TP_DT_PACKET_SIZE
  <2> HIDE DEF k, b, q
  <2>3. k(j) \in 2 .. Packets(m) + 1 /\ k(j) - 1 \in 1 .. DataFrames(m)
    BY <1>1, <2>1, <2>2
  <2>4. q[k(j)].data = PacketData(m, k(j) - 1)
    <3>1. q[k(j)] = DataFrame(m, k(j) - 1)
      BY <1>2, <2>3
    <3>2. PacketAt(m, k(j) - 1) = k(j) - 1
      BY <2>3, PacketFacts
    <3> QED
      BY <3>1, <3>2 DEF DataFrame
  <2>5. PacketData(m, k(j) - 1)[b(j)] = <<m, j>>
    BY <1>1, <2>1 DEF PacketData
  <2> QED
    BY <1>1, <1>2, <2>2, <2>4, <2>5
<1> QED
  BY <1>4, <1>5 DEF Bytes

-----------------------------------------------------------------------------
(* The invariant that needs every frame to arrive.                         *)

InStep ==
  lost = 0 =>
    \A s \in Source : sending[s] # NoMessage =>
      /\ current[s] = sending[s]
      /\ next[s] > 0 => mFragments[s] = Prefix(sending[s], next[s] - 1)

\* A session that takes no packet any more: it has all of them (the factory threw),
\* or it was announced with none.
Dead(q) == Len(q) > q[1].packets

\* What the receiver makes of the next frame of s while it is in step with s.
LEMMA ReceiveNext ==
  ASSUME SessionInv, NEW s \in Source, Receive(s),
         next[s] > 0 => mFragments[s] = Prefix(sending[s], next[s] - 1)
  PROVE  LET m == sending[s]
         IN  /\ \A t \in Source \ {s} : mFragments'[t] = mFragments[t]
             /\ \/ /\ mReassembledFrames' = << >>
                   /\ sending'[s] # NoMessage =>
                        mFragments'[s] = Prefix(m, next[s])
                   /\ sending'[s] = NoMessage =>
                        Decode[PgnOf[m]] # "frame" \/ Packets(m) >= U8
                \/ /\ mReassembledFrames' = <<Sent(m)>>
                   /\ sending'[s] = NoMessage
             /\ sending'[s] = NoMessage => mFragments'[s] = << >> \/ Dead(mFragments'[s])
<1> DEFINE m == sending[s]
<1> DEFINE i == next[s]
<1> DEFINE f == BusFrame(m, i)
<1>1. /\ m \in Message /\ i \in Nat /\ i \in 0 .. DataFrames(m)
      /\ SrcOf[m] = s /\ Fragments(m)
      /\ i > 0 => mFragments[s] = Prefix(m, i - 1)
      /\ mReassembledFrames = << >>
      /\ handleFrame(f)
  BY BusFrameHandled DEF SessionInv, TypeOK, Sending, Receive, Advance
<1>2. sending'[s] = IF i = DataFrames(m) THEN NoMessage ELSE m
  BY DEF SessionInv, TypeOK, Receive, Advance
<1>3. /\ Packets(m) \in Nat /\ DataFrames(m) \in 0 .. 256
      /\ Packets(m) > 0
      /\ Packets(m) < U8 => DataFrames(m) = Packets(m)
      /\ DataFrames(m) > 0
  <2>1. Size[m] \in Nat /\ Packets(m) \in Nat /\ DataFrames(m) \in 0 .. 256
    BY <1>1, PacketsType
  <2>2. Packets(m) > 0
    BY <1>1, <2>1 DEF Fragments, Packets, J1939_MAX_SIZE, TP_DT_PACKET_SIZE
  <2> QED
    BY <2>1, <2>2 DEF DataFrames, U8
<1>4. NoMessage \notin Message /\ m # NoMessage
  BY <1>1, TransportAssumption
<1>5. mFragments \in [Source -> Seq(ConnFrames \cup TPDTFrames)]
  BY DEF SessionInv, TypeOK, ReassemblerTypeOK
<1> HIDE DEF m, i
<1>6. CASE i = 0
  <2>1. f = ConnFrame(m) /\ f.kind = "BAM" /\ f.src = s
    BY <1>1, <1>6, FrameFields DEF BusFrame
  <2>2. handleConn(f)
    BY <1>1, <2>1 DEF handleFrame
  <2>3. mFragments' = [mFragments EXCEPT ![s] = <<ConnFrame(m)>>]
        /\ mReassembledFrames' = << >>
    BY <1>1, <2>1, <2>2 DEF handleConn
  <2>4. Prefix(m, 0) = <<ConnFrame(m)>>
    <3>1. CASE Packets(m) < U8
      <4>1. Prefix(m, 0) = [x \in 1 .. 1 |-> BusFrame(m, x - 1)]
        BY <3>1 DEF Prefix
      <4>2. [x \in 1 .. 1 |-> BusFrame(m, x - 1)] = [x \in 1 .. 1 |-> ConnFrame(m)]
        BY DEF BusFrame
      <4> QED
        BY <4>1, <4>2
    <3>2. CASE ~(Packets(m) < U8)
      BY <3>2 DEF Prefix
    <3> QED
      BY <3>1, <3>2
  <2>5. mFragments'[s] = Prefix(m, i)
    BY <1>5, <1>6, <2>3, <2>4
  <2>6. sending'[s] = m
    BY <1>2, <1>3, <1>6
  <2> QED
    BY <1>4, <1>5, <2>3, <2>5, <2>6 DEF m, i
<1>7. CASE i > 0 /\ Packets(m) >= U8
  <2>1. i \in 1 .. DataFrames(m)
    BY <1>1, <1>3, <1>7
  <2>2. f = DataFrame(m, i) /\ f.kind = "DT" /\ f.src = s /\ f.sq = i - 1
    BY <1>1, <1>3, <1>7 DEF BusFrame, DataFrame, SqAt, U8
  <2>3. mFragments[s] = <<ConnFrame(m)>>
    <3>1. mFragments[s] = Prefix(m, i - 1)
      BY <1>1, <1>7
    <3>2. ~(Packets(m) < U8)
      BY <1>3, <1>7 DEF U8
    <3> QED
      BY <3>1, <3>2 DEF Prefix
  <2>4. getLastSQ(mFragments[s]) = 0 /\ Head(mFragments[s]).packets = 0
    BY <1>1, <1>7, <2>3, FrameFields DEF getLastSQ
  <2>5. ~Expected(f)
    BY <1>1, <2>1, <2>2, <2>4 DEF Expected
  <2>6. handleData(f)
    BY <1>1, <2>2 DEF handleFrame
  <2>7. UNCHANGED <<mFragments, mReassembledFrames>>
    BY <2>5, <2>6 DEF handleData, Unexpected
  <2>8. mFragments'[s] = Prefix(m, i)
    BY <1>3, <1>7, <2>3, <2>7 DEF Prefix, U8
  <2>9. Dead(mFragments'[s])
    <3>1. Len(<<ConnFrame(m)>>) = 1 /\ <<ConnFrame(m)>>[1] = ConnFrame(m)
      OBVIOUS
    <3>2. ConnFrame(m).packets = 0
      BY <1>1, <1>7, FrameFields
    <3> QED
      BY <2>3, <2>7, <3>1, <3>2 DEF Dead
  <2> QED
    BY <1>1, <1>7, <2>7, <2>8, <2>9 DEF m, i
<1>8. CASE i > 0 /\ Packets(m) < U8
  <2>1. i \in 1 .. Packets(m) /\ i \in 1 .. DataFrames(m) /\ i - 1 \in 0 .. Packets(m)
    BY <1>1, <1>3, <1>8
  <2>2. SqAt(m, i) = i
    BY <1>8 DEF SqAt
  <2>3. f = DataFrame(m, i) /\ f.kind = "DT" /\ f.src = s /\ f.sq = i
    BY <1>1, <1>8, <2>2 DEF BusFrame, DataFrame
  <2>4. Append(mFragments[s], f) = Prefix(m, i)
    BY <1>1, <1>8, <2>1, <2>3, AppendPrefix
  <2>5. handleData(f)
    BY <1>1, <2>3 DEF handleFrame
  <2> HIDE DEF f
  <2>6. Head(mFragments[s]) = ConnFrame(m) /\ ConnFrame(m).packets = Packets(m)
    BY <1>1, <1>8, <2>1, PrefixFacts, FrameFields
  <2>7. CASE ~Expected(f)
    <3>1. mFragments[s] \in Seq(ConnFrames \cup TPDTFrames)
          /\ Len(mFragments[s]) = i
      BY <1>1, <1>8, <2>1, PrefixFacts
    <3>2. mFragments[s] # << >>
      BY <2>1, <3>1
    <3>3. Session(mFragments[s])
      BY <3>2 DEF SessionInv, Sessions
    <3>4. getLastSQ(mFragments[s]) = Len(mFragments[s]) - 1
      BY <3>3, LastSQ
    <3>5. getLastSQ(mFragments[s]) + 1 = i
      BY <2>1, <3>1, <3>4
    <3>6. Packets(m) >= i
      BY <1>3, <2>1
    <3> QED
      BY <2>3, <2>6, <2>7, <3>2, <3>5, <3>6 DEF Expected
  <2>8. CASE Expected(f) /\ i # Packets(m)
    <3>1. mFragments' = [mFragments EXCEPT ![s] = Prefix(m, i)]
          /\ UNCHANGED mReassembledFrames
      BY <2>3, <2>4, <2>5, <2>6, <2>8 DEF handleData
    <3>2. sending'[s] # NoMessage
      BY <1>2, <1>3, <1>4, <1>8, <2>8
    <3> QED
      BY <1>1, <1>5, <3>1, <3>2 DEF m, i
  <2>9. CASE Expected(f) /\ i = Packets(m)
    <3>1. Complete(s, Prefix(m, i))
      BY <2>3, <2>4, <2>5, <2>6, <2>9 DEF handleData
    <3>2. Head(Prefix(m, i)) = ConnFrame(m)
      BY <1>1, <1>3, <1>8, <2>9, PrefixFacts
    <3>3. reassemble(Prefix(m, i)) = Bytes(m)
      BY <1>1, <1>8, <2>9, ReassemblePrefix
    <3>4. sending'[s] = NoMessage
      BY <1>2, <1>3, <1>8, <2>9
    <3>5. ConnFrame(m).src = SrcOf[m] /\ ConnFrame(m).pgn = PgnOf[m]
      BY <1>1, FrameFields
    <3>6. \A t \in Source \ {s} : mFragments'[t] = mFragments[t]
      BY <1>5, <3>1 DEF Complete
    <3>7. \/ /\ Decode[PgnOf[m]] = "frame"
             /\ mReassembledFrames' = Append(mReassembledFrames, Sent(m))
          \/ /\ Decode[PgnOf[m]] # "frame"
             /\ UNCHANGED mReassembledFrames
      BY <3>1, <3>2, <3>3, <3>5 DEF Complete, Sent
    <3>8. mReassembledFrames' = << >> \/ mReassembledFrames' = <<Sent(m)>>
      BY <1>1, <3>7
    <3>9. mFragments'[s] = << >> \/ mFragments'[s] = Prefix(m, i)
      BY <1>5, <3>1 DEF Complete
    <3>10. Dead(Prefix(m, i))
      <4>1. Len(Prefix(m, i)) = i + 1 /\ Prefix(m, i)[1].packets = i
        BY <1>1, <1>3, <1>8, <2>6, <2>9, PrefixFacts
      <4> QED
        BY <1>1, <4>1 DEF Dead
    <3> QED
      BY <1>1, <3>4, <3>6, <3>7, <3>8, <3>9, <3>10 DEF m, i
  <2> QED
    BY <2>7, <2>8, <2>9
<1> QED
  <2>1. Packets(m) < U8 \/ Packets(m) >= U8
    BY <1>3 DEF U8
  <2>2. i = 0 \/ i > 0
    BY <1>1
  <2> QED
    BY <1>6, <1>7, <1>8, <2>1, <2>2

LosslessInv == SessionInv /\ InStep /\ NothingMissing /\ lost <= MaxLost

\* At first the receiver is in step with every sender.
LEMMA LosslessInit == Init => LosslessInv
<1> SUFFICES ASSUME Init
             PROVE  LosslessInv
  OBVIOUS
<1>1. SessionInv
  BY SessionInit
<1>2. InStep /\ NothingMissing
  BY DEF Init, InStep, NothingMissing
<1>3. lost <= MaxLost
  BY TransportAssumption DEF Init
<1> QED
  BY <1>1, <1>2, <1>3 DEF LosslessInv

\* As long as nothing is lost every step keeps the receiver in step.
LEMMA LosslessStep == LosslessInv /\ [Next]_vars => LosslessInv'
<1> SUFFICES ASSUME LosslessInv, [Next]_vars
             PROVE  InStep' /\ NothingMissing' /\ lost' <= MaxLost
  BY SessionStep DEF LosslessInv
<1>0. /\ SessionInv /\ SessionInv' /\ InStep /\ NothingMissing
      /\ lost <= MaxLost /\ lost \in Nat /\ MaxLost \in Nat
      /\ sending \in [Source -> Message \cup {NoMessage}]
      /\ next \in [Source -> Nat]
      /\ current \in [Source -> Message \cup {NoMessage}]
      /\ mFragments \in [Source -> Seq(ConnFrames \cup TPDTFrames)]
  BY SessionStep, TransportAssumption
     DEF LosslessInv, SessionInv, TypeOK, ReassemblerTypeOK
<1>1. ASSUME NEW s \in Source, NEW m \in Message, Begin(s, m)
      PROVE  InStep' /\ NothingMissing' /\ lost' <= MaxLost
  <2>1. m # NoMessage
    BY TransportAssumption
  <2>2. \A t \in Source :
          /\ sending'[t] = (IF t = s THEN m ELSE sending[t])
          /\ current'[t] = (IF t = s THEN m ELSE current[t])
          /\ next'[t] = (IF t = s THEN 0 ELSE next[t])
    BY <1>0, <1>1 DEF Begin
  <2>3. UNCHANGED <<mFragments, lost, aborts>>
    BY <1>1 DEF Begin
  <2>4. InStep'
    <3> SUFFICES ASSUME lost' = 0, NEW t \in Source, sending'[t] # NoMessage
                 PROVE  /\ current'[t] = sending'[t]
                        /\ next'[t] > 0 =>
                             mFragments'[t] = Prefix(sending'[t], next'[t] - 1)
      BY DEF InStep
    <3>1. CASE t = s
      <4>1. next'[t] = 0 /\ current'[t] = sending'[t]
        BY <2>2, <3>1
      <4>2. ~(next'[t] > 0)
        BY <4>1
      <4> QED
        BY <4>1, <4>2
    <3>2. CASE t # s
      BY <1>0, <2>2, <2>3, <3>2 DEF InStep
    <3> QED
      BY <3>1, <3>2
  <2>5. NothingMissing'
    BY <1>0, <2>1, <2>2, <2>3 DEF NothingMissing
  <2> QED
    BY <1>0, <2>3, <2>4, <2>5
<1>2. ASSUME NEW s \in Source, Receive(s)
      PROVE  InStep' /\ NothingMissing' /\ lost' <= MaxLost
  <2> DEFINE m == sending[s]
  <2>1. UNCHANGED <<lost, aborts>> /\ m # NoMessage
    BY <1>2 DEF Receive, Advance
  <2>2. \A t \in Source :
          /\ t # s => sending'[t] = sending[t] /\ next'[t] = next[t]
                      /\ current'[t] = current[t]
          /\ sending'[s] # NoMessage => sending'[s] = m
          /\ next'[s] = next[s] + 1
          /\ current'[s] = IF mReassembledFrames' # << >> THEN NoMessage
                           ELSE current[s]
    BY <1>0, <1>2 DEF Receive, Advance
  <2>3. CASE lost = 0
    <3>1. /\ \A t \in Source \ {s} : mFragments'[t] = mFragments[t]
          /\ \/ /\ mReassembledFrames' = << >>
                /\ sending'[s] # NoMessage => mFragments'[s] = Prefix(m, next[s])
                /\ sending'[s] = NoMessage =>
                     Decode[PgnOf[m]] # "frame" \/ Packets(m) >= U8
             \/ /\ mReassembledFrames' = <<Sent(m)>>
                /\ sending'[s] = NoMessage
      <4>1. next[s] > 0 => mFragments[s] = Prefix(m, next[s] - 1)
        BY <1>0, <2>1, <2>3 DEF InStep
      <4> QED
        BY <1>0, <1>2, <4>1, ReceiveNext
    <3>2. current[s] = m
      BY <1>0, <2>1, <2>3 DEF InStep
    <3>3. next'[s] - 1 = next[s]
      <4>1. next'[s] = next[s] + 1
        BY <2>2
      <4>2. next[s] \in Nat
        BY <1>0
      <4> QED
        BY <4>1, <4>2
    <3>4. mReassembledFrames' # << >> => sending'[s] = NoMessage
      BY <3>1
    <3>5. ASSUME NEW t \in Source, sending'[t] # NoMessage
          PROVE  /\ current'[t] = sending'[t]
                 /\ next'[t] > 0 => mFragments'[t] = Prefix(sending'[t], next'[t] - 1)
      <4>1. CASE t = s
        BY <2>2, <3>1, <3>2, <3>3, <3>4, <3>5, <4>1
      <4>2. CASE t # s
        BY <1>0, <2>2, <2>3, <3>1, <3>5, <4>2 DEF InStep
      <4> QED
        BY <4>1, <4>2
    <3>6. InStep'
      BY <3>5 DEF InStep
    <3>7. ASSUME NEW t \in Source, aborts = 0,
                 sending'[t] = NoMessage, current'[t] # NoMessage
          PROVE  Decode[PgnOf[current'[t]]] # "frame" \/ Packets(current'[t]) >= U8
      <4>1. CASE t = s
        <5>1. mReassembledFrames' = << >>
          BY <2>2, <3>7, <4>1
        <5>2. <<Sent(m)>> # << >>
          OBVIOUS
        <5> QED
          BY <2>2, <3>1, <3>2, <3>7, <4>1, <5>1, <5>2
      <4>2. CASE t # s
        BY <1>0, <2>2, <2>3, <3>7, <4>2 DEF NothingMissing
      <4> QED
        BY <4>1, <4>2
    <3>8. NothingMissing'
      BY <2>1, <3>7 DEF NothingMissing
    <3> QED
      BY <1>0, <2>1, <3>6, <3>8
  <2>4. CASE lost # 0
    BY <1>0, <2>1, <2>4 DEF InStep, NothingMissing
  <2> QED
    BY <2>3, <2>4
<1>3. ASSUME lost < MaxLost, lost' = lost + 1
      PROVE  InStep' /\ NothingMissing' /\ lost' <= MaxLost
  <2>1. lost' # 0 /\ lost' <= MaxLost
    BY <1>0, <1>3
  <2> QED
    BY <2>1 DEF InStep, NothingMissing
<1>4. ASSUME NEW s \in Source, Abort(s)
      PROVE  InStep' /\ NothingMissing' /\ lost' <= MaxLost
  <2>1. aborts' # 0
    BY <1>0, <1>4 DEF Abort, SessionInv, TypeOK
  <2>2. NothingMissing'
    BY <2>1 DEF NothingMissing
  <2>3. \A t \in Source : sending'[t] # NoMessage => sending'[t] = sending[t]
    BY <1>0, <1>4 DEF Abort
  <2>4. UNCHANGED <<mFragments, next, lost, current>>
    BY <1>4 DEF Abort
  <2>5. InStep'
    BY <1>0, <2>3, <2>4 DEF InStep
  <2> QED
    BY <1>0, <2>2, <2>4, <2>5
<1>5. ASSUME UNCHANGED <<mFragments, sending, next, aborts, lost, current>>
      PROVE  InStep' /\ NothingMissing' /\ lost' <= MaxLost
  BY <1>0, <1>5 DEF InStep, NothingMissing
<1>6. ASSUME NEW f \in Strays, Stray(f)
      PROVE  UNCHANGED <<mFragments, mReassembledFrames>>
  BY <1>6, StrayHandled
<1> QED
  BY <1>1, <1>2, <1>3, <1>4, <1>5, <1>6
     DEF Next, Lose, Clear, Stray, dequeueReassembledFrame, vars

\* The lossless invariant holds in every reachable state.
LEMMA LosslessInvariant == Spec => []LosslessInv
BY LosslessInit, LosslessStep, PTL DEF Spec

(***************************************************************************)
(* Every message whose frames all arrive is delivered, for every size and  *)
(* every interleaving of the sources.                                      *)
(***************************************************************************)
THEOREM NothingGetsLost == Spec => []NothingMissing
<1>1. LosslessInv => NothingMissing
  BY DEF LosslessInv
<1> QED
  BY <1>1, LosslessInvariant, PTL

-----------------------------------------------------------------------------
(* The refinement of BamService.                                           *)

\* The initial states are initial states of the service.
LEMMA ServiceInit == Init => Service!Init
BY DEF Init, ReassemblerInit, Service!Init, Delivered

\* Moving the head of one sequence to the end of another.
LEMMA MoveHead ==
  ASSUME NEW S, NEW a \in Seq(S), NEW b \in Seq(S), b # << >>
  PROVE  Append(a, Head(b)) \o Tail(b) = a \o b
<1> DEFINE l == Append(a, Head(b)) \o Tail(b)
<1> DEFINE r == a \o b
<1>1. /\ Head(b) \in S /\ Tail(b) \in Seq(S) /\ Len(b) >= 1
      /\ Len(a) \in Nat /\ Len(b) \in Nat /\ Len(Tail(b)) = Len(b) - 1
      /\ Append(a, Head(b)) \in Seq(S) /\ Len(Append(a, Head(b))) = Len(a) + 1
  OBVIOUS
<1>2. l \in Seq(S) /\ r \in Seq(S) /\ Len(l) = Len(r) /\ Len(r) = Len(a) + Len(b)
  BY <1>1
<1>3. ASSUME NEW i \in 1 .. Len(r)
      PROVE  l[i] = r[i]
  <2>1. CASE i <= Len(a)
    BY <1>1, <1>2, <2>1
  <2>2. CASE i = Len(a) + 1
    BY <1>1, <1>2, <2>2
  <2>3. CASE i > Len(a) + 1
    BY <1>1, <1>2, <2>3
  <2> QED
    BY <1>1, <1>2, <2>1, <2>2, <2>3
<1> QED
  BY <1>2, <1>3

\* What the receiver has of s.  In step with it, or with a session that takes nothing
\* more; after a fault also with one that waits for a packet s has passed, or that is left
\* over while the next TP.CM, which will not be lost, is still to come.
Faulty == lost + aborts > 0

Following(s) ==
  /\ sending[s] # NoMessage /\ next[s] > 0
  /\ mFragments[s] = Prefix(sending[s], next[s] - 1)

Behind(s) ==
  \/ sending[s] = NoMessage
  \/ next[s] = 0
  \/ Len(mFragments[s]) < next[s] /\ Packets(sending[s]) < U8

Sound(s) ==
  \/ mFragments[s] = << >>
  \/ Dead(mFragments[s])
  \/ Following(s)
  \/ Faulty /\ Behind(s)

Announced == \A s \in Source : sending[s] # NoMessage => current[s] = sending[s]

SoundInv == SessionInv /\ Announced /\ \A s \in Source : Sound(s)

\* A session that is behind, dead or not there takes no packet of s.
LEMMA Rejected ==
  ASSUME SessionInv, NEW s \in Source, Receive(s), next[s] > 0,
         \/ mFragments[s] = << >>
         \/ Dead(mFragments[s])
         \/ Len(mFragments[s]) < next[s] /\ Packets(sending[s]) < U8
  PROVE  UNCHANGED <<mFragments, mReassembledFrames>>
<1> DEFINE m == sending[s]
           i == next[s]
           f == BusFrame(m, i)
           q == mFragments[s]
<1>1. /\ m \in Message /\ i \in Nat /\ i \in 0 .. DataFrames(m) /\ SrcOf[m] = s
      /\ handleFrame(f)
  BY BusFrameHandled DEF SessionInv, TypeOK, Sending, Receive, Advance
<1>2. /\ f = DataFrame(m, i) /\ f.kind = "DT" /\ f.src = s
      /\ Packets(m) < U8 => f.sq = i
  BY <1>1 DEF BusFrame, DataFrame, SqAt
<1>3. i \in 1 .. DataFrames(m)
  BY <1>1
<1>4. DataFrame(m, i) \in TPDTFrames
  BY <1>1, <1>3, DataFrameType
<1> HIDE DEF f
<1>5. handleData(f)
  BY <1>1, <1>2 DEF handleFrame
<1>6. ASSUME Expected(f) PROVE FALSE
  <2>1. q # << >> /\ Head(q).packets >= f.sq /\ getLastSQ(q) + 1 = f.sq
    BY <1>2, <1>6 DEF Expected
  <2>2. Session(q)
    BY <2>1 DEF SessionInv, Sessions
  <2>3. Len(q) \in Nat /\ Head(q) = q[1] /\ q[1] \in ConnFrames
    BY <2>2 DEF Session
  <2>4. f.sq = Len(q)
    <3>1. getLastSQ(q) = Len(q) - 1
      BY <2>2, LastSQ
    <3> QED
      BY <2>1, <2>3, <3>1
  <2>5. q[1].packets \in 0 .. 255
    BY <2>3, Kinds
  <2>6. CASE Dead(q)
    <3>1. Len(q) > q[1].packets /\ q[1].packets >= Len(q)
      BY <2>1, <2>3, <2>4, <2>6 DEF Dead
    <3>2. PICK n, k : n = Len(q) /\ k = q[1].packets
      OBVIOUS
    <3>3. n \in Nat /\ k \in 0 .. 255 /\ n > k /\ k >= n
      BY <2>3, <2>5, <3>1, <3>2
    <3> QED
      BY <3>3
  <2>7. CASE Len(q) < i /\ Packets(m) < U8
    BY <1>1, <1>2, <2>3, <2>4, <2>7
  <2> QED
    BY <2>1, <2>6, <2>7
<1> QED
  BY <1>5, <1>6 DEF handleData, Unexpected

\* What one frame of s that arrives does to the receiver.
LEMMA ReceiveSound ==
  ASSUME SoundInv, NEW s \in Source, Receive(s)
  PROVE  /\ \A t \in Source \ {s} : mFragments'[t] = mFragments[t]
         /\ mReassembledFrames' = << >> \/ mReassembledFrames' = <<Sent(sending[s])>>
         /\ mReassembledFrames' # << >> => sending'[s] = NoMessage
         /\ Sound(s)'
<1> DEFINE m == sending[s]
           i == next[s]
<1>1. /\ m \in Message /\ m # NoMessage /\ i \in Nat
      /\ mReassembledFrames = << >> /\ UNCHANGED <<lost, aborts>>
  BY DEF SoundInv, SessionInv, TypeOK, Receive, Advance
<1>2. /\ sending'[s] = NoMessage \/ sending'[s] = m
      /\ next'[s] = i + 1
  BY DEF SoundInv, SessionInv, TypeOK, Receive, Advance
<1>3. i + 1 > 0 /\ i + 1 - 1 = i
  BY <1>1
<1>4. CASE i > 0 => mFragments[s] = Prefix(m, i - 1)
  <2>1. /\ \A t \in Source \ {s} : mFragments'[t] = mFragments[t]
        /\ \/ /\ mReassembledFrames' = << >>
              /\ sending'[s] # NoMessage => mFragments'[s] = Prefix(m, i)
           \/ /\ mReassembledFrames' = <<Sent(m)>>
              /\ sending'[s] = NoMessage
        /\ sending'[s] = NoMessage => mFragments'[s] = << >> \/ Dead(mFragments'[s])
    BY <1>4, ReceiveNext DEF SoundInv
  <2>2. CASE sending'[s] = NoMessage
    <3>1. Sound(s)'
      BY <2>1, <2>2 DEF Sound
    <3> QED
      BY <2>1, <2>2, <3>1
  <2>3. CASE sending'[s] # NoMessage
    <3>1. sending'[s] = m /\ mFragments'[s] = Prefix(m, i) /\ mReassembledFrames' = << >>
      BY <1>2, <2>1, <2>3
    <3>2. next'[s] > 0 /\ next'[s] - 1 = i
      <4>1. next'[s] = i + 1
        BY <1>2
      <4> QED
        BY <1>1, <4>1
    <3>3. mFragments'[s] = Prefix(sending'[s], next'[s] - 1)
      BY <3>1, <3>2
    <3>4. Following(s)'
      BY <2>3, <3>2, <3>3 DEF Following
    <3> QED
      BY <2>1, <3>1, <3>4 DEF Sound
  <2> QED
    BY <2>2, <2>3
<1>5. CASE i > 0 /\ mFragments[s] # Prefix(m, i - 1)
  <2>1. \/ mFragments[s] = << >>
        \/ Dead(mFragments[s])
        \/ Faulty /\ Len(mFragments[s]) < i /\ Packets(m) < U8
    <3>1. Sound(s)
      BY DEF SoundInv
    <3>2. i # 0
      BY <1>1, <1>5
    <3> QED
      BY <1>1, <1>5, <3>1, <3>2 DEF Sound, Following, Behind
  <2>2. UNCHANGED <<mFragments, mReassembledFrames>>
    BY <1>5, <2>1, Rejected DEF SoundInv
  <2>3. Sound(s)'
    <3>1. CASE mFragments[s] = << >> \/ Dead(mFragments[s])
      BY <2>2, <3>1 DEF Sound
    <3>2. CASE Faulty /\ Len(mFragments[s]) < i /\ Packets(m) < U8
      <4>1. mFragments[s] \in Seq(ConnFrames \cup TPDTFrames)
        BY DEF SoundInv, SessionInv, TypeOK, ReassemblerTypeOK
      <4>2. Len(mFragments[s]) < i + 1
        BY <1>1, <3>2, <4>1
      <4>3. Faulty'
        BY <1>1, <3>2 DEF Faulty
      <4>4. Behind(s)'
        BY <1>2, <2>2, <3>2, <4>2 DEF Behind
      <4> QED
        BY <4>3, <4>4 DEF Sound
    <3> QED
      BY <2>1, <3>1, <3>2
  <2> QED
    BY <1>1, <2>2, <2>3
<1> QED
  BY <1>4, <1>5

\* A source nothing happens to.
LEMMA SoundKept ==
  ASSUME NEW t \in Source, Sound(t), Faulty => Faulty',
         mFragments'[t] = mFragments[t], sending'[t] = sending[t], next'[t] = next[t]
  PROVE  Sound(t)'
BY DEF Sound, Following, Behind

LEMMA SoundInit == Init => SoundInv
<1> SUFFICES ASSUME Init PROVE SoundInv
  OBVIOUS
<1>1. Announced /\ \A s \in Source : Sound(s)
  BY DEF Init, ReassemblerInit, Announced, Sound
<1> QED
  BY <1>1, SessionInit DEF SoundInv

LEMMA SoundStep ==
  SoundInv /\ [Next]_vars /\ [Tolerable]_vars => SoundInv'
<1> SUFFICES ASSUME SoundInv, [Next]_vars, [Tolerable]_vars
             PROVE  Announced' /\ \A t \in Source : Sound(t)'
  BY SessionStep DEF SoundInv
<1>0. /\ SessionInv /\ Announced /\ lost \in Nat /\ aborts \in Nat
      /\ \A t \in Source : Sound(t)
      /\ sending \in [Source -> Message \cup {NoMessage}]
      /\ next \in [Source -> Nat]
      /\ current \in [Source -> Message \cup {NoMessage}]
      /\ mFragments \in [Source -> Seq(ConnFrames \cup TPDTFrames)]
  BY DEF SoundInv, SessionInv, TypeOK, ReassemblerTypeOK
<1>1. ASSUME NEW s \in Source, NEW m \in Message, Begin(s, m)
      PROVE  Announced' /\ \A t \in Source : Sound(t)'
  <2>1. \A t \in Source :
          /\ sending'[t] = (IF t = s THEN m ELSE sending[t])
          /\ current'[t] = (IF t = s THEN m ELSE current[t])
          /\ next'[t] = (IF t = s THEN 0 ELSE next[t])
    BY <1>0, <1>1 DEF Begin
  <2>2. UNCHANGED <<mFragments, lost, aborts>> /\ sending[s] = NoMessage
    BY <1>1 DEF Begin
  <2>3. Faulty => Faulty'
    BY <2>2 DEF Faulty
  <2>4. Announced'
    BY <1>0, <2>1 DEF Announced
  <2>5. ASSUME NEW t \in Source PROVE Sound(t)'
    <3>1. CASE t = s
      <4>1. next'[s] = 0
        BY <2>1
      <4>2. Behind(s)'
        BY <4>1 DEF Behind
      <4>3. mFragments[s] = << >> \/ Dead(mFragments[s]) \/ Faulty
        BY <1>0, <2>2 DEF Sound, Following
      <4> QED
        BY <2>2, <2>3, <3>1, <4>2, <4>3 DEF Sound
    <3>2. CASE t # s
      BY <1>0, <2>1, <2>2, <2>3, <3>2, SoundKept
    <3> QED
      BY <3>1, <3>2
  <2> QED
    BY <2>4, <2>5
<1>2. ASSUME NEW s \in Source, Receive(s)
      PROVE  Announced' /\ \A t \in Source : Sound(t)'
  <2>1. \A t \in Source :
          /\ t # s => sending'[t] = sending[t] /\ next'[t] = next[t]
                      /\ current'[t] = current[t]
          /\ sending'[s] # NoMessage => sending'[s] = sending[s]
          /\ current'[s] = IF mReassembledFrames' # << >> THEN NoMessage ELSE current[s]
    BY <1>0, <1>2 DEF Receive, Advance
  <2>2. UNCHANGED <<lost, aborts>>
    BY <1>2 DEF Receive, Advance
  <2>3. Faulty => Faulty'
    BY <2>2 DEF Faulty
  <2>4. /\ \A t \in Source \ {s} : mFragments'[t] = mFragments[t]
        /\ mReassembledFrames' # << >> => sending'[s] = NoMessage
        /\ Sound(s)'
    BY <1>2, ReceiveSound
  <2>5. Announced'
    BY <1>0, <2>1, <2>4 DEF Announced
  <2>6. ASSUME NEW t \in Source, t # s PROVE Sound(t)'
    BY <1>0, <2>1, <2>3, <2>4, <2>6, SoundKept
  <2> QED
    BY <2>4, <2>5, <2>6
<1>3. ASSUME NEW s \in Source, Lose(s)
      PROVE  Announced' /\ \A t \in Source : Sound(t)'
  <2> DEFINE m == sending[s]
             i == next[s]
  <2>1. /\ \A t \in Source : t # s => sending'[t] = sending[t] /\ next'[t] = next[t]
        /\ sending'[s] = NoMessage \/ sending'[s] = m
        /\ next'[s] = i + 1
    BY <1>0, <1>3 DEF Lose, Advance
  <2>2. UNCHANGED <<mFragments, current, aborts>> /\ lost' = lost + 1 /\ m # NoMessage
    BY <1>3 DEF Lose, Advance
  <2>3. lost' # lost
    BY <1>0, <2>2
  <2>4. ~Faulty /\ Faulty'
    <3>1. lost = 0 /\ aborts = 0
      BY <2>3 DEF Tolerable, vars
    <3> QED
      BY <2>2, <3>1 DEF Faulty
  <2>5. Announced'
    BY <1>0, <2>1, <2>2 DEF Announced
  <2>6. ASSUME NEW t \in Source PROVE Sound(t)'
    <3>1. CASE t # s
      BY <1>0, <2>1, <2>2, <2>4, <3>1, SoundKept
    <3>2. CASE t = s /\ (mFragments[s] = << >> \/ Dead(mFragments[s]))
      BY <2>2, <3>2 DEF Sound
    <3>3. CASE t = s /\ Following(s) /\ ~Dead(mFragments[s])
      <4>1. /\ m \in Message /\ i \in Nat /\ i > 0 /\ i \in 0 .. DataFrames(m)
            /\ mFragments[s] = Prefix(m, i - 1)
        BY <1>0, <3>3 DEF Following, SessionInv, Sending
      <4>2. Packets(m) \in Nat
        BY <4>1, PacketsType
      <4>3. CASE Packets(m) < U8
        <5>1. i - 1 \in 0 .. Packets(m) /\ i - 1 + 1 = i
          BY <4>1, <4>2, <4>3 DEF DataFrames
        <5>2. Len(mFragments[s]) = i
          BY <4>1, <4>3, <5>1, PrefixFacts
        <5>3. Len(mFragments'[s]) < next'[s]
          BY <2>1, <2>2, <4>1, <5>2
        <5>4. Behind(s)'
          BY <2>1, <4>3, <5>3 DEF Behind
        <5> QED
          BY <2>4, <3>3, <5>4 DEF Sound
      <4>4. CASE Packets(m) >= U8
        <5>1. mFragments[s] = <<ConnFrame(m)>>
          BY <4>1, <4>2, <4>4 DEF Prefix, U8
        <5>2. Len(<<ConnFrame(m)>>) = 1 /\ <<ConnFrame(m)>>[1] = ConnFrame(m)
          OBVIOUS
        <5>3. ConnFrame(m).packets = 0
          BY <4>1, <4>4, FrameFields
        <5>4. Dead(mFragments[s])
          BY <5>1, <5>2, <5>3 DEF Dead
        <5> QED
          BY <3>3, <5>4
      <4> QED
        BY <4>2, <4>3, <4>4 DEF U8
    <3> QED
      BY <1>0, <2>4, <3>1, <3>2, <3>3 DEF Sound
  <2> QED
    BY <2>5, <2>6
<1>4. ASSUME NEW s \in Source, Abort(s)
      PROVE  Announced' /\ \A t \in Source : Sound(t)'
  <2>1. /\ \A t \in Source : t # s => sending'[t] = sending[t]
        /\ sending'[s] = NoMessage
        /\ UNCHANGED <<mFragments, next, lost, current>> /\ aborts' = aborts + 1
    BY <1>0, <1>4 DEF Abort
  <2>2. Faulty'
    BY <1>0, <2>1 DEF Faulty
  <2>3. Announced'
    BY <1>0, <2>1 DEF Announced
  <2>4. ASSUME NEW t \in Source PROVE Sound(t)'
    <3>1. CASE t = s
      BY <2>1, <2>2, <3>1 DEF Sound, Behind
    <3>2. CASE t # s
      BY <1>0, <2>1, <2>2, <3>2, SoundKept
    <3> QED
      BY <3>1, <3>2
  <2> QED
    BY <2>3, <2>4
<1>5. ASSUME UNCHANGED <<mFragments, sending, next, aborts, lost, current>>
      PROVE  Announced' /\ \A t \in Source : Sound(t)'
  BY <1>0, <1>5 DEF Announced, Sound, Following, Behind, Faulty
<1>6. ASSUME NEW f \in Strays, Stray(f)
      PROVE  UNCHANGED <<mFragments, mReassembledFrames>>
  BY <1>6, StrayHandled
<1>7. ASSUME Clear
      PROVE  Announced' /\ \A t \in Source : Sound(t)'
  BY <1>0, <1>7 DEF Clear, clear, Announced, Sound
<1> QED
  BY <1>1, <1>2, <1>3, <1>4, <1>5, <1>6, <1>7
     DEF Next, Stray, dequeueReassembledFrame, vars

\* Every step is a step of the service or leaves it unchanged.
LEMMA ServiceStep ==
  SoundInv /\ [Next]_vars => [Service!Next]_<<current, Delivered>>
<1> SUFFICES ASSUME SoundInv, [Next]_vars
             PROVE  [Service!Next]_<<current, Delivered>>
  OBVIOUS
<1>0. /\ SessionInv /\ Announced
      /\ received \in Seq(Reassembled) /\ mReassembledFrames \in Seq(Reassembled)
      /\ current \in [Source -> Message \cup {NoMessage}]
      /\ sending \in [Source -> Message \cup {NoMessage}]
  BY DEF SoundInv, SessionInv, TypeOK, ReassemblerTypeOK
<1>1. ASSUME NEW s \in Source, NEW m \in Message, Begin(s, m)
      PROVE  Service!Announce(s, m)
  BY <1>1 DEF Begin, Service!Announce, Delivered
<1>2. ASSUME NEW s \in Source, Receive(s)
      PROVE  Service!Deliver(s) \/ UNCHANGED <<current, Delivered>>
  <2> DEFINE m == sending[s]
  <2>1. mReassembledFrames' = << >> \/ mReassembledFrames' = <<Sent(m)>>
    BY <1>2, ReceiveSound
  <2>2. /\ m \in Message /\ m # NoMessage /\ current[s] = m
        /\ mReassembledFrames = << >> /\ received' = received
        /\ current' = [current EXCEPT ![s] = IF mReassembledFrames' # << >>
                                             THEN NoMessage ELSE current[s]]
    BY <1>0, <1>2 DEF Receive, Advance, Announced
  <2>3. Delivered = received
    BY <1>0, <2>2 DEF Delivered
  <2>4. CASE mReassembledFrames' = << >>
    <3>1. Delivered' = received
      BY <1>0, <2>2, <2>4 DEF Delivered
    <3>2. current' = current
      BY <1>0, <2>2, <2>4
    <3> QED
      BY <2>3, <3>1, <3>2
  <2>5. CASE mReassembledFrames' = <<Sent(m)>>
    <3>1. Delivered' = received \o <<Sent(m)>>
      BY <2>2, <2>5 DEF Delivered
    <3>2. received \o <<Sent(m)>> = Append(received, Sent(m))
      BY <1>0
    <3>3. <<Sent(m)>> # << >>
      OBVIOUS
    <3>4. current' = [current EXCEPT ![s] = NoMessage]
      BY <2>2, <2>5, <3>3
    <3>5. [x \in Message |-> Sent(x)][current[s]] = Sent(m)
      BY <2>2
    <3> QED
      BY <2>2, <2>3, <3>1, <3>2, <3>4, <3>5 DEF Service!Deliver
  <2> QED
    BY <2>1, <2>4, <2>5
<1>3. ASSUME (\E s \in Source : Lose(s)) \/ Clear
      PROVE  UNCHANGED <<current, Delivered>>
  BY <1>3 DEF Lose, Clear, clear, Delivered
<1>4. ASSUME NEW s \in Source, Abort(s)
      PROVE  UNCHANGED <<current, Delivered>>
  BY <1>4 DEF Abort, Delivered
<1>5. ASSUME NEW f \in Strays, Stray(f)
      PROVE  UNCHANGED <<current, Delivered>>
  <2>1. UNCHANGED mReassembledFrames
    BY <1>5, StrayHandled
  <2> QED
    BY <1>5, <2>1 DEF Stray, Delivered
<1>6. ASSUME dequeueReassembledFrame
      PROVE  UNCHANGED <<current, Delivered>>
  BY <1>0, <1>6, MoveHead DEF dequeueReassembledFrame, Delivered
<1>7. CASE UNCHANGED vars
  BY <1>7 DEF vars, Delivered
<1> QED
  BY <1>1, <1>2, <1>3, <1>4, <1>5, <1>6, <1>7
     DEF Next, Service!Next

(***************************************************************************)
(* One lost frame or one clear(), and any number of transmissions given up *)
(* after it (or without it), cost messages but damage none: the transport  *)
(* delivers whole messages, each at most once and only the one its source  *)
(* announced last.  The case left out is a TP.CM lost after another fault: *)
(* handleFrame of BamReassembler only compares sequence numbers, so the    *)
(* packets go into the session that was left over (WaitsForNewMessage).    *)
(***************************************************************************)
THEOREM FaultTolerantTransport ==
  Spec /\ [][Tolerable]_vars => ImplementsService
<1>1. SoundInv /\ [Next]_vars => [Service!Next]_<<current, Delivered>>
  BY ServiceStep
<1>2. SoundInv /\ [Next]_vars /\ [Tolerable]_vars => SoundInv'
  BY SoundStep
<1> QED
  BY <1>1, <1>2, ServiceInit, SoundInit, PTL
     DEF Spec, ImplementsService, Service!Spec

(***************************************************************************)
(* When no frame is lost, the transport delivers whole messages, each at   *)
(* most once and only the one its source announced last.                   *)
(***************************************************************************)
THEOREM LosslessTransport ==
  ASSUME MaxLost = 0
  PROVE  Spec => ImplementsService
<1>1. LosslessInv /\ LosslessInv' => [Tolerable]_vars
  <2> SUFFICES ASSUME LosslessInv, LosslessInv' PROVE lost' = lost
    BY DEF Tolerable
  <2>1. lost \in Nat /\ lost' \in Nat /\ lost <= 0 /\ lost' <= 0
    BY DEF LosslessInv, SessionInv, TypeOK
  <2> QED
    BY <2>1
<1> QED
  BY <1>1, LosslessInvariant, FaultTolerantTransport, PTL
=============================================================================

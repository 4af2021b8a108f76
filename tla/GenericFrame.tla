---------------------------- MODULE GenericFrame ----------------------------
(***************************************************************************)
(* J1939Frame, GenericFrame, DM1 and FMS1Frame (src/J1939): the operations *)
(* on a frame object, and how it is written to an identifier and bytes and *)
(* read back.  A frame is a record; the fields of the other classes stay   *)
(* as they were constructed.                                               *)
(***************************************************************************)
EXTENDS SPN, TLC

CONSTANTS DM1_PGN, FMS1_PGN

INVALID_ADDRESS == 254
NUMBER_OF_BLOCKS == 4
TTSS_PER_BLOCK == 15
FMS1_FRAME_LENGTH == 8
DTC_SIZE == 4

J1939Frame(pgn) ==
  [pgn |-> pgn, priority |-> 0, src |-> INVALID_ADDRESS, dst |-> INVALID_ADDRESS,
   length |-> 0, spns |-> <<>>, dtcs |-> <<>>, block |-> NUMBER_OF_BLOCKS, tts |-> <<>>]

\* The lamps of DM1, two bits each.
LampsOfByte == <<<<987, 624, 623, 1213>>, <<3041, 3040, 3039, 3038>>>>
Lamps ==
  [n \in UNION {Range(LampsOfByte[b]) : b \in 1 .. 2} |->
     LET b == CHOOSE b \in 1 .. 2 : n \in Range(LampsOfByte[b])
         k == CHOOSE k \in 1 .. 4 : LampsOfByte[b][k] = n
     IN SPNStatus(b - 1, 2 * (k - 1), 2)]
DM1 == [J1939Frame(DM1_PGN) EXCEPT !.spns = Lamps]

NOT_AVAILABLE == 7
TtsOfBlock(block) == block * TTSS_PER_BLOCK + 1 .. (block + 1) * TTSS_PER_BLOCK
FMS1Frame(block) ==
  [J1939Frame(FMS1_PGN) EXCEPT !.block = block,
                               !.tts = [n \in TtsOfBlock(block) |-> NOT_AVAILABLE]]

(***************************************************************************)
(* The signals of a frame, in the order of their numbers                   *)
(***************************************************************************)
Numbers(spns) ==
  [k \in 1 .. Cardinality(DOMAIN spns) |->
     CHOOSE n \in DOMAIN spns : Cardinality({m \in DOMAIN spns : m < n}) = k - 1]

\* Only where a string is decoded.
recalculateNothing(spns) == spns

SizeAhead(spns, n) ==
  LET Size(m) == getByteSize(spns[m])
  IN MapThenSumSet(Size, {m \in DOMAIN spns : m < n})

\* Each string begins where the one before it ends, the first one at zero, where it
\* was constructed.
recalculateStringOffsets(spns) ==
  [n \in DOMAIN spns |-> IF spns[n].type = "string"
                         THEN [spns[n] EXCEPT !.offset = SizeAhead(spns, n)] ELSE spns[n]]

\* setFormattedValue or setValue of one signal.
setValue(spns, n, v) ==
  LET set == [spns EXCEPT ![n].value = v]
  IN IF ~Takes(spns[n], v) THEN spns
     ELSE IF spns[n].type = "string" THEN recalculateStringOffsets(set) ELSE set

\* The end of the signal that begins last, or the length the database gives.
SignalsLength(f) ==
  LET last == Max({f.spns[n].offset : n \in DOMAIN f.spns})
      at   == {n \in DOMAIN f.spns : f.spns[n].offset = last}
  IN IF f.spns = <<>> THEN Max({f.length, 1})
     ELSE Max({f.length, last + getByteSize(f.spns[Min(at)])})

getDataLength(f) ==
  CASE f.pgn = FMS1_PGN -> FMS1_FRAME_LENGTH
    [] f.pgn = DM1_PGN  -> Max({SignalsLength(f) + DTC_SIZE * Len(f.dtcs), 8})
    [] OTHER            -> SignalsLength(f)

encodeSignals(spns, buffer) ==
  LET Put(e, n) == IF ~e.ok \/ spns[n].offset >= Len(e.data) THEN Thrown
                   ELSE encodeSPN(spns[n], e.data)
  IN FoldLeft(Put, Done(buffer), Numbers(spns))

\* A string that was read moves the ones behind it: where each one is read.
ReadFrom(spns, buffer, n) ==
  LET from[m \in DOMAIN spns] ==
        LET ahead == {k \in DOMAIN spns : k < m}
            s == [spns[Max(ahead)] EXCEPT !.offset = from[Max(ahead)]]
        IN IF ahead = {} THEN spns[m].offset
           ELSE s.offset + getByteSize([s EXCEPT !.value = decodeSPN(s, buffer).data])
  IN from[n]

decodeSignals(spns, buffer) ==
  LET At(n) == IF spns[n].type = "string"
               THEN [spns[n] EXCEPT !.offset = ReadFrom(spns, buffer, n)] ELSE spns[n]
  IN IF \E n \in DOMAIN spns : At(n).offset >= Len(buffer) \/ ~decodeSPN(At(n), buffer).ok
     THEN Thrown
     ELSE Done([n \in DOMAIN spns |->
                  [At(n) EXCEPT !.value = decodeSPN(At(n), buffer).data]])

(***************************************************************************)
(* Trouble codes: 19 bits for the SPN, 5 for the failure, 7 for the count. *)
(***************************************************************************)
encodeDTC(d) ==
  <<d.spn % U8, (d.spn \div U8) % U8, ((d.spn \div 2^16) % 8) * 32 + (d.fmi % 32),
    d.oc % 128>>

decodeDTC(b) ==
  [spn |-> b[1] + b[2] * U8 + (b[3] \div 32) * 2^16, fmi |-> b[3] % 32, oc |-> b[4] % 128]

Group(buffer, k) == SubSeq(buffer, 3 + DTC_SIZE * k, 2 + DTC_SIZE * (k + 1))

\* Without trouble codes: four zeros.
encodeDM1(f, buffer) ==
  LET lamps == encodeSignals(f.spns, SubSeq(buffer, 1, 2))
      codes == IF f.dtcs = <<>> THEN <<0, 0, 0, 0>>
               ELSE FlattenSeq([k \in DOMAIN f.dtcs |-> encodeDTC(f.dtcs[k])])
  IN IF ~lamps.ok THEN Thrown ELSE Done(Overwrite(Overwrite(buffer, 0, lamps.data), 2, codes))

Groups(buffer) == [k \in 1 .. (Len(buffer) - 2) \div DTC_SIZE |-> Group(buffer, k - 1)]

\* A code for SPN 0 is none.
Codes(groups) ==
  LET IsCode(d) == d.spn # 0
  IN SelectSeq([k \in DOMAIN groups |-> decodeDTC(groups[k])], IsCode)

\* Two bytes of lamps, whatever the length.  The codes are added to what is there.
decodeDM1(f, buffer) ==
  LET lamps == decodeSignals(f.spns, [i \in 1 .. 2 |-> buffer[i]])
  IN IF ~lamps.ok \/ \E k \in DOMAIN Groups(buffer) : Groups(buffer)[k][4] >= 128 THEN Thrown
     ELSE Done([f EXCEPT !.spns = lamps.data, !.dtcs = @ \o Codes(Groups(buffer))])

(***************************************************************************)
(* Tell tales: four bits each with the highest one set, after the block.   *)
(***************************************************************************)
encodeFMS1(f) ==
  LET first == f.block * TTSS_PER_BLOCK
      Part(k) == (f.tts[first + k] % 8) + 8
  IN IF DOMAIN f.tts # TtsOfBlock(f.block) THEN Thrown
     ELSE Done([i \in 1 .. FMS1_FRAME_LENGTH |->
                  (IF i = 1 THEN f.block ELSE Part(2 * i - 2)) + 16 * Part(2 * i - 1)])

decodeFMS1(f, buffer) ==
  LET block == buffer[1] % 16
      first == block * TTSS_PER_BLOCK
      read  == [n \in TtsOfBlock(block) |->
                  LET k == n - first
                      byte == buffer[k \div 2 + 1]
                  IN (IF k % 2 = 1 THEN byte \div 16 ELSE byte) % 8]
  IN IF Len(buffer) # FMS1_FRAME_LENGTH THEN Thrown
     ELSE IF block >= NUMBER_OF_BLOCKS THEN Thrown
     ELSE Done([f EXCEPT !.block = block,
                         !.tts = IF f.block = block THEN read @@ f.tts ELSE read])

\* If the number belongs to the frame.
setTTS(f, n, status) ==
  IF n \in DOMAIN f.tts THEN [f EXCEPT !.tts[n] = status] ELSE f

(***************************************************************************)
(* The identifier: priority, PGN with the destination in it, source.       *)
(***************************************************************************)
Pdu1(pgn) == (pgn \div U8) % U8 < 240

getIdentifier(f) ==
  f.src + ((f.pgn + (IF Pdu1(f.pgn) THEN f.dst ELSE 0)) % 2^18) * 2^8 + f.priority * 2^26

PgnBits(id) == (id \div 2^8) % 2^18

\* For PDU format 1 the destination goes, and the data page with it.
PgnOf(id) == IF Pdu1(PgnBits(id)) THEN ((PgnBits(id) \div U8) % U8) * U8 ELSE PgnBits(id)

encodeData(f, buffer) ==
  CASE f.pgn = FMS1_PGN -> encodeFMS1(f)
    [] f.pgn = DM1_PGN  -> encodeDM1(f, buffer)
    [] OTHER            -> encodeSignals(f.spns, buffer)

\* Into a buffer of the length of the frame, filled with ones.
encode(f) ==
  LET e == encodeData(f, [i \in 1 .. getDataLength(f) |-> 255])
  IN IF f.priority > 7 \/ ~e.ok THEN [ok |-> FALSE, id |-> 0, data |-> <<>>]
     ELSE [ok |-> TRUE, id |-> getIdentifier(f), data |-> e.data]

decodeData(f, buffer) ==
  LET d == decodeSignals(f.spns, buffer)
  IN IF f.pgn = FMS1_PGN THEN decodeFMS1(f, buffer)
     ELSE IF f.pgn = DM1_PGN THEN decodeDM1(f, buffer)
     ELSE IF d.ok THEN Done([f EXCEPT !.spns = d.data]) ELSE Thrown

decode(f, id, buffer) ==
  LET dst == IF Pdu1(PgnBits(id)) THEN PgnBits(id) % U8 ELSE f.dst
  IN IF PgnOf(id) # f.pgn THEN Thrown
     ELSE decodeData([f EXCEPT !.dst = dst, !.src = id % U8, !.priority = (id \div 2^26) % 8],
                     buffer)

(***************************************************************************)
(* compare(): for every signal, the results memcmp() can have when one of  *)
(* the strings is too short.  The byte behind a string is zero, what comes *)
(* after it is not defined.                                                *)
(***************************************************************************)
DiffersIn(s, new, old, bytes) ==
  LET At(data, i) == IF i <= Len(data) THEN {data[i]} ELSE IF i = Len(data) + 1 THEN {0}
                     ELSE 0 .. 255
      long(data) == Len(data) >= s.offset + getByteSize(s)
  IN IF ~long(new) /\ ~long(old) THEN {TRUE}
     ELSE {d \in BOOLEAN :
             IF d THEN \E i \in bytes : \E x \in At(new, i), y \in At(old, i) : x # y
             ELSE \A i \in bytes : At(new, i) \cap At(old, i) # {}}

\* The offset taken for one that counts from one.
DiffersBehind(s, new, old) ==
  DiffersIn(s, new, old, s.offset + 2 .. s.offset + getByteSize(s) + 1)

Differs(s, new, old) == DiffersIn(s, new, old, s.offset + 1 .. s.offset + getByteSize(s))

\* The sets of numbers that compare() may return.
compare(f, new, old) ==
  {c \in SUBSET DOMAIN f.spns :
     \A n \in DOMAIN f.spns : (n \in c) \in Differs(f.spns[n], new, old)}
=============================================================================

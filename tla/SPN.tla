-------------------------------- MODULE SPN --------------------------------
(***************************************************************************)
(* The signals of a frame (src/J1939/SPN): how each of the three kinds is  *)
(* written to the bytes of the frame and read from them.  A byte is a      *)
(* number, a u32 the tuple of its four bytes, least significant first.     *)
(* The gain and the offset of a number are left out: a value is the raw    *)
(* one.  What throws has ok = FALSE.                                       *)
(***************************************************************************)
EXTENDS Integers, Sequences, SequencesExt, FiniteSetsExt

Terminator == 42 \* J1939_STR_TERMINATOR, '*'
U8 == 256

Thrown == [ok |-> FALSE, data |-> <<>>]
Done(data) == [ok |-> TRUE, data |-> data]

SPNNumeric(offset, size) ==
  [type |-> "numeric", offset |-> offset, size |-> size, value |-> <<255, 255, 255, 255>>]

\* All bits one: not available.
SPNStatus(offset, bit, bits) ==
  [type |-> "status", offset |-> offset, bit |-> bit, bits |-> bits, value |-> 2^bits - 1]

SPNString == [type |-> "string", offset |-> 0, value |-> <<>>]

\* A u8: a string of 255 characters has size 0.
getByteSize(s) ==
  IF s.type = "numeric" THEN s.size
  ELSE IF s.type = "status" THEN 1
  ELSE (Len(s.value) + 1) % U8

Overwrite(buffer, offset, bytes) ==
  [i \in DOMAIN buffer |->
     IF i - offset \in DOMAIN bytes THEN bytes[i - offset] ELSE buffer[i]]

(***************************************************************************)
(* encode                                                                  *)
(***************************************************************************)
encodeNumeric(s, buffer) ==
  IF s.size > Len(buffer) - s.offset \/ s.size > 4 THEN Thrown
  ELSE Done(Overwrite(buffer, s.offset, SubSeq(s.value, 1, s.size)))

\* Only its own bits of the byte.
encodeStatus(s, buffer) ==
  LET byte == buffer[s.offset + 1]
      old  == (byte \div 2^s.bit) % 2^s.bits
  IN IF s.bit + s.bits > 8 \/ s.value >= 2^s.bits THEN Thrown
     ELSE Done(Overwrite(buffer, s.offset, <<byte + (s.value - old) * 2^s.bit>>))

\* strcpy() stops at a zero, the terminator is written behind the last character.
encodeString(s, buffer) ==
  LET zeros  == {i \in DOMAIN s.value : s.value[i] = 0}
      copied == IF zeros = {} THEN s.value ELSE SubSeq(s.value, 1, Min(zeros) - 1)
  IN IF Len(s.value) >= Len(buffer) - s.offset THEN Thrown
     ELSE Done(Overwrite(Overwrite(buffer, s.offset, Append(copied, 0)),
                         s.offset + Len(s.value), <<Terminator>>))

encodeSPN(s, buffer) ==
  CASE s.type = "numeric" -> encodeNumeric(s, buffer)
    [] s.type = "status"  -> encodeStatus(s, buffer)
    [] s.type = "string"  -> encodeString(s, buffer)

(***************************************************************************)
(* decode: the value, or Thrown                                            *)
(***************************************************************************)
decodeNumeric(s, buffer) ==
  IF s.size > Len(buffer) - s.offset \/ s.size > 4 THEN Thrown
  ELSE Done([i \in 1 .. 4 |-> IF i <= s.size THEN buffer[s.offset + i] ELSE 0])

decodeStatus(s, buffer) ==
  IF s.bit + s.bits > 8 THEN Thrown
  ELSE Done((buffer[s.offset + 1] \div 2^s.bit) % 2^s.bits)

decodeString(s, buffer) ==
  LET ends == {i \in s.offset + 1 .. Len(buffer) : buffer[i] = Terminator}
      chars == SubSeq(buffer, s.offset + 1, Min(ends) - 1)
  IN IF ends = {} THEN Thrown
     ELSE IF \E i \in DOMAIN chars : chars[i] >= 128 THEN Thrown
     ELSE Done(chars)

decodeSPN(s, buffer) ==
  IF s.type = "numeric" THEN decodeNumeric(s, buffer)
  ELSE IF s.type = "status" THEN decodeStatus(s, buffer)
  ELSE decodeString(s, buffer)

(***************************************************************************)
(* setFormattedValue and setValue: whether the signal takes the value.     *)
(***************************************************************************)
Takes(s, v) ==
  CASE s.type = "numeric" -> \A i \in s.size + 1 .. 4 : v[i] = 0
    [] s.type = "status"  -> v < 2^s.bits
    [] s.type = "string"  -> \A i \in DOMAIN v : v[i] < 128
=============================================================================

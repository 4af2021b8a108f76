---------------------------- MODULE BamFragmenter ----------------------------
(***************************************************************************)
(* BamFragmenter and the two transport frames (src/J1939/Transport): a     *)
(* message longer than 8 bytes becomes one TP.CM frame that announces it   *)
(* and TP.DT frames of 7 bytes each.  A message's bytes are told apart by  *)
(* their position, <<m, j>>; pgn stands for priority and PGN together.     *)
(***************************************************************************)
EXTENDS Integers, Sequences

CONSTANTS
  Message,   \* the messages the ECUs send
  Source,    \* the source addresses of the ECUs that send them
  Pgn,       \* the PGNs
  SrcOf,     \* SrcOf[m]: the source address of m
  PgnOf,     \* PgnOf[m]: the PGN of m
  Size       \* Size[m]: the encoded length of m in bytes

J1939_MAX_SIZE    == 8
TP_DT_PACKET_SIZE == 7
U8  == 256    \* values of a u8: the sequence number and the packet count
U16 == 65536  \* values of a u16: the message size in a TP.CM

Pad    == "0xFF"          \* the bytes TPDTFrame's constructor fills in
Uninit == "uninitialised" \* bytes of new u8[] nobody wrote

Byte == (Message \X Nat) \cup {Pad, Uninit}

ASSUME MessagesAssumption ==
  /\ SrcOf \in [Message -> Source]
  /\ PgnOf \in [Message -> Pgn]
  /\ Size \in [Message -> Nat]

Bytes(m) == [j \in 1 .. Size[m] |-> <<m, j>>]

(***************************************************************************)
(* What a receiver must end up with when m was sent.                       *)
(***************************************************************************)
Sent(m) == [src |-> SrcOf[m], pgn |-> PgnOf[m], data |-> Bytes(m)]

(***************************************************************************)
(* fragment() cuts from offset 0 in steps of 7, so the last packet may be  *)
(* short; its remaining bytes keep the padding.                            *)
(***************************************************************************)
Packets(m) == (Size[m] + TP_DT_PACKET_SIZE - 1) \div TP_DT_PACKET_SIZE

PacketData(m, k) ==
  [b \in 1 .. TP_DT_PACKET_SIZE |->
     LET j == (k - 1) * TP_DT_PACKET_SIZE + b
     IN  IF j <= Size[m] THEN <<m, j>> ELSE Pad]

(***************************************************************************)
(* mDTFrames is a map keyed by the sequence number as a u8: from 256       *)
(* packets on the number wraps to 0 and later packets overwrite earlier    *)
(* ones.  getDataFrames returns the map's frames in key order; PacketAt is *)
(* the packet that the i-th of them holds.                                 *)
(***************************************************************************)
DataFrames(m) == IF Packets(m) < U8 THEN Packets(m) ELSE U8

SqAt(m, i) == IF Packets(m) < U8 THEN i ELSE i - 1

PacketAt(m, i) == Packets(m) - ((Packets(m) - SqAt(m, i)) % U8)

ConnFrame(m) ==
  [kind |-> "BAM", src |-> SrcOf[m], pgn |-> PgnOf[m],
   size |-> Size[m] % U16, packets |-> DataFrames(m) % U8]

DataFrame(m, i) ==
  [kind |-> "DT", src |-> SrcOf[m], sq |-> SqAt(m, i),
   data |-> PacketData(m, PacketAt(m, i))]

\* fragment() refuses what fits into one CAN frame.
Fragments(m) == Size[m] > J1939_MAX_SIZE

\* The i-th frame a sender puts on the bus for m: the TP.CM, then the TP.DTs.
BusFrame(m, i) == IF i = 0 THEN ConnFrame(m) ELSE DataFrame(m, i)

ConnFrames == [kind : {"BAM"}, src : Source, pgn : Pgn, size : Nat,
               packets : 0 .. U8 - 1]
TPDTFrames == [kind : {"DT"}, src : Source, sq : 0 .. U8 - 1,
               data : [1 .. TP_DT_PACKET_SIZE -> Byte]]
\* Frames the reassembler has to leave alone: another TP.CM type, a frame
\* sent to one address only, another PGN.
StrayFrames == [kind : {"CM", "ToOne", "Other"}, src : Source]
=============================================================================

---------------------------- MODULE FrameSender ----------------------------
(***************************************************************************)
(* What the GUI backend and j1939Sender share: J1939 frames that are       *)
(* edited, and handed as CAN frames to the senders of the interfaces.  A   *)
(* sender knows its rings by the identifiers of their frames only; a frame *)
(* of more than 8 bytes goes out with the identifiers of the transport     *)
(* protocol.                                                               *)
(*                                                                         *)
(* A sender is the set of its rings: what CommonCanSender promises of its  *)
(* calls (UniqueRings, CallsTakeEffect).  The owner of a ring is           *)
(* auxiliary: the frame whose data it was given last.                      *)
(***************************************************************************)
EXTENDS Integers, Sequences

CONSTANTS
  Ifaces,        \* the initialised interfaces
  Objects,       \* the frames the program may create
  Pgns,          \* registered PGNs
  Pdu1,          \* those with a destination in the identifier
  TP_CM_PGN, TP_DT_PGN,
  Sources,       \* priority and source address
  Destinations,
  BROADCAST,
  Values,        \* what the SPNs hold
  Packets,       \* for every value: TP.DT packets needed, 0 if 8 bytes suffice
  Periods,
  Undefined,     \* the frame has no entry in framePeriods
  Free,          \* the frame is not created
  NewSource, NewDestination, NewValue \* what the factory's prototypes hold

Frames == [pgn : Pgns, from : Sources, dst : Destinations, value : Values]

ASSUME FrameSenderAssumption ==
  /\ TP_CM_PGN \notin Pgns /\ TP_DT_PGN \notin Pgns /\ TP_CM_PGN # TP_DT_PGN
  /\ Packets \in [Values -> Nat]
  /\ Undefined \notin Periods /\ Free \notin Frames
  /\ NewSource \in Sources /\ NewDestination \in Destinations /\ NewValue \in Values

VARIABLES
  program,      \* the program that runs: "gui", "cli" or "web"
  object,       \* the frames
  framePeriods,
  rings         \* for every interface: the rings of its sender

getIdentifier(pgn, from, dst) ==
  <<pgn, from, IF pgn \in Pdu1 \cup {TP_CM_PGN, TP_DT_PGN} THEN dst ELSE BROADCAST>>

\* The identifiers a frame is sent with.
Ids(f) ==
  IF Packets[f.value] = 0 THEN <<getIdentifier(f.pgn, f.from, f.dst)>>
  ELSE <<getIdentifier(TP_CM_PGN, f.from, BROADCAST)>>
       \o [n \in 1 .. Packets[f.value] |-> getIdentifier(TP_DT_PGN, f.from, BROADCAST)]

Ring(o, f, period) ==
  [ids |-> Ids(f), data |-> <<f.pgn, f.value>>, period |-> period, owner |-> o]

isFrameSent(f, rs) == \E r \in rs : r.ids = Ids(f)

sendFrames(rs, ring) == {r \in rs : r.ids # ring.ids} \cup {ring}

unSendFrames(rs, ids) == {r \in rs : r.ids # ids}

\* The PGN is registered; the factory clones its prototype.
Created(pgn, from, dst, value) ==
  [pgn |-> pgn, from |-> from, dst |-> dst, value |-> value]

\* The ring goes out with what its owner holds now.
Current(r, o) == r.ids = Ids(object[o]) /\ r.data = <<object[o].pgn, object[o].value>>

Owns(o) == \E i \in Ifaces : \E r \in rings[i] : r.owner = o
=============================================================================

--------------------------- MODULE MCGuiReceiver ---------------------------
(***************************************************************************)
(* One interface.  A known frame with two data and, besides it, one of the *)
(* transport protocol, which carries messages under the identifier of the  *)
(* known frame, or one that nobody knows; or else a third data of the known*)
(* frame, which cannot be decoded.                                         *)
(***************************************************************************)
EXTENDS GuiReceiver

MCReceivers == <<"can0">>
MCBackend == [r \in {"can0"} |-> "socket"]

Known(d) == [id |-> {}, ext |-> TRUE, data |-> d]
Unknown == [id |-> {1}, ext |-> TRUE, data |-> 1]
Packet == [id |-> {2}, ext |-> TRUE, data |-> 1]

MCFrames == {Known(1), Known(2), Known(3), Unknown, Packet}

MCDecode ==
  [p \in {{}, {1}, {2}} \X (1 .. 3) |->
     CASE p[1] = Unknown.id   -> "none"
       [] p[1] = Packet.id    -> "tp"
       [] p = <<{}, 3>>       -> "throws"
       [] OTHER               -> "frame"]

(***************************************************************************)
(* The frames on the bus, chosen once.                                     *)
(***************************************************************************)
VARIABLE bus

MCVars == <<vars, bus>>

MCInit ==
  /\ Init
  /\ bus \in {{Known(1), Known(2), Packet}, {Known(1), Known(2), Unknown}, {Known(1), Known(3)}}

MCNext ==
  /\ Next
  /\ \A r \in Receivers : \A k \in DOMAIN buffer'[r] : buffer'[r][k] \in bus
  /\ UNCHANGED bus

MCSpec == MCInit /\ [][MCNext]_MCVars

MCFairSpec == MCSpec /\ Fairness
=============================================================================

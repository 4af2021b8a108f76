----------------------------- MODULE MCSenders -----------------------------
(***************************************************************************)
(* Two interfaces, one of the kernel and one of the Peak library; two      *)
(* frames, of the same PGN or of two; a value that fits in one CAN frame   *)
(* and one that takes two packets.  Two pages for the web server.          *)
(***************************************************************************)
EXTENDS Senders

MCPackets == [v \in {"a", "b", "long"} |-> IF v = "long" THEN 2 ELSE 0]

MCTtsIds == <<<<9, 10, 255>>, <<9, 10, 255>>, <<9, 10, 255>>, <<9, 10, 255>>>>

Creation(keys, pgn, spn, iface, belongs, value) ==
  [cmd |-> "create", keys |-> keys, pgn |-> pgn, spn |-> spn, iface |-> iface,
   belongs |-> belongs, value |-> value, period |-> 100]

MCRequests ==
  {[cmd |-> "list"], [cmd |-> "other"], [cmd |-> "malformed"], [cmd |-> "mistyped"],
   [cmd |-> "req", name |-> ""], [cmd |-> "req", name |-> "known"],
   [cmd |-> "baud", rate |-> 0], [cmd |-> "baud", rate |-> 250],
   Creation(TRUE, 1, 1, "can0", TRUE, "long"), Creation(TRUE, 1, 1, "can1", FALSE, "a"),
   Creation(TRUE, 1, 1, "can1", TRUE, "invalid")}
=============================================================================

---------------------------- MODULE MCBamTransport ----------------------------
(***************************************************************************)
(* Small buses for TLC.  ECU s1 sends messages of two and three packets,   *)
(* s2 one that the factory does not know or cannot decode.                 *)
(***************************************************************************)
EXTENDS BamTransport

CONSTANTS s1, s2, m1, m2, m3, m4, p1, p2, p3, p4

MCSrcOf == [m \in Message |-> IF m \in {m3, m4} THEN s2 ELSE s1]
MCPgnOf == [m \in Message |-> CASE m = m2 -> p2 [] m = m3 -> p3 [] m = m4 -> p4
                                [] OTHER -> p1]
MCSize  == [m \in Message |-> CASE m = m1 -> 9 [] m = m2 -> 15 [] m = m3 -> 14
                                [] OTHER -> 9]
MCDecode == [p \in Pgn |-> CASE p = p3 -> "null" [] p = p4 -> "throw"
                             [] OTHER -> "frame"]
MCStrays == [kind : {"CM", "ToOne", "Other"}, src : {s1}]
=============================================================================

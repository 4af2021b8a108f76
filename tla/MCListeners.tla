---------------------------- MODULE MCListeners ----------------------------
(***************************************************************************)
(* A socket and a Peak interface.  Identifiers of five bits: 1 is the      *)
(* source, 2 the PDU specific part, the others the PDU format; standard    *)
(* identifiers have bit 1 only.                                            *)
(***************************************************************************)
EXTENDS Listeners

CONSTANTS s1, s2, m1, m2, m3, m4, m5

MCReceivers == <<"can0", "pcan0">>
MCBackend == [r \in {"can0", "pcan0"} |-> IF r = "can0" THEN "socket" ELSE "peak"]

\* PGN 1 is looked for, 0 and 2 are others, the name of 2 is empty, 3 cannot be decoded,
\* 4 is not known.
MCFactory == [p \in 0 .. 4 |-> CASE p = 3 -> "throw" [] p = 4 -> "null" [] OTHER -> "frame"]
MCNameOf == [p \in 0 .. 4 |-> CASE p = 0 -> "zero" [] p = 1 -> "one" [] p = 2 -> ""
                               [] OTHER -> "more"]
MCDataId == [p \in 0 .. 4 |->
               CASE p = 0 -> {} [] p = 1 -> {3} [] p = 2 -> {2} [] p = 3 -> {4, 5} [] p = 4 -> {3, 4}]
MCSourceId == [s \in {s1, s2} |-> IF s = s1 THEN {} ELSE {1}]

MCSrcOf == [m \in {m1, m2, m3, m4, m5} |-> IF m \in {m1, m2} THEN s1 ELSE s2]
MCPgnOf == [m \in {m1, m2, m3, m4, m5} |-> CASE m = m2 -> 2 [] m = m4 -> 3 [] m = m5 -> 4
                                               [] OTHER -> 1]
MCSize == [m \in {m1, m2, m3, m4, m5} |-> 9]
MCOnBusOf == [m \in {m1, m2, m3, m4, m5} |-> IF m = m2 THEN "pcan0" ELSE "can0"]

MCSingle(id, s, p) == [id |-> id, ext |-> TRUE, kind |-> "Other", src |-> s, pgn |-> p,
                       data |-> <<Bam!Pad>>]
MCSingles == {MCSingle({3}, s1, 1), MCSingle({2, 3}, s1, 1), MCSingle({}, s1, 0), MCSingle({2}, s1, 2),
              MCSingle({4, 5}, s1, 3), MCSingle({3, 4}, s1, 4)}

\* Claims, and frames of other identifiers.
MCClaims == {[id |-> {2}, ext |-> TRUE, kind |-> "claim", name |-> "a", src |-> s1],
             [id |-> {1, 2}, ext |-> TRUE, kind |-> "claim", name |-> "b", src |-> s2],
             [id |-> {1}, ext |-> FALSE, kind |-> "none", src |-> s2]}

MCFrames == MCClaims \cup MCSingles \cup {CanFrame(m, k) : m \in Message, k \in 0 .. 2}

\* The filter of j1939AddressMapper: the claim's PGN, extended frames.
MCMapper == [kind |-> "mapper",
             filters |-> {[id |-> {2}, mask |-> {2}, std |-> FALSE, ext |-> TRUE]}]

MCPrograms == {MCMapper, ByPgn(1, {}), ByPgn(1, {s1}), ByTitle(1, {}), ByTitle(1, {s2})}

MCTraffic ==
  [p \in MCPrograms |->
     CASE p = MCMapper -> [messages |-> {}, singles |-> MCClaims, max |-> 3, fails |-> 1]
       [] p = ByPgn(1, {}) -> [messages |-> {m1, m2}, singles |-> {}, max |-> 0, fails |-> 0]
       [] p = ByPgn(1, {s1}) -> [messages |-> {m1, m3}, singles |-> {}, max |-> 0, fails |-> 0]
       [] p = ByTitle(1, {}) -> [messages |-> {m4}, singles |-> MCSingles, max |-> 1,
                              fails |-> 0]
       [] OTHER -> [messages |-> {m3, m5}, singles |-> {}, max |-> 0, fails |-> 1]]
=============================================================================

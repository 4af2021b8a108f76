-------------------------- MODULE MCAddressClaimer --------------------------
(***************************************************************************)
(* Small buses of address claimers for TLC.                                *)
(***************************************************************************)
EXTENDS AddressClaimer

CONSTANTS e1, e2, e3

MCEcuName == [n \in Nodes |-> CASE n = e1 -> 1 [] n = e2 -> 2 [] OTHER -> 3]

\* Two addresses: with three ECUs one of them has to go without.
MCPreferTwo == [n \in Nodes |-> IF n = e1 THEN <<10, 20>> ELSE <<20, 10>>]

RequestTo(dst, pgn) ==
  [pgn |-> REQUEST_PGN, dst |-> dst, src |-> J1939_INVALID_ADDRESS,
   data |-> pgn]

MCRequests == {RequestTo(J1939_BROADCAST_ADDRESS, ADDRESS_CLAIM_PGN),
               RequestTo(10, ADDRESS_CLAIM_PGN),
               RequestTo(10, REQUEST_PGN)}

(***************************************************************************)
(* One of two situations: three ECUs and nothing goes wrong, or e1 is not  *)
(* there, a transmission may fail and a tool may ask for claims.           *)
(***************************************************************************)
VARIABLE setup

MCVars == <<vars, setup>>

MCInit == Init /\ setup \in {"three", "faulty"}

MCNext ==
  /\ Next
  /\ setup = "three" => lost' = 0 /\ requests' = 0
  /\ setup = "faulty" => pc'[e1] = "off"
  /\ UNCHANGED setup

MCSpec == MCInit /\ [][MCNext]_MCVars

MCFairSpec == MCSpec /\ Fairness
=============================================================================

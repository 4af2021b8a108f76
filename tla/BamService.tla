------------------------------ MODULE BamService ------------------------------
(***************************************************************************)
(* What the broadcast transport promises: a receiver gets messages whole,  *)
(* each one at most once, and of one source only the message that source   *)
(* announced last.  A message may be lost.                                 *)
(***************************************************************************)
EXTENDS Sequences

CONSTANTS
  Message, Source,
  SrcOf,     \* SrcOf[m]: who sends m
  Whole,     \* Whole[m]: m as a receiver must see it
  NoMessage  \* not a message

VARIABLES
  current,   \* current[s]: announced by s and not delivered
  delivered  \* everything the receiver got, in order

Init ==
  /\ current = [s \in Source |-> NoMessage]
  /\ delivered = << >>

Announce(s, m) ==
  /\ SrcOf[m] = s
  /\ current' = [current EXCEPT ![s] = m]
  /\ UNCHANGED delivered

Deliver(s) ==
  /\ current[s] # NoMessage
  /\ delivered' = Append(delivered, Whole[current[s]])
  /\ current' = [current EXCEPT ![s] = NoMessage]

Next == \E s \in Source : Deliver(s) \/ \E m \in Message : Announce(s, m)

Spec == Init /\ [][Next]_<<current, delivered>>
=============================================================================

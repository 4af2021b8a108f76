----------------------------- MODULE TimeStamp -----------------------------
(***************************************************************************)
(* Utils::TimeStamp (src/Common): seconds and microseconds.                *)
(***************************************************************************)
EXTENDS Naturals

CONSTANTS
  MICROS, \* microseconds in a second: 1000000
  MILLIS  \* milliseconds in a second: 1000

ASSUME TimeAssumption ==
  /\ MICROS \in Nat \ {0} /\ MILLIS \in Nat \ {0}
  /\ MICROS % MILLIS = 0

TimeStamps == [sec : Nat, usec : Nat]
Zero == [sec |-> 0, usec |-> 0]

\* What a time stamp stands for, in microseconds.
Micros(a) == a.sec * MICROS + a.usec

\* steady_clock at t microseconds.
At(t) == [sec |-> t \div MICROS, usec |-> t % MICROS]

\* Nothing is before zero.
Minus(a, b) ==
  LET borrow == b.usec > a.usec
      sec    == IF borrow THEN a.sec - 1 ELSE a.sec
      usec   == IF borrow THEN a.usec + MICROS ELSE a.usec
  IN IF (borrow /\ b.sec >= a.sec) \/ b.sec > sec THEN Zero
     ELSE [sec |-> sec - b.sec, usec |-> usec - b.usec]

\* A sum of exactly MICROS microseconds is not carried.
Plus(a, b) ==
  LET usec == a.usec + b.usec
  IN IF usec > MICROS THEN [sec |-> a.sec + b.sec + 1, usec |-> usec - MICROS]
     ELSE [sec |-> a.sec + b.sec, usec |-> usec]

Less(a, b) == a.sec < b.sec \/ (a.sec = b.sec /\ a.usec < b.usec)
LessEq(a, b) == ~Less(b, a)

OfMillis(ms) ==
  [sec |-> ms \div MILLIS, usec |-> (ms % MILLIS) * (MICROS \div MILLIS)]
MinusMillis(a, ms) == Minus(a, OfMillis(ms))
PlusMillis(a, ms) == Plus(a, OfMillis(ms))
=============================================================================

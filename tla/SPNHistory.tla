----------------------------- MODULE SPNHistory -----------------------------
(***************************************************************************)
(* SPNHistory (src/J1939/SPN): the values of one signal, each with the     *)
(* time from which on it was there, and the window a graph shows of them.  *)
(***************************************************************************)
EXTENDS TimeStamp, Sequences

CONSTANT CAPACITY \* MAX_NUMBER_OF_SAMPLES: 50000

ASSUME CapacityAssumption == CAPACITY \in Nat \ {0}

\* Before the first sample the history has no specification.
NoSpec == "none"
NewHistory == [spec |-> NoSpec, samples |-> <<>>]

Back(s) == s[Len(s)]

(***************************************************************************)
(* A value is stored when it is another than the last one, as long as      *)
(* there is room.  The key of a history names one signal of one frame, so  *)
(* its specification is the same every time.                               *)
(***************************************************************************)
addSample(h, time, s) ==
  IF Len(h.samples) = CAPACITY THEN h
  ELSE IF s.type = "string" THEN [h EXCEPT !.spec = s.type]
  ELSE IF h.samples # <<>> /\ Back(h.samples).value = s.value THEN [h EXCEPT !.spec = s.type]
  ELSE [spec |-> s.type, samples |-> Append(h.samples, [time |-> time, value |-> s.value])]

(***************************************************************************)
(* getWindow(timeStamp, milliseconds, samples): the first position, and    *)
(* how the position follows the time.                                      *)
(***************************************************************************)
\* upper_bound, and one back unless it is the first sample.
BeginPos(h, start) ==
  LET notLater == {i \in DOMAIN h.samples : LessEq(h.samples[i].time, start)}
  IN IF notLater = {} THEN 1 ELSE CHOOSE i \in notLater : \A j \in notLater : j <= i

\* One sample per turn.
NextPosOne(h, pos, current) ==
  IF pos + 1 <= Len(h.samples) /\ LessEq(h.samples[pos + 1].time, current) THEN pos + 1 ELSE pos

NextPos(h, pos, current) ==
  LET reached == {i \in pos + 1 .. Len(h.samples) :
                    \A j \in pos + 1 .. i : LessEq(h.samples[j].time, current)}
  IN IF reached = {} THEN pos ELSE CHOOSE i \in reached : \A j \in reached : j <= i
=============================================================================

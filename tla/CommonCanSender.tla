--------------------------- MODULE CommonCanSender ---------------------------
(***************************************************************************)
(* CommonCanSender (src/CAN): one thread, run(), transmits the frames of   *)
(* every ring in turn, spread over the period of the ring; the thread of   *)
(* the application adds, replaces and removes rings.  mFramesLock is held  *)
(* by run() for one whole pass over the rings and by the application only  *)
(* for the change itself, not while it looks for the ring.                 *)
(*                                                                         *)
(* Time is counted in milliseconds and kept relative to the present: age   *)
(* is now - mTxTimestamp, since is the time that passed since run() read   *)
(* its clock.  The machine is up for longer than any period, so that a     *)
(* timestamp of zero is long ago.                                          *)
(***************************************************************************)
EXTENDS Integers, Sequences

CONSTANTS
  Sets,     \* what the application may send: [ids, period]
  MaxDelay  \* run() reads its clock at least every MaxDelay ms

Ids == {f.ids : f \in Sets}

ASSUME SetsAssumption ==
  /\ \A f \in Sets : /\ f.period \in Nat
                     /\ f.ids \in Seq(Nat)
                     /\ Len(f.ids) > 0
  /\ MaxDelay \in Nat \ {0}

VARIABLES
  mFrameRings, \* the rings, in the order run() visits them
  mFinished,
  run,         \* where run() is
  ring,        \* the ring run() visits next
  since,       \* ms since run() read its clock
  api          \* the call the application is in

vars == <<mFrameRings, mFinished, run, ring, since, api>>

(***************************************************************************)
(* mCurrentpos counts from 0.  phase is auxiliary: the time since the      *)
(* first transmission less one period for every cycle begun since.         *)
(***************************************************************************)
Rings == [ids : Ids, period : Nat, mCurrentpos : Nat, sent : BOOLEAN, age : Int,
          phase : Int]

Idle == [op |-> "none"]
Calls == {Idle, [op |-> "join"], [op |-> "ended"]}
         \cup [op : {"send"}, set : Sets, found : Nat]
         \cup [op : {"unsend"}, ids : Ids, found : Nat]

TypeOK ==
  /\ mFrameRings \in Seq(Rings)
  /\ \A i \in 1 .. Len(mFrameRings) :
       mFrameRings[i].mCurrentpos < Len(mFrameRings[i].ids)
  /\ mFinished \in BOOLEAN
  /\ run \in {"sleep", "lock", "pass", "done"}
  /\ ring \in 1 .. Len(mFrameRings) + 1
  /\ since \in 0 .. MaxDelay
  /\ api \in Calls

Init ==
  /\ mFrameRings = << >>
  /\ mFinished = FALSE
  /\ run = "sleep"
  /\ ring = 1
  /\ since = MaxDelay
  /\ api = Idle

-----------------------------------------------------------------------------
(* A ring.                                                                 *)

Abs(x) == IF x < 0 THEN -x ELSE x

(***************************************************************************)
(* The last frame of a ring gets what the division lost.                   *)
(***************************************************************************)
getCurrentPeriod(r) ==
  LET n == Len(r.ids)
  IN  IF r.mCurrentpos + 1 = n
      THEN r.period - (r.period \div n) * (n - 1)
      ELSE r.period \div n

\* Mutant: the position runs past the last frame.
shiftLate(r) ==
  [r EXCEPT !.mCurrentpos = IF @ = Len(r.ids) THEN 0 ELSE @ + 1]

shift(r) ==
  [r EXCEPT !.mCurrentpos = IF @ + 1 = Len(r.ids) THEN 0 ELSE @ + 1]

Due(r) == ~r.sent \/ Abs(r.age - since) >= getCurrentPeriod(r)

\* Mutant: the timestamp is always the time run() read.
TimestampNow(r, next) == since

(***************************************************************************)
(* The timestamp becomes the time the frame should have been sent at, that *)
(* is one period (of the next frame) after the previous timestamp, unless  *)
(* that is a period or more away from the time run() read.                 *)
(***************************************************************************)
Timestamp(r, next) ==
  LET period == getCurrentPeriod(next)
      current == r.age - period
  IN  IF r.sent /\ Abs(current - since) < period
      THEN current ELSE since

Phase(r) ==
  IF ~r.sent THEN since
  ELSE IF r.mCurrentpos = 0 THEN r.phase - r.period ELSE r.phase

Transmitted(r) ==
  [shift(r) EXCEPT !.sent = TRUE, !.age = Timestamp(r, shift(r)), !.phase = Phase(r)]

-----------------------------------------------------------------------------
(* The thread of run().                                                    *)

\* Mutant: the thread does not end while it has something to send.
ReadClockBusy ==
  /\ run = "sleep"
  /\ since >= 1
  /\ IF mFinished /\ mFrameRings = << >>
     THEN run' = "done" /\ UNCHANGED since
     ELSE run' = "lock" /\ since' = 0
  /\ UNCHANGED <<mFrameRings, mFinished, ring, api>>

(***************************************************************************)
(* The top of the loop, after usleep(1000): the clock is read before the   *)
(* lock is taken.                                                          *)
(***************************************************************************)
ReadClock ==
  /\ run = "sleep"
  /\ since >= 1
  /\ IF mFinished THEN run' = "done" /\ UNCHANGED since
                  ELSE run' = "lock" /\ since' = 0
  /\ UNCHANGED <<mFrameRings, mFinished, ring, api>>

Lock ==
  /\ run = "lock"
  /\ run' = "pass"
  /\ ring' = 1
  /\ UNCHANGED <<mFrameRings, mFinished, since, api>>

Visit ==
  /\ run = "pass"
  /\ ring <= Len(mFrameRings)
  /\ mFrameRings' = [mFrameRings EXCEPT ![ring] =
                       IF Due(@) THEN Transmitted(@) ELSE @]
  /\ ring' = ring + 1
  /\ UNCHANGED <<mFinished, run, since, api>>

Unlock ==
  /\ run = "pass"
  /\ ring > Len(mFrameRings)
  /\ run' = "sleep"
  /\ ring' = 1
  /\ UNCHANGED <<mFrameRings, mFinished, since, api>>

-----------------------------------------------------------------------------
(* The thread of the application.                                          *)

\* Mutant: the search goes on after a match and forgets it.
FindLast(ids) ==
  LET n == Len(mFrameRings)
  IN  IF n > 0 /\ mFrameRings[n].ids = ids THEN n ELSE 0

(***************************************************************************)
(* The first ring with these ids in this order, 0 if there is none.        *)
(***************************************************************************)
Find(ids) ==
  IF \E i \in 1 .. Len(mFrameRings) : mFrameRings[i].ids = ids
  THEN CHOOSE i \in 1 .. Len(mFrameRings) :
         /\ mFrameRings[i].ids = ids
         /\ \A j \in 1 .. i - 1 : mFrameRings[j].ids # ids
  ELSE 0

isSent(ids) == Find(ids) # 0

sendFrames(f) ==
  /\ api = Idle
  /\ api' = [op |-> "send", set |-> f, found |-> Find(f.ids)]
  /\ UNCHANGED <<mFrameRings, mFinished, run, ring, since>>

unSendFrames(ids) ==
  /\ api = Idle
  /\ api' = [op |-> "unsend", ids |-> ids, found |-> Find(ids)]
  /\ UNCHANGED <<mFrameRings, mFinished, run, ring, since>>

NewRing(f) == [ids |-> f.ids, period |-> f.period, mCurrentpos |-> 0,
               sent |-> FALSE, age |-> 0, phase |-> 0]

\* Mutant: the ring after the one found is erased.
ErasedNext(found) ==
  IF found = 0 THEN mFrameRings
  ELSE SubSeq(mFrameRings, 1, found)
       \o SubSeq(mFrameRings, found + 2, Len(mFrameRings))

\* mFrameRings.erase(found), if anything was found.
Erased(found) ==
  IF found = 0 THEN mFrameRings
  ELSE SubSeq(mFrameRings, 1, found - 1)
       \o SubSeq(mFrameRings, found + 1, Len(mFrameRings))

(***************************************************************************)
(* The change, under mFramesLock: not while run() makes a pass.            *)
(***************************************************************************)
Push ==
  /\ run # "pass"
  /\ api.op = "send"
  /\ mFrameRings' = Append(Erased(api.found), NewRing(api.set))
  /\ api' = Idle
  /\ UNCHANGED <<mFinished, run, ring, since>>

Remove ==
  /\ run # "pass"
  /\ api.op = "unsend"
  /\ mFrameRings' = Erased(api.found)
  /\ api' = Idle
  /\ UNCHANGED <<mFinished, run, ring, since>>

\* From the destructor: there is no call after it.
finalize ==
  /\ api = Idle
  /\ mFinished' = TRUE
  /\ api' = [op |-> "join"]
  /\ UNCHANGED <<mFrameRings, run, ring, since>>

Join ==
  /\ api.op = "join"
  /\ run = "done"
  /\ api' = [op |-> "ended"]
  /\ UNCHANGED <<mFrameRings, mFinished, run, ring, since>>

-----------------------------------------------------------------------------
Older(r) ==
  IF r.sent THEN [r EXCEPT !.age = @ + 1, !.phase = @ + 1] ELSE r

(***************************************************************************)
(* A millisecond passes.  run() is not kept from its clock longer than     *)
(* MaxDelay.                                                               *)
(***************************************************************************)
Tick ==
  /\ run # "done"
  /\ since < MaxDelay
  /\ since' = since + 1
  /\ mFrameRings' = [i \in 1 .. Len(mFrameRings) |-> Older(mFrameRings[i])]
  /\ UNCHANGED <<mFinished, run, ring, api>>

Thread == ReadClock \/ Lock \/ Visit \/ Unlock

Next ==
  \/ Thread
  \/ \E f \in Sets : sendFrames(f)
  \/ \E ids \in Ids : unSendFrames(ids)
  \/ Push \/ Remove \/ finalize \/ Join
  \/ Tick

Spec == Init /\ [][Next]_vars

(***************************************************************************)
(* The thread runs and time passes; the application may stop calling.      *)
(***************************************************************************)
FairSpec == Spec /\ WF_vars(Thread) /\ WF_vars(Tick) /\ WF_vars(Join)

-----------------------------------------------------------------------------
(***************************************************************************)
(* Properties                                                              *)
(***************************************************************************)

(***************************************************************************)
(* No two rings carry the same ids: sendFrames replaces the ring that is   *)
(* already sent, although it looked for it without the lock.               *)
(***************************************************************************)
UniqueRings ==
  \A i, j \in 1 .. Len(mFrameRings) :
    mFrameRings[i].ids = mFrameRings[j].ids => i = j

SentOnlyWith(f) ==
  /\ isSent(f.ids)
  /\ \A i \in 1 .. Len(mFrameRings) :
       mFrameRings[i].ids = f.ids => mFrameRings[i].period = f.period

(***************************************************************************)
(* When sendFrames returns its ids are sent with the period it was given,  *)
(* and only with that one; when unSendFrames returns its ids are no longer *)
(* sent.  What isSent tells other callers is what the last call asked for, *)
(* even if run() moved on between the search and the change.               *)
(***************************************************************************)
CallsTakeEffect ==
  [][/\ \A f \in Sets :
          (api.op = "send" /\ api.set = f /\ api' = Idle) => SentOnlyWith(f)'
     /\ \A ids \in Ids :
          (api.op = "unsend" /\ api.ids = ids /\ api' = Idle) => ~isSent(ids)']_vars

(***************************************************************************)
(* A cycle of r begins at most the lost remainder early and less than      *)
(* MaxDelay late, counted in whole periods from the first transmission.    *)
(***************************************************************************)
OnSchedule(r) ==
  r.sent => r.phase - since \in -(r.period % Len(r.ids)) .. r.period + MaxDelay - 1

\* The remainder and the delay together stay below the period of one frame.
Compensable(r) ==
  (r.period % Len(r.ids)) + MaxDelay <= r.period \div Len(r.ids)

(***************************************************************************)
(* A ring never drifts away from its period, however late run() wakes up,  *)
(* whatever is added or replaced meanwhile: the timestamp follows the time *)
(* a frame should have been sent at.  It holds as long as run() does not   *)
(* give that time up, which it does once it is a frame's period behind.    *)
(***************************************************************************)
Cadence ==
  \A i \in 1 .. Len(mFrameRings) :
    Compensable(mFrameRings[i]) => OnSchedule(mFrameRings[i])

(***************************************************************************)
(* finalize() returns: run() ends its pass, sees mFinished and ends.       *)
(***************************************************************************)
Finishes == mFinished ~> api = [op |-> "ended"]
=============================================================================

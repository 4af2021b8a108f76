----------------------------- MODULE TRCDumper -----------------------------
(***************************************************************************)
(* TRCDumper and TRCWriter (src/BinUtils/TRCDumper, src/CAN): the callback *)
(* of the sniffer writes a line per frame.  A line is put together from    *)
(* seven insertions into a buffered stream, and the last one, std::endl,   *)
(* flushes it.  Ctrl-C runs onSignal between any two instructions of the   *)
(* only thread: it closes the file, with whatever is in the buffer, and    *)
(* exits.  Any other end of the process loses the buffer.                  *)
(*                                                                         *)
(* The unit of time is 50 us: a line has the time in milliseconds with one *)
(* decimal, so that every other unit can be written down.  The milliseconds*)
(* of the seconds are computed in a u32, so that the times of a file start *)
(* again every 2^32 ms, which is 49 days.                                  *)
(***************************************************************************)
EXTENDS Integers, Sequences

CONSTANTS
  Frames,    \* what the bus carries: [id, data], data a sequence of bytes
  MaxFrames, \* bound on the frames of a recording
  Stamps,    \* the time stamps of the receivers
  SECOND,    \* a second: 20000
  WORD       \* 2^32 milliseconds: 20 * 2^32

ASSUME DumperAssumption ==
  /\ MaxFrames \in Nat /\ Stamps \subseteq Nat
  /\ SECOND \in Nat \ {0} /\ WORD \in Nat \ {0}
  /\ \A f \in Frames : f.data \in Seq(Nat)

VARIABLES
  dumper,           \* off, idle (in sniff), writing, closed (Ctrl-C) or killed
  firstFrame,
  initialTimeStamp,
  mCounter,
  inserted,         \* insertions of the line that is being written
  line,             \* that line, as it will be
  lines,            \* the lines written
  flushed,          \* how many of them are in the file
  recorded          \* what onRcv was called with: [frame, stamp]

dumperVars == <<dumper, firstFrame, initialTimeStamp, mCounter, inserted, line, lines,
                flushed, recorded>>

\* position, time, type, id, length, data and std::endl
Insertions == 7
NoLine == [position |-> 0, time |-> 0, frame |-> [id |-> 0, data |-> <<>>]]

DumperInit ==
  /\ dumper = "off"
  /\ firstFrame = TRUE
  /\ initialTimeStamp = 0
  /\ mCounter = 0
  /\ inserted = 0
  /\ line = NoLine
  /\ lines = <<>>
  /\ flushed = 0
  /\ recorded = <<>>

(***************************************************************************)
(* main: the file is created and its header inserted, then sniff().        *)
(***************************************************************************)
open ==
  /\ dumper = "off"
  /\ dumper' = "idle"
  /\ mCounter' = 0
  /\ UNCHANGED <<firstFrame, initialTimeStamp, inserted, line, lines, flushed, recorded>>

\* operator- of TimeStamp: nothing is before zero.
Minus(t, u) == IF t < u THEN 0 ELSE t - u

\* The seconds in a u32 of milliseconds, and what is below a second.
Milliseconds(t) == (((t \div SECOND) * SECOND) % WORD) + (t % SECOND)

\* setprecision(1): the nearest even number, and either one of a tie.
Printed(t) == IF t % 2 = 0 THEN {t} ELSE {t - 1, t + 1}

(***************************************************************************)
(* onRcv of the dumper.  The receivers of several interfaces need not have *)
(* increasing time stamps.                                                 *)
(***************************************************************************)
OnRcv(f, t) ==
  /\ dumper = "idle"
  /\ firstFrame' = FALSE
  /\ initialTimeStamp' = IF firstFrame THEN t ELSE initialTimeStamp
  /\ mCounter' = mCounter + 1
  /\ \E p \in Printed(Milliseconds(Minus(t, initialTimeStamp'))) :
       line' = [position |-> mCounter', time |-> p, frame |-> f]
  /\ recorded' = Append(recorded, [frame |-> f, stamp |-> t])
  /\ dumper' = "writing"
  /\ UNCHANGED <<inserted, lines, flushed>>

\* The first six insertions of write(), all of them into the buffer.
Insert ==
  /\ dumper = "writing"
  /\ inserted < Insertions - 1
  /\ inserted' = inserted + 1
  /\ UNCHANGED <<dumper, firstFrame, initialTimeStamp, mCounter, line, lines, flushed,
                 recorded>>

\* A line that ends in '\n' and is not flushed.
EndLineBuffered ==
  /\ dumper = "writing"
  /\ inserted = Insertions - 1
  /\ lines' = Append(lines, line)
  /\ inserted' = 0
  /\ line' = NoLine
  /\ dumper' = "idle"
  /\ UNCHANGED <<firstFrame, initialTimeStamp, mCounter, flushed, recorded>>

\* std::endl; write() and onRcv return.
EndLine ==
  /\ dumper = "writing"
  /\ inserted = Insertions - 1
  /\ lines' = Append(lines, line)
  /\ flushed' = Len(lines')
  /\ inserted' = 0
  /\ line' = NoLine
  /\ dumper' = "idle"
  /\ UNCHANGED <<firstFrame, initialTimeStamp, mCounter, recorded>>

(***************************************************************************)
(* The end: onSignal closes the file and what was inserted gets into it;   *)
(* killed in any other way, the file ends with the last flush.             *)
(***************************************************************************)
onSignal ==
  /\ dumper \in {"idle", "writing"}
  /\ dumper' = "closed"
  /\ flushed' = Len(lines)
  /\ mCounter' = 0
  /\ UNCHANGED <<firstFrame, initialTimeStamp, inserted, line, lines, recorded>>

Kill ==
  /\ dumper \in {"idle", "writing"}
  /\ dumper' = "killed"
  /\ lines' = SubSeq(lines, 1, flushed)
  /\ inserted' = 0
  /\ line' = NoLine
  /\ UNCHANGED <<firstFrame, initialTimeStamp, mCounter, flushed, recorded>>

Record ==
  \/ open \/ Insert \/ EndLine \/ onSignal \/ Kill
  \/ \E f \in Frames, t \in Stamps : Len(recorded) < MaxFrames /\ OnRcv(f, t)
=============================================================================

----------------------------- MODULE TRCReader -----------------------------
(***************************************************************************)
(* TRCReader (src/CAN): loadFile reads the whole file once to check it and *)
(* to count its frames, then every line is read again when it is asked     *)
(* for.  The file is the one TRCDumper left: whole lines and, after a      *)
(* Ctrl-C, possibly the beginning of another one, without its end of line. *)
(* The header has only comments, which readNextLine skips.                 *)
(***************************************************************************)
EXTENDS TRCDumper

CONSTANT Cleared \* mLastReadFrameTimePair when it was cleared

ASSUME ReaderAssumption == Cleared \notin [time : Nat, frame : Frames]

VARIABLES
  loaded,       \* mFileName is not empty
  mCurrentPos,
  mTotalFrames,
  consumed,     \* lines between the beginning of the file and the stream's position
  eof,          \* eofbit of the stream
  mLastRead     \* mLastReadFrameTimePair

readerVars == <<loaded, mCurrentPos, mTotalFrames, consumed, eof, mLastRead>>

ReaderInit ==
  /\ loaded = FALSE
  /\ mCurrentPos = 0
  /\ mTotalFrames = 0
  /\ consumed = 0
  /\ eof = FALSE
  /\ mLastRead = Cleared

(***************************************************************************)
(* The lines of the file, each with the number of its insertions that are  *)
(* there.                                                                  *)
(***************************************************************************)
File ==
  LET whole == [i \in 1 .. Len(lines) |-> [line |-> lines[i], parts |-> Insertions]]
  IN IF inserted = 0 THEN whole
     ELSE Append(whole, [line |-> line, parts |-> inserted])

(***************************************************************************)
(* The parser of readNextLine is in PARSE_STATE_GET_END at the end of the  *)
(* line: all parts up to the data are there, and there are data at all (it *)
(* leaves PARSE_STATE_GET_DATA with the last byte).                        *)
(***************************************************************************)
Readable(l) == l.parts >= Insertions - 1 /\ l.line.frame.data # <<>>

Parsed(l) == [time |-> l.line.time, frame |-> l.line.frame]

(***************************************************************************)
(* checkIntegrity, on a stream at the beginning: reads until the end of the*)
(* file.  The last position is the number of frames; it is 1 without any.  *)
(***************************************************************************)
Intact == \A i \in DOMAIN File : Readable(File[i])

LastPosition == IF File = <<>> THEN 0 ELSE File[Len(File)].line.position - 1

\* The end of the file was met while the last line was read.
EndsWithoutNewline == File # <<>> /\ File[Len(File)].parts < Insertions

\* checkIntegrity fails, and unloadFile.
LoadFails ==
  /\ ~Intact
  /\ loaded' = FALSE
  /\ mCurrentPos' = 0 /\ mTotalFrames' = 0
  /\ consumed' = 0 /\ eof' = FALSE
  /\ mLastRead' = Cleared

\* Forgets reset(), and leaves the stream at its end.
LoadedAtEnd ==
  /\ Intact
  /\ loaded' = TRUE
  /\ mTotalFrames' = LastPosition + 1
  /\ mCurrentPos' = LastPosition
  /\ consumed' = Len(File) /\ eof' = TRUE
  /\ mLastRead' = IF EndsWithoutNewline THEN Parsed(File[Len(File)]) ELSE Cleared

\* reset() after the check; the last line read stays.
Loaded ==
  /\ Intact
  /\ loaded' = TRUE
  /\ mTotalFrames' = LastPosition + 1
  /\ mCurrentPos' = 0
  /\ consumed' = 0 /\ eof' = FALSE
  /\ mLastRead' = IF EndsWithoutNewline THEN Parsed(File[Len(File)]) ELSE Cleared

loadFile == LoadFails \/ Loaded

reset ==
  /\ mCurrentPos' = 0
  /\ consumed' = 0 /\ eof' = FALSE
  /\ UNCHANGED <<loaded, mTotalFrames, mLastRead>>

(***************************************************************************)
(* readNextLine on a file that was checked.                                *)
(***************************************************************************)
ReadLine(i) ==
  /\ consumed' = i
  /\ eof' = (i = Len(File) /\ EndsWithoutNewline)
  /\ mCurrentPos' = File[i].line.position - 1
  /\ mLastRead' = Parsed(File[i])

ReadEnd ==
  /\ consumed = Len(File)
  /\ eof' = TRUE
  /\ mLastRead' = Cleared
  /\ UNCHANGED <<mCurrentPos, consumed>>

readNextCanFrame ==
  /\ IF eof THEN UNCHANGED <<mCurrentPos, consumed, eof, mLastRead>>
     ELSE IF consumed < Len(File) THEN ReadLine(consumed + 1) ELSE ReadEnd
  /\ UNCHANGED <<loaded, mTotalFrames>>

(***************************************************************************)
(* seekPosition(pos) when it is in the file: nothing to do, or lines are   *)
(* read from the beginning until mCurrentPos is pos.                       *)
(***************************************************************************)
\* Goes to the line and does not read it.
seekPositionBefore(pos) ==
  /\ loaded /\ pos < mTotalFrames
  /\ mCurrentPos' = pos /\ consumed' = pos /\ eof' = FALSE
  /\ UNCHANGED <<loaded, mTotalFrames, mLastRead>>

seekPosition(pos) ==
  /\ loaded /\ pos < mTotalFrames
  /\ IF mCurrentPos = pos
     THEN UNCHANGED <<mCurrentPos, consumed, eof, mLastRead>>
     ELSE \E i \in DOMAIN File :
            /\ File[i].line.position - 1 = pos
            /\ ReadLine(i)
  /\ UNCHANGED <<loaded, mTotalFrames>>
=============================================================================

-------------------------- MODULE TRCPlayer_proofs --------------------------
(***************************************************************************)
(* Proofs for the trace files: what TRCDumper leaves, however it ends, how *)
(* TRCReader moves about in it, and what TRCPlayer and TRCToCap make of it.*)
(***************************************************************************)
EXTENDS TRCPlayer, TLAPS

Lines == [position : Nat, time : Nat, frame : Frames]
Recordings == [frame : Frames, stamp : Nat]

(***************************************************************************)
(* The milliseconds of a time, as they are written: some times 2^32 ms less*)
(* than it.                                                                *)
(***************************************************************************)
LEMMA Division ==
  ASSUME NEW a \in Nat, NEW b \in Nat \ {0}
  PROVE  /\ a \div b \in Nat /\ a % b \in 0 .. b - 1
         /\ a = ((a \div b) * b) + (a % b)
OBVIOUS

LEMMA MillisecondsFacts ==
  ASSUME NEW t \in Nat
  PROVE  /\ Milliseconds(t) \in Nat
         /\ \E k \in 0 .. (t \div WORD) : Milliseconds(t) = t - k * WORD
<1>1. SECOND \in Nat \ {0} /\ WORD \in Nat \ {0}
  BY DumperAssumption
<1>2. PICK S, W \in Nat \ {0} : S = SECOND /\ W = WORD
  BY <1>1
<1>3. PICK q, r \in Nat : q = t \div S /\ r = t % S /\ t = (q * S) + r
  BY Division
<1>4. PICK s \in Nat : s = q * S
  OBVIOUS
<1>5. PICK k, m \in Nat : k = s \div W /\ m = s % W /\ s = (k * W) + m
  BY Division
<1>6. PICK c \in Nat : c = k * W
  OBVIOUS
<1>7. Milliseconds(t) = m + r
  BY <1>2, <1>3, <1>4, <1>5 DEF Milliseconds
<1>8. m + r = t - c
  <2>1. t = s + r
    BY <1>3, <1>4
  <2>2. s = c + m
    BY <1>5, <1>6
  <2> QED
    BY <2>1, <2>2
<1>9. k <= t \div W
  <2>1. PICK n, l \in Nat : n = t \div W /\ l = t % W /\ t = (n * W) + l /\ l < W
    BY Division
  <2>2. k * W < (n + 1) * W
    BY <1>3, <1>4, <1>5, <2>1
  <2>3. k < n + 1
    BY <2>2
  <2> QED
    BY <2>1, <2>3
<1> QED
  BY <1>2, <1>6, <1>7, <1>8, <1>9

\* Line i is that of the i-th frame, at its time up to the rounding.
Fits(l, i) ==
  /\ l \in Lines
  /\ l.position = i
  /\ l.frame = recorded[i].frame
  /\ Milliseconds(Offset(i)) - 1 <= l.time /\ l.time <= Milliseconds(Offset(i)) + 1

(***************************************************************************)
(* The dumper                                                              *)
(***************************************************************************)
DumperTypes ==
  /\ dumper \in {"off", "idle", "writing", "closed", "killed"}
  /\ inserted \in 0 .. Insertions - 1
  /\ mCounter \in Nat /\ initialTimeStamp \in Nat
  /\ lines \in Seq(Lines)
  /\ recorded \in Seq(Recordings)

\* At most the frame that is being written is not in the file yet.
Written ==
  /\ flushed = Len(lines)
  /\ \A i \in 1 .. Len(lines) : Fits(lines[i], i)
  /\ Len(lines) <= Len(recorded) /\ Len(recorded) <= Len(lines) + 1
  /\ inserted # 0 => dumper \in {"writing", "closed"}
  /\ dumper = "writing" \/ inserted # 0 =>
       Len(recorded) = Len(lines) + 1 /\ Fits(line, Len(lines) + 1)
  /\ dumper \in {"off", "idle"} => Len(recorded) = Len(lines) /\ mCounter = Len(lines)
  /\ dumper = "writing" => mCounter = Len(lines) + 1
  /\ dumper = "off" => Len(lines) = 0

\* The time of the first frame is the one the lines count from.
Started ==
  /\ firstFrame <=> Len(recorded) = 0
  /\ Len(recorded) # 0 => initialTimeStamp = recorded[1].stamp

DumperInv == DumperTypes /\ Written /\ Started

LEMMA DumperInitial == DumperInit => DumperInv
<1> SUFFICES ASSUME DumperInit PROVE DumperInv
  OBVIOUS
<1>1. DumperTypes
  BY DEF DumperInit, DumperTypes, Insertions
<1>2. Written
  BY DEF DumperInit, Written
<1>3. Started
  BY DEF DumperInit, Started
<1> QED
  BY <1>1, <1>2, <1>3 DEF DumperInv

\* A step that records nothing does not change what lines fit.
LEMMA FitsSame ==
  ASSUME recorded' = recorded, NEW l, NEW i, Fits(l, i)
  PROVE  Fits(l, i)'
BY DEF Fits, Offset, Minus, Milliseconds

LEMMA DumperOnRcv ==
  ASSUME DumperInv, NEW f \in Frames, NEW t \in Stamps, OnRcv(f, t)
  PROVE  DumperInv'
<1> DEFINE r == [frame |-> f, stamp |-> t]
<1>0. PICK n \in Nat : n = Len(lines)
  BY DEF DumperInv, DumperTypes
<1>1. t \in Nat /\ r \in Recordings
  BY DumperAssumption DEF Recordings
<1>2. /\ dumper = "idle" /\ dumper' = "writing" /\ inserted' = inserted /\ lines' = lines
      /\ flushed' = flushed /\ recorded' = Append(recorded, r)
      /\ mCounter' = mCounter + 1
      /\ initialTimeStamp' = IF firstFrame THEN t ELSE initialTimeStamp
      /\ firstFrame' = FALSE
  BY DEF OnRcv
<1>3. PICK p \in Printed(Milliseconds(Minus(t, initialTimeStamp'))) :
        line' = [position |-> mCounter', time |-> p, frame |-> f]
  BY DEF OnRcv
<1> HIDE DEF r
<1>4. /\ recorded \in Seq(Recordings) /\ Len(recorded) \in Nat
      /\ recorded' \in Seq(Recordings)
      /\ Len(recorded') = Len(recorded) + 1
      /\ recorded'[Len(recorded) + 1] = r
      /\ \A i \in 1 .. Len(recorded) : recorded'[i] = recorded[i]
  BY <1>1, <1>2 DEF DumperInv, DumperTypes
<1>5. /\ Len(recorded) = n /\ mCounter = n
      /\ r.frame = f /\ r.stamp = t
  BY <1>0, <1>2 DEF DumperInv, Written, DumperTypes, r
<1>6. initialTimeStamp' = recorded'[1].stamp /\ initialTimeStamp' \in Nat
  <2>1. CASE n = 0
    BY <1>1, <1>2, <1>4, <1>5, <2>1 DEF DumperInv, Started
  <2>2. CASE n # 0
    BY <1>2, <1>4, <1>5, <2>2 DEF DumperInv, Started, DumperTypes
  <2> QED
    BY <2>1, <2>2
<1>7. ASSUME NEW i \in 1 .. n
      PROVE  /\ recorded'[i].frame = recorded[i].frame
             /\ Milliseconds(Offset(i))' = Milliseconds(Offset(i))
  <2>1. recorded'[i] = recorded[i] /\ recorded'[1] = recorded[1]
    BY <1>4, <1>5
  <2> QED
    BY <2>1 DEF Offset, Minus, Milliseconds
<1>8. Offset(n + 1)' = Minus(t, initialTimeStamp') /\ Minus(t, initialTimeStamp') \in Nat
  BY <1>1, <1>4, <1>5, <1>6 DEF Offset, Minus
<1>9. \A i \in 1 .. n : Fits(lines[i], i)'
  BY <1>0, <1>2, <1>7 DEF DumperInv, Written, Fits
<1>10. Fits(line, n + 1)'
  <2> DEFINE due == Milliseconds(Minus(t, initialTimeStamp'))
  <2>0. Milliseconds(Offset(n + 1))' = due
    BY <1>8 DEF Milliseconds
  <2>1. p \in Nat /\ due - 1 <= p /\ p <= due + 1
    <3>1. due \in Nat /\ p \in Printed(due)
      BY <1>3, <1>8, MillisecondsFacts
    <3> HIDE DEF due
    <3> QED
      BY <3>1 DEF Printed
  <2> HIDE DEF due
  <2>2. line' \in Lines /\ line'.position = n + 1 /\ line'.frame = f /\ line'.time = p
    BY <1>2, <1>3, <1>5, <2>1 DEF Lines
  <2> QED
    BY <1>4, <1>5, <2>0, <2>1, <2>2 DEF Fits
<1>11. DumperTypes'
  BY <1>2, <1>4, <1>6 DEF DumperInv, DumperTypes
<1>12. Written'
  BY <1>0, <1>2, <1>4, <1>5, <1>9, <1>10 DEF DumperInv, Written
<1>13. Started'
  BY <1>2, <1>4, <1>6 DEF Started
<1> QED
  BY <1>11, <1>12, <1>13 DEF DumperInv

LEMMA DumperEndLine ==
  ASSUME DumperInv, EndLine
  PROVE  DumperInv'
<1>1. /\ dumper = "writing" /\ dumper' = "idle" /\ inserted' = 0 /\ recorded' = recorded
      /\ lines' = Append(lines, line) /\ flushed' = Len(lines')
      /\ mCounter' = mCounter /\ initialTimeStamp' = initialTimeStamp
      /\ firstFrame' = firstFrame
  BY DEF EndLine
<1>2. line \in Lines /\ Fits(line, Len(lines) + 1) /\ Len(recorded) = Len(lines) + 1
  BY <1>1 DEF DumperInv, Written, Fits
<1>3. /\ Len(lines) \in Nat /\ lines' \in Seq(Lines) /\ Len(lines') = Len(lines) + 1
      /\ lines'[Len(lines) + 1] = line
      /\ \A i \in 1 .. Len(lines) : lines'[i] = lines[i]
  BY <1>1, <1>2 DEF DumperInv, DumperTypes
<1>4. ASSUME NEW i \in 1 .. Len(lines') PROVE Fits(lines[i], i)'
  <2>1. Fits(lines'[i], i)
    BY <1>2, <1>3 DEF DumperInv, Written
  <2> QED
    BY <1>1, <2>1, FitsSame
<1>5. DumperTypes'
  BY <1>1, <1>3 DEF DumperInv, DumperTypes, Insertions
<1>6. Started'
  BY <1>1 DEF DumperInv, Started
<1>7. Written'
  BY <1>1, <1>2, <1>3, <1>4 DEF DumperInv, Written
<1> QED
  BY <1>5, <1>6, <1>7 DEF DumperInv

LEMMA DumperOther ==
  ASSUME DumperInv, open \/ Insert \/ onSignal \/ Kill \/ UNCHANGED dumperVars
  PROVE  DumperInv'
<1>1. recorded' = recorded /\ firstFrame' = firstFrame /\ initialTimeStamp' = initialTimeStamp
  BY DEF open, Insert, onSignal, Kill, dumperVars
<1>2. lines' = lines /\ flushed' = Len(lines)
  <2>1. CASE Kill
    <3>1. lines' = SubSeq(lines, 1, Len(lines)) /\ flushed' = Len(lines)
      BY <2>1 DEF Kill, DumperInv, Written
    <3>2. lines \in Seq(Lines)
      BY DEF DumperInv, DumperTypes
    <3> QED
      BY <3>1, <3>2
  <2>2. CASE open \/ Insert \/ onSignal \/ UNCHANGED dumperVars
    BY <2>2 DEF open, Insert, onSignal, dumperVars, DumperInv, Written
  <2> QED
    BY <2>1, <2>2
<1>3. \A l, i : Fits(l, i) => Fits(l, i)'
  BY <1>1, FitsSame
<1>4. /\ Started'
      /\ \A i \in 1 .. Len(lines') : Fits(lines[i], i)'
  BY <1>1, <1>2, <1>3 DEF DumperInv, Written, Started
<1>5. CASE open
  <2>1. /\ dumper = "off" /\ dumper' = "idle" /\ mCounter' = 0
        /\ inserted' = inserted /\ line' = line
    BY <1>5 DEF open
  <2>2. DumperTypes'
    BY <1>1, <1>2, <2>1 DEF DumperInv, DumperTypes
  <2>3. Written'
    BY <1>1, <1>2, <1>3, <1>4, <2>1 DEF DumperInv, Written
  <2> QED
    BY <1>4, <2>2, <2>3 DEF DumperInv
<1>6. CASE Insert
  <2>1. /\ dumper = "writing" /\ dumper' = "writing" /\ mCounter' = mCounter
        /\ inserted < Insertions - 1 /\ inserted' = inserted + 1 /\ line' = line
    BY <1>6 DEF Insert
  <2>2. DumperTypes'
    BY <1>1, <1>2, <2>1 DEF DumperInv, DumperTypes, Insertions
  <2>3. Written'
    BY <1>1, <1>2, <1>3, <1>4, <2>1 DEF DumperInv, Written
  <2> QED
    BY <1>4, <2>2, <2>3 DEF DumperInv
<1>7. CASE onSignal
  <2>1. /\ dumper' = "closed" /\ mCounter' = 0
        /\ inserted' = inserted /\ line' = line
    BY <1>7 DEF onSignal
  <2>2. DumperTypes'
    BY <1>1, <1>2, <2>1 DEF DumperInv, DumperTypes
  <2>3. Written'
    BY <1>1, <1>2, <1>3, <1>4, <2>1 DEF DumperInv, Written
  <2> QED
    BY <1>4, <2>2, <2>3 DEF DumperInv
<1>8. CASE Kill
  <2>1. dumper' = "killed" /\ mCounter' = mCounter /\ inserted' = 0
    BY <1>8 DEF Kill
  <2>2. DumperTypes'
    BY <1>1, <1>2, <2>1 DEF DumperInv, DumperTypes, Insertions
  <2>3. Written'
    BY <1>1, <1>2, <1>4, <2>1 DEF DumperInv, Written
  <2> QED
    BY <1>4, <2>2, <2>3 DEF DumperInv
<1>9. CASE UNCHANGED dumperVars
  <2>1. dumper' = dumper /\ mCounter' = mCounter /\ inserted' = inserted /\ line' = line
    BY <1>9 DEF dumperVars
  <2>2. DumperTypes'
    BY <1>1, <1>2, <2>1 DEF DumperInv, DumperTypes
  <2>3. Written'
    BY <1>1, <1>2, <1>3, <1>4, <2>1 DEF DumperInv, Written
  <2> QED
    BY <1>4, <2>2, <2>3 DEF DumperInv
<1> QED
  BY <1>5, <1>6, <1>7, <1>8, <1>9

LEMMA DumperStep == DumperInv /\ (Record \/ UNCHANGED dumperVars) => DumperInv'
BY DumperOnRcv, DumperEndLine, DumperOther DEF Record

-----------------------------------------------------------------------------
(***************************************************************************)
(* The file                                                                *)
(***************************************************************************)
\* Line i of the file is that of the i-th frame; only the last may be cut.
LEMMA FileFacts ==
  ASSUME DumperInv
  PROVE  /\ DOMAIN File = 1 .. Len(File) /\ Len(File) \in Nat
         /\ Len(File) = IF inserted = 0 THEN Len(lines) ELSE Len(lines) + 1
         /\ Len(File) <= Len(recorded)
         /\ File = <<>> <=> Len(File) = 0
         /\ \A i \in 1 .. Len(File) : Fits(File[i].line, i)
         /\ inserted = 0 => \A i \in 1 .. Len(File) : File[i].parts = Insertions
<1> DEFINE E == [line : Lines, parts : Nat]
           whole == [i \in 1 .. Len(lines) |-> [line |-> lines[i], parts |-> Insertions]]
           last == [line |-> line, parts |-> inserted]
<1>1. Len(lines) \in Nat /\ \A i \in 1 .. Len(lines) : lines[i] \in Lines
  BY DEF DumperInv, DumperTypes
<1>2. whole \in Seq(E) /\ Len(whole) = Len(lines)
  BY <1>1 DEF Insertions
<1>3. \A i \in 1 .. Len(lines) : whole[i].line = lines[i] /\ whole[i].parts = Insertions
  OBVIOUS
<1>4. inserted \in Nat /\ (inserted # 0 => line \in Lines)
  BY DEF DumperInv, DumperTypes, Written, Fits
<1>5. inserted # 0 => last \in E
  BY <1>4
<1>6. last.line = line
  OBVIOUS
<1>7. File = IF inserted = 0 THEN whole ELSE Append(whole, last)
  BY DEF File
<1> HIDE DEF whole, last, E
<1>8. CASE inserted = 0
  BY <1>1, <1>2, <1>3, <1>7, <1>8 DEF DumperInv, Written
<1>9. CASE inserted # 0
  <2>1. File = Append(whole, last) /\ File \in Seq(E) /\ Len(File) = Len(lines) + 1
    BY <1>2, <1>5, <1>7, <1>9
  <2>2. /\ \A i \in 1 .. Len(lines) : File[i] = whole[i]
        /\ File[Len(lines) + 1] = last
    BY <1>1, <1>2, <1>5, <1>9, <2>1
  <2>3. Len(recorded) = Len(lines) + 1 /\ Fits(line, Len(lines) + 1)
    BY <1>9 DEF DumperInv, Written
  <2>4. ASSUME NEW i \in 1 .. Len(File) PROVE Fits(File[i].line, i)
    <3>1. CASE i \in 1 .. Len(lines)
      BY <1>3, <2>2, <3>1 DEF DumperInv, Written
    <3>2. CASE i = Len(lines) + 1
      BY <1>6, <2>2, <2>3, <3>2
    <3> QED
      BY <1>1, <2>1, <3>1, <3>2
  <2> QED
    BY <1>1, <1>9, <2>1, <2>3, <2>4
<1> QED
  BY <1>8, <1>9

-----------------------------------------------------------------------------
(***************************************************************************)
(* The reader                                                              *)
(***************************************************************************)
Reads == [time : Nat, frame : Frames]

ReaderInv ==
  /\ loaded \in BOOLEAN
  /\ mLastRead \in Reads \cup {Cleared}
  /\ mCurrentPos \in Nat
  /\ consumed \in 0 .. Len(File)
  /\ mCurrentPos = IF consumed = 0 THEN 0 ELSE consumed - 1
  /\ consumed # 0 => mLastRead = Parsed(File[consumed]) \/ (mLastRead = Cleared /\ eof)
  /\ eof => consumed = Len(File)
  /\ mTotalFrames = IF ~loaded THEN 0 ELSE IF Len(File) = 0 THEN 1 ELSE Len(File)

\* What the reader gives for line i.
LEMMA ParsedFacts ==
  ASSUME DumperInv, NEW i \in 1 .. Len(File)
  PROVE  /\ Parsed(File[i]) \in Reads /\ Parsed(File[i]) # Cleared
         /\ Parsed(File[i]).frame = File[i].line.frame
         /\ Parsed(File[i]).time = File[i].line.time
         /\ File[i].line.position = i /\ File[i].line.time \in Nat
<1>1. Fits(File[i].line, i)
  BY FileFacts
<1> QED
  BY <1>1, ReaderAssumption DEF Fits, Parsed, Lines, Reads

\* Once a program reads the file, nobody writes it.
LEMMA FileStays == UNCHANGED dumperVars => File' = File
BY DEF dumperVars, File

\* Reading a line, by readNextCanFrame or by seekPosition.
LEMMA ReadLineStep ==
  ASSUME DumperInv, ReaderInv, UNCHANGED dumperVars, NEW i \in 1 .. Len(File), ReadLine(i),
         loaded' = loaded, mTotalFrames' = mTotalFrames
  PROVE  ReaderInv' /\ consumed' = i /\ mLastRead' = Parsed(File[i])
<1>1. File' = File
  BY FileStays
<1>2. /\ consumed' = i /\ mCurrentPos' = File[i].line.position - 1
      /\ mLastRead' = Parsed(File[i])
      /\ eof' => i = Len(File)
  BY DEF ReadLine
<1>3. Len(File) \in Nat
  BY FileFacts
<1>4. mCurrentPos' = i - 1 /\ mLastRead' \in Reads
  BY <1>2, ParsedFacts
<1> QED
  BY <1>1, <1>2, <1>3, <1>4 DEF ReaderInv

\* readNextCanFrame goes on by one line, or stays behind the last.
LEMMA ReadNextStep ==
  ASSUME DumperInv, ReaderInv, UNCHANGED dumperVars, readNextCanFrame
  PROVE  /\ ReaderInv'
         /\ consumed < Len(File) => /\ consumed' = consumed + 1
                                    /\ mLastRead' = Parsed(File[consumed + 1])
<1>1. File' = File /\ Len(File) \in Nat
  BY FileStays, FileFacts
<1>2. loaded' = loaded /\ mTotalFrames' = mTotalFrames /\ consumed \in 0 .. Len(File)
  BY DEF readNextCanFrame, ReaderInv
<1>3. CASE eof
  BY <1>1, <1>2, <1>3 DEF readNextCanFrame, ReaderInv
<1>4. CASE ~eof /\ consumed < Len(File)
  <2>1. ReadLine(consumed + 1) /\ consumed + 1 \in 1 .. Len(File)
    BY <1>1, <1>2, <1>4 DEF readNextCanFrame
  <2> QED
    BY <1>2, <2>1, ReadLineStep
<1>5. CASE ~eof /\ ~(consumed < Len(File))
  <2>1. /\ consumed = Len(File) /\ eof' = TRUE /\ mLastRead' = Cleared
        /\ mCurrentPos' = mCurrentPos /\ consumed' = consumed
    BY <1>5 DEF readNextCanFrame, ReadEnd
  <2> QED
    BY <1>1, <1>2, <1>5, <2>1 DEF ReaderInv
<1> QED
  BY <1>3, <1>4, <1>5

LEMMA SeekStep ==
  ASSUME DumperInv, ReaderInv, UNCHANGED dumperVars, reset \/ \E pos \in 0 .. MaxFrames : seekPosition(pos)
  PROVE  ReaderInv'
<1>1. File' = File /\ Len(File) \in Nat /\ DOMAIN File = 1 .. Len(File)
  BY FileStays, FileFacts
<1>2. CASE reset
  <2>1. /\ mCurrentPos' = 0 /\ consumed' = 0 /\ eof' = FALSE
        /\ loaded' = loaded /\ mTotalFrames' = mTotalFrames /\ mLastRead' = mLastRead
    BY <1>2 DEF reset
  <2>2. (consumed \in 0 .. Len(File))' /\ mCurrentPos' \in Nat
    BY <1>1, <2>1
  <2>3. /\ loaded' \in BOOLEAN /\ mLastRead' \in Reads \cup {Cleared}
    BY <2>1 DEF ReaderInv
  <2>4. mTotalFrames' = IF ~loaded' THEN 0 ELSE IF Len(File') = 0 THEN 1 ELSE Len(File')
    BY <1>1, <2>1 DEF ReaderInv
  <2> QED
    BY <2>1, <2>2, <2>3, <2>4 DEF ReaderInv
<1>3. ASSUME NEW pos \in 0 .. MaxFrames, seekPosition(pos) PROVE ReaderInv'
  <2>1. loaded' = loaded /\ mTotalFrames' = mTotalFrames
    BY <1>3 DEF seekPosition
  <2>2. CASE mCurrentPos = pos
    <3>1. /\ mCurrentPos' = mCurrentPos /\ consumed' = consumed /\ eof' = eof
          /\ mLastRead' = mLastRead
      BY <1>3, <2>2 DEF seekPosition
    <3> QED
      BY <1>1, <2>1, <3>1 DEF ReaderInv
  <2>3. CASE mCurrentPos # pos
    <3>1. PICK i \in 1 .. Len(File) : ReadLine(i)
      BY <1>1, <1>3, <2>3 DEF seekPosition
    <3> QED
      BY <2>1, <3>1, ReadLineStep
  <2> QED
    BY <2>2, <2>3
<1> QED
  BY <1>2, <1>3

\* The file is loaded, with its last position for the number of frames, or not.
LEMMA LoadStep ==
  ASSUME DumperInv, UNCHANGED dumperVars, loadFile
  PROVE  /\ ReaderInv' /\ consumed' = 0
         /\ loaded' => mTotalFrames' # 0
<1>1. /\ File' = File /\ Len(File) \in Nat
      /\ File = <<>> <=> Len(File) = 0
  BY FileStays, FileFacts
<1>2. CASE LoadFails
  <2>1. /\ loaded' = FALSE /\ mCurrentPos' = 0 /\ mTotalFrames' = 0
        /\ consumed' = 0 /\ eof' = FALSE /\ mLastRead' = Cleared
    BY <1>2 DEF LoadFails
  <2>2. (consumed \in 0 .. Len(File))' /\ mCurrentPos' \in Nat
    BY <1>1, <2>1
  <2> QED
    BY <2>1, <2>2 DEF ReaderInv
<1>3. CASE Loaded
  <2>1. LastPosition + 1 = IF Len(File) = 0 THEN 1 ELSE Len(File)
    <3>1. CASE Len(File) = 0
      BY <1>1, <3>1 DEF LastPosition
    <3>2. CASE Len(File) # 0
      <4>1. File[Len(File)].line.position = Len(File)
        BY <1>1, <3>2, ParsedFacts
      <4> QED
        BY <1>1, <3>2, <4>1 DEF LastPosition
    <3> QED
      BY <3>1, <3>2
  <2>2. EndsWithoutNewline => Parsed(File[Len(File)]) \in Reads
    BY <1>1, ParsedFacts DEF EndsWithoutNewline
  <2>3. mLastRead' \in Reads \cup {Cleared}
    BY <1>3, <2>2 DEF Loaded
  <2>4. /\ loaded' = TRUE /\ mTotalFrames' = LastPosition + 1 /\ mCurrentPos' = 0
        /\ consumed' = 0 /\ eof' = FALSE
    BY <1>3 DEF Loaded
  <2> QED
    BY <1>1, <2>1, <2>3, <2>4 DEF ReaderInv
<1> QED
  BY <1>2, <1>3 DEF loadFile

-----------------------------------------------------------------------------
(***************************************************************************)
(* TRCPlayer and TRCToCap                                                  *)
(***************************************************************************)
Packets == [frame : Sent, at : Nat]

ToolInv ==
  /\ tool \in {"none", "player", "converter", "program"}
  /\ pc \in {"start", "read", "wait", "shown", "end"}
  /\ now \in Nat
  /\ out \in Seq(Packets)
  /\ tool # "none" => dumper \in {"closed", "killed"}
  /\ tool = "none" => consumed = 0 /\ Len(out) = 0 /\ pc = "start" /\ ~loaded /\ ~eof
  /\ pc = "start" => tool = "none"
  /\ pc \in {"wait", "shown"} => tool = "player"
  /\ pc \in {"read", "wait", "shown"} => loaded

\* Between two lines as many frames are out as lines are read; before a frame
\* is sent there is one line more.
InStep ==
  /\ pc = "read" => Len(out) = consumed /\ consumed < Len(File)
  /\ pc \in {"wait", "shown"} => consumed # 0 /\ mLastRead = Parsed(File[consumed])
  /\ pc = "wait" => Len(out) = consumed - 1
  /\ pc = "shown" => Len(out) = consumed
  /\ pc = "end" => Len(out) = IF loaded THEN Len(File) ELSE 0

\* What is out are the lines, none before its time.
Copied ==
  \A i \in 1 .. Len(out) :
    /\ i <= Len(File)
    /\ out[i].frame = File[i].line.frame
    /\ File[i].line.time <= out[i].at
    /\ tool = "converter" => out[i].at = File[i].line.time

CopyInv == Copies => InStep /\ Copied

PlayerInv == DumperInv /\ ReaderInv /\ ToolInv /\ CopyInv

LEMMA PlayerInitial == Init => PlayerInv
<1> SUFFICES ASSUME Init PROVE PlayerInv
  OBVIOUS
<1>1. DumperInv
  BY DumperInitial DEF Init
<1>2. ReaderInv
  <2>1. Len(File) \in Nat
    BY <1>1, FileFacts
  <2>2. /\ loaded = FALSE /\ mCurrentPos = 0 /\ mTotalFrames = 0 /\ consumed = 0
        /\ eof = FALSE /\ mLastRead = Cleared
    BY DEF Init, ReaderInit
  <2>3. consumed \in 0 .. Len(File) /\ mCurrentPos \in Nat
    BY <2>1, <2>2
  <2> QED
    BY <2>2, <2>3 DEF ReaderInv
<1>3. ToolInv /\ CopyInv
  BY DEF Init, ReaderInit, ToolInv, CopyInv, Copies
<1> QED
  BY <1>1, <1>2, <1>3 DEF PlayerInv

\* The recording goes on while no program reads.
LEMMA RecordStep ==
  ASSUME PlayerInv, Record, UNCHANGED <<readerVars, playerVars>>
  PROVE  PlayerInv'
<1>1. DumperInv'
  BY DumperStep DEF PlayerInv
<1>2. tool = "none" /\ tool' = "none"
  BY DEF PlayerInv, ToolInv, Record, open, Insert, EndLine, onSignal, Kill, OnRcv, playerVars
<1>3. /\ loaded' = loaded /\ mCurrentPos' = mCurrentPos /\ mTotalFrames' = mTotalFrames
      /\ consumed' = consumed /\ eof' = eof /\ mLastRead' = mLastRead
      /\ pc' = pc /\ now' = now /\ out' = out
  BY DEF readerVars, playerVars
<1>4. consumed = 0 /\ ~loaded /\ ~eof
  BY <1>2 DEF PlayerInv, ToolInv
<1>5. ReaderInv'
  <2>1. (consumed \in 0 .. Len(File))'
    BY <1>1, <1>3, <1>4, FileFacts
  <2> QED
    BY <1>3, <1>4, <2>1 DEF PlayerInv, ReaderInv
<1>6. ToolInv' /\ CopyInv'
  BY <1>2, <1>3 DEF PlayerInv, ToolInv, CopyInv, Copies
<1> QED
  BY <1>1, <1>5, <1>6 DEF PlayerInv

LEMMA StartStep ==
  ASSUME PlayerInv, NEW t \in {"player", "converter", "program"}, Start(t)
  PROVE  PlayerInv'
<1>1. /\ dumper \in {"closed", "killed"} /\ tool = "none" /\ tool' = t
      /\ loadFile /\ UNCHANGED dumperVars /\ dumper' = dumper
      /\ pc' = IF loaded' /\ mTotalFrames' # 0 THEN "read" ELSE "end"
      /\ now' = now /\ out' = out
  BY DEF Start, dumperVars
<1>2. DumperInv' /\ File' = File
  BY <1>1, DumperStep, FileStays DEF PlayerInv
<1>3. ReaderInv' /\ consumed' = 0 /\ (loaded' => mTotalFrames' # 0)
  BY <1>1, LoadStep DEF PlayerInv
<1>4. Len(out) = 0
  BY <1>1 DEF PlayerInv, ToolInv
<1>5. ToolInv'
  BY <1>1, <1>3 DEF PlayerInv, ToolInv
<1>6. CopyInv'
  <2> SUFFICES ASSUME Copies' PROVE InStep' /\ Copied'
    BY DEF CopyInv
  <2>1. Len(File) \in Nat /\ Len(File) # 0
    BY <1>2, FileFacts DEF Copies, PlayerInv
  <2>2. pc' = "read" \/ (pc' = "end" /\ ~loaded')
    BY <1>1, <1>3
  <2>3. InStep'
    BY <1>1, <1>2, <1>3, <1>4, <2>1, <2>2 DEF InStep
  <2>4. Copied'
    BY <1>1, <1>4 DEF Copied
  <2> QED
    BY <2>3, <2>4
<1> QED
  BY <1>2, <1>3, <1>5, <1>6 DEF PlayerInv

\* Steps that leave the reader and the output alone.
LEMMA IdleStep ==
  ASSUME PlayerInv, UNCHANGED <<dumperVars, readerVars, tool, pc, out>>, now' \in Nat
  PROVE  PlayerInv'
<1>1. DumperInv' /\ File' = File
  BY DumperStep, FileStays DEF PlayerInv
<1>2. /\ loaded' = loaded /\ mCurrentPos' = mCurrentPos /\ mTotalFrames' = mTotalFrames
      /\ consumed' = consumed /\ eof' = eof /\ mLastRead' = mLastRead
      /\ dumper' = dumper /\ tool' = tool /\ pc' = pc /\ out' = out
  BY DEF readerVars, dumperVars
<1>3. ReaderInv'
  BY <1>1, <1>2 DEF PlayerInv, ReaderInv
<1>4. ToolInv'
  BY <1>2 DEF PlayerInv, ToolInv
<1>5. CopyInv'
  BY <1>1, <1>2 DEF PlayerInv, CopyInv, Copies, InStep, Copied
<1> QED
  BY <1>1, <1>3, <1>4, <1>5 DEF PlayerInv

LEMMA ReadStep ==
  ASSUME PlayerInv, Read
  PROVE  PlayerInv'
<1>1. /\ tool = "player" /\ pc = "read" /\ pc' = "wait" /\ readNextCanFrame
      /\ UNCHANGED dumperVars /\ dumper' = dumper /\ tool' = tool /\ now' = now /\ out' = out
      /\ loaded' = loaded
  BY DEF Read, dumperVars, readNextCanFrame
<1>2. DumperInv' /\ File' = File
  BY <1>1, DumperStep, FileStays DEF PlayerInv
<1>3. /\ ReaderInv'
      /\ consumed < Len(File) => /\ consumed' = consumed + 1
                                 /\ mLastRead' = Parsed(File[consumed + 1])
  BY <1>1, ReadNextStep DEF PlayerInv
<1>4. ToolInv'
  BY <1>1 DEF PlayerInv, ToolInv
<1>5. CopyInv'
  <2> SUFFICES ASSUME Copies' PROVE InStep' /\ Copied'
    BY DEF CopyInv
  <2>1. InStep /\ Copied
    BY <1>1, <1>2 DEF PlayerInv, CopyInv, Copies
  <2>2. Len(out) = consumed /\ consumed < Len(File) /\ consumed \in Nat
    BY <1>1, <2>1 DEF InStep, PlayerInv, ReaderInv
  <2>3. InStep'
    BY <1>1, <1>2, <1>3, <2>2 DEF InStep
  <2>4. Copied'
    BY <1>1, <1>2, <2>1 DEF Copied
  <2> QED
    BY <2>3, <2>4
<1> QED
  BY <1>2, <1>3, <1>4, <1>5 DEF PlayerInv

\* Where the reader is in the file.
LEMMA Place ==
  ASSUME PlayerInv
  PROVE  /\ Len(File) \in Nat /\ consumed \in Nat
         /\ consumed # 0 => consumed \in 1 .. Len(File) /\ mCurrentPos = consumed - 1
         /\ loaded /\ Len(File) # 0 => mTotalFrames = Len(File)
<1>1. Len(File) \in Nat
  BY FileFacts DEF PlayerInv
<1>2. consumed \in 0 .. Len(File)
  BY DEF PlayerInv, ReaderInv
<1>3. mCurrentPos = IF consumed = 0 THEN 0 ELSE consumed - 1
  BY DEF PlayerInv, ReaderInv
<1>4. loaded /\ Len(File) # 0 => mTotalFrames = Len(File)
  BY DEF PlayerInv, ReaderInv
<1> QED
  BY <1>1, <1>2, <1>3, <1>4

\* What getLastCanFrame gives.
LEMMA LastFacts ==
  ASSUME PlayerInv
  PROVE  /\ LastFrame \in Sent /\ LastTime \in Nat
         /\ consumed # 0 /\ mLastRead = Parsed(File[consumed]) =>
              LastFrame = File[consumed].line.frame /\ LastTime = File[consumed].line.time
<1>1. LastFrame \in Sent /\ LastTime \in Nat
  BY DEF PlayerInv, ReaderInv, LastFrame, LastTime, Sent, Reads
<1>2. ASSUME consumed # 0, mLastRead = Parsed(File[consumed])
      PROVE  LastFrame = File[consumed].line.frame /\ LastTime = File[consumed].line.time
  <2>1. consumed \in 1 .. Len(File)
    BY <1>2, Place
  <2> QED
    BY <1>2, <2>1, ParsedFacts DEF PlayerInv, LastFrame, LastTime
<1> QED
  BY <1>1, <1>2

\* One more frame is out.
LEMMA AppendOut ==
  ASSUME out \in Seq(Packets), NEW f \in Sent, NEW t \in Nat,
         out' = Append(out, [frame |-> f, at |-> t])
  PROVE  /\ out' \in Seq(Packets) /\ Len(out) \in Nat /\ Len(out') = Len(out) + 1
         /\ out'[Len(out) + 1].frame = f /\ out'[Len(out) + 1].at = t
         /\ \A i \in 1 .. Len(out) : out'[i] = out[i]
<1> DEFINE p == [frame |-> f, at |-> t]
<1>1. p \in Packets /\ p.frame = f /\ p.at = t
  BY DEF Packets
<1> HIDE DEF p
<1>2. out' = Append(out, p)
  BY DEF p
<1>3. /\ out' \in Seq(Packets) /\ Len(out) \in Nat /\ Len(out') = Len(out) + 1
      /\ out'[Len(out) + 1] = p
      /\ \A i \in 1 .. Len(out) : out'[i] = out[i]
  BY <1>1, <1>2
<1> QED
  BY <1>1, <1>3

LEMMA SendStep ==
  ASSUME PlayerInv, Send
  PROVE  PlayerInv'
<1>1. /\ tool = "player" /\ pc = "wait" /\ pc' = "shown" /\ now >= LastTime
      /\ out' = Append(out, [frame |-> LastFrame, at |-> now])
      /\ UNCHANGED dumperVars /\ dumper' = dumper /\ tool' = tool /\ now' = now
      /\ loaded' = loaded /\ mCurrentPos' = mCurrentPos /\ mTotalFrames' = mTotalFrames
      /\ consumed' = consumed /\ eof' = eof /\ mLastRead' = mLastRead
  BY DEF Send, dumperVars, readerVars
<1>2. DumperInv' /\ File' = File
  BY <1>1, DumperStep, FileStays DEF PlayerInv
<1>3. ReaderInv'
  BY <1>1, <1>2 DEF PlayerInv, ReaderInv
<1>4. now \in Nat /\ LastFrame \in Sent /\ out \in Seq(Packets)
  BY LastFacts DEF PlayerInv, ToolInv
<1>5. /\ out' \in Seq(Packets) /\ Len(out) \in Nat /\ Len(out') = Len(out) + 1
      /\ out'[Len(out) + 1].frame = LastFrame /\ out'[Len(out) + 1].at = now
      /\ \A i \in 1 .. Len(out) : out'[i] = out[i]
  BY <1>1, <1>4, AppendOut
<1>6. ToolInv'
  BY <1>1, <1>5 DEF PlayerInv, ToolInv
<1>7. CopyInv'
  <2> SUFFICES ASSUME Copies' PROVE InStep' /\ Copied'
    BY DEF CopyInv
  <2>1. InStep /\ Copied
    BY <1>1, <1>2 DEF PlayerInv, CopyInv, Copies
  <2>2. /\ consumed \in 1 .. Len(File) /\ Len(out) = consumed - 1
        /\ mLastRead = Parsed(File[consumed]) /\ Len(File) \in Nat
    BY <1>1, <2>1, Place DEF InStep
  <2>3. LastFrame = File[consumed].line.frame /\ LastTime = File[consumed].line.time
    BY <2>2, LastFacts
  <2>4. InStep'
    BY <1>1, <1>2, <1>5, <2>2 DEF InStep
  <2>5. Copied'
    <3> SUFFICES ASSUME NEW i \in 1 .. Len(out')
                 PROVE  /\ i <= Len(File)
                        /\ out'[i].frame = File[i].line.frame
                        /\ File[i].line.time <= out'[i].at
      BY <1>1, <1>2 DEF Copied
    <3>1. CASE i \in 1 .. Len(out)
      BY <1>5, <2>1, <3>1 DEF Copied
    <3>2. CASE i = consumed
      <4>1. LastTime \in Nat /\ now \in Nat
        BY LastFacts DEF PlayerInv, ToolInv
      <4>2. i = Len(out) + 1 /\ i <= Len(File)
        BY <1>5, <2>2, <3>2
      <4> QED
        BY <1>1, <1>5, <2>3, <3>2, <4>1, <4>2
    <3> QED
      BY <1>5, <2>2, <3>1, <3>2
  <2> QED
    BY <2>4, <2>5
<1> QED
  BY <1>2, <1>3, <1>6, <1>7 DEF PlayerInv

LEMMA ShowStep ==
  ASSUME PlayerInv, Show
  PROVE  PlayerInv'
<1>1. /\ tool = "player" /\ pc = "shown" /\ out' = out
      /\ pc' = IF MoreToRead THEN "read" ELSE "end"
      /\ UNCHANGED dumperVars /\ dumper' = dumper /\ tool' = tool /\ now' = now
      /\ loaded' = loaded /\ mCurrentPos' = mCurrentPos /\ mTotalFrames' = mTotalFrames
      /\ consumed' = consumed /\ eof' = eof /\ mLastRead' = mLastRead
  BY DEF Show, dumperVars, readerVars
<1>2. DumperInv' /\ File' = File
  BY <1>1, DumperStep, FileStays DEF PlayerInv
<1>3. ReaderInv'
  BY <1>1, <1>2 DEF PlayerInv, ReaderInv
<1>4. ToolInv'
  BY <1>1 DEF PlayerInv, ToolInv
<1>5. CopyInv'
  <2> SUFFICES ASSUME Copies' PROVE InStep' /\ Copied'
    BY DEF CopyInv
  <2>1. InStep /\ Copied
    BY <1>1, <1>2 DEF PlayerInv, CopyInv, Copies
  <2>2. /\ consumed \in 1 .. Len(File) /\ Len(out) = consumed /\ loaded
        /\ mCurrentPos = consumed - 1 /\ mTotalFrames = Len(File) /\ Len(File) \in Nat
    <3>1. consumed # 0 /\ Len(out) = consumed /\ loaded
      BY <1>1, <2>1 DEF InStep, PlayerInv, ToolInv
    <3> QED
      BY <3>1, Place
  <2>3. InStep'
    BY <1>1, <1>2, <2>2 DEF InStep, MoreToRead
  <2>4. Copied'
    BY <1>1, <1>2, <2>1 DEF Copied
  <2> QED
    BY <2>3, <2>4
<1> QED
  BY <1>2, <1>3, <1>4, <1>5 DEF PlayerInv

LEMMA ConvertStep ==
  ASSUME PlayerInv, Convert
  PROVE  PlayerInv'
<1>1. /\ tool = "converter" /\ pc = "read" /\ readNextCanFrame
      /\ out' = Append(out, [frame |-> LastFrame', at |-> LastTime'])
      /\ pc' = IF MoreToRead' THEN "read" ELSE "end"
      /\ UNCHANGED dumperVars /\ dumper' = dumper /\ tool' = tool /\ now' = now
      /\ loaded' = loaded
  BY DEF Convert, dumperVars, readNextCanFrame
<1>2. DumperInv' /\ File' = File
  BY <1>1, DumperStep, FileStays DEF PlayerInv
<1>3. /\ ReaderInv'
      /\ consumed < Len(File) => /\ consumed' = consumed + 1
                                 /\ mLastRead' = Parsed(File[consumed + 1])
  BY <1>1, ReadNextStep DEF PlayerInv
<1>4. LastFrame' \in Sent /\ LastTime' \in Nat
  BY <1>3 DEF ReaderInv, LastFrame, LastTime, Sent, Reads
<1>5. /\ out' \in Seq(Packets) /\ Len(out) \in Nat /\ Len(out') = Len(out) + 1
      /\ out'[Len(out) + 1].frame = LastFrame' /\ out'[Len(out) + 1].at = LastTime'
      /\ \A i \in 1 .. Len(out) : out'[i] = out[i]
  BY <1>1, <1>4, AppendOut DEF PlayerInv, ToolInv
<1>6. ToolInv'
  BY <1>1, <1>5 DEF PlayerInv, ToolInv
<1>7. CopyInv'
  <2> SUFFICES ASSUME Copies' PROVE InStep' /\ Copied'
    BY DEF CopyInv
  <2>1. InStep /\ Copied
    BY <1>1, <1>2 DEF PlayerInv, CopyInv, Copies
  <2> DEFINE k == consumed + 1
  <2>2. k \in 1 .. Len(File) /\ Len(out) = consumed /\ consumed < Len(File) /\ loaded
        /\ Len(File) \in Nat
    <3>1. Len(out) = consumed /\ consumed < Len(File) /\ loaded
      BY <1>1, <2>1 DEF InStep, PlayerInv, ToolInv
    <3> QED
      BY <3>1, Place
  <2>3. mLastRead' = Parsed(File[k]) /\ consumed' = k
    BY <1>3, <2>2
  <2>4. LastFrame' = File[k].line.frame /\ LastTime' = File[k].line.time
    BY <2>2, <2>3, ParsedFacts DEF PlayerInv, LastFrame, LastTime
  <2>5. MoreToRead' <=> k < Len(File)
    <3>1. mCurrentPos' = k - 1 /\ mTotalFrames' = Len(File)
      BY <1>1, <1>2, <1>3, <2>2, <2>3 DEF ReaderInv
    <3> QED
      BY <2>2, <3>1 DEF MoreToRead
  <2>6. InStep'
    BY <1>1, <1>2, <1>5, <2>2, <2>3, <2>5 DEF InStep
  <2>7. Copied'
    <3> SUFFICES ASSUME NEW i \in 1 .. Len(out')
                 PROVE  /\ i <= Len(File)
                        /\ out'[i].frame = File[i].line.frame
                        /\ File[i].line.time <= out'[i].at
                        /\ out'[i].at = File[i].line.time
      BY <1>1, <1>2 DEF Copied
    <3>1. CASE i \in 1 .. Len(out)
      BY <1>1, <1>5, <2>1, <3>1 DEF Copied
    <3>2. CASE i = k
      <4>1. File[k].line.time \in Nat
        BY <2>2, ParsedFacts DEF PlayerInv
      <4> QED
        BY <1>5, <2>2, <2>4, <3>2, <4>1
    <3> QED
      BY <1>5, <2>2, <3>1, <3>2
  <2> QED
    BY <2>6, <2>7
<1> QED
  BY <1>2, <1>3, <1>6, <1>7 DEF PlayerInv

LEMMA UseStep ==
  ASSUME PlayerInv, Use
  PROVE  PlayerInv'
<1>1. /\ tool = "program" /\ pc = "read" /\ UNCHANGED dumperVars /\ dumper' = dumper
      /\ tool' = tool /\ pc' = pc /\ now' = now /\ out' = out
      /\ readNextCanFrame \/ reset \/ \E pos \in 0 .. MaxFrames : seekPosition(pos)
  BY DEF Use, dumperVars, playerVars
<1>2. DumperInv'
  BY <1>1, DumperStep DEF PlayerInv
<1>3. ReaderInv'
  BY <1>1, ReadNextStep, SeekStep DEF PlayerInv
<1>4. loaded' = loaded
  BY <1>1 DEF readNextCanFrame, reset, seekPosition
<1>5. ToolInv' /\ CopyInv'
  BY <1>1, <1>4 DEF PlayerInv, ToolInv, CopyInv, Copies
<1> QED
  BY <1>2, <1>3, <1>5 DEF PlayerInv

LEMMA PlayerStep == PlayerInv /\ [Next]_vars => PlayerInv'
<1> SUFFICES ASSUME PlayerInv, [Next]_vars PROVE PlayerInv'
  OBVIOUS
<1>1. CASE Tick \/ KeyUp \/ KeyDown \/ KeyEnter \/ UNCHANGED vars
  <2>1. UNCHANGED <<dumperVars, readerVars, tool, pc, out>> /\ now' \in Nat
    BY <1>1 DEF Tick, KeyUp, KeyDown, KeyEnter, Waiting, vars, playerVars, PlayerInv, ToolInv
  <2> QED
    BY <2>1, IdleStep
<1> QED
  BY <1>1, RecordStep, StartStep, ReadStep, SendStep, ShowStep, ConvertStep, UseStep
  DEF Next, Play

LEMMA PlayerInvariant == Spec => []PlayerInv
BY PlayerInitial, PlayerStep, PTL DEF Spec

(***************************************************************************)
(* Wherever the dumper was stopped, TRCPlayer and TRCToCap give back the   *)
(* frames it got, in their order and not before their time, or a number of *)
(* times 2^32 ms before it in a recording as long as that; and all of them,*)
(* when they come to their end.                                            *)
(***************************************************************************)
THEOREM ReplayFollowsRecording == Spec => []ReplaysRecording
<1>1. PlayerInv => ReplaysRecording
  <2> SUFFICES ASSUME PlayerInv, Copies PROVE
        /\ Len(out) <= Len(recorded)
        /\ \A i \in DOMAIN out :
             /\ out[i].frame = recorded[i].frame
             /\ \E k \in 0 .. (Offset(i) \div WORD) :
                  /\ out[i].at >= Offset(i) - k * WORD - 1
                  /\ tool = "converter" => out[i].at <= Offset(i) - k * WORD + 1
        /\ loaded /\ pc = "end" => Len(out) = Len(File)
    BY DEF ReplaysRecording
  <2>1. InStep /\ Copied
    BY DEF PlayerInv, CopyInv
  <2>2. out \in Seq(Packets) /\ DOMAIN out = 1 .. Len(out) /\ Len(out) \in Nat
    BY DEF PlayerInv, ToolInv
  <2>3. Len(File) \in Nat /\ Len(File) <= Len(recorded) /\ Len(recorded) \in Nat
    BY FileFacts DEF PlayerInv, DumperInv, DumperTypes
  <2>4. Len(out) <= Len(File)
    <3>1. CASE Len(out) = 0
      BY <2>3, <3>1
    <3>2. CASE Len(out) # 0
      BY <2>1, <2>2, <3>2 DEF Copied
    <3> QED
      BY <3>1, <3>2
  <2>5. ASSUME NEW i \in 1 .. Len(out)
        PROVE  /\ out[i].frame = recorded[i].frame
               /\ \E k \in 0 .. (Offset(i) \div WORD) :
                    /\ out[i].at >= Offset(i) - k * WORD - 1
                    /\ tool = "converter" => out[i].at <= Offset(i) - k * WORD + 1
    <3>1. i \in 1 .. Len(File) /\ i \in 1 .. Len(recorded)
      BY <2>2, <2>3, <2>4
    <3>2. Fits(File[i].line, i)
      BY <3>1, FileFacts DEF PlayerInv
    <3>3. out[i].at \in Nat /\ File[i].line.time \in Nat
      <4>1. out[i] \in Packets /\ File[i].line \in Lines
        BY <2>2, <3>2 DEF Fits
      <4> QED
        BY <4>1 DEF Packets, Lines
    <3>4. Offset(i) \in Nat
      <4>1. recorded[i].stamp \in Nat /\ recorded[1].stamp \in Nat
        <5>1. recorded \in Seq(Recordings) /\ 1 \in 1 .. Len(recorded)
          BY <2>3, <3>1 DEF PlayerInv, DumperInv, DumperTypes
        <5>2. recorded[i] \in Recordings /\ recorded[1] \in Recordings
          BY <3>1, <5>1
        <5> QED
          BY <5>2 DEF Recordings
      <4> QED
        BY <4>1 DEF Offset, Minus
    <3>5. /\ out[i].frame = File[i].line.frame
          /\ File[i].line.time <= out[i].at
          /\ tool = "converter" => out[i].at = File[i].line.time
      BY <2>1 DEF Copied
    <3>6. PICK k \in 0 .. (Offset(i) \div WORD) :
            Milliseconds(Offset(i)) = Offset(i) - k * WORD
      BY <3>4, MillisecondsFacts
    <3>7. PICK d \in Int : d = Offset(i) - k * WORD
      BY <3>4, <3>6, DumperAssumption
    <3>8. out[i].at >= d - 1 /\ (tool = "converter" => out[i].at <= d + 1)
      BY <3>2, <3>3, <3>5, <3>6, <3>7 DEF Fits
    <3>9. out[i].frame = recorded[i].frame
      BY <3>2, <3>5 DEF Fits
    <3> QED
      BY <3>7, <3>8, <3>9
  <2> QED
    BY <2>1, <2>2, <2>3, <2>4, <2>5 DEF InStep
<1> QED
  BY <1>1, PlayerInvariant, PTL

(***************************************************************************)
(* A dumper that is killed leaves a file with every frame but the one it   *)
(* was writing, and only a frame without data makes the reader refuse it.  *)
(***************************************************************************)
THEOREM KillLosesOneLine == Spec => []SurvivesKill
<1>1. PlayerInv => SurvivesKill
  <2> SUFFICES ASSUME PlayerInv, dumper = "killed"
               PROVE  /\ Len(File) + 1 >= Len(recorded)
                      /\ Intact <=> \A i \in DOMAIN File : recorded[i].frame.data # <<>>
    BY DEF SurvivesKill
  <2>1. inserted = 0 /\ Len(recorded) <= Len(lines) + 1
    BY DEF PlayerInv, DumperInv, Written
  <2>2. /\ DOMAIN File = 1 .. Len(File) /\ Len(File) = Len(lines) /\ Len(File) \in Nat
        /\ \A i \in 1 .. Len(File) : Fits(File[i].line, i)
        /\ \A i \in 1 .. Len(File) : File[i].parts = Insertions
    BY <2>1, FileFacts DEF PlayerInv
  <2>3. Len(recorded) \in Nat
    BY DEF PlayerInv, DumperInv, DumperTypes
  <2>4. ASSUME NEW i \in DOMAIN File
        PROVE  Readable(File[i]) <=> recorded[i].frame.data # <<>>
    <3>1. File[i].parts >= Insertions - 1
      BY <2>2 DEF Insertions
    <3>2. File[i].line.frame = recorded[i].frame
      BY <2>2 DEF Fits
    <3> QED
      BY <3>1, <3>2 DEF Readable
  <2> QED
    BY <2>1, <2>2, <2>3, <2>4 DEF Intact
<1> QED
  BY <1>1, PlayerInvariant, PTL

(***************************************************************************)
(* However the operations of TRCReader are mixed, mCurrentPos and the last *)
(* frame read belong to the line the stream is behind.                     *)
(***************************************************************************)
THEOREM PositionNamesLast == Spec => []PosNamesLast
<1>1. PlayerInv => PosNamesLast
  <2> SUFFICES ASSUME PlayerInv, loaded, consumed > 0
               PROVE  /\ mCurrentPos = consumed - 1
                      /\ mLastRead = Parsed(File[consumed]) \/ (mLastRead = Cleared /\ eof)
    BY DEF PosNamesLast
  <2>1. consumed # 0
    BY Place
  <2> QED
    BY <2>1 DEF PlayerInv, ReaderInv
<1> QED
  BY <1>1, PlayerInvariant, PTL

-----------------------------------------------------------------------------
(***************************************************************************)
(* The list on the player's screen                                         *)
(***************************************************************************)
Entries == [id : Ids \cup Messages, frame : Sent, details : BOOLEAN]

\* How many of the frames that were sent the list has seen.
Seen == IF pc = "shown" THEN Len(out) - 1 ELSE Len(out)

\* f is one of them that belongs under id, and no whole frame under id came after it.
Latest(id, f) ==
  \E k \in 1 .. Seen :
    /\ Whole(k, id) \/ LastPacket(k, id)
    /\ out[k].frame = f
    /\ \A j \in 1 .. Seen : j > k => ~Whole(j, id)

ListTypes ==
  /\ vectorFrames \in Seq(Entries)
  /\ currentSel \in Nat
  /\ currentSel < Len(vectorFrames) \/ currentSel = 0
  /\ tool # "player" => Len(vectorFrames) = 0
  /\ pc = "shown" => Len(out) # 0 /\ out[Len(out)].frame = LastFrame

OnceEach ==
  \A i, j \in 1 .. Len(vectorFrames) : vectorFrames[i].id = vectorFrames[j].id => i = j

AllLatest ==
  \A i \in 1 .. Len(vectorFrames) : Latest(vectorFrames[i].id, vectorFrames[i].frame)

\* Every identifier under which a whole frame was sent is on the list.
AllListed ==
  tool = "player" => \A k \in 1 .. Seen, id \in Ids :
    Whole(k, id) => \E e \in 1 .. Len(vectorFrames) : vectorFrames[e].id = id

ListInv == ListTypes /\ OnceEach /\ AllLatest /\ AllListed

LEMMA ListInitial == Init => ListInv
<1> SUFFICES ASSUME Init PROVE ListInv
  OBVIOUS
<1>1. vectorFrames = <<>> /\ Len(vectorFrames) = 0 /\ currentSel = 0 /\ pc = "start"
      /\ tool = "none"
  BY DEF Init
<1> QED
  BY <1>1 DEF ListInv, ListTypes, OnceEach, AllLatest, AllListed

\* An empty list is right, as long as the player has not sent anything.
LEMMA EmptyList ==
  ASSUME ListInv, Len(vectorFrames) = 0, vectorFrames' = vectorFrames,
         currentSel' = currentSel, pc' # "shown",
         tool' # "player" \/ Len(out') = 0
  PROVE  ListInv'
BY DEF ListInv, ListTypes, OnceEach, AllLatest, AllListed, Seen

\* Steps that touch neither the list nor what it has seen of the output.
LEMMA ListUntouched ==
  ASSUME PlayerInv, ListInv,
         Len(vectorFrames') = Len(vectorFrames), vectorFrames' \in Seq(Entries),
         \A i \in 1 .. Len(vectorFrames) : /\ vectorFrames'[i].id = vectorFrames[i].id
                                           /\ vectorFrames'[i].frame = vectorFrames[i].frame,
         currentSel' \in Nat, currentSel' < Len(vectorFrames) \/ currentSel' = 0,
         tool' = tool, Seen' = Seen,
         \A k \in 1 .. Seen : out'[k] = out[k],
         pc' = "shown" => (Len(out) # 0 /\ out[Len(out)].frame = LastFrame)'
  PROVE  ListInv'
<1>1. ASSUME NEW id, NEW f, Latest(id, f) PROVE Latest(id, f)'
  <2>1. PICK k \in 1 .. Seen : /\ Whole(k, id) \/ LastPacket(k, id)
                              /\ out[k].frame = f
                              /\ \A j \in 1 .. Seen : j > k => ~Whole(j, id)
    BY <1>1 DEF Latest
  <2>2. Whole(k, id)' \/ LastPacket(k, id)'
    BY <2>1 DEF Whole, LastPacket
  <2>3. \A j \in 1 .. Seen : j > k => ~Whole(j, id)'
    BY <2>1 DEF Whole
  <2>4. k \in 1 .. Seen' /\ out'[k].frame = f
    BY <2>1
  <2> QED
    BY <2>2, <2>3, <2>4 DEF Latest
<1>2. ListTypes'
  BY DEF ListInv, ListTypes
<1>3. OnceEach'
  BY DEF ListInv, OnceEach
<1>4. AllLatest'
  <2> SUFFICES ASSUME NEW i \in 1 .. Len(vectorFrames)
               PROVE  Latest(vectorFrames[i].id, vectorFrames[i].frame)'
    BY DEF AllLatest
  <2>1. Latest(vectorFrames[i].id, vectorFrames[i].frame)
    BY DEF ListInv, AllLatest
  <2>2. PICK id, f : id = vectorFrames[i].id /\ f = vectorFrames[i].frame
    OBVIOUS
  <2>3. Latest(id, f)'
    BY <1>1, <2>1, <2>2
  <2> QED
    BY <2>2, <2>3
<1>5. AllListed'
  <2> SUFFICES ASSUME tool = "player", NEW k \in 1 .. Seen, NEW id \in Ids, Whole(k, id)'
               PROVE  \E e \in 1 .. Len(vectorFrames)' : vectorFrames'[e].id = id
    BY DEF AllListed
  <2>1. Whole(k, id)
    BY DEF Whole
  <2> QED
    BY <2>1 DEF ListInv, AllListed
<1> QED
  BY <1>2, <1>3, <1>4, <1>5 DEF ListInv

LEMMA ListKeys ==
  ASSUME PlayerInv, ListInv,
         Tick \/ KeyUp \/ KeyDown \/ KeyEnter \/ UNCHANGED vars
  PROVE  ListInv'
<1>1. /\ tool' = tool /\ pc' = pc /\ out' = out /\ mLastRead' = mLastRead
  BY DEF Tick, KeyUp, KeyDown, KeyEnter, vars, readerVars, playerVars
<1>2. /\ Seen' = Seen /\ LastFrame' = LastFrame
      /\ pc' = "shown" => (Len(out) # 0 /\ out[Len(out)].frame = LastFrame)'
  BY <1>1 DEF Seen, LastFrame, ListInv, ListTypes
<1>3. /\ vectorFrames \in Seq(Entries) /\ Len(vectorFrames) \in Nat /\ currentSel \in Nat
      /\ currentSel < Len(vectorFrames) \/ currentSel = 0
  BY DEF ListInv, ListTypes
<1>4. CASE KeyEnter
  <2>1. /\ vectorFrames # <<>> /\ currentSel' = currentSel
        /\ vectorFrames' = [vectorFrames EXCEPT ![currentSel + 1].details = ~@]
    BY <1>4 DEF KeyEnter
  <2> DEFINE n == currentSel + 1
             e == [vectorFrames[n] EXCEPT !.details = ~@]
  <2>2. n \in 1 .. Len(vectorFrames)
    BY <1>3, <2>1
  <2>3. vectorFrames[n] \in Entries
    BY <1>3, <2>2
  <2>4. /\ e \in Entries /\ e.id = vectorFrames[n].id /\ e.frame = vectorFrames[n].frame
    <3>1. vectorFrames[n].details \in BOOLEAN
      BY <2>3 DEF Entries
    <3>2. (~vectorFrames[n].details) \in BOOLEAN
      OBVIOUS
    <3>3. PICK b \in BOOLEAN : b = ~vectorFrames[n].details
      BY <3>2
    <3>4. e = [vectorFrames[n] EXCEPT !.details = b]
      BY <3>3
    <3> QED
      BY <2>3, <3>4 DEF Entries
  <2>5. vectorFrames' = [vectorFrames EXCEPT ![n] = e]
    BY <2>1
  <2> HIDE DEF e, n
  <2>6. /\ vectorFrames' \in Seq(Entries) /\ Len(vectorFrames') = Len(vectorFrames)
        /\ vectorFrames'[n] = e
        /\ \A i \in 1 .. Len(vectorFrames) : i # n => vectorFrames'[i] = vectorFrames[i]
    BY <1>3, <2>2, <2>4, <2>5
  <2> QED
    BY <1>1, <1>2, <1>3, <2>1, <2>2, <2>4, <2>6, ListUntouched
<1>5. CASE ~KeyEnter
  <2>1. vectorFrames' = vectorFrames
    BY <1>5 DEF Tick, KeyUp, KeyDown, vars, playerVars
  <2>2. \/ currentSel' = currentSel
        \/ currentSel > 0 /\ currentSel' = currentSel - 1
        \/ currentSel + 1 < Len(vectorFrames) /\ currentSel' = currentSel + 1
    BY <1>5 DEF Tick, KeyUp, KeyDown, vars, playerVars
  <2>3. currentSel' \in Nat /\ (currentSel' < Len(vectorFrames) \/ currentSel' = 0)
    BY <1>3, <2>2
  <2> QED
    BY <1>1, <1>2, <1>3, <2>1, <2>3, ListUntouched
<1> QED
  BY <1>4, <1>5

\* Reading changes nothing, and what is sent is not on the list yet.
LEMMA ListReadSend ==
  ASSUME PlayerInv, ListInv, Read \/ Send
  PROVE  ListInv'
<1>1. vectorFrames' = vectorFrames /\ currentSel' = currentSel /\ tool' = tool
  BY DEF Read, Send
<1>2. /\ vectorFrames \in Seq(Entries) /\ Len(vectorFrames) \in Nat /\ currentSel \in Nat
      /\ currentSel < Len(vectorFrames) \/ currentSel = 0
  BY DEF ListInv, ListTypes
<1>3. CASE Read
  <2>1. pc = "read" /\ pc' = "wait" /\ out' = out
    BY <1>3 DEF Read
  <2>2. Seen' = Seen
    BY <2>1 DEF Seen
  <2> QED
    BY <1>1, <1>2, <2>1, <2>2, ListUntouched
<1>4. CASE Send
  <2>1. /\ pc = "wait" /\ pc' = "shown" /\ mLastRead' = mLastRead
        /\ out' = Append(out, [frame |-> LastFrame, at |-> now])
    BY <1>4 DEF Send, readerVars
  <2>2. now \in Nat /\ LastFrame \in Sent /\ out \in Seq(Packets) /\ LastFrame' = LastFrame
    BY <2>1, LastFacts DEF PlayerInv, ToolInv, LastFrame
  <2>3. /\ Len(out) \in Nat /\ Len(out') = Len(out) + 1
        /\ out'[Len(out) + 1].frame = LastFrame
        /\ \A i \in 1 .. Len(out) : out'[i] = out[i]
    BY <2>1, <2>2, AppendOut
  <2>4. Seen' = Seen /\ Seen = Len(out)
    BY <2>1, <2>3 DEF Seen
  <2>5. (Len(out) # 0 /\ out[Len(out)].frame = LastFrame)'
    BY <2>2, <2>3
  <2> QED
    BY <1>1, <1>2, <2>1, <2>3, <2>4, <2>5, ListUntouched
<1> QED
  BY <1>3, <1>4

\* What Listed does to a list without repetitions.
LEMMA ListedFacts ==
  ASSUME vectorFrames \in Seq(Entries), OnceEach,
         NEW id \in Ids \cup Messages, NEW f \in Sent
  PROVE  LET v == Listed(id, f) IN
         /\ v \in Seq(Entries) /\ Len(v) \in Nat /\ Len(v) >= Len(vectorFrames)
         /\ Len(v) # 0
         /\ \A i \in 1 .. Len(vectorFrames) : v[i].id = vectorFrames[i].id
         /\ \E i \in 1 .. Len(v) : v[i].id = id
         /\ \A i \in 1 .. Len(v) :
              \/ v[i].id = id /\ v[i].frame = f
              \/ i \in 1 .. Len(vectorFrames) /\ v[i] = vectorFrames[i] /\ v[i].id # id
         /\ \A i, j \in 1 .. Len(v) : v[i].id = v[j].id => i = j
<1> DEFINE v == Listed(id, f)
           n == Len(vectorFrames)
           There == \E i \in DOMAIN vectorFrames : vectorFrames[i].id = id
           new == [id |-> id, frame |-> f, details |-> FALSE]
           Put(i) == [vectorFrames[i] EXCEPT !.frame = f]
<1>1. n \in Nat /\ DOMAIN vectorFrames = 1 .. n
  OBVIOUS
<1>2. ASSUME NEW i \in 1 .. n
      PROVE  /\ vectorFrames[i] \in Entries /\ Put(i) \in Entries
             /\ Put(i).id = vectorFrames[i].id /\ Put(i).frame = f
  <2>1. PICK e \in Entries : e = vectorFrames[i]
    BY <1>1
  <2>2. [e EXCEPT !.frame = f] \in Entries
    BY <2>1 DEF Entries
  <2>3. [e EXCEPT !.frame = f].id = e.id /\ [e EXCEPT !.frame = f].frame = f
    BY <2>1 DEF Entries
  <2> QED
    BY <2>1, <2>2, <2>3
<1>3. new \in Entries /\ new.id = id /\ new.frame = f
  BY DEF Entries
<1>4. CASE There
  <2>1. v = [i \in 1 .. n |-> IF vectorFrames[i].id = id THEN Put(i) ELSE vectorFrames[i]]
    BY <1>1, <1>4 DEF Listed
  <2> HIDE DEF v, Put, n
  <2>2. v \in Seq(Entries) /\ Len(v) = n
    BY <1>1, <1>2, <2>1
  <2>3. ASSUME NEW i \in 1 .. n
        PROVE  /\ v[i].id = vectorFrames[i].id
               /\ vectorFrames[i].id = id => v[i].frame = f
               /\ vectorFrames[i].id # id => v[i] = vectorFrames[i]
    BY <1>2, <2>1
  <2>4. n # 0
    BY <1>1, <1>4
  <2>5. \A i, j \in 1 .. n : vectorFrames[i].id = vectorFrames[j].id => i = j
    BY DEF OnceEach, n
  <2> QED
    BY <1>1, <1>4, <2>2, <2>3, <2>4, <2>5 DEF v, n
<1>5. CASE ~There
  <2>1. v = Append(vectorFrames, new)
    BY <1>5 DEF Listed
  <2> HIDE DEF v, new
  <2>2. /\ v \in Seq(Entries) /\ Len(v) = n + 1 /\ v[n + 1] = new
        /\ \A i \in 1 .. n : v[i] = vectorFrames[i]
    BY <1>3, <2>1
  <2>3. \A i \in 1 .. n : v[i] = vectorFrames[i] /\ v[i].id # id
    BY <1>1, <1>5, <2>2
  <2>4. \A i, j \in 1 .. n : vectorFrames[i].id = vectorFrames[j].id => i = j
    BY DEF OnceEach
  <2> HIDE DEF n
  <2>5. \A i \in 1 .. Len(v) : i \in 1 .. n \/ i = n + 1
    BY <1>1, <2>2
  <2>6. \A i, j \in 1 .. Len(v) : v[i].id = v[j].id => i = j
    BY <1>3, <2>2, <2>3, <2>4, <2>5
  <2> QED
    BY <1>1, <1>3, <2>2, <2>3, <2>5, <2>6 DEF v, n
<1> QED
  BY <1>4, <1>5

\* The list takes in the frame that was sent last.
LEMMA ListShow ==
  ASSUME PlayerInv, ListInv, Show
  PROVE  ListInv'
<1> DEFINE n == Len(out)
<1>1. /\ tool = "player" /\ pc = "shown" /\ pc' # "shown" /\ tool' = tool
      /\ out' = out /\ currentSel' = currentSel
  BY DEF Show
<1>2. /\ vectorFrames \in Seq(Entries) /\ Len(vectorFrames) \in Nat /\ OnceEach
      /\ currentSel \in Nat /\ (currentSel < Len(vectorFrames) \/ currentSel = 0)
  BY DEF ListInv, ListTypes
<1>3. n \in Nat /\ n # 0 /\ out[n].frame = LastFrame /\ LastFrame \in Sent
  BY <1>1, LastFacts DEF ListInv, ListTypes, PlayerInv, ToolInv
<1>4. Seen = n - 1 /\ Seen' = n
  BY <1>1 DEF Seen
<1>5. \A k, id : /\ Whole(k, id)' <=> Whole(k, id)
                 /\ LastPacket(k, id)' <=> LastPacket(k, id)
  BY <1>1 DEF Whole, LastPacket
<1>6. LastFrame' = LastFrame
  BY DEF Show, readerVars, LastFrame
<1> HIDE DEF n
\* What is not listed under id does not change what was last under id.
<1>7. ASSUME NEW id, NEW f, Latest(id, f), ~Whole(n, id)
      PROVE  Latest(id, f)'
  <2>1. PICK k \in 1 .. n - 1 : /\ Whole(k, id) \/ LastPacket(k, id)
                                /\ out[k].frame = f
                                /\ \A j \in 1 .. n - 1 : j > k => ~Whole(j, id)
    BY <1>4, <1>7 DEF Latest
  <2>2. k \in 1 .. n /\ \A j \in 1 .. n : j > k => ~Whole(j, id)
    BY <1>3, <1>7, <2>1
  <2> QED
    BY <1>1, <1>4, <1>5, <2>1, <2>2 DEF Latest
\* What is listed now is the latest.
<1>8. ASSUME NEW id, Whole(n, id) \/ LastPacket(n, id)
      PROVE  Latest(id, LastFrame)'
  <2>1. n \in 1 .. n /\ \A j \in 1 .. n : ~(j > n)
    BY <1>3
  <2>2. PICK f : f = LastFrame
    OBVIOUS
  <2>3. Latest(id, f)'
    BY <1>1, <1>3, <1>4, <1>5, <1>8, <2>1, <2>2 DEF Latest
  <2> QED
    BY <1>6, <2>2, <2>3
\* It is enough that the entries are old ones that were not touched or the new one.
<1>9. ASSUME NEW id \in Ids \cup Messages, vectorFrames' = Listed(id, LastFrame),
             \A d : Whole(n, d) => d = id,
             Whole(n, id) \/ LastPacket(n, id)
      PROVE  ListInv'
  <2>1. /\ vectorFrames' \in Seq(Entries) /\ Len(vectorFrames') \in Nat
        /\ Len(vectorFrames') >= Len(vectorFrames) /\ Len(vectorFrames') # 0
        /\ \A i \in 1 .. Len(vectorFrames) : vectorFrames'[i].id = vectorFrames[i].id
        /\ \E i \in 1 .. Len(vectorFrames') : vectorFrames'[i].id = id
        /\ \A i \in 1 .. Len(vectorFrames') :
             \/ vectorFrames'[i].id = id /\ vectorFrames'[i].frame = LastFrame
             \/ /\ i \in 1 .. Len(vectorFrames) /\ vectorFrames'[i] = vectorFrames[i]
                /\ vectorFrames'[i].id # id
        /\ \A i, j \in 1 .. Len(vectorFrames') : vectorFrames'[i].id = vectorFrames'[j].id => i = j
    BY <1>2, <1>3, <1>9, ListedFacts
  <2>2. ListTypes'
    BY <1>1, <1>2, <2>1 DEF ListTypes
  <2>3. OnceEach'
    BY <2>1 DEF OnceEach
  <2>4. AllLatest'
    <3> SUFFICES ASSUME NEW i \in 1 .. Len(vectorFrames')
                 PROVE  Latest(vectorFrames[i].id, vectorFrames[i].frame)'
      BY DEF AllLatest
    <3>1. PICK d, f : d = vectorFrames'[i].id /\ f = vectorFrames'[i].frame
      OBVIOUS
    <3>2. CASE d = id /\ f = LastFrame
      <4>1. Latest(id, LastFrame)'
        BY <1>8, <1>9
      <4> QED
        BY <1>6, <3>1, <3>2, <4>1
    <3>3. CASE i \in 1 .. Len(vectorFrames) /\ vectorFrames'[i] = vectorFrames[i] /\ d # id
      <4>1. Latest(d, f)
        BY <3>1, <3>3 DEF ListInv, AllLatest
      <4>2. Latest(d, f)'
        BY <1>7, <1>9, <3>3, <4>1
      <4> QED
        BY <3>1, <4>2
    <3> QED
      BY <2>1, <3>1, <3>2, <3>3
  <2>5. AllListed'
    <3> SUFFICES ASSUME NEW k \in 1 .. n, NEW d \in Ids, Whole(k, d)
                 PROVE  \E e \in 1 .. Len(vectorFrames') : vectorFrames'[e].id = d
      BY <1>4, <1>5 DEF AllListed
    <3>1. CASE k = n
      BY <1>9, <2>1, <3>1
    <3>2. CASE k # n
      <4>1. k \in 1 .. Seen
        BY <1>3, <1>4, <3>2
      <4>2. PICK e \in 1 .. Len(vectorFrames) : vectorFrames[e].id = d
        BY <1>1, <4>1 DEF ListInv, AllListed
      <4> QED
        BY <1>2, <2>1, <4>2
    <3> QED
      BY <3>1, <3>2
  <2> QED
    BY <2>2, <2>3, <2>4, <2>5 DEF ListInv
<1>10. CASE Decode[LastFrame] \in {"none", "throws", "tp"} /\ vectorFrames' = vectorFrames
  <2>1. \A id : ~Whole(n, id)
    BY <1>3, <1>10 DEF Whole
  <2>2. ListTypes' /\ OnceEach'
    BY <1>1, <1>2, <1>10 DEF ListInv, ListTypes, OnceEach
  <2>3. AllLatest'
    <3> SUFFICES ASSUME NEW i \in 1 .. Len(vectorFrames)
                 PROVE  Latest(vectorFrames[i].id, vectorFrames[i].frame)'
      BY <1>10 DEF AllLatest
    <3>1. PICK d, f : d = vectorFrames[i].id /\ f = vectorFrames[i].frame
      OBVIOUS
    <3>2. Latest(d, f)'
      BY <1>7, <2>1, <3>1 DEF ListInv, AllLatest
    <3> QED
      BY <1>10, <3>1, <3>2
  <2>4. AllListed'
    <3> SUFFICES ASSUME NEW k \in 1 .. n, NEW d \in Ids, Whole(k, d)
                 PROVE  \E e \in 1 .. Len(vectorFrames) : vectorFrames[e].id = d
      BY <1>4, <1>5, <1>10 DEF AllListed
    <3>1. k \in 1 .. Seen
      BY <1>3, <1>4, <2>1
    <3> QED
      BY <1>1, <3>1 DEF ListInv, AllListed
  <2> QED
    BY <2>2, <2>3, <2>4 DEF ListInv
<1>11. CASE Decode[LastFrame] = "frame" /\ vectorFrames' = Listed(LastFrame.id, LastFrame)
  <2>1. LastFrame # Cleared /\ LastFrame \in Frames
    BY <1>3, <1>11, PlayerAssumption DEF Sent
  <2>2. LastFrame.id \in Ids
    BY <2>1 DEF Ids
  <2>3. Whole(n, LastFrame.id) /\ \A d : Whole(n, d) => d = LastFrame.id
    BY <1>3, <1>11, <2>1 DEF Whole
  <2> QED
    BY <1>9, <1>11, <2>2, <2>3
<1>12. CASE /\ Decode[LastFrame] = "tp"
            /\ \E m \in Messages : vectorFrames' = Listed(m, LastFrame)
  <2>1. PICK m \in Messages : vectorFrames' = Listed(m, LastFrame)
    BY <1>12
  <2>2. \A d : ~Whole(n, d)
    BY <1>3, <1>12 DEF Whole
  <2>3. LastPacket(n, m)
    BY <1>3, <1>12, <2>1, PlayerAssumption DEF LastPacket
  <2> QED
    BY <1>9, <2>1, <2>2, <2>3
<1> QED
  BY <1>10, <1>11, <1>12 DEF Show

LEMMA ListStep == PlayerInv /\ ListInv /\ [Next]_vars => ListInv'
<1> SUFFICES ASSUME PlayerInv, ListInv, [Next]_vars PROVE ListInv'
  OBVIOUS
<1>1. CASE Tick \/ KeyUp \/ KeyDown \/ KeyEnter \/ UNCHANGED vars
  BY <1>1, ListKeys
<1>2. CASE Play
  BY <1>2, ListReadSend, ListShow DEF Play
<1>3. CASE \/ Record /\ UNCHANGED <<readerVars, playerVars>>
           \/ \E t \in {"player", "converter", "program"} : Start(t)
           \/ Convert \/ Use
  <2>1. vectorFrames' = vectorFrames /\ currentSel' = currentSel
    BY <1>3 DEF playerVars, Start, Convert, Use
  <2>2. CASE Len(vectorFrames) = 0 /\ pc' # "shown" /\ (tool' # "player" \/ Len(out') = 0)
    BY <2>1, <2>2, EmptyList
  <2>3. tool # "player" /\ pc' # "shown" /\ (tool' # "player" \/ Len(out') = 0)
    <3>1. CASE Record /\ UNCHANGED <<readerVars, playerVars>>
      <4>1. pc' = pc /\ tool' = tool /\ dumper \notin {"closed", "killed"}
        BY <3>1 DEF playerVars, Record, open, Insert, EndLine, onSignal, Kill, OnRcv
      <4> QED
        BY <4>1 DEF PlayerInv, ToolInv
    <3>2. CASE \E t \in {"player", "converter", "program"} : Start(t)
      BY <3>2 DEF Start, PlayerInv, ToolInv
    <3>3. CASE Convert
      BY <3>3 DEF Convert
    <3>4. CASE Use
      BY <3>4 DEF Use, playerVars
    <3> QED
      BY <1>3, <3>1, <3>2, <3>3, <3>4
  <2> QED
    BY <2>2, <2>3 DEF ListInv, ListTypes
<1> QED
  BY <1>1, <1>2, <1>3 DEF Next

(***************************************************************************)
(* The player's list has every identifier that was sent whole, and every   *)
(* one once, with the frame or the message sent last under it, and the     *)
(* selection stays on the list.                                            *)
(***************************************************************************)
THEOREM ListShowsLatest == Spec => []ListIsLatest
<1>1. PlayerInv /\ ListInv => ListIsLatest
  <2> SUFFICES ASSUME PlayerInv, ListInv PROVE ListIsLatest
    OBVIOUS
  <2>1. DOMAIN vectorFrames = 1 .. Len(vectorFrames) /\ DOMAIN out = 1 .. Len(out)
    BY DEF ListInv, ListTypes, PlayerInv, ToolInv
  <2>2. pc # "shown" => Seen = Len(out)
    BY DEF Seen
  <2>3. ASSUME pc # "shown", NEW e \in DOMAIN vectorFrames
        PROVE  LET id == vectorFrames[e].id IN
               \E i \in DOMAIN out :
                 /\ Whole(i, id) \/ LastPacket(i, id)
                 /\ vectorFrames[e].frame = out[i].frame
                 /\ \A j \in DOMAIN out : j > i => ~Whole(j, id)
    <3>1. PICK id, f : id = vectorFrames[e].id /\ f = vectorFrames[e].frame
      OBVIOUS
    <3>2. Latest(id, f)
      BY <2>1, <3>1 DEF ListInv, AllLatest
    <3> QED
      BY <2>1, <2>2, <2>3, <3>1, <3>2 DEF Latest
  <2>4. ASSUME pc # "shown", tool = "player", NEW i \in DOMAIN out, NEW id \in Ids, Whole(i, id)
        PROVE  \E e \in DOMAIN vectorFrames : vectorFrames[e].id = id
    BY <2>1, <2>2, <2>4 DEF ListInv, AllListed
  <2>5. /\ currentSel < Len(vectorFrames) \/ currentSel = 0
        /\ \A i, j \in DOMAIN vectorFrames : vectorFrames[i].id = vectorFrames[j].id => i = j
    BY <2>1 DEF ListInv, ListTypes, OnceEach
  <2> QED
    BY <2>3, <2>4, <2>5 DEF ListIsLatest
<1> QED
  BY <1>1, PlayerInvariant, ListInitial, ListStep, PTL DEF Spec
=============================================================================

----------------------------- MODULE TRCPlayer -----------------------------
(***************************************************************************)
(* What is done with a recording: TRCPlayer sends its frames on a bus when *)
(* their time has come and shows what it sent, TRCToCap converts them into *)
(* packets of a pcap file, and a program of its own moves about with       *)
(* TRCReader.  The recording is made by TRCDumper before (TRCReader).      *)
(*                                                                         *)
(* The clock counts from the start of the player.  getch() makes the player*)
(* wait in steps of a millisecond, so it may be late.  TRCToCap's check    *)
(* that its output could be opened, which it does not act upon, and the    *)
(* printing are left out.                                                  *)
(***************************************************************************)
EXTENDS TRCReader

CONSTANTS
  Decode,   \* the factory: "none", "throws", "tp" or "frame"
  Messages, \* identifiers of reassembled messages
  MaxTime   \* bound on the clock

Ids == {f.id : f \in Frames}

ASSUME PlayerAssumption ==
  /\ \A f \in Frames : Decode[f] \in {"none", "throws", "tp", "frame"}
  /\ Decode[Cleared] \in {"none", "throws"}
  /\ MaxTime \in Nat

VARIABLES
  tool,         \* which program reads the file
  pc,           \* where it is: start, read, wait, shown or end
  now,
  out,          \* what was sent, or written to the pcap file: [frame, at]
  vectorFrames, \* the list on the screen: [id, frame, details]
  currentSel

playerVars == <<tool, pc, now, out, vectorFrames, currentSel>>
vars == <<dumperVars, readerVars, playerVars>>

Sent == Frames \cup {Cleared}

Init ==
  /\ DumperInit
  /\ ReaderInit
  /\ tool = "none"
  /\ pc = "start"
  /\ now = 0
  /\ out = <<>>
  /\ vectorFrames = <<>>
  /\ currentSel = 0

(***************************************************************************)
(* Every program loads the file first and gives up when that fails or when *)
(* there are no frames.                                                    *)
(***************************************************************************)
Start(t) ==
  /\ dumper \in {"closed", "killed"}
  /\ tool = "none"
  /\ tool' = t
  /\ loadFile
  /\ pc' = IF loaded' /\ mTotalFrames' # 0 THEN "read" ELSE "end"
  /\ UNCHANGED <<dumperVars, now, out, vectorFrames, currentSel>>

\* getLastCanFrame
LastFrame == IF mLastRead = Cleared THEN Cleared ELSE mLastRead.frame
LastTime == IF mLastRead = Cleared THEN 0 ELSE mLastRead.time

\* The condition of both loops.
MoreToRead == mCurrentPos < mTotalFrames - 1

(***************************************************************************)
(* TRCPlayer                                                               *)
(***************************************************************************)
Read ==
  /\ tool = "player" /\ pc = "read"
  /\ readNextCanFrame
  /\ pc' = "wait"
  /\ UNCHANGED <<dumperVars, tool, now, out, vectorFrames, currentSel>>

Tick ==
  /\ tool = "player" /\ pc = "wait"
  /\ now < MaxTime
  /\ now' = now + 1
  /\ UNCHANGED <<dumperVars, readerVars, tool, pc, out, vectorFrames, currentSel>>

\* The keys, while the player waits.
Waiting == tool = "player" /\ pc = "wait" /\ now < LastTime

KeyUp ==
  /\ Waiting
  /\ currentSel > 0
  /\ currentSel' = currentSel - 1
  /\ UNCHANGED <<dumperVars, readerVars, tool, pc, now, out, vectorFrames>>

KeyDown ==
  /\ Waiting
  /\ currentSel + 1 < Len(vectorFrames)
  /\ currentSel' = currentSel + 1
  /\ UNCHANGED <<dumperVars, readerVars, tool, pc, now, out, vectorFrames>>

KeyEnter ==
  /\ Waiting
  /\ vectorFrames # <<>>
  /\ vectorFrames' = [vectorFrames EXCEPT ![currentSel + 1].details = ~@]
  /\ UNCHANGED <<dumperVars, readerVars, tool, pc, now, out, currentSel>>

\* Waits for the exact time of a frame.
SendExactly ==
  /\ tool = "player" /\ pc = "wait"
  /\ now = LastTime
  /\ out' = Append(out, [frame |-> LastFrame, at |-> now])
  /\ pc' = "shown"
  /\ UNCHANGED <<dumperVars, readerVars, tool, now, vectorFrames, currentSel>>

Send ==
  /\ tool = "player" /\ pc = "wait"
  /\ now >= LastTime
  /\ out' = Append(out, [frame |-> LastFrame, at |-> now])
  /\ pc' = "shown"
  /\ UNCHANGED <<dumperVars, readerVars, tool, now, vectorFrames, currentSel>>

\* What is on the list stays as it is.
ListedOnce(id, f) ==
  IF \E i \in DOMAIN vectorFrames : vectorFrames[i].id = id THEN vectorFrames
  ELSE Append(vectorFrames, [id |-> id, frame |-> f, details |-> FALSE])

\* copy() to the one with its identifier on the list, or else to the end of the list.
Listed(id, f) ==
  IF \E i \in DOMAIN vectorFrames : vectorFrames[i].id = id
  THEN [i \in DOMAIN vectorFrames |->
          IF vectorFrames[i].id = id THEN [vectorFrames[i] EXCEPT !.frame = f]
          ELSE vectorFrames[i]]
  ELSE Append(vectorFrames, [id |-> id, frame |-> f, details |-> FALSE])

(***************************************************************************)
(* The frame that was sent is decoded and listed.  One of the transport    *)
(* protocol is listed when the reassembler has its message; what the       *)
(* decoder throws is caught.                                               *)
(***************************************************************************)
Show ==
  /\ tool = "player" /\ pc = "shown"
  /\ \/ /\ Decode[LastFrame] \in {"none", "throws", "tp"}
        /\ UNCHANGED vectorFrames
     \/ /\ Decode[LastFrame] = "frame"
        /\ vectorFrames' = Listed(LastFrame.id, LastFrame)
     \/ /\ Decode[LastFrame] = "tp"
        /\ \E m \in Messages : vectorFrames' = Listed(m, LastFrame)
  /\ pc' = IF MoreToRead THEN "read" ELSE "end"
  /\ UNCHANGED <<dumperVars, readerVars, tool, now, out, currentSel>>

(***************************************************************************)
(* TRCToCap: a packet of the pcap file for every line.                     *)
(***************************************************************************)
Convert ==
  /\ tool = "converter" /\ pc = "read"
  /\ readNextCanFrame
  /\ out' = Append(out, [frame |-> LastFrame', at |-> LastTime'])
  /\ pc' = IF MoreToRead' THEN "read" ELSE "end"
  /\ UNCHANGED <<dumperVars, tool, now, vectorFrames, currentSel>>

(***************************************************************************)
(* A program that uses TRCReader as it likes.                              *)
(***************************************************************************)
Use ==
  /\ tool = "program" /\ pc = "read"
  /\ readNextCanFrame \/ reset \/ \E pos \in 0 .. MaxFrames : seekPosition(pos)
  /\ UNCHANGED <<dumperVars, playerVars>>

Play == Read \/ Send \/ Show

Next ==
  \/ Record /\ UNCHANGED <<readerVars, playerVars>>
  \/ \E t \in {"player", "converter", "program"} : Start(t)
  \/ Play \/ Tick \/ KeyUp \/ KeyDown \/ KeyEnter
  \/ Convert
  \/ Use

Spec == Init /\ [][Next]_vars

(***************************************************************************)
(* The tools run and time passes; nobody has to press a key, and the       *)
(* dumper is stopped when somebody likes.                                  *)
(***************************************************************************)
FairSpec == Spec /\ WF_vars(Play) /\ WF_vars(Tick) /\ WF_vars(Convert)

-----------------------------------------------------------------------------
(***************************************************************************)
(* Properties                                                              *)
(***************************************************************************)
Copies == tool \in {"player", "converter"} /\ File # <<>>

Offset(i) == Minus(recorded[i].stamp, recorded[1].stamp)

(***************************************************************************)
(* What TRCPlayer sends and TRCToCap writes are the frames TRCDumper got   *)
(* from the bus, in their order, none of them twice and none in between,   *)
(* wherever the dumper was stopped; none before its time since the first   *)
(* frame, up to the 50 us the format rounds away, although time stamps     *)
(* need not increase; and all of them, also when Ctrl-C left the last line *)
(* without its end.  A recording of 2^32 ms and more is out of step by a   *)
(* number of times 2^32 ms.  (A recording without any frame is another     *)
(* matter: it counts as one frame.)                                        *)
(***************************************************************************)
ReplaysRecording ==
  Copies =>
    /\ Len(out) <= Len(recorded)
    /\ \A i \in DOMAIN out :
         /\ out[i].frame = recorded[i].frame
         /\ \E k \in 0 .. (Offset(i) \div WORD) :
              /\ out[i].at >= Offset(i) - k * WORD - 1
              /\ tool = "converter" => out[i].at <= Offset(i) - k * WORD + 1
    /\ loaded /\ pc = "end" => Len(out) = Len(File)

(***************************************************************************)
(* A dumper that is killed, at any moment, leaves a file that can be read, *)
(* with every frame but the one it was writing.  Only a frame without data *)
(* makes the reader refuse the file.                                       *)
(***************************************************************************)
SurvivesKill ==
  dumper = "killed" =>
    /\ Len(File) + 1 >= Len(recorded)
    /\ Intact <=> \A i \in DOMAIN File : recorded[i].frame.data # <<>>

(***************************************************************************)
(* However seekPosition, readNextCanFrame and reset are mixed: behind a    *)
(* line, mCurrentPos is the position of that line, what is read next is    *)
(* the line after it, and the last frame read is its frame or, behind the  *)
(* end, none.                                                              *)
(***************************************************************************)
PosNamesLast ==
  loaded /\ consumed > 0 =>
    /\ mCurrentPos = consumed - 1
    /\ mLastRead = Parsed(File[consumed]) \/ (mLastRead = Cleared /\ eof)

\* The i-th frame sent is a whole one with identifier id,
Whole(i, id) ==
  out[i].frame # Cleared /\ Decode[out[i].frame] = "frame" /\ out[i].frame.id = id

\* or may have been the last packet of a message with it.
LastPacket(i, id) ==
  out[i].frame # Cleared /\ Decode[out[i].frame] = "tp" /\ id \in Messages

(***************************************************************************)
(* The list has every identifier of what was sent whole, and every one     *)
(* once; under it is what was sent last with it, which may be a frame or a *)
(* message put together since (a DM1 with one trouble code is a frame, one *)
(* with two is a message, and both have one identifier).  The selection is *)
(* on the list.                                                            *)
(***************************************************************************)
ListIsLatest ==
  /\ currentSel < Len(vectorFrames) \/ currentSel = 0
  /\ \A i, j \in DOMAIN vectorFrames : vectorFrames[i].id = vectorFrames[j].id => i = j
  /\ pc # "shown" =>
       /\ \A e \in DOMAIN vectorFrames : LET id == vectorFrames[e].id IN
            \E i \in DOMAIN out :
              /\ Whole(i, id) \/ LastPacket(i, id)
              /\ vectorFrames[e].frame = out[i].frame
              /\ \A j \in DOMAIN out : j > i => ~Whole(j, id)
       /\ tool = "player" => \A i \in DOMAIN out : \A id \in Ids :
            Whole(i, id) => \E e \in DOMAIN vectorFrames : vectorFrames[e].id = id

(***************************************************************************)
(* A tool that was started comes to its end: the loops end with the last   *)
(* position the reader counted.                                            *)
(***************************************************************************)
Ends == (tool \in {"player", "converter"}) ~> (pc = "end")
=============================================================================

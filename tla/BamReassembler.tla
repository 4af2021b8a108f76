--------------------------- MODULE BamReassembler ---------------------------
(***************************************************************************)
(* BamReassembler (src/J1939/Transport/BAM): puts the TP.DT frames of each *)
(* source address together again.                                          *)
(***************************************************************************)
EXTENDS BamFragmenter

CONSTANT Decode \* Decode[p]: what J1939Factory makes of a frame of PGN p

ASSUME DecodeAssumption == Decode \in [Pgn -> {"frame", "null", "throw"}]

VARIABLES
  mFragments,         \* mFragments[s]: << >> or the TP.CM and its TP.DTs
  mReassembledFrames, \* frames ready to be dequeued
  mLastError

reassemblerVars == <<mFragments, mReassembledFrames, mLastError>>

BamError == {"INCOMPLETE_FRAME", "UNEXPECTED_FRAME", "NOT_BCAST_ADDR",
             "DECODING", "OK"}

Reassembled == [src : Source, pgn : Pgn, data : Seq(Byte)]

ReassemblerTypeOK ==
  /\ mFragments \in [Source -> Seq(ConnFrames \cup TPDTFrames)]
  /\ mReassembledFrames \in Seq(Reassembled)
  /\ mLastError \in BamError

ReassemblerInit ==
  /\ mFragments = [s \in Source |-> << >>]
  /\ mReassembledFrames = << >>
  /\ mLastError = "OK"

getLastSQ(fragments) ==
  IF Len(fragments) = 1 THEN 0 ELSE fragments[Len(fragments)].sq

(***************************************************************************)
(* reassemble(): 7 bytes of each TP.DT in turn, cut at the announced size. *)
(***************************************************************************)
reassemble(fragments) ==
  [j \in 1 .. Head(fragments).size |->
     LET k == ((j - 1) \div TP_DT_PACKET_SIZE) + 2
     IN  IF k <= Len(fragments)
         THEN fragments[k].data[((j - 1) % TP_DT_PACKET_SIZE) + 1]
         ELSE Uninit]

toBeHandled(f) == f.kind \in {"BAM", "DT"}

\* Mutant: what the factory returns is queued unseen.
CompleteUnchecked(s, fragments) ==
  LET cm == Head(fragments)
      frame == [src |-> cm.src, pgn |-> cm.pgn, data |-> reassemble(fragments)]
  IN  /\ Decode[cm.pgn] # "throw"
      /\ mFragments' = [mFragments EXCEPT ![s] = << >>]
      /\ mReassembledFrames' =
           Append(mReassembledFrames,
                  IF Decode[cm.pgn] = "frame" THEN frame ELSE << >>)
      /\ mLastError' = "OK"

(***************************************************************************)
(* The last TP.DT arrived.  When the factory throws, the handler is left   *)
(* before the fragments are erased.                                        *)
(***************************************************************************)
Complete(s, fragments) ==
  LET cm == Head(fragments)
      frame == [src |-> cm.src, pgn |-> cm.pgn, data |-> reassemble(fragments)]
  IN  \/ /\ Decode[cm.pgn] = "frame"
         /\ mFragments' = [mFragments EXCEPT ![s] = << >>]
         /\ mReassembledFrames' = Append(mReassembledFrames, frame)
         /\ mLastError' = "OK"
      \/ /\ Decode[cm.pgn] = "null"
         /\ mFragments' = [mFragments EXCEPT ![s] = << >>]
         /\ mLastError' = "DECODING"
         /\ UNCHANGED mReassembledFrames
      \/ /\ Decode[cm.pgn] = "throw"
         /\ mFragments' = [mFragments EXCEPT ![s] = fragments]
         /\ UNCHANGED <<mReassembledFrames, mLastError>>

\* Mutant: the TP.DTs of the unfinished session stay.
handleConnKeeping(f) ==
  /\ mLastError' = IF mFragments[f.src] = << >> THEN "OK"
                   ELSE "INCOMPLETE_FRAME"
  /\ mFragments' = [mFragments EXCEPT ![f.src] =
                      IF @ = << >> THEN <<f>> ELSE <<f>> \o Tail(@)]
  /\ UNCHANGED mReassembledFrames

handleConn(f) ==
  /\ mLastError' = IF mFragments[f.src] = << >> THEN "OK"
                   ELSE "INCOMPLETE_FRAME"
  /\ mFragments' = [mFragments EXCEPT ![f.src] = <<f>>]
  /\ UNCHANGED mReassembledFrames

Unexpected ==
  /\ mLastError' = "UNEXPECTED_FRAME"
  /\ UNCHANGED <<mFragments, mReassembledFrames>>

\* Mutant: the last packet is out of range.
ExpectedStrict(f) ==
  /\ mFragments[f.src] # << >>
  /\ Head(mFragments[f.src]).packets > f.sq
  /\ getLastSQ(mFragments[f.src]) + 1 = f.sq

\* Mutant: any packet in range will do.
ExpectedAny(f) ==
  /\ mFragments[f.src] # << >>
  /\ Head(mFragments[f.src]).packets >= f.sq

\* The TP.DT is the one the session of its source waits for.
Expected(f) ==
  /\ mFragments[f.src] # << >>
  /\ Head(mFragments[f.src]).packets >= f.sq
  /\ getLastSQ(mFragments[f.src]) + 1 = f.sq

handleData(f) ==
  LET s == f.src
      fragments == Append(mFragments[s], f)
  IN  IF ~Expected(f) THEN Unexpected
      ELSE IF f.sq = Head(mFragments[s]).packets THEN Complete(s, fragments)
      ELSE /\ mFragments' = [mFragments EXCEPT ![s] = fragments]
           /\ UNCHANGED <<mReassembledFrames, mLastError>>

handleFrame(f) ==
  \/ f.kind = "BAM" /\ handleConn(f)
  \/ f.kind = "DT" /\ handleData(f)
  \/ f.kind \in {"CM", "Other"} /\ Unexpected
  \/ /\ f.kind = "ToOne"
     /\ mLastError' = "NOT_BCAST_ADDR"
     /\ UNCHANGED <<mFragments, mReassembledFrames>>

clear ==
  /\ mFragments' = [s \in Source |-> << >>]
  /\ mReassembledFrames' = << >>
  /\ mLastError' = "OK"
=============================================================================

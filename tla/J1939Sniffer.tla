---------------------------- MODULE J1939Sniffer ----------------------------
(***************************************************************************)
(* j1939Sniffer (src/BinUtils): shows the frames of one PGN, of one source *)
(* if one is given, and puts the long ones together.  There is one         *)
(* BamReassembler for all interfaces.                                      *)
(*                                                                         *)
(* A frame on the bus has an identifier, a kind and a source: TP.CM        *)
(* ("BAM") and TP.DT ("DT") with the fields of BamFragmenter, and "Other", *)
(* which carries its PGN and its data.  Which message a TP frame is part   *)
(* of (field of) is auxiliary.                                             *)
(***************************************************************************)
EXTENDS Listener

CONSTANTS
  Message, Source, Pgn, SrcOf, PgnOf, Size, \* see BamFragmenter
  Factory,      \* Factory[p]: what J1939Factory makes of a frame of PGN p
  NameOf,       \* NameOf[p]: its title
  Empty,        \* what it makes of a frame of PGN 0 without data
  FormatBits,   \* the bits of the identifier that tell the PDU format
  SpecificBits, \* the bits of the PDU specific part
  SourceBits,   \* the bits of the source address
  SourceId,     \* SourceId[s]: the bits of s that are one
  DataId,       \* DataId[p]: the bits of p that are one
  TP_CM_ID, TP_DT_ID
VARIABLES
  mFragments, mReassembledFrames, mLastError, \* of the reassembler
  shown   \* what was shown: [src, pgn, data]

Bam == INSTANCE BamReassembler WITH Decode <- Factory

\* The k-th frame of m as it is on the bus, sent to everybody.
CanFrame(m, k) ==
  LET f == Bam!BusFrame(m, k)
  IN [field \in DOMAIN f \cup {"id", "ext", "of"} |->
        IF field = "id"
        THEN SourceId[SrcOf[m]] \cup SpecificBits \cup (IF k = 0 THEN TP_CM_ID ELSE TP_DT_ID)
        ELSE IF field = "ext" THEN TRUE
        ELSE IF field = "of" THEN <<m, k>>
        ELSE f[field]]

sniffVars == <<mFragments, mReassembledFrames, mLastError, shown>>

SniffInit == Bam!ReassemblerInit /\ shown = {}

Extended(id, mask, sources) ==
  [id   |-> id \cup UNION {SourceId[s] : s \in sources},
   mask |-> mask \cup (IF sources = {} THEN {} ELSE SourceBits),
   std  |-> FALSE, ext |-> TRUE]

\* The whole PGN in all of them.
SniffFiltersExact(p, sources) ==
  {Extended(id, FormatBits \cup SpecificBits, sources) : id \in {DataId[p], TP_CM_ID, TP_DT_ID}}

(***************************************************************************)
(* The filters of main(): the PGN that was found in the database, and the  *)
(* PDU formats of TP.CM and TP.DT; all with the source if there is one.    *)
(***************************************************************************)
SniffFilters(p, sources) ==
  {Extended(DataId[p], FormatBits \cup SpecificBits, sources),
   Extended(TP_CM_ID, FormatBits, sources), Extended(TP_DT_ID, FormatBits, sources)}

(***************************************************************************)
(* processCommand: either a PGN or a title; with a title the PGN stays 0.  *)
(***************************************************************************)
ByPgn(p, sources) ==
  [kind |-> "sniffer", pgn |-> p, title |-> "", wanted |-> p, sources |-> sources,
   filters |-> SniffFilters(p, sources)]
ByTitle(p, sources) ==
  [kind |-> "sniffer", pgn |-> 0, title |-> NameOf[p], wanted |-> p, sources |-> sources,
   filters |-> SniffFilters(p, sources)]

\* The PGN or the title, but not the source.
Matches(f) == program.pgn = f.pgn \/ program.title = NameOf[f.pgn]

\* Everything that arrives whole.
ShowAll(f) == shown' = shown \cup {[src |-> f.src, pgn |-> f.pgn, data |-> f.data]}

Show(f) ==
  shown' = IF Matches(f) THEN shown \cup {[src |-> f.src, pgn |-> f.pgn, data |-> f.data]}
           ELSE shown

\* What the factory says of frame itself: a failed read looks like PGN 0 without data,
\* and TP.CM and TP.DT are always registered.
Decoded ==
  IF frame = NoFrame THEN Empty
  ELSE IF frame.kind = "Other" THEN Factory[frame.pgn] ELSE "frame"

\* A PGN 0 without any signal can be decoded from nothing.
Blank == [src |-> NoFrame, pgn |-> 0, data |-> <<>>]

ReassemblerUnchanged == UNCHANGED <<mFragments, mReassembledFrames, mLastError>>

\* "Should never happen."
SniffIgnored ==
  /\ Decoded = "null"
  /\ Returned
  /\ ReassemblerUnchanged
  /\ UNCHANGED <<shown, terminated>>

SniffThrows ==
  /\ Decoded = "throw"
  /\ terminated' = TRUE
  /\ Stays
  /\ ReassemblerUnchanged
  /\ UNCHANGED shown

SniffSimple ==
  /\ Decoded = "frame"
  /\ \/ frame = NoFrame /\ Show(Blank)
     \/ frame # NoFrame /\ ~Bam!toBeHandled(frame) /\ Show(frame)
  /\ Returned
  /\ ReassemblerUnchanged
  /\ UNCHANGED terminated

\* The last packet of a message the factory cannot decode.
LastOfBad ==
  /\ frame.kind = "DT"
  /\ Bam!Expected(frame)
  /\ frame.sq = Head(mFragments[frame.src]).packets
  /\ Factory[Head(mFragments[frame.src]).pgn] = "throw"

\* handleFrame: that is all, unless the message is complete.
SniffPart ==
  /\ frame # NoFrame /\ Bam!toBeHandled(frame)
  /\ mReassembledFrames = <<>>
  /\ Bam!handleFrame(frame)
  /\ terminated' = LastOfBad
  /\ IF LastOfBad \/ mReassembledFrames' # <<>> THEN Stays ELSE Returned
  /\ UNCHANGED shown

\* dequeueReassembledFrame
SniffWhole ==
  /\ mReassembledFrames # <<>>
  /\ mReassembledFrames' = Tail(mReassembledFrames)
  /\ Show(Head(mReassembledFrames))
  /\ Returned
  /\ UNCHANGED <<mFragments, mLastError, terminated>>

\* onRcv
SniffFrame ==
  /\ thread = "callback"
  /\ SniffIgnored \/ SniffThrows \/ SniffSimple \/ SniffPart \/ SniffWhole

-----------------------------------------------------------------------------
(***************************************************************************)
(* Properties                                                              *)
(***************************************************************************)
\* What arrived from s at r.
From(r, s) == {i \in 1 .. Len(arrived[r]) : arrived[r][i].frame.src = s}

\* No other interface has a source with that address.
OneBus(s) == Cardinality({r \in Receivers : From(r, s) # {}}) <= 1

\* Whether s is asked for.
Asked(s) == program.sources = {} \/ s \in program.sources

(***************************************************************************)
(* What the sniffer shows was sent as it is shown, with the PGN asked for, *)
(* by a source asked for, or came in before the filters were there.  The   *)
(* packets of all interfaces go through one reassembler that only looks at *)
(* the source, so not when two interfaces have a source in common.  With a *)
(* title PGN 0 is shown as well, and with a PGN what has an empty name; of *)
(* a failed read the sniffer may show a frame of PGN 0 without data.       *)
(***************************************************************************)
ShownIsSent ==
  program.kind = "sniffer" =>
    \A f \in shown \ {Blank} :
      /\ \/ f.pgn = program.wanted
         \/ IF program.title # "" THEN f.pgn = 0 ELSE NameOf[f.pgn] = ""
      /\ OneBus(f.src) => \/ \E m \in Message : f = Bam!Sent(m)
                          \/ \E g \in Frames : g.kind = "Other" /\ g.src = f.src
                                /\ g.pgn = f.pgn /\ g.data = f.data
      /\ Asked(f.src) \/ \E r \in Receivers : \E i \in From(r, f.src) : arrived[r][i].early

\* All frames of m have arrived at r, from the TP.CM on.
Complete(r, m) ==
  \A k \in 0 .. Bam!DataFrames(m) : \E i \in From(r, SrcOf[m]) :
    LET f == arrived[r][i].frame IN f.kind # "Other" /\ f.of = <<m, k>>

(***************************************************************************)
(* A long message that was asked for is shown, wherever it begins between  *)
(* the opening of the interface, the filter and sniff().                   *)
(***************************************************************************)
MessageShown ==
  \A m \in {n \in Message : Factory[PgnOf[n]] = "frame"} :
    (program.kind = "sniffer" /\ (\E r \in Receivers : Complete(r, m))
       /\ PgnOf[m] = program.wanted /\ Asked(SrcOf[m]))
      ~> (Bam!Sent(m) \in shown \/ terminated \/ ~OneBus(SrcOf[m]))
=============================================================================

---------------------------- MODULE J1939Factory ----------------------------
(***************************************************************************)
(* J1939DataBase and J1939Factory (src/J1939): the frames the database     *)
(* describes, and the prototypes from which frames are cloned.  A file is  *)
(* what JSON makes of it: a sequence of descriptions, or what is wrong.    *)
(***************************************************************************)
EXTENDS GenericFrame

MAX_SPN == 2^19

parseSPN(d) ==
  IF d.type = "numeric" THEN SPNNumeric(d.offset, d.size)
  ELSE IF d.type = "status" THEN SPNStatus(d.offset, d.bit, d.bits)
  ELSE SPNString

\* A frame has strings or other signals.  All have passed before that are of the kind
\* of the first.
Mixed(first, d) == (first.type = "string") # (d.type = "string")

\* A number that is there already keeps its signal.
registerSPNs(descriptions) ==
  recalculateStringOffsets(
    [n \in {descriptions[i].number : i \in DOMAIN descriptions} |->
       parseSPN(descriptions[Min({i \in DOMAIN descriptions : descriptions[i].number = n})])])

(***************************************************************************)
(* What is wrong with the description of one signal; EXIT is an ASSERT,    *)
(* which ends the program.                                                 *)
(***************************************************************************)
SpnError(first, d) ==
  IF ~d.complete THEN "UNEXPECTED_TOKENS"
  ELSE IF d.type \notin {"numeric", "status", "string"} THEN "UNKNOWN_SPN_TYPE"
  ELSE IF d.type = "numeric" /\ (d.size = 0 \/ d.size > 4) THEN "OUT_OF_RANGE"
  ELSE IF d.type = "status" /\ (d.bits = 0 \/ d.bits + d.bit > 8) THEN "OUT_OF_RANGE"
  ELSE IF d.number >= MAX_SPN \/ Mixed(first, d) THEN "EXIT"
  ELSE "OK"

\* The first description with a number stays, the first thing that is wrong ends it.
parseSPNs(descriptions) ==
  LET Wrong(i) == SpnError(descriptions[1], descriptions[i])
      wrong == {i \in DOMAIN descriptions : Wrong(i) # "OK"}
  IN IF wrong # {} THEN [error |-> Wrong(Min(wrong)), spns |-> <<>>]
     ELSE [error |-> "OK", spns |-> registerSPNs(descriptions)]

FrameError(d) ==
  IF ~d.complete THEN "UNEXPECTED_TOKENS"
  ELSE IF d.pgn = DM1_PGN THEN "FORBIDDEN_TOKEN"
  ELSE IF Pdu1(d.pgn) /\ d.pgn % U8 # 0 THEN "EXIT"
  ELSE parseSPNs(d.spns).error

parseFrame(d) ==
  [J1939Frame(d.pgn) EXCEPT !.length = d.length, !.spns = parseSPNs(d.spns).spns]

parseJsonFile(file) ==
  LET wrong == {i \in DOMAIN file.frames : FrameError(file.frames[i]) # "OK"}
  IN IF file.error # "OK" THEN [error |-> file.error, frames |-> <<>>]
     ELSE IF wrong # {} THEN [error |-> FrameError(file.frames[Min(wrong)]), frames |-> <<>>]
     ELSE [error |-> "OK", frames |-> [i \in DOMAIN file.frames |-> parseFrame(file.frames[i])]]

\* The FMS1 prototype belongs to no block.
PredefinedFrames ==
  [p \in {DM1_PGN, FMS1_PGN} |-> IF p = DM1_PGN THEN DM1 ELSE J1939Frame(FMS1_PGN)]

\* The first frame with a PGN stays.
registerFrame(frames, p) ==
  IF p \in DOMAIN PredefinedFrames THEN PredefinedFrames[p]
  ELSE frames[Min({i \in DOMAIN frames : frames[i].pgn = p})]

\* A program whose database cannot be read ends: it has no frames.
registerDatabaseFrames(file) ==
  LET r == parseJsonFile(file)
      pgns == DOMAIN PredefinedFrames \cup {r.frames[i].pgn : i \in DOMAIN r.frames}
  IN IF r.error = "OK" THEN [p \in pgns |-> registerFrame(r.frames, p)] ELSE <<>>

\* A clone of the prototype, decoded; or no frame, or what decode throws.
getJ1939Frame(frames, id, data) ==
  IF PgnOf(id) \notin DOMAIN frames THEN [known |-> FALSE, ok |-> FALSE, data |-> <<>>]
  ELSE LET d == decode(frames[PgnOf(id)], id, data)
       IN [known |-> TRUE, ok |-> d.ok, data |-> d.data]
=============================================================================

----------------------------- MODULE Listeners -----------------------------
(***************************************************************************)
(* One of the programs that listen, on the buses it is connected to.       *)
(***************************************************************************)
EXTENDS AddressMapper, J1939Sniffer

CONSTANTS
  Programs,   \* mapper and sniffers
  Traffic,    \* for every program: records [messages, singles, max, fails]: the
              \* long messages that are sent, other frames, how many of those, and
              \* how many reads may fail at a time
  OnBusOf     \* OnBusOf[m]: the receiver whose bus m is sent on

\* The filters are for extended frames.  A Peak receiver does not look at the format:
\* there must not be a standard frame whose identifier passes for one that is asked for.
ASSUME ListenersAssumption ==
  /\ Empty \in {"null", "throw", "frame"}
  /\ SrcOf \in [Message -> Source] /\ PgnOf \in [Message -> Pgn] /\ Size \in [Message -> Nat]
  /\ \A p \in Programs : /\ p.filters \subseteq CanFilters
                         /\ Traffic[p].singles \subseteq Frames
                         /\ \A q \in p.filters :
                              /\ q.ext /\ ~q.std
                              /\ \A f \in Frames : f.ext \/ q.id \cap q.mask # f.id \cap q.mask
  /\ \A m \in Message : /\ OnBusOf[m] \in Receivers
                        /\ \A k \in 0 .. Bam!DataFrames(m) : CanFrame(m, k) \in Frames

\* What main() is asked for: a PGN, or a title that is not empty and that no other PGN
\* has, of one source or of all.  What the sniffer's buses carry has a PGN.
ASSUME SniffersAssumption ==
  \A p \in Programs : p.kind = "sniffer" =>
    /\ \E q \in Pgn, sources \in SUBSET Source :
         /\ sources = {} \/ \E s \in Source : sources = {s}
         /\ \/ p = ByPgn(q, sources)
            \/ /\ p = ByTitle(q, sources)
               /\ NameOf[q] # "" /\ \A other \in Pgn \ {q} : NameOf[other] # NameOf[q]
    /\ \A f \in Traffic[p].singles : f.kind = "Other" /\ f.src \in Source /\ f.pgn \in Pgn

\* The source, the PDU specific part and the PDU format are different bits of an
\* identifier, and every source has an address of its own.
ASSUME IdentifiersAssumption ==
  /\ FormatBits \cap SpecificBits = {} /\ FormatBits \cap SourceBits = {}
  /\ SpecificBits \cap SourceBits = {}
  /\ \A s \in Source : SourceId[s] \subseteq SourceBits
  /\ \A s, t \in Source : SourceId[s] = SourceId[t] => s = t
  /\ \A id \in {TP_CM_ID, TP_DT_ID} \cup {DataId[p] : p \in Pgn} : id \cap SourceBits = {}
  /\ \A p \in Programs : p.kind = "sniffer" =>
       \A f \in Traffic[p].singles : f.id \cap SourceBits = SourceId[f.src]

VARIABLES
  progress,  \* the frame of every message that comes next
  singles    \* number of other frames so far

vars == <<snifferVars, listenerVars, names, sniffVars, progress, singles>>

\* Of a message the TP.CM may have been missed.
Init ==
  /\ ListenerInit /\ MapperInit /\ SniffInit
  /\ program \in Programs
  /\ progress \in [Message -> {0, 1}]
  /\ \A m \in Message : m \notin Traffic[program].messages => progress[m] = 0
  /\ singles = 0

Done(m) == progress[m] > Bam!DataFrames(m)

\* A source sends one message after the other.
SendPart(m) ==
  /\ m \in Traffic[program].messages
  /\ ~Done(m)
  /\ \A n \in Traffic[program].messages \ {m} :
       SrcOf[n] = SrcOf[m] /\ OnBusOf[n] = OnBusOf[m] => progress[n] = 0 \/ Done(n)
  /\ OnBus(OnBusOf[m], CanFrame(m, progress[m]))
  /\ progress' = [progress EXCEPT ![m] = @ + 1]
  /\ UNCHANGED singles

SendSingle ==
  /\ singles < Traffic[program].max
  /\ singles' = singles + 1
  /\ \E r \in Receivers, f \in Traffic[program].singles : OnBus(r, f)
  /\ UNCHANGED progress

FailRead ==
  /\ Cardinality({r \in Receivers : \E i \in 1 .. Len(buffer[r]) :
                    buffer[r][i] = Failure}) < Traffic[program].fails
  /\ \E r \in Receivers : Failing(r)
  /\ UNCHANGED <<progress, singles>>

Bus ==
  /\ (\E m \in Message : SendPart(m)) \/ SendSingle \/ FailRead
  /\ UNCHANGED <<names, sniffVars>>

onRcv ==
  \/ program.kind = "mapper" /\ MapName /\ UNCHANGED sniffVars
  \/ program.kind = "sniffer" /\ SniffFrame /\ UNCHANGED names

Thread == onRcv \/ (Sniffer /\ UNCHANGED <<listenerVars, names, sniffVars>>)

MainThread == Main /\ UNCHANGED <<names, sniffVars>>

Listens == (MainThread \/ Thread) /\ UNCHANGED <<progress, singles>>

Next == ~terminated /\ (Bus \/ Listens)

Spec == Init /\ [][Next]_vars

\* main() goes through and never leaves sniff().
FairSpec == Spec /\ WF_vars(~terminated /\ Listens)
=============================================================================

------------------------------ MODULE CanEasy ------------------------------
(***************************************************************************)
(* CanEasy and the helpers it creates (src/CAN): one helper for every      *)
(* interface that could be initialised, made once per process, and a       *)
(* sender for every helper, made anew by each initialize().  An interface  *)
(* of the machine is shared with other programs: link[i] is the bit rate   *)
(* it is up with, or Down.  The rate of a virtual interface means nothing. *)
(***************************************************************************)
EXTENDS FrameSender

CONSTANTS
  Rates,
  Down,
  Peak     \* interfaces of the Peak library, which one program can have

ASSUME CanEasyAssumption == Peak \subseteq Ifaces /\ Down \notin Rates

VARIABLES
  link,
  mHelpers,  \* the interfaces that have a helper
  mSenders   \* the interfaces that have a sender; rings holds its frames

easyVars == <<rings, link, mHelpers, mSenders>>

CanEasyTypeOK ==
  /\ link \in [Ifaces -> Rates \cup {Down}]
  /\ mSenders \subseteq mHelpers /\ mHelpers \subseteq Ifaces
  /\ \A i \in Ifaces \ mSenders : rings[i] = {}

CanEasyInit ==
  /\ link = [i \in Ifaces |-> Down]
  /\ mHelpers = {} /\ mSenders = {}
  /\ rings = [i \in Ifaces |-> {}]

Ok(l) == [ok |-> TRUE, link |-> l]
Failed(l) == [ok |-> FALSE, link |-> l]

(***************************************************************************)
(* initialize() of a helper: what may come of it.  A network interface that*)
(* is up is taken as it is; one that is down gets the rate and is brought  *)
(* up.  Any command may fail, and so may the socket afterwards.  A channel *)
(* of the Peak library is opened with the rate, or not.                    *)
(***************************************************************************)
HelperInitialize(i, rate) ==
  IF link[i] # Down
  THEN {Failed(link[i])} \cup (IF i \in Peak THEN {} ELSE {Ok(link[i])})
  ELSE {Failed(Down), Ok(rate)} \cup (IF i \in Peak THEN {} ELSE {Failed(rate)})

\* Only the first call that gets a helper does anything.
createCanHelpers(rate) ==
  \/ mHelpers # {} /\ UNCHANGED <<mHelpers, link>>
  \/ /\ mHelpers = {}
     /\ \E outcome \in [Ifaces -> [ok : BOOLEAN, link : Rates \cup {Down}]] :
          /\ \A i \in Ifaces : outcome[i] \in HelperInitialize(i, rate)
          /\ mHelpers' = {i \in Ifaces : outcome[i].ok}
          /\ link' = [i \in Ifaces |-> outcome[i].link]

\* A new sender takes the place of the old one, which ends with its frames.
initialize(rate) ==
  /\ createCanHelpers(rate)
  /\ mSenders' = mSenders \cup mHelpers'
  /\ rings' = [i \in Ifaces |-> IF i \in mHelpers' THEN {} ELSE rings[i]]

\* Another program brings an interface up with its rate, or down.
OtherProgram(i, l) ==
  /\ i \in Peak => i \notin mHelpers
  /\ (link[i] = Down) # (l = Down)
  /\ link' = [link EXCEPT ![i] = l]
  /\ UNCHANGED <<rings, mHelpers, mSenders>>
=============================================================================

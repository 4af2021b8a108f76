--------------------------- MODULE AddressClaimer ---------------------------
(***************************************************************************)
(* ECUs that claim a source address on one CAN bus, each running an        *)
(* AddressClaimer (src/j1939AddressClaimer).  Every ECU has two threads:   *)
(* the sniffer, which moves frames from the socket into the claimer's      *)
(* mailbox, and the claimer, which runs exec() forever.                    *)
(*                                                                         *)
(* A step of the claimer ends where another thread or another ECU can see  *)
(* it: at a read of the mailbox (made under mMutex) and at a transmission. *)
(***************************************************************************)
EXTENDS Integers, Sequences, FiniteSets

CONSTANTS
  Nodes,          \* the ECUs
  EcuName,        \* EcuName[n]: the 64 bit NAME; the smaller one wins
  Preferred,      \* Preferred[n]: the addresses n tries, in order
  Requests,       \* the requests an external tool may put on the bus
  MaxRequests,    \* bound: how many it sends
  MaxLost,        \* bound: how many transmissions fail
  Timely,         \* TRUE: frames are handled faster than the claimer waits
  SpuriousWakeups \* TRUE: the condition variable may wake without a cause

REQUEST_PGN       == 59904  \* 0xEA00
ADDRESS_CLAIM_PGN == 60928  \* 0xEE00
J1939_INVALID_ADDRESS   == 254
J1939_BROADCAST_ADDRESS == 255
Address == 0 .. 255
AddressQueue == {q \in Seq(Address) : Len(q) > 0}

(***************************************************************************)
(* data is the NAME in an address claim and the requested PGN in a request *)
(***************************************************************************)
Frame == [pgn : {REQUEST_PGN, ADDRESS_CLAIM_PGN}, dst : Address,
          src : Address, data : Nat]

ASSUME ConstantsAssumption ==
  /\ EcuName \in [Nodes -> Nat]
  /\ Preferred \in [Nodes -> AddressQueue]
  /\ Requests \subseteq {f \in Frame : f.pgn = REQUEST_PGN}
  /\ MaxRequests \in Nat
  /\ MaxLost \in Nat
  /\ Timely \in BOOLEAN
  /\ SpuriousWakeups \in BOOLEAN

VARIABLES
  rx,           \* rx[n]: frames in n's socket, oldest first
  mFrames,      \* mFrames[n]: the mailbox, at most one frame per identifier
  mPreferred,   \* mPreferred[n]: queue of addresses, rotated at each attempt
  mCurrentSrc,  \* mCurrentSrc[n]: the address n uses
  address,      \* address[n]: the address n tries to obtain
  pos,          \* pos[n]: addresses tried in this claimAddressStep
  pc,           \* pc[n]: where the claimer of n is
  waited,       \* waited[n]: the 250 ms of n's current wait may be over
  requests,     \* requests sent so far
  lost          \* transmissions that failed so far

vars == <<rx, mFrames, mPreferred, mCurrentSrc, address, pos, pc, waited,
          requests, lost>>

PC == {"off", "begin", "select", "retry", "wait", "main", "answer"}

TypeOK ==
  /\ rx \in [Nodes -> Seq(Frame)]
  /\ mFrames \in [Nodes -> SUBSET Frame]
  /\ mPreferred \in [Nodes -> AddressQueue]
  /\ mCurrentSrc \in [Nodes -> Address]
  /\ address \in [Nodes -> Address]
  /\ pos \in [Nodes -> Nat]
  /\ pc \in [Nodes -> PC]
  /\ waited \in [Nodes -> BOOLEAN]
  /\ requests \in Nat
  /\ lost \in Nat

(***************************************************************************)
(* J1939Frame::getIdentifier for the two PDU1 frames at one priority.      *)
(***************************************************************************)
Identifier(f) == (f.pgn + f.dst) * 256 + f.src

Claim(n, src) == [pgn |-> ADDRESS_CLAIM_PGN, dst |-> J1939_BROADCAST_ADDRESS,
                  src |-> src, data |-> EcuName[n]]

toBeHandled(f) == f.pgn = REQUEST_PGN => f.data = ADDRESS_CLAIM_PGN

(***************************************************************************)
(* sendFrame puts f on the bus: every other running ECU gets it, n itself  *)
(* does not (CAN_RAW_RECV_OWN_MSGS is off).  The result of sendFrameOnce   *)
(* is ignored, so a transmission that fails goes unnoticed.                *)
(***************************************************************************)
sendFrame(n, f) ==
  \/ /\ rx' = [m \in Nodes |-> IF m = n \/ pc[m] = "off"
                               THEN rx[m] ELSE Append(rx[m], f)]
     /\ UNCHANGED lost
  \/ /\ lost < MaxLost
     /\ lost' = lost + 1
     /\ UNCHANGED rx

(***************************************************************************)
(* read() with a frame in the mailbox takes the one with the smallest      *)
(* identifier: mFrames is a std::map.                                      *)
(***************************************************************************)
read(n, f) ==
  /\ f \in mFrames[n]
  /\ \A g \in mFrames[n] : Identifier(f) <= Identifier(g)
  /\ mFrames' = [mFrames EXCEPT ![n] = @ \ {f}]

Init ==
  /\ rx = [n \in Nodes |-> << >>]
  /\ mFrames = [n \in Nodes |-> {}]
  /\ mPreferred = Preferred
  /\ mCurrentSrc = [n \in Nodes |-> J1939_INVALID_ADDRESS]
  /\ address = [n \in Nodes |-> J1939_INVALID_ADDRESS]
  /\ pos = [n \in Nodes |-> 0]
  /\ pc = [n \in Nodes |-> "off"]
  /\ waited = [n \in Nodes |-> FALSE]
  /\ requests = 0
  /\ lost = 0

Goto(n, l) == pc' = [pc EXCEPT ![n] = l]

(***************************************************************************)
(* The ECU is switched on: it opens its socket and starts the claimer.     *)
(***************************************************************************)
Start(n) ==
  /\ pc[n] = "off"
  /\ Goto(n, "begin")
  /\ UNCHANGED <<rx, mFrames, mPreferred, mCurrentSrc, address, pos, waited,
                 requests, lost>>

-----------------------------------------------------------------------------
(* The sniffer thread.                                                     *)

Receive(n) ==
  /\ rx[n] # << >>
  /\ rx' = [rx EXCEPT ![n] = Tail(@)]
  /\ LET f == Head(rx[n])
     IN  mFrames' = [mFrames EXCEPT ![n] =
           IF toBeHandled(f)
           THEN {g \in @ : Identifier(g) # Identifier(f)} \cup {f}
           ELSE @]
  /\ UNCHANGED <<mPreferred, mCurrentSrc, address, pos, pc, waited, requests,
                 lost>>

-----------------------------------------------------------------------------
(* The claimer thread: claimAddressStep.                                   *)

Begin(n) ==
  /\ pc[n] = "begin"
  /\ mCurrentSrc' = [mCurrentSrc EXCEPT ![n] = J1939_INVALID_ADDRESS]
  /\ pos' = [pos EXCEPT ![n] = 0]
  /\ mFrames' = [mFrames EXCEPT ![n] = {}]
  /\ Goto(n, "select")
  /\ UNCHANGED <<rx, mPreferred, address, waited, requests, lost>>

\* Mutant: an ECU without an address starts over.
CannotClaimRetrying(n) ==
  /\ pc[n] = "select"
  /\ pos[n] >= Len(mPreferred[n])
  /\ sendFrame(n, Claim(n, J1939_INVALID_ADDRESS))
  /\ Goto(n, "begin")
  /\ UNCHANGED <<mFrames, mPreferred, mCurrentSrc, address, pos, waited,
                 requests>>

CannotClaim(n) ==
  /\ pc[n] = "select"
  /\ pos[n] >= Len(mPreferred[n])
  /\ sendFrame(n, Claim(n, J1939_INVALID_ADDRESS))
  /\ Goto(n, "main")
  /\ UNCHANGED <<mFrames, mPreferred, mCurrentSrc, address, pos, waited,
                 requests>>

-----------------------------------------------------------------------------
(* The claimer thread: tryObtainAddress.                                   *)

\* Mutant: the wait goes on where the previous one ended.
AnnounceWithoutWait(n, a) ==
  /\ sendFrame(n, Claim(n, a))
  /\ UNCHANGED waited
  /\ Goto(n, "wait")

Announce(n, a) ==
  /\ sendFrame(n, Claim(n, a))
  /\ waited' = [waited EXCEPT ![n] = FALSE]
  /\ Goto(n, "wait")

\* Mutant: the address is not put back at the end of the queue.
TryNextForgetting(n) ==
  /\ pc[n] = "select"
  /\ pos[n] < Len(mPreferred[n])
  /\ pos' = [pos EXCEPT ![n] = @ + 1]
  /\ address' = [address EXCEPT ![n] = Head(mPreferred[n])]
  /\ mPreferred' = [mPreferred EXCEPT ![n] = Tail(@)]
  /\ Announce(n, Head(mPreferred[n]))
  /\ UNCHANGED <<mFrames, mCurrentSrc, requests>>

\* Mutant: the queue is not rotated.
TryNextSame(n) ==
  /\ pc[n] = "select"
  /\ pos[n] < Len(mPreferred[n])
  /\ pos' = [pos EXCEPT ![n] = @ + 1]
  /\ address' = [address EXCEPT ![n] = Head(mPreferred[n])]
  /\ Announce(n, Head(mPreferred[n]))
  /\ UNCHANGED <<mFrames, mPreferred, mCurrentSrc, requests>>

TryNext(n) ==
  /\ pc[n] = "select"
  /\ pos[n] < Len(mPreferred[n])
  /\ pos' = [pos EXCEPT ![n] = @ + 1]
  /\ address' = [address EXCEPT ![n] = Head(mPreferred[n])]
  /\ mPreferred' = [mPreferred EXCEPT ![n] = Append(Tail(@), Head(@))]
  /\ Announce(n, Head(mPreferred[n]))
  /\ UNCHANGED <<mFrames, mCurrentSrc, requests>>

Retry(n) ==
  /\ pc[n] = "retry"
  /\ Announce(n, address[n])
  /\ UNCHANGED <<mFrames, mPreferred, mCurrentSrc, address, pos, requests>>

\* Mutant: the larger NAME wins.
ContendInverted(n, f) ==
  /\ pc[n] = "wait"
  /\ read(n, f)
  /\ f.pgn = ADDRESS_CLAIM_PGN
  /\ f.src = address[n]
  /\ Goto(n, IF EcuName[n] > f.data THEN "retry" ELSE "select")
  /\ UNCHANGED <<rx, mPreferred, mCurrentSrc, address, pos, waited, requests,
                 lost>>

(***************************************************************************)
(* A claim for the address being tried.  CLAIM_RETRY transmits the claim   *)
(* again, CLAIM_FAILED goes on with the next preferred address; the same   *)
(* NAME counts as lost.                                                    *)
(***************************************************************************)
Contend(n, f) ==
  /\ pc[n] = "wait"
  /\ read(n, f)
  /\ f.pgn = ADDRESS_CLAIM_PGN
  /\ f.src = address[n]
  /\ Goto(n, IF EcuName[n] < f.data THEN "retry" ELSE "select")
  /\ UNCHANGED <<rx, mPreferred, mCurrentSrc, address, pos, waited, requests,
                 lost>>

OtherClaim(n, f) ==
  /\ pc[n] = "wait"
  /\ read(n, f)
  /\ f.pgn = ADDRESS_CLAIM_PGN
  /\ f.src # address[n]
  /\ waited' = [waited EXCEPT ![n] = FALSE]
  /\ UNCHANGED <<rx, mPreferred, mCurrentSrc, address, pos, pc, requests, lost>>

Elapsed(n) == Timely => waited[n]

Obtain(n) ==
  /\ mCurrentSrc' = [mCurrentSrc EXCEPT ![n] = address[n]]
  /\ Goto(n, "main")

(***************************************************************************)
(* A request read while waiting is dropped; only the time it took counts.  *)
(***************************************************************************)
DropRequest(n, f) ==
  /\ pc[n] = "wait"
  /\ read(n, f)
  /\ f.pgn = REQUEST_PGN
  /\ \/ UNCHANGED <<mCurrentSrc, pc>>
     \/ Elapsed(n) /\ Obtain(n)
  /\ UNCHANGED <<rx, mPreferred, address, pos, waited, requests, lost>>

Timeout(n) ==
  /\ pc[n] = "wait"
  /\ mFrames[n] = {}
  /\ Elapsed(n)
  /\ Obtain(n)
  /\ UNCHANGED <<rx, mFrames, mPreferred, address, pos, waited, requests, lost>>

(***************************************************************************)
(* wait_for is called without a predicate: a wakeup without a notification *)
(* returns no frame, which tryObtainAddress takes for the timeout.         *)
(***************************************************************************)
SpuriousWakeup(n) ==
  /\ SpuriousWakeups
  /\ pc[n] = "wait"
  /\ mFrames[n] = {}
  /\ Obtain(n)
  /\ UNCHANGED <<rx, mFrames, mPreferred, address, pos, waited, requests, lost>>

-----------------------------------------------------------------------------
(* The claimer thread: the inner loop of exec, after claimAddressStep.     *)

\* Mutant: requests sent to everybody are not answered.
MainRequestOwn(n, f) ==
  /\ pc[n] = "main"
  /\ read(n, f)
  /\ f.pgn = REQUEST_PGN
  /\ IF f.dst = mCurrentSrc[n] THEN Goto(n, "answer") ELSE UNCHANGED pc
  /\ UNCHANGED <<rx, mPreferred, mCurrentSrc, address, pos, waited, requests,
                 lost>>

MainRequest(n, f) ==
  /\ pc[n] = "main"
  /\ read(n, f)
  /\ f.pgn = REQUEST_PGN
  /\ IF f.dst \in {J1939_BROADCAST_ADDRESS, mCurrentSrc[n]}
     THEN Goto(n, "answer") ELSE UNCHANGED pc
  /\ UNCHANGED <<rx, mPreferred, mCurrentSrc, address, pos, waited, requests,
                 lost>>

\* Mutant: the winner does not answer.
processAddressClaimSilently(n, f) ==
  /\ pc[n] = "main"
  /\ read(n, f)
  /\ f.pgn = ADDRESS_CLAIM_PGN
  /\ IF f.src # J1939_INVALID_ADDRESS /\ f.src = mCurrentSrc[n]
     THEN Goto(n, IF EcuName[n] < f.data THEN "main" ELSE "begin")
     ELSE UNCHANGED pc
  /\ UNCHANGED <<rx, mPreferred, mCurrentSrc, address, pos, waited, requests,
                 lost>>

\* Mutant: the larger NAME wins.
processAddressClaimInverted(n, f) ==
  /\ pc[n] = "main"
  /\ read(n, f)
  /\ f.pgn = ADDRESS_CLAIM_PGN
  /\ IF f.src # J1939_INVALID_ADDRESS /\ f.src = mCurrentSrc[n]
     THEN Goto(n, IF EcuName[n] > f.data THEN "answer" ELSE "begin")
     ELSE UNCHANGED pc
  /\ UNCHANGED <<rx, mPreferred, mCurrentSrc, address, pos, waited, requests,
                 lost>>

processAddressClaim(n, f) ==
  /\ pc[n] = "main"
  /\ read(n, f)
  /\ f.pgn = ADDRESS_CLAIM_PGN
  /\ IF f.src # J1939_INVALID_ADDRESS /\ f.src = mCurrentSrc[n]
     THEN Goto(n, IF EcuName[n] < f.data THEN "answer" ELSE "begin")
     ELSE UNCHANGED pc
  /\ UNCHANGED <<rx, mPreferred, mCurrentSrc, address, pos, waited, requests,
                 lost>>

Answer(n) ==
  /\ pc[n] = "answer"
  /\ sendFrame(n, Claim(n, mCurrentSrc[n]))
  /\ Goto(n, "main")
  /\ UNCHANGED <<mFrames, mPreferred, mCurrentSrc, address, pos, waited,
                 requests>>

-----------------------------------------------------------------------------
(***************************************************************************)
(* External: a tool on the bus requests address claims (j1939Sender, any   *)
(* other ECU).                                                             *)
(***************************************************************************)
Request ==
  /\ requests < MaxRequests
  /\ requests' = requests + 1
  /\ \E f \in Requests :
       rx' = [m \in Nodes |-> IF pc[m] = "off" THEN rx[m] ELSE Append(rx[m], f)]
  /\ UNCHANGED <<mFrames, mPreferred, mCurrentSrc, address, pos, pc, waited,
                 lost>>

(***************************************************************************)
(* Nobody has a frame to handle or to send.                                *)
(***************************************************************************)
Quiet ==
  \A n \in Nodes : /\ rx[n] = << >>
                   /\ mFrames[n] = {}
                   /\ pc[n] \in {"off", "wait", "main"}

(***************************************************************************)
(* 250 ms pass.  With Timely, what was on its way is handled by then.      *)
(***************************************************************************)
Tick ==
  /\ Timely
  /\ Quiet
  /\ \E n \in Nodes : ~waited[n]
  /\ waited' = [n \in Nodes |-> TRUE]
  /\ UNCHANGED <<rx, mFrames, mPreferred, mCurrentSrc, address, pos, pc,
                 requests, lost>>

Read(n) ==
  \E f \in mFrames[n] :
     \/ Contend(n, f) \/ OtherClaim(n, f) \/ DropRequest(n, f)
     \/ MainRequest(n, f) \/ processAddressClaim(n, f)

Claimer(n) ==
  \/ Begin(n) \/ TryNext(n) \/ CannotClaim(n) \/ Retry(n)
  \/ Timeout(n) \/ SpuriousWakeup(n) \/ Answer(n) \/ Read(n)

Next ==
  \/ \E n \in Nodes : Start(n) \/ Receive(n) \/ Claimer(n)
  \/ Request
  \/ Tick

Spec == Init /\ [][Next]_vars

(***************************************************************************)
(* Both threads of an ECU keep running and time passes; ECUs need not be   *)
(* switched on and nobody has to send requests.                            *)
(***************************************************************************)
Fairness ==
  /\ \A n \in Nodes : WF_vars(Receive(n)) /\ WF_vars(Claimer(n))
  /\ WF_vars(Tick)

FairSpec == Spec /\ Fairness

-----------------------------------------------------------------------------
(***************************************************************************)
(* Properties                                                              *)
(***************************************************************************)
Usable == Address \ {J1939_INVALID_ADDRESS}

(***************************************************************************)
(* The address n has announced and not yet met a reason to give up.        *)
(***************************************************************************)
Occupied(n) ==
  IF pc[n] = "wait" THEN address[n]
  ELSE IF pc[n] \in {"main", "answer"} THEN mCurrentSrc[n]
  ELSE J1939_INVALID_ADDRESS

IsClaimOf(f, a) == f.pgn = ADDRESS_CLAIM_PGN /\ f.src = a

ClaimPending(n, a) ==
  \/ \E i \in 1 .. Len(rx[n]) : IsClaimOf(rx[n][i], a)
  \/ \E f \in mFrames[n] : IsClaimOf(f, a)

\* Something makes n look at a again, or makes n announce it again.
Alerted(n, a) == ClaimPending(n, a) \/ pc[n] = "answer"

(***************************************************************************)
(* Two ECUs never sit on one address with nothing left to tell either of   *)
(* them: a claim for it still waits in one's socket or mailbox, or one is  *)
(* about to announce it.  The mailbox overwriting a frame of the same      *)
(* identifier, the flush in claimAddressStep, requests dropped while       *)
(* waiting, a timeout at any moment and ECUs that start late cannot break  *)
(* this; only a failed transmission can.                                   *)
(***************************************************************************)
NoSilentConflict ==
  lost = 0 =>
    \A m, n \in Nodes :
      m # n /\ Occupied(m) = Occupied(n) /\ Occupied(n) \in Usable =>
        Alerted(m, Occupied(m)) \/ Alerted(n, Occupied(n))

(***************************************************************************)
(* No two ECUs use the same address at the same time, when 250 ms are      *)
(* enough for every frame on its way to be handled and answered.           *)
(***************************************************************************)
UniqueAddress ==
  lost = 0 =>
    \A m, n \in Nodes :
      m # n /\ mCurrentSrc[m] = mCurrentSrc[n] =>
        mCurrentSrc[m] = J1939_INVALID_ADDRESS

Lowest(n) == \A m \in Nodes \ {n} : EcuName[n] < EcuName[m]

(***************************************************************************)
(* The ECU with the smallest NAME uses its first preferred address and no  *)
(* other, however late it starts and whatever the others do.               *)
(***************************************************************************)
LowestKeepsFirstChoice ==
  \A n \in Nodes : Lowest(n) /\ pc[n] \in {"main", "answer"} =>
    mCurrentSrc[n] = Head(Preferred[n])

Wants(n, a) == \E i \in 1 .. Len(Preferred[n]) : Preferred[n][i] = a

(***************************************************************************)
(* An ECU stops using an address only when another ECU whose NAME is not   *)
(* larger wants the same address (processAddressClaim never reacts to a    *)
(* claim for another address or of a weaker NAME).                         *)
(***************************************************************************)
YieldsToStronger ==
  [][\A n \in Nodes :
       mCurrentSrc[n] \in Usable /\ mCurrentSrc'[n] # mCurrentSrc[n] =>
         \E m \in Nodes \ {n} : EcuName[m] <= EcuName[n]
                                /\ Wants(m, mCurrentSrc[n])]_vars

(***************************************************************************)
(* Contention ends: eventually every ECU that runs stays in the loop of    *)
(* exec and nothing is on its way any more.                                *)
(***************************************************************************)
Stabilises == <>[](Quiet /\ \A n \in Nodes : pc[n] # "wait")

Running == {n \in Nodes : pc[n] # "off"}

(***************************************************************************)
(* An ECU that lists at least as many addresses as there are ECUs running  *)
(* ends up with one of them.                                               *)
(***************************************************************************)
AllAddressed ==
  <>[](\A n \in Running :
         Len(Preferred[n]) >= Cardinality(Running) => mCurrentSrc[n] \in Usable)

BroadcastRequest(f) ==
  /\ f.pgn = REQUEST_PGN
  /\ f.dst = J1939_BROADCAST_ADDRESS
  /\ f.data = ADDRESS_CLAIM_PGN

AllAsked ==
  /\ lost = MaxLost
  /\ \A n \in Nodes : pc[n] # "off" =>
       /\ pc[n] \in {"main", "answer"}
       /\ \/ \E i \in 1 .. Len(rx[n]) : BroadcastRequest(rx[n][i])
          \/ \E f \in mFrames[n] : BroadcastRequest(f)

NoDuplicates ==
  \A m, n \in Nodes :
    m # n /\ mCurrentSrc[m] = mCurrentSrc[n] =>
      mCurrentSrc[m] = J1939_INVALID_ADDRESS

(***************************************************************************)
(* A claim whose transmission failed can leave two ECUs on one address for *)
(* good.  A request for address claims sent to everybody, once no ECU is   *)
(* still waiting for an address, makes the conflict known and ends it.     *)
(***************************************************************************)
RequestRepairs == AllAsked ~> Quiet /\ NoDuplicates
=============================================================================

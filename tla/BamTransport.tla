----------------------------- MODULE BamTransport -----------------------------
(***************************************************************************)
(* ECUs that broadcast long messages, the bus, and one receiver: sender    *)
(* side BamFragmenter, receiver side BamReassembler as onRcv of the GUI    *)
(* backend, the sniffer and the player drives it.  The frames of different *)
(* sources interleave in any way; those of one source stay in order.       *)
(***************************************************************************)
EXTENDS BamReassembler

CONSTANTS
  NoMessage,   \* nothing to send
  Strays,      \* frames of other protocols on the same bus
  MaxMessages, \* bound: messages sent
  MaxAborts,   \* bound: transmissions given up half way
  MaxLost      \* bound: frames that never reach the receiver

ASSUME TransportAssumption ==
  /\ NoMessage \notin Message
  /\ Strays \subseteq StrayFrames
  /\ MaxMessages \in Nat
  /\ MaxAborts \in Nat
  /\ MaxLost \in Nat

VARIABLES
  sending,   \* sending[s]: the message s transmits
  next,      \* next[s]: its next frame, 0 is the TP.CM
  messages,  \* messages begun so far
  aborts,    \* transmissions given up so far
  lost,      \* frames lost so far
  received,  \* what the receiver dequeued
  current    \* auxiliary: current[s] was announced by s and not delivered

senderVars == <<sending, next, messages, aborts>>
vars == <<mFragments, mReassembledFrames, mLastError, sending, next, messages,
          aborts, lost, received, current>>

TypeOK ==
  /\ ReassemblerTypeOK
  /\ sending \in [Source -> Message \cup {NoMessage}]
  /\ next \in [Source -> Nat]
  /\ messages \in Nat
  /\ aborts \in Nat
  /\ lost \in Nat
  /\ received \in Seq(Reassembled)
  /\ current \in [Source -> Message \cup {NoMessage}]

Init ==
  /\ ReassemblerInit
  /\ sending = [s \in Source |-> NoMessage]
  /\ next = [s \in Source |-> 0]
  /\ messages = 0
  /\ aborts = 0
  /\ lost = 0
  /\ received = << >>
  /\ current = [s \in Source |-> NoMessage]

(***************************************************************************)
(* A sender fragments a message and queues its frames.                     *)
(***************************************************************************)
Begin(s, m) ==
  /\ sending[s] = NoMessage
  /\ SrcOf[m] = s
  /\ Fragments(m)
  /\ messages < MaxMessages
  /\ messages' = messages + 1
  /\ sending' = [sending EXCEPT ![s] = m]
  /\ next' = [next EXCEPT ![s] = 0]
  /\ current' = [current EXCEPT ![s] = m]
  /\ UNCHANGED <<mFragments, mReassembledFrames, mLastError, aborts, lost,
                 received>>

\* The next frame of s leaves the queue of the sender.
Advance(s) ==
  /\ sending[s] # NoMessage
  /\ next' = [next EXCEPT ![s] = @ + 1]
  /\ sending' = [sending EXCEPT ![s] =
                   IF next[s] = DataFrames(@) THEN NoMessage ELSE @]
  /\ UNCHANGED <<messages, aborts>>

onRcv(f) ==
  IF toBeHandled(f) THEN handleFrame(f) ELSE UNCHANGED reassemblerVars

(***************************************************************************)
(* The receiver's thread handles one frame at a time: the frame it         *)
(* reassembled is dequeued before the next one is read.                    *)
(***************************************************************************)
Receive(s) ==
  /\ mReassembledFrames = << >>
  /\ Advance(s)
  /\ onRcv(BusFrame(sending[s], next[s]))
  /\ current' = [current EXCEPT ![s] =
                   IF mReassembledFrames' # << >> THEN NoMessage ELSE @]
  /\ UNCHANGED <<lost, received>>

Lose(s) ==
  /\ lost < MaxLost
  /\ lost' = lost + 1
  /\ Advance(s)
  /\ UNCHANGED <<mFragments, mReassembledFrames, mLastError, received, current>>

(***************************************************************************)
(* The sender stops in the middle (unSendFrames, or sendFrames restarting  *)
(* the ring, or the ECU is switched off).                                  *)
(***************************************************************************)
Abort(s) ==
  /\ sending[s] # NoMessage
  /\ aborts < MaxAborts
  /\ aborts' = aborts + 1
  /\ sending' = [sending EXCEPT ![s] = NoMessage]
  /\ UNCHANGED <<mFragments, mReassembledFrames, mLastError, next, messages,
                 lost, received, current>>

\* processBAM of j1939Decoder calls handleFrame without toBeHandled.
Stray(f) ==
  /\ mReassembledFrames = << >>
  /\ onRcv(f) \/ handleFrame(f)
  /\ UNCHANGED <<sending, next, messages, aborts, lost, received, current>>

dequeueReassembledFrame ==
  /\ mReassembledFrames # << >>
  /\ received' = Append(received, Head(mReassembledFrames))
  /\ mReassembledFrames' = Tail(mReassembledFrames)
  /\ UNCHANGED <<mFragments, mLastError, sending, next, messages, aborts, lost,
                 current>>

\* clear() throws away what has arrived so far: it counts as a loss.
Clear ==
  /\ mReassembledFrames = << >>
  /\ lost < MaxLost
  /\ lost' = lost + 1
  /\ clear
  /\ UNCHANGED <<sending, next, messages, aborts, received, current>>

Next ==
  \/ \E s \in Source : \/ \E m \in Message : Begin(s, m)
                       \/ Receive(s) \/ Lose(s) \/ Abort(s)
  \/ \E f \in Strays : Stray(f)
  \/ dequeueReassembledFrame
  \/ Clear

Spec == Init /\ [][Next]_vars

\* One frame is lost (or one clear() happens), and before that nothing was given up.
Tolerable == lost' # lost => lost = 0 /\ aborts = 0

-----------------------------------------------------------------------------
(***************************************************************************)
(* Properties                                                              *)
(***************************************************************************)
Delivered == received \o mReassembledFrames

(***************************************************************************)
(* The receiver sees nothing that was not sent: source, PGN and every byte *)
(* of a reassembled frame are those of one message.                        *)
(***************************************************************************)
Intact == \A i \in 1 .. Len(Delivered) : \E m \in Message : Delivered[i] = Sent(m)

(***************************************************************************)
(* The TP.DTs a session holds are numbered 1, 2, 3... without a gap and    *)
(* never more than announced, whatever was lost, given up or cleared.      *)
(***************************************************************************)
Contiguous ==
  \A s \in Source : mFragments[s] # << >> =>
    /\ mFragments[s][1].kind = "BAM"
    /\ Len(mFragments[s]) <= mFragments[s][1].packets + 1
    /\ \A i \in 2 .. Len(mFragments[s]) :
         mFragments[s][i].kind = "DT" /\ mFragments[s][i].sq = i - 1

(***************************************************************************)
(* A message whose frames all arrived has been delivered, if the factory   *)
(* knows its PGN and its packets can be counted in a u8.                   *)
(***************************************************************************)
NothingMissing ==
  lost = 0 /\ aborts = 0 =>
    \A s \in Source :
      sending[s] = NoMessage /\ current[s] # NoMessage =>
        \/ Decode[PgnOf[current[s]]] # "frame"
        \/ Packets(current[s]) >= U8

(***************************************************************************)
(* The transport implements BamService: whole messages, at most once, only *)
(* the one announced last.                                                 *)
(***************************************************************************)
Service == INSTANCE BamService WITH
             Whole <- [m \in Message |-> Sent(m)], delivered <- Delivered
ImplementsService == Service!Spec

(***************************************************************************)
(* What the header says of a receiver that misses frames ("The receiver    *)
(* must wait for a new message"): it never takes frames of one message for *)
(* frames of another.                                                      *)
(***************************************************************************)
WaitsForNewMessage == Intact
=============================================================================

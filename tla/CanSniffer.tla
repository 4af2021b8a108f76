----------------------------- MODULE CanSniffer -----------------------------
(***************************************************************************)
(* CanSniffer (src/CAN): the thread in sniff() waits for its receivers     *)
(* with select() and hands one frame of every ready receiver to the        *)
(* program's callback, then looks at mRunning.  A program may call finish()*)
(* and reset() from another thread.                                        *)
(*                                                                         *)
(* This module is the machine alone: the programs that use it              *)
(* (AddressMapper, GuiReceiver) say what the callback does and who sets    *)
(* mRunning.  While thread = "callback" the callback of the program runs.  *)
(***************************************************************************)
EXTENDS Integers, Sequences, CanFilter

CONSTANTS
  mReceivers, \* the receivers, in the order of the vector
  Backend,    \* for every receiver: "socket" or "peak"
  Frames,     \* what the bus carries: records with at least id and ext
  NoFrame,    \* a CanFrame as it is constructed: no identifier, no data
  Failure     \* in a receive buffer: the next read fails

Receivers == {mReceivers[i] : i \in 1 .. Len(mReceivers)}

ASSUME SnifferAssumption ==
  /\ mReceivers \in Seq(Receivers) /\ Len(mReceivers) > 0
  /\ \A i, j \in 1 .. Len(mReceivers) : mReceivers[i] = mReceivers[j] => i = j
  /\ \A r \in Receivers : Backend[r] \in {"socket", "peak"}
  /\ \A f \in Frames : f.id \in Ids /\ f.ext \in BOOLEAN
  /\ NoFrame \notin Frames /\ Failure \notin Frames

VARIABLES
  buffer,   \* what waits at every receiver
  filters,  \* the filters last given to setFilters
  mRunning,
  thread,   \* where sniff() is
  rdfs,     \* the receivers select() found ready
  next,     \* the receiver notify() looks at next
  frame     \* the frame in the callback

snifferVars == <<buffer, filters, mRunning, thread, rdfs, next, frame>>

SnifferInit ==
  /\ buffer = [r \in Receivers |-> <<>>]
  /\ filters = {}
  /\ mRunning = TRUE
  /\ thread = "off"
  /\ rdfs = {}
  /\ next = 1
  /\ frame = NoFrame

(***************************************************************************)
(* The bus and the drivers.  The kernel filters a frame when it arrives.   *)
(***************************************************************************)
Arrive(r, f) ==
  /\ buffer' = IF Backend[r] = "socket" /\ ~KernelAccepts(filters, f.id, f.ext)
               THEN buffer
               ELSE [buffer EXCEPT ![r] = Append(@, f)]
  /\ UNCHANGED <<filters, mRunning, thread, rdfs, next, frame>>

\* The interface fails: its descriptor is ready and the read returns an error.
Fail(r) ==
  /\ buffer' = [buffer EXCEPT ![r] = Append(@, Failure)]
  /\ UNCHANGED <<filters, mRunning, thread, rdfs, next, frame>>

(***************************************************************************)
(* setFilters for all receivers; no program calls it without filters.      *)
(***************************************************************************)
setFilters(fs) ==
  /\ fs # {}
  /\ filters' = fs
  /\ UNCHANGED <<buffer, mRunning, thread, rdfs, next, frame>>

\* sniff() is called, possibly in a new thread.
sniff ==
  /\ thread = "off"
  /\ thread' = "select"
  /\ UNCHANGED <<buffer, filters, mRunning, rdfs, next, frame>>

(***************************************************************************)
(* select() returns because of a descriptor, or after the timeout, which   *)
(* only calls a callback that does nothing.                                *)
(***************************************************************************)
wait_fd ==
  /\ thread = "select"
  /\ \E r \in Receivers : buffer[r] # <<>>
  /\ rdfs' = {r \in Receivers : buffer[r] # <<>>}
  /\ next' = 1
  /\ thread' = "notify"
  /\ UNCHANGED <<buffer, filters, mRunning, frame>>

WaitTimeout ==
  /\ thread = "select"
  /\ \A r \in Receivers : buffer[r] = <<>>
  /\ thread' = "check"
  /\ UNCHANGED <<buffer, filters, mRunning, rdfs, next, frame>>

(***************************************************************************)
(* notify_recv for the receiver it is the turn of.  A failed read of a     *)
(* socket still returns true, with the frame as it was constructed.        *)
(***************************************************************************)
Handed(r) ==
  LET f == Head(buffer[r])
  IN IF f = Failure
     THEN IF Backend[r] = "socket" THEN {NoFrame} ELSE {}
     ELSE IF Backend[r] = "peak" /\ ~filter(filters, f.id) THEN {} ELSE {f}

notify ==
  /\ thread = "notify"
  /\ next <= Len(mReceivers)
  /\ LET r == mReceivers[next]
     IN IF r \in rdfs
        THEN /\ buffer' = [buffer EXCEPT ![r] = Tail(@)]
             /\ IF Handed(r) = {}
                THEN next' = next + 1 /\ UNCHANGED <<thread, frame>>
                ELSE /\ frame' \in Handed(r)
                     /\ thread' = "callback"
                     /\ UNCHANGED next
        ELSE next' = next + 1 /\ UNCHANGED <<buffer, thread, frame>>
  /\ UNCHANGED <<filters, mRunning, rdfs>>

\* The callback returns to notify().
CallbackReturns ==
  /\ thread' = "notify"
  /\ next' = next + 1
  /\ frame' = NoFrame
  /\ UNCHANGED <<buffer, filters, mRunning, rdfs>>

NotifyEnds ==
  /\ thread = "notify"
  /\ next > Len(mReceivers)
  /\ thread' = "check"
  /\ next' = 1
  /\ rdfs' = {}
  /\ UNCHANGED <<buffer, filters, mRunning, frame>>

\* A loop that ends only when nothing is left to read.
CheckDrained ==
  /\ thread = "check"
  /\ thread' = IF mRunning \/ \E r \in Receivers : buffer[r] # <<>>
               THEN "select" ELSE "off"
  /\ UNCHANGED <<buffer, filters, mRunning, rdfs, next, frame>>

\* while (mRunning)
Check ==
  /\ thread = "check"
  /\ thread' = IF mRunning THEN "select" ELSE "off"
  /\ UNCHANGED <<buffer, filters, mRunning, rdfs, next, frame>>

Sniffer == wait_fd \/ WaitTimeout \/ notify \/ NotifyEnds \/ Check
=============================================================================

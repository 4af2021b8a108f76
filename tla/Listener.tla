------------------------------ MODULE Listener ------------------------------
(***************************************************************************)
(* What the programs that listen to the bus have in common                 *)
(* (j1939AddressMapper and j1939Sniffer in src/BinUtils): main() opens the *)
(* interfaces, installs a filter and never comes back from sniff().  From  *)
(* the moment an interface is open frames arrive there, before the filter  *)
(* as well as after it.                                                    *)
(***************************************************************************)
EXTENDS CanSniffer, FiniteSets

VARIABLES
  program,   \* which program it is: a record with at least kind and filters
  arrived,   \* auxiliary: what arrived at every receiver, and whether early
  handed,    \* auxiliary: what the callback got from every receiver
  terminated \* an exception left the callback

listenerVars == <<program, arrived, handed, terminated>>

ListenerInit ==
  /\ SnifferInit
  /\ arrived = [r \in Receivers |-> <<>>]
  /\ handed = [r \in Receivers |-> <<>>]
  /\ terminated = FALSE

OnBus(r, f) ==
  /\ Arrive(r, f)
  /\ arrived' = [arrived EXCEPT ![r] = Append(@, [frame |-> f, early |-> filters = {}])]
  /\ UNCHANGED <<program, handed, terminated>>

Failing(r) == Fail(r) /\ UNCHANGED listenerVars

\* main(): the filter, then sniff().
Main ==
  /\ UNCHANGED listenerVars
  /\ \/ filters = {} /\ setFilters(program.filters)
     \/ filters # {} /\ sniff

\* The callback is done with frame,
Returned ==
  /\ handed' = IF frame = NoFrame THEN handed
               ELSE [handed EXCEPT ![mReceivers[next]] = Append(@, frame)]
  /\ CallbackReturns
  /\ UNCHANGED <<program, arrived>>

\* or it is not.
Stays == UNCHANGED <<snifferVars, program, arrived, handed>>

-----------------------------------------------------------------------------
(***************************************************************************)
(* Properties                                                              *)
(***************************************************************************)
\* The elements of s that are in S, in their order.
Among(s, S) ==
  LET f[i \in 0 .. Len(s)] == IF i = 0 THEN <<>>
                              ELSE IF s[i] \in S THEN Append(f[i - 1], s[i]) ELSE f[i - 1]
  IN f[Len(s)]

Arrivals == [frame : Frames, early : BOOLEAN]

AskedFor == {f \in Frames : Wanted(program.filters, f.id, f.ext)}

LetThrough(r) ==
  {a \in Arrivals : a.frame \in AskedFor \/ (a.early /\ Backend[r] = "socket")}

\* What will be handed on of what waits.
Readable(r) == IF Backend[r] = "socket" THEN Frames ELSE AskedFor

InCallback(r) ==
  IF thread = "callback" /\ mReceivers[next] = r /\ frame # NoFrame
  THEN <<frame>> ELSE <<>>

(***************************************************************************)
(* A receiver hands on what the filter asks for, all of it and in order,   *)
(* and besides only what a socket had let in before the filter was there.  *)
(* This is about the translation of the filter for the kernel, about       *)
(* notify() reading one frame for every ready descriptor, and about filter *)
(* being called after the read for a Peak receiver.                        *)
(***************************************************************************)
HandsOnWanted ==
  \A r \in Receivers :
    LET all == Among(arrived[r], LetThrough(r))
    IN handed[r] \o InCallback(r) \o Among(buffer[r], Readable(r))
         = [i \in 1 .. Len(all) |-> all[i].frame]
=============================================================================

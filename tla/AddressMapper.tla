--------------------------- MODULE AddressMapper ---------------------------
(***************************************************************************)
(* j1939AddressMapper (src/BinUtils): asks for address claims and shows    *)
(* every NAME it hears once.                                               *)
(***************************************************************************)
EXTENDS Listener

VARIABLE names \* the NAMEs shown

IsClaim(f) == f # NoFrame /\ f.kind = "claim"

MapperInit == names = {}

\* The search for the NAME, the wrong way round.
MapNameInverted ==
  /\ thread = "callback"
  /\ names' = IF IsClaim(frame) /\ frame.name \in names
              THEN names \cup {frame.name} ELSE names
  /\ Returned
  /\ UNCHANGED terminated

\* onRcv
MapName ==
  /\ thread = "callback"
  /\ names' = IF IsClaim(frame) THEN names \cup {frame.name} ELSE names
  /\ Returned
  /\ UNCHANGED terminated

-----------------------------------------------------------------------------
(***************************************************************************)
(* Properties                                                              *)
(***************************************************************************)
(***************************************************************************)
(* Whoever claims an address on any interface is shown in the end, however *)
(* busy the other interfaces are and whatever fails.                       *)
(***************************************************************************)
EveryClaimShown ==
  \A f \in {g \in Frames : IsClaim(g)} :
    (\E r \in Receivers : \E i \in 1 .. Len(arrived[r]) : arrived[r][i].frame = f)
      ~> (f.name \in names)
=============================================================================

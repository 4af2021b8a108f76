-------------------------- MODULE MCCommonCanSender --------------------------
(***************************************************************************)
(* Small sets of frames for TLC.                                           *)
(***************************************************************************)
EXTENDS CommonCanSender

\* Two rings, one of them with two periods, that 2 ms of delay do not upset.
MCSets == {[ids |-> <<1, 2>>, period |-> 7], [ids |-> <<1, 2>>, period |-> 6],
           [ids |-> <<1>>, period |-> 2]}
=============================================================================

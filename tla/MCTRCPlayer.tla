---------------------------- MODULE MCTRCPlayer ----------------------------
(***************************************************************************)
(* Two data of a known frame, a frame of the transport protocol and one    *)
(* without data.                                                           *)
(***************************************************************************)
EXTENDS TRCPlayer

Known(d) == [id |-> 1, data |-> <<d>>]
Transport == [id |-> 2, data |-> <<1>>]
Bare == [id |-> 1, data |-> <<>>]

MCFrames == {Known(1), Known(2), Transport, Bare}

MCDecode == [f \in MCFrames \cup {Cleared} |->
               IF f = Cleared THEN "none"
               ELSE IF f = Transport THEN "tp"
               ELSE IF f = Bare THEN "throws" ELSE "frame"]
=============================================================================

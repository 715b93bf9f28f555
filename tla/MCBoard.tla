------------------------------ MODULE MCBoard ------------------------------
(***************************************************************************)
(* Instances of Board: one controller, and what may go wrong.              *)
(***************************************************************************)
EXTENDS Board

TheHub    == {1}
NoTrouble == {}
Clearing  == {"clear"}
TornLines == {"torn lines"}

=============================================================================

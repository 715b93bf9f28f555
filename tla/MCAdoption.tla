----------------------------- MODULE MCAdoption -----------------------------
(***************************************************************************)
(* The instance of Adoption that TLC checks.                               *)
(***************************************************************************)
EXTENDS Adoption

\* Accept never fails for good.
Never == {FALSE}

=============================================================================

----------------------------- MODULE MCRevival ------------------------------
(***************************************************************************)
(* The client that makes the number up and one that revives it.            *)
(***************************************************************************)
EXTENDS Revival

CONSTANTS minter, reviver, nothing

\* One conversation is in one place, whatever has failed: refuted, see
\* RevivalLate.cfg.
OneChildEvenThen ==
    \A r, s \in Runs : child[r] = "running" /\ child[s] = "running" => r = s
=============================================================================

------------------------------ MODULE MCKeeper ------------------------------
(***************************************************************************)
(* Keeper for TLC: the daemon that starts the session and the generation   *)
(* that takes it over, two chunks of output, one frame from each client.   *)
(***************************************************************************)
EXTENDS Keeper, FiniteSets

\* A takeover needs a second daemon.
ASSUME TakeoverAssumption == Cardinality(Connections) >= 2
=============================================================================

------------------------------ MODULE MCLease ------------------------------
(***************************************************************************)
(* Instances of Lease: the fleet, and what may go wrong.                   *)
(***************************************************************************)
EXTENDS Lease

Two           == {1, 2}
NoFault       == {}
QuitMidRound  == {"quit mid-round"}
SlowDownload  == {"slow download"}
OldLease      == {"started on an old lease"}
BetweenTwo    == {"closed between two leases"}

=============================================================================

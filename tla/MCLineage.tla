----------------------------- MODULE MCLineage ------------------------------
(***************************************************************************)
(* Numbers enough for a conversation to move on twice, from a record with  *)
(* a session under it.                                                     *)
(***************************************************************************)
EXTENDS Lineage

CONSTANT t

-----------------------------------------------------------------------------
\* A parent link leads to a session that is there, or was: broken by a launch
\* that fails when it has given its number a fleet.
ParentsExist == job = Idle => \A sub \in Known : parent[sub] <= made
=============================================================================

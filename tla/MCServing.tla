----------------------------- MODULE MCServing ------------------------------
(***************************************************************************)
(* Two clients of different builds, and numbers enough for the daemons     *)
(* they start.                                                             *)
(***************************************************************************)
EXTENDS Serving

CONSTANTS older, newer, d1, d2, d3, d4, nobody

MCBuild == [l \in Launchers |-> IF l = older THEN 1 ELSE 2]
MCCalls == [l \in Launchers |-> IF l = older THEN 1 ELSE 2]
=============================================================================

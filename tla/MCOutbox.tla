------------------------------ MODULE MCOutbox ------------------------------
(* Small instances of Outbox: a session, a message for when it is idle and   *)
(* the seed of its launch, room for one of the two.                           *)
EXTENDS Outbox

McSessions == {"s"}
McMessages == {"ask", "seed"}
McTo       == [m \in McMessages |-> "s"]
McDeliver  == [m \in McMessages |-> IF m = "ask" THEN "when_idle" ELSE "auto"]
McSeeds    == {"seed"}
McShown    == {"idle", "draft while working", "question"}
NoFaults   == {}
CutShort   == {"stops mid-delivery"}
=============================================================================

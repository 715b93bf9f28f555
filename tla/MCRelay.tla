------------------------------ MODULE MCRelay ------------------------------
(***************************************************************************)
(* Instances of Relay: an agent and two controllers.                       *)
(***************************************************************************)
EXTENDS Relay

OneAgent  == {"a"}
TheHosts  == {"desk", "lap"}

\* It looks near and types far away.
ItsCalls ==
    [a \in OneAgent |-> {[tool |-> "list_files", machine |-> "near"],
                         [tool |-> "send_input", machine |-> "far"]}]

\* Or it types there, and runs a script.
ItsWrites ==
    [a \in OneAgent |-> {[tool |-> "send_input", machine |-> "far"],
                         [tool |-> "run_shell", machine |-> "far"]}]

\* Or it only types there.
ItsTyping ==
    [a \in OneAgent |-> {[tool |-> "send_input", machine |-> "far"]}]

Gated    == {"send_input", "run_shell"}
MayStand == {"send_input"}

\* Both carry calls to the near machine and one of them to the far one, or
\* both to both.
OneRoute  == [c \in TheHosts |-> IF c = "desk" THEN {"near", "far"} ELSE {"near"}]
TwoRoutes == [c \in TheHosts |-> {"near", "far"}]

=============================================================================

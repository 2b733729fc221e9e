---------------------------- MODULE MCRuleManager ----------------------------
(* Instances of RuleManager for TLC.                                         *)
EXTENDS RuleManager, TLC

CONSTANTS o1, o2, o3, c1, p1, p2

MCObjs == {o1, o2, o3}
MCPrios == {0, 1}
MCContexts == {c1}
MCVerdicts == {[c \in MCContexts |-> v] : v \in {"hit", "raises"}}
AllVerdicts == [MCContexts -> {"hit", "miss", "raises"}]
OnePage == {p1}
TwoPages == {p1, p2}

Symmetry == Permutations(MCObjs)
===============================================================================

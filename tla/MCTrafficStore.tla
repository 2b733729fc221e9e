---------------------------- MODULE MCTrafficStore ----------------------------
(* Values for TLC. *)
EXTENDS TrafficStore, TLC

CONSTANTS f1, f2, f3, p1

MCFlows == {f1, f2, f3}
TwoFlows == {f1, f2}
MCColors == {"", "red"}
OnePage == {p1}

Symmetry == Permutations(Flows)
===============================================================================

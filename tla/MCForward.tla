------------------------------ MODULE MCForward ------------------------------
(* Instances of Forward for TLC.                                             *)
EXTENDS Forward, TLC

CONSTANTS r1, r2

MCRequests == {r1, r2}
MCModSets == {{"req_header", "req_body"}, {"req_append"}, {"resp_body"}}

Symmetry == Permutations(MCRequests)
===============================================================================

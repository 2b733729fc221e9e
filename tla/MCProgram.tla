----------------------------- MODULE MCProgram ------------------------------
(* Values for Program: two tabs, a pattern that matches all hosts and one    *)
(* for one, a host on the passthrough list from the start.                   *)
EXTENDS Program, TLC

MCMatches    == "*" :> {"a", "b"} @@ "a*" :> {"a"}
MCConfigFile == [ignore |-> <<"a">>, port |-> 8080]
=============================================================================

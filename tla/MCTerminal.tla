---------------------------- MODULE MCTerminal ------------------------------
(* Values for Terminal: two flows, a queue of one, files with and without an *)
(* item that only one importer, or none, can read.                           *)
EXTENDS Terminal

CONSTANTS f1, f2

MCFlows == {f1, f2}
MCColors == {"", "red"}
MCFiles == {<<Item(f1, "whole")>>,
            <<Item(f2, "partial"), Item(f1, "other"), Item(f1, "whole")>>}
=============================================================================

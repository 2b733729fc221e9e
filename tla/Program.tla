------------------------------ MODULE Program -------------------------------
(* The program as a whole: what it keeps in files (Files) and what the       *)
(* settings change in its memory (Settings), over ends and starts.           *)
(* _build_core() of main.py loads the CA first: without one there is no      *)
(* program, and with one all that Settings has is new.                       *)
EXTENDS Naturals, Sequences

CONSTANTS
  Pages, Hosts, Flows,                                          \* of both, and of Files
  Patterns, Matches, Names, Ports, Domains, Addresses, ConfigFile,  \* of Settings
  MaxEdits   \* bound: steps of users and of the program's start

ASSUME ProgramAssumption ==
  /\ Matches \in [Patterns -> SUBSET Hosts]
  /\ ConfigFile \in [ignore : Seq(Hosts), port : Ports]
  /\ MaxEdits \in Nat

VARIABLES
  scope, scopeOn, cfg, proxy, certs, shown, dns, raced,         \* of Settings
  up, loaded, sessions, active, lastId, disk, rows, onPage,     \* of Files
  caFile, ca, serial, mixed, leaf,
  edits

S == INSTANCE Settings
F == INSTANCE Files

settingsVars == <<scope, scopeOn, cfg, proxy, certs, shown, dns, raced>>
filesVars == <<up, loaded, sessions, active, lastId, disk, rows, onPage, caFile, ca, serial, mixed, leaf>>
vars == <<settingsVars, filesVars, edits>>

Init == S!Init /\ F!Init

\* The program is started: it ends again at once when its CA cannot be loaded.
Start == F!Start /\ S!Restart

\* Settings are changed while the program runs; files while it runs or not.
ChangeSettings == up /\ S!Change /\ UNCHANGED filesVars
ChangeFiles    == F!Change /\ UNCHANGED settingsVars

Next == Start \/ ChangeSettings \/ ChangeFiles

Spec == Init /\ [][Next]_vars

-----------------------------------------------------------------------------
(* The properties of the parts, in the whole.                              *)
SessionsAreSaved   == F!SessionsAreSaved
LeavesVerify       == F!LeavesVerify
OverridesInForce   == S!OverridesInForce
ScopeShrinksByRule == S!ScopeShrinksByRule
RemovalNamesItsRow == S!RemovalNamesItsRow
=============================================================================

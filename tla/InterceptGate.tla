---------------------------- MODULE InterceptGate ----------------------------
(* What manual interception promises, without ids, events, pages or queues. *)
(* A request passes while the gate is off; while it is on it is held until  *)
(* a verdict is given for it or the gate is switched off, and it leaves     *)
(* with the verdict that stands when it leaves.                             *)

CONSTANT Requests

VARIABLES gate,     \* is the Intercept switch on?
          place,    \* where each request is
          verdict   \* the verdict standing for each held request

gateVars == <<gate, place, verdict>>

Verdicts == {"forward", "drop"}

GateTypeOK ==
    /\ gate \in BOOLEAN
    /\ place \in [Requests -> {"new", "waiting", "forwarded", "dropped"}]
    /\ verdict \in [Requests -> Verdicts \cup {"none"}]

GateInit ==
    /\ gate = FALSE
    /\ place = [r \in Requests |-> "new"]
    /\ verdict = [r \in Requests |-> "none"]

Pass(r) ==
    /\ place[r] = "new" /\ ~gate
    /\ place' = [place EXCEPT ![r] = "forwarded"]
    /\ UNCHANGED <<gate, verdict>>

Hold(r) ==
    /\ place[r] = "new" /\ gate
    /\ place' = [place EXCEPT ![r] = "waiting"]
    /\ UNCHANGED <<gate, verdict>>

\* A later verdict replaces an earlier one while the request has not left.
Decide(r, v) ==
    /\ place[r] = "waiting"
    /\ verdict' = [verdict EXCEPT ![r] = v]
    /\ UNCHANGED <<gate, place>>

SwitchOn ==
    /\ gate' = TRUE
    /\ UNCHANGED <<place, verdict>>

\* Switching off forwards everything that is held.
SwitchOff ==
    /\ gate' = FALSE
    /\ verdict' = [r \in Requests |-> IF place[r] = "waiting" THEN "forward" ELSE verdict[r]]
    /\ UNCHANGED place

Leave(r) ==
    /\ place[r] = "waiting" /\ verdict[r] # "none"
    /\ place' = [place EXCEPT ![r] = IF verdict[r] = "drop" THEN "dropped" ELSE "forwarded"]
    /\ UNCHANGED <<gate, verdict>>

GateNext ==
    \/ SwitchOn \/ SwitchOff
    \/ \E r \in Requests : Pass(r) \/ Hold(r) \/ Leave(r) \/ \E v \in Verdicts : Decide(r, v)

GateSpec == GateInit /\ [][GateNext]_gateVars
==============================================================================

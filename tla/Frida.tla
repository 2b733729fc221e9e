------------------------------- MODULE Frida --------------------------------
(* Frida injections: the FridaManager (frida/device.py), one for all tabs,   *)
(* and the page with its panels (ui/frida_tab.py), built anew with every     *)
(* visit.  inject() hands its work to a thread of the executor and awaits    *)
(* it, without a timeout; only then is the session put into the table that   *)
(* Detach looks into.                                                        *)
(*                                                                           *)
(* The panel of the request hooks has no actions: it injects what it has     *)
(* generated from the selected entry, and nothing ever selects one.          *)
EXTENDS Naturals, Sequences

CONSTANTS
  Pages,          \* browser tabs
  Targets,        \* pairs of a device and an application
  MaxInjections   \* bound: injections in a run of the model

VARIABLES
  tab,      \* tab[p]: the Frida page of browser tab p
  inj,      \* the injections, in the order in which they were asked for
  stored,   \* history: those that have been put into the table, in order
  table     \* FridaManager._sessions: target -> injection
fridaVars == <<tab, inj, stored, table>>

Panels   == {"bypass", "inject", "traffic"}
NoTarget == "None:None"
Injections == DOMAIN inj

\* The page as it is built: no target used yet, empty consoles, nothing generated.
Fresh(n, device) ==
  [open |-> TRUE, visit |-> n, device |-> device, last |-> NoTarget, generated |-> FALSE,
   console |-> [panel \in Panels |-> {}]]
Unbuilt == [Fresh(0, FALSE) EXCEPT !.open = FALSE]

Init ==
  /\ tab = [p \in Pages |-> Unbuilt]
  /\ inj = <<>> /\ stored = <<>>
  /\ table = [t \in {} |-> 0]

-----------------------------------------------------------------------------
(* The page                                                                *)

\* build_frida_tab(): the first device found, if there is one, is preselected.
Build(p) ==
  /\ \E device \in BOOLEAN : tab' = [tab EXCEPT ![p] = Fresh(@.visit + 1, device)]
  /\ UNCHANGED <<inj, stored, table>>

Leave(p) ==
  /\ tab' = [tab EXCEPT ![p].open = FALSE]
  /\ UNCHANGED <<inj, stored, table>>

\* _refresh_devices() with a device there.
RefreshDevices(p) ==
  /\ tab[p].open /\ ~tab[p].device
  /\ tab' = [tab EXCEPT ![p].device = TRUE]
  /\ UNCHANGED <<inj, stored, table>>

GenerateTraffic(p) ==
  /\ tab[p].open /\ ~tab[p].generated
  /\ tab' = [tab EXCEPT ![p].generated = TRUE]
  /\ UNCHANGED <<inj, stored, table>>

\* An injection of this panel is under way: its button is "loading".
Busy(p, panel) ==
  \E n \in Injections : /\ inj[n].by = p /\ inj[n].visit = tab[p].visit
                        /\ inj[n].panel = panel /\ inj[n].pc # "returned"

\* The Inject button of a panel.
StartInjection(p, panel, t) ==
  /\ tab[p].open /\ tab[p].device /\ ~Busy(p, panel)
  /\ Len(inj) < MaxInjections
  /\ tab' = [tab EXCEPT ![p].last = t, ![p].console[panel] = {}]
  /\ inj' = Append(inj, [by |-> p, visit |-> tab[p].visit, panel |-> panel, target |-> t,
                         pc |-> "attach", live |-> FALSE, script |-> FALSE, lost |-> "no"])
  /\ UNCHANGED <<stored, table>>

InjectBypass(p, t)  == StartInjection(p, "bypass", t)
InjectScript(p, t)  == StartInjection(p, "inject", t)
InjectTraffic(p, t) == tab[p].generated /\ StartInjection(p, "traffic", t)

-----------------------------------------------------------------------------
(* The thread: attach (between spawn and resume, perhaps), create_script,  *)
(* load.  Any of them may raise, which ends it, and none takes back what   *)
(* was done.  inj[n].lost names the call that made a live session one that *)
(* nobody can end: "resume" or "detach".                                   *)

At(n, where) == n \in Injections /\ inj[n].pc = where

\* Only two panels have the switch "Spawn".  When resume() raises, the session
\* is attached and has not been stored in the InjectionSession.
Attach(n) ==
  /\ At(n, "attach")
  /\ \/ inj' = [inj EXCEPT ![n].pc = "script", ![n].live = TRUE]
     \/ inj' = [inj EXCEPT ![n].pc = "ended"]
     \/ /\ inj[n].panel # "traffic"
        /\ inj' = [inj EXCEPT ![n].pc = "ended", ![n].live = TRUE, ![n].lost = "resume"]
  /\ UNCHANGED <<tab, stored, table>>

CreateScript(n) ==
  /\ At(n, "script")
  /\ \/ inj[n].live /\ inj' = [inj EXCEPT ![n].pc = "load", ![n].script = TRUE]
     \/ inj' = [inj EXCEPT ![n].pc = "ended"]
  /\ UNCHANGED <<tab, stored, table>>

LoadScript(n) ==
  /\ At(n, "load")
  /\ inj' = [inj EXCEPT ![n].pc = "ended"]
  /\ UNCHANGED <<tab, stored, table>>

\* Mutated: an injection that failed is not put into the table.
ReturnLoaded(n) ==
  /\ At(n, "ended")
  /\ inj' = [inj EXCEPT ![n].pc = "returned"]
  /\ IF inj[n].script
     THEN /\ stored' = Append(stored, n)
          /\ table' = [t \in DOMAIN table \cup {inj[n].target} |-> IF t = inj[n].target THEN n ELSE table[t]]
     ELSE UNCHANGED <<stored, table>>
  /\ UNCHANGED tab

\* inject() goes on, whether the thread failed or not: an older session of the
\* same target is replaced.
Return(n) ==
  /\ At(n, "ended")
  /\ inj' = [inj EXCEPT ![n].pc = "returned"]
  /\ stored' = Append(stored, n)
  /\ table' = [t \in DOMAIN table \cup {inj[n].target} |-> IF t = inj[n].target THEN n ELSE table[t]]
  /\ UNCHANGED tab

\* A script writes to the console of the panel that injected it, as long as
\* the page of that visit is there.
Log(n) ==
  /\ n \in Injections /\ inj[n].live /\ inj[n].script
  /\ LET p == inj[n].by IN
     /\ tab[p].open /\ tab[p].visit = inj[n].visit
     /\ n \notin tab[p].console[inj[n].panel]
     /\ tab' = [tab EXCEPT ![p].console[inj[n].panel] = @ \cup {n}]
  /\ UNCHANGED <<inj, stored, table>>

\* The application ends, with all that is attached to it.
TargetEnds(t) ==
  /\ \E n \in Injections : inj[n].target = t /\ inj[n].live
  /\ inj' = [n \in Injections |-> [inj[n] EXCEPT !.live = @ /\ inj[n].target # t]]
  /\ UNCHANGED <<tab, stored, table>>

\* Unload the script and detach the session.  Either may raise, before or
\* after the script is gone, which is swallowed and leaves the session; one
\* that was never stored is left as it is.
EndSession(n) ==
  \/ inj[n].lost # "resume" /\ inj' = [inj EXCEPT ![n].live = FALSE]
  \/ /\ inj[n].lost # "resume" /\ inj[n].live
     /\ \E kept \in {FALSE, inj[n].script} :
          inj' = [inj EXCEPT ![n].lost = "detach", ![n].script = kept]
  \/ inj[n].lost = "resume" /\ inj' = inj

\* The Detach buttons, of two panels, for the target any panel of this visit
\* used last: whatever became of its session, it leaves the table.
Detach(p) ==
  /\ tab[p].open /\ tab[p].last \in DOMAIN table
  /\ EndSession(table[tab[p].last])
  /\ table' = [t \in DOMAIN table \ {tab[p].last} |-> table[t]]
  /\ UNCHANGED <<tab, stored>>

Click ==
  \/ \E p \in Pages : RefreshDevices(p) \/ GenerateTraffic(p) \/ Detach(p)
  \/ \E p \in Pages, t \in Targets : InjectBypass(p, t) \/ InjectScript(p, t) \/ InjectTraffic(p, t)

Work ==
  \/ \E n \in Injections : Attach(n) \/ CreateScript(n) \/ LoadScript(n) \/ Return(n) \/ Log(n)
  \/ \E t \in Targets : TargetEnds(t)

-----------------------------------------------------------------------------
(* A session that is attached to an application, whether its script runs   *)
(* or not, can be found by Detach.  It cannot if its inject() has not       *)
(* returned, if another one was put into its place after it, if resume()    *)
(* raised once it was attached, or if a Detach that raised has tried to end *)
(* it: but for the first, it stays until the application ends.              *)
LiveIsListed ==
  \A n \in Injections : (inj[n].live /\ inj[n].pc = "returned") =>
    \/ inj[n].target \in DOMAIN table /\ table[inj[n].target] = n
    \/ \E i, j \in DOMAIN stored : i < j /\ stored[i] = n /\ inj[stored[j]].target = inj[n].target
    \/ inj[n].lost # "no"
=============================================================================

----------------------- MODULE InterceptManager_proofs -----------------------
(* Proofs about InterceptManager, for every set of requests and pages and   *)
(* every queue bound.                                                       *)
EXTENDS InterceptManager, TLAPS

\* Ids are handed out once: 0 stands for none yet, and no two requests
\* share another.
IdsUnique ==
    /\ \A r \in Requests : reqId[r] <= counter
    /\ \A r \in Requests : pc[r] = "new" => reqId[r] = 0
    /\ \A r \in Requests : pc[r] = "waiting" => reqId[r] # 0
    /\ \A r, t \in Requests : reqId[r] = reqId[t] /\ reqId[r] # 0 => r = t

\* A notification and a dialog are about a request that has an id.
ShownAreNumbered ==
    /\ \A p \in Pages : \A r \in dialogs[p] : reqId[r] # 0
    /\ \A p \in Pages : \A k \in 1..Len(queue[p]) : reqId[queue[p][k]] # 0

\* The inductive invariant: the checked invariants lean on the uniqueness of
\* ids, because a dialog reaches its request by id only.
IInv ==
    /\ TypeOK
    /\ IdsUnique
    /\ ShownAreNumbered
    /\ PendingIsWaiting
    /\ NoneStrandedWhenOff
    /\ OwnContent

\* A click in a dialog for r reaches r or nothing.
LEMMA ClickReachesOwnRequest ==
    ASSUME TypeOK, IdsUnique, ShownAreNumbered, PendingIsWaiting,
           NEW p \in Pages, NEW r \in dialogs[p]
    PROVE  /\ r \in Requests
           /\ Target(reqId[r]) \subseteq {r}
           /\ \A t \in Target(reqId[r]) : pc[t] = "waiting"
  BY DEF TypeOK, IdsUnique, ShownAreNumbered, PendingIsWaiting, Target

\* What is registered is what waits.
LEMMA RegisteredIsWaiting ==
    ASSUME TypeOK, PendingIsWaiting
    PROVE  Registered = {r \in Requests : pc[r] = "waiting"}
  BY DEF TypeOK, PendingIsWaiting, Registered

LEMMA InitIInv == Init => IInv
<1> SUFFICES ASSUME Init PROVE IInv
  OBVIOUS
<1> USE DEF Init
<1>1. TypeOK
  <2>1. DOMAIN pending = {} /\ pending = [i \in DOMAIN pending |-> pending[i]]
    OBVIOUS
  <2>2. edited \in [Requests -> Content]
    BY DEF Original, Content
  <2>3. queue \in [Pages -> Seq(Requests)]
    OBVIOUS
  <2> QED BY <2>1, <2>2, <2>3 DEF TypeOK
<1>2. IdsUnique /\ PendingIsWaiting /\ NoneStrandedWhenOff
  BY DEF IdsUnique, PendingIsWaiting, NoneStrandedWhenOff
<1>3. ShownAreNumbered
  <2>1. \A p \in Pages : dialogs[p] = {} /\ Len(queue[p]) = 0
    OBVIOUS
  <2> QED BY <2>1 DEF ShownAreNumbered
<1>4. OwnContent
  BY DEF OwnContent, Original
<1> QED BY <1>1, <1>2, <1>3, <1>4 DEF IInv

LEMMA StepType ==
    ASSUME TypeOK, [Next]_vars
    PROVE  TypeOK'
<1> USE DEF TypeOK, reqVars, pageVars
<1>1. CASE Switch
  BY <1>1 DEF Switch, Enable, Disable
<1>2. ASSUME NEW r \in Requests, Task(r) PROVE TypeOK'
  <2>1. CASE InterceptPass(r)
    BY <2>1 DEF InterceptPass
  <2>2. CASE InterceptHold(r)
    BY <2>2 DEF InterceptHold, NextId, Notify
  <2>3. CASE Resume(r)
    BY <2>3 DEF Resume
  <2> QED BY <1>2, <2>1, <2>2, <2>3 DEF Task
<1>3. ASSUME NEW p \in Pages, Poll(p) PROVE TypeOK'
  BY <1>3 DEF Poll
<1>11. ASSUME NEW p \in Pages, PollFails(p) PROVE TypeOK'
  BY <1>11 DEF PollFails
<1>4. ASSUME NEW p \in Pages, CancelPoller(p) PROVE TypeOK'
  BY <1>4 DEF CancelPoller
<1>5. ASSUME NEW p \in Pages, OpenPage(p) PROVE TypeOK'
  BY <1>5 DEF OpenPage
<1>6. ASSUME NEW p \in Pages, ClosePage(p) PROVE TypeOK'
  BY <1>6 DEF ClosePage
<1>7. ASSUME NEW p \in Pages, NEW r \in Requests, ClickDrop(p, r) PROVE TypeOK'
  BY <1>7 DEF ClickDrop, Drop, CloseDialog
<1>8. ASSUME NEW p \in Pages, NEW r \in Requests, Dismiss(p, r) PROVE TypeOK'
  BY <1>8 DEF Dismiss, CloseDialog
<1>9. ASSUME NEW p \in Pages, NEW r \in Requests, NEW retyped \in BOOLEAN,
             ClickForward(p, r, retyped)
      PROVE  TypeOK'
  BY <1>9 DEF ClickForward, Forward, CloseDialog, ReadBack, Content
<1>10. CASE UNCHANGED vars
  BY <1>10 DEF vars
<1> QED BY <1>1, <1>2, <1>3, <1>4, <1>5, <1>6, <1>7, <1>8, <1>9, <1>10, <1>11 DEF Next, User

\* The steps that change neither ids, nor what waits, nor what is shown.
LEMMA StepQuiet ==
    ASSUME IInv, TypeOK',
           UNCHANGED <<counter, pending, reqId, pc, queue, event, enabled, edited>>,
           \A p \in Pages : dialogs'[p] \subseteq dialogs[p]
    PROVE  IInv'
  BY DEF IInv, IdsUnique, ShownAreNumbered, PendingIsWaiting, NoneStrandedWhenOff, OwnContent

\* A step in which a dialog, or the switch, decides for waiting requests.
LEMMA StepDecide ==
    ASSUME IInv, TypeOK',
           UNCHANGED <<counter, pending, reqId, pc, queue>>,
           \A p \in Pages : dialogs'[p] \subseteq dialogs[p],
           \A r \in Requests : event[r] => event'[r],
           ~enabled' => ~enabled \/ \A r \in Requests : pc[r] = "waiting" => event'[r],
           \A r \in Requests : edited'[r].from = r
    PROVE  IInv'
  BY DEF IInv, IdsUnique, ShownAreNumbered, PendingIsWaiting, NoneStrandedWhenOff, OwnContent

LEMMA StepHold ==
    ASSUME IInv, TypeOK', NEW r \in Requests, InterceptHold(r)
    PROVE  IInv'
<1> USE DEF InterceptHold, NextId, reqVars, pageVars
<1>1. /\ pc[r] = "new" /\ reqId[r] = 0 /\ NextId \in Nat \ {0}
      /\ reqId'[r] = NextId /\ pc'[r] = "waiting"
      /\ \A t \in Requests \ {r} : reqId'[t] = reqId[t] /\ pc'[t] = pc[t] /\ reqId[t] < NextId
  BY DEF IInv, TypeOK, IdsUnique
<1>2. IdsUnique'
  BY <1>1 DEF IInv, TypeOK, IdsUnique
<1>3. \A t \in Requests : reqId[t] # 0 => reqId'[t] # 0
  BY <1>1 DEF TypeOK
<1>4. ShownAreNumbered'
  <2>1. ASSUME NEW p \in Pages, NEW t \in dialogs'[p] PROVE reqId'[t] # 0
    BY <2>1, <1>3 DEF IInv, ShownAreNumbered, TypeOK
  <2>2. ASSUME NEW p \in Pages, NEW k \in 1..Len(queue'[p]) PROVE reqId'[queue'[p][k]] # 0
    <3>1. CASE queue'[p] = queue[p]
      BY <3>1, <1>3 DEF IInv, ShownAreNumbered, TypeOK
    <3>2. CASE queue'[p] = Append(queue[p], r)
      <4>1. queue[p] \in Seq(Requests)
        BY DEF IInv, TypeOK
      <4>2. CASE k = Len(queue[p]) + 1
        <5>1. Append(queue[p], r)[k] = r
          BY <4>1, <4>2
        <5>2. queue'[p][k] = r
          BY <5>1, <3>2, Zenon
        <5> QED BY <5>2, <1>1
      <4>3. CASE k \in 1..Len(queue[p])
        BY <4>1, <4>3, <3>2, <1>3 DEF IInv, ShownAreNumbered
      <4> QED BY <4>1, <4>2, <4>3, <3>2
    <3> QED BY <3>1, <3>2 DEF Notify, IInv, TypeOK
  <2> QED BY <2>1, <2>2 DEF ShownAreNumbered
<1>5. PendingIsWaiting'
  <2>1. \A i \in DOMAIN pending : i # NextId /\ pending[i] # r /\ pending[i] \in Requests
    BY <1>1 DEF IInv, TypeOK, PendingIsWaiting
  <2>2. /\ DOMAIN pending' = DOMAIN pending \cup {NextId}
        /\ pending'[NextId] = r
        /\ \A i \in DOMAIN pending : pending'[i] = pending[i]
    BY <2>1
  <2> QED BY <1>1, <2>1, <2>2 DEF IInv, PendingIsWaiting
<1>6. NoneStrandedWhenOff' /\ OwnContent'
  BY DEF IInv, NoneStrandedWhenOff, OwnContent
<1> QED BY <1>2, <1>4, <1>5, <1>6 DEF IInv

LEMMA StepResume ==
    ASSUME IInv, TypeOK', NEW r \in Requests, Resume(r)
    PROVE  IInv'
<1> USE DEF Resume, reqVars, pageVars
<1>1. /\ pc[r] = "waiting" /\ pc'[r] \in {"forwarded", "dropped"}
      /\ \A t \in Requests \ {r} : pc'[t] = pc[t]
  BY DEF IInv, TypeOK
<1>2. IdsUnique' /\ ShownAreNumbered' /\ OwnContent' /\ NoneStrandedWhenOff'
  BY <1>1 DEF IInv, IdsUnique, ShownAreNumbered, OwnContent, NoneStrandedWhenOff
<1>3. PendingIsWaiting'
  <2>1. \A i \in DOMAIN pending' : i \in DOMAIN pending /\ pending'[i] = pending[i] /\ i # reqId[r]
    OBVIOUS
  <2>2. \A t \in Requests \ {r} : pc[t] = "waiting" => reqId[t] # reqId[r]
    BY DEF IInv, IdsUnique
  <2> QED BY <1>1, <2>1, <2>2 DEF IInv, PendingIsWaiting, TypeOK
<1> QED BY <1>2, <1>3 DEF IInv

LEMMA StepPoll ==
    ASSUME IInv, TypeOK', NEW p \in Pages, Poll(p) \/ PollFails(p)
    PROVE  IInv'
<1>0. /\ queue' = [queue EXCEPT ![p] = Tail(queue[p])]
      /\ reqId' = reqId /\ queue[p] # <<>>
      /\ \A q \in Pages : dialogs'[q] \subseteq dialogs[q] \cup {Head(queue[p])}
  BY DEF Poll, PollFails, reqVars, IInv, TypeOK
<1>1. IdsUnique' /\ PendingIsWaiting' /\ NoneStrandedWhenOff' /\ OwnContent'
  BY DEF Poll, PollFails, reqVars, IInv, IdsUnique, PendingIsWaiting, NoneStrandedWhenOff, OwnContent
<1>2. queue[p] \in Seq(Requests) /\ queue[p] # <<>> /\ Len(queue[p]) \in Nat \ {0}
  BY <1>0 DEF IInv, TypeOK
<1>3. \A k \in 1..Len(Tail(queue[p])) : Tail(queue[p])[k] = queue[p][k+1] /\ k+1 \in 1..Len(queue[p])
  BY <1>2
<1>4. reqId[Head(queue[p])] # 0
  BY <1>2 DEF IInv, ShownAreNumbered
<1>5. \A q \in Pages : \A t \in dialogs'[q] : reqId'[t] # 0
  BY <1>0, <1>4 DEF IInv, ShownAreNumbered
<1>6. \A q \in Pages : \A k \in 1..Len(queue'[q]) : reqId'[queue'[q][k]] # 0
  BY <1>0, <1>3 DEF IInv, TypeOK, ShownAreNumbered
<1> QED BY <1>1, <1>5, <1>6 DEF IInv, ShownAreNumbered

LEMMA StepIInv ==
    ASSUME IInv, [Next]_vars
    PROVE  IInv'
<1>0. TypeOK /\ TypeOK'
  BY StepType DEF IInv
<1> USE DEF reqVars, pageVars
<1>1. CASE Switch /\ Enable
  BY <1>0, <1>1, StepDecide DEF Enable, IInv, OwnContent
<1>2. CASE Switch /\ Disable
  <2>1. \A r \in Requests : pc[r] = "waiting" => event'[r]
    BY <1>2, <1>0, RegisteredIsWaiting DEF Disable, IInv
  <2> QED BY <2>1, <1>0, <1>2, StepDecide DEF Disable, IInv, OwnContent
<1>3. ASSUME NEW r \in Requests, InterceptPass(r) PROVE IInv'
  BY <1>0, <1>3 DEF InterceptPass, IInv, TypeOK, IdsUnique, ShownAreNumbered,
                    PendingIsWaiting, NoneStrandedWhenOff, OwnContent
<1>4. ASSUME NEW r \in Requests, InterceptHold(r) \/ Resume(r) PROVE IInv'
  BY <1>0, <1>4, StepHold, StepResume
<1>5. ASSUME NEW p \in Pages, Poll(p) \/ PollFails(p) PROVE IInv'
  BY <1>0, <1>5, StepPoll
<1>6. ASSUME NEW p \in Pages, OpenPage(p) \/ ClosePage(p) \/ CancelPoller(p) PROVE IInv'
  <2>1. \A q \in Pages : dialogs'[q] \subseteq dialogs[q]
    BY <1>0, <1>6 DEF OpenPage, ClosePage, CancelPoller, TypeOK
  <2> QED BY <2>1, <1>0, <1>6, StepQuiet DEF OpenPage, ClosePage, CancelPoller
<1>7. ASSUME NEW p \in Pages, NEW r \in Requests, Dismiss(p, r) PROVE IInv'
  <2>1. \A q \in Pages : dialogs'[q] \subseteq dialogs[q]
    BY <1>0, <1>7 DEF Dismiss, CloseDialog, TypeOK
  <2> QED BY <2>1, <1>0, <1>7, StepQuiet DEF Dismiss
<1>8. ASSUME NEW p \in Pages, NEW r \in Requests, ClickDrop(p, r) PROVE IInv'
  <2>1. \A q \in Pages : dialogs'[q] \subseteq dialogs[q]
    BY <1>0, <1>8 DEF ClickDrop, CloseDialog, TypeOK
  <2>2. \A t \in Requests : event[t] => event'[t]
    BY <1>8 DEF ClickDrop, Drop
  <2> QED BY <2>1, <2>2, <1>0, <1>8, StepDecide DEF ClickDrop, Drop, IInv, OwnContent
<1>9. ASSUME NEW p \in Pages, NEW r \in Requests, NEW retyped \in BOOLEAN,
             ClickForward(p, r, retyped)
      PROVE  IInv'
  <2>1. \A q \in Pages : dialogs'[q] \subseteq dialogs[q]
    BY <1>0, <1>9 DEF ClickForward, CloseDialog, TypeOK
  <2>2. \A t \in Requests : event[t] => event'[t]
    BY <1>9 DEF ClickForward, Forward
  <2>3. Target(reqId[r]) \subseteq {r}
    BY <1>9, <1>0, ClickReachesOwnRequest DEF ClickForward, IInv
  <2>4. \A t \in Requests : edited'[t].from = t
    BY <2>3, <1>9 DEF ClickForward, Forward, ReadBack, IInv, OwnContent
  <2> QED BY <2>1, <2>2, <2>4, <1>0, <1>9, StepDecide DEF ClickForward, IInv
<1>10. CASE UNCHANGED vars
  <2>1. \A p \in Pages : dialogs'[p] \subseteq dialogs[p]
    BY <1>10 DEF vars
  <2> QED BY <2>1, <1>0, <1>10, StepQuiet DEF vars
<1> QED BY <1>1, <1>2, <1>3, <1>4, <1>5, <1>6, <1>7, <1>8, <1>9, <1>10
        DEF Next, User, Task, Switch

\* The manager keeps its types and the checked invariants, for every set of
\* tasks and tabs: intercept(), forward(), drop() and set_enabled().
THEOREM Invariance == Spec => []IInv
<1>1. IInv /\ [Next]_vars => IInv'
  BY StepIInv
<1> QED BY InitIInv, <1>1, PTL DEF Spec

\* Every variable of the manager and of the pages keeps its type.
THEOREM TypeCorrect == Spec => []TypeOK
<1>1. IInv => TypeOK
  BY DEF IInv
<1> QED BY Invariance, <1>1, PTL

\* _pending holds exactly the paused tasks, each under its own id.
THEOREM PendingExact == Spec => []PendingIsWaiting
<1>1. IInv => PendingIsWaiting
  BY DEF IInv
<1> QED BY Invariance, <1>1, PTL

\* set_enabled(False) strands no task in event.wait().
THEOREM NoneStranded == Spec => []NoneStrandedWhenOff
<1>1. IInv => NoneStrandedWhenOff
  BY DEF IInv
<1> QED BY Invariance, <1>1, PTL

\* forward() gives an edit only to the request it was typed for.
THEOREM NoCrossTalk == Spec => []OwnContent
<1>1. IInv => OwnContent
  BY DEF IInv
<1> QED BY Invariance, <1>1, PTL

\* What intercept() returned is never changed by a later click.
THEOREM ReturnedStays == Spec => ReturnedIsFinal
<1>1. ASSUME IInv, [Next]_vars, NEW r \in Requests, pc[r] \in {"forwarded", "dropped"}
      PROVE  pc'[r] = pc[r] /\ edited'[r] = edited[r]
  <2> USE <1>1 DEF IInv, TypeOK, reqVars, pageVars
  <2>1. CASE Switch
    BY <2>1 DEF Switch, Enable, Disable
  <2>2. ASSUME NEW t \in Requests, Task(t) PROVE pc'[r] = pc[r] /\ edited'[r] = edited[r]
    BY <2>2 DEF Task, InterceptPass, InterceptHold, Resume
  <2>3. ASSUME NEW p \in Pages, Poll(p) \/ PollFails(p) \/ CancelPoller(p) \/ OpenPage(p) \/ ClosePage(p)
        PROVE  pc'[r] = pc[r] /\ edited'[r] = edited[r]
    BY <2>3 DEF Poll, PollFails, CancelPoller, OpenPage, ClosePage
  <2>4. ASSUME NEW p \in Pages, NEW t \in Requests, ClickDrop(p, t) \/ Dismiss(p, t)
        PROVE  pc'[r] = pc[r] /\ edited'[r] = edited[r]
    BY <2>4 DEF ClickDrop, Drop, Dismiss
  <2>5. ASSUME NEW p \in Pages, NEW t \in Requests, NEW retyped \in BOOLEAN,
               ClickForward(p, t, retyped)
        PROVE  pc'[r] = pc[r] /\ edited'[r] = edited[r]
    <3>1. r \notin Target(reqId[t])
      BY <2>5, ClickReachesOwnRequest DEF ClickForward
    <3> QED BY <3>1, <2>5 DEF ClickForward, Forward
  <2>6. CASE UNCHANGED vars
    BY <2>6 DEF vars
  <2> QED BY <2>1, <2>2, <2>3, <2>4, <2>5, <2>6 DEF Next, User
<1>2. IInv /\ [Next]_vars =>
        [\A r \in Requests : pc[r] \in {"forwarded", "dropped"} =>
           pc'[r] = pc[r] /\ edited'[r] = edited[r]]_vars
  BY <1>1
<1> QED BY Invariance, <1>2, PTL DEF Spec, ReturnedIsFinal

\* Only the switch, or a click in the request's own dialog, turns a drop
\* that stands into a forward.
THEOREM DropsStand == Spec => DropStands
<1>1. ASSUME IInv, [Next]_vars, NEW r \in Requests,
             pc[r] = "waiting", decision[r] = "drop", decision'[r] # "drop", enabled'
      PROVE  \E p \in Pages : r \in dialogs[p] /\ r \notin dialogs'[p]
  <2> USE <1>1 DEF IInv, TypeOK, reqVars, pageVars
  <2>1. ~Switch
    BY DEF Switch, Enable, Disable
  <2>2. \A t \in Requests : ~Task(t)
    BY DEF Task, InterceptPass, InterceptHold, Resume
  <2>3. \A p \in Pages : ~(Poll(p) \/ PollFails(p) \/ CancelPoller(p) \/ OpenPage(p) \/ ClosePage(p))
    BY DEF Poll, PollFails, CancelPoller, OpenPage, ClosePage
  <2>4. \A p \in Pages, t \in Requests : ~Dismiss(p, t) /\ ~ClickDrop(p, t)
    BY DEF Dismiss, ClickDrop, Drop
  <2>5. ~UNCHANGED vars
    BY DEF vars
  <2>6. PICK p \in Pages, t \in Requests, retyped \in BOOLEAN : ClickForward(p, t, retyped)
    BY <2>1, <2>2, <2>3, <2>4, <2>5 DEF Next, User
  <2>7. Target(reqId[t]) \subseteq {t}
    BY <2>6, ClickReachesOwnRequest DEF ClickForward
  <2>8. r = t
    BY <2>6, <2>7 DEF ClickForward, Forward
  <2> QED BY <2>6, <2>8 DEF ClickForward, CloseDialog
<1>2. IInv /\ [Next]_vars =>
        [\A r \in Requests :
           (pc[r] = "waiting" /\ event[r] /\ decision[r] = "drop" /\ decision'[r] # "drop")
             => (~enabled' \/ \E p \in Pages : r \in dialogs[p] /\ r \notin dialogs'[p])]_vars
  BY <1>1
<1> QED BY Invariance, <1>2, PTL DEF Spec, DropStands

\* The manager implements InterceptGate: a decision reaches the one request
\* it is for, and set_enabled(False) reaches every request that waits.
THEOREM Refinement == Spec => ImplementsGate
<1> DEFINE verdictBar == [r \in Requests |-> IF event[r] THEN decision[r] ELSE "none"]
<1>1. Init => Gate!GateInit
  BY DEF Init, Gate!GateInit
<1>2. ASSUME IInv, [Next]_vars PROVE [Gate!GateNext]_(Gate!gateVars)
  <2> USE <1>2 DEF IInv, TypeOK, reqVars, pageVars, Gate!gateVars
  <2>1. CASE Enable
    BY <2>1 DEF Enable, Gate!SwitchOn, Gate!GateNext
  <2>2. CASE Disable
    <3>1. verdictBar' = [r \in Requests |-> IF pc[r] = "waiting" THEN "forward" ELSE verdictBar[r]]
      BY <2>2, RegisteredIsWaiting DEF Disable
    <3> QED BY <2>2, <3>1 DEF Disable, Gate!SwitchOff, Gate!GateNext
  <2>3. ASSUME NEW r \in Requests, InterceptPass(r) PROVE Gate!Pass(r)
    BY <2>3 DEF InterceptPass, Gate!Pass
  <2>4. ASSUME NEW r \in Requests, InterceptHold(r) PROVE Gate!Hold(r)
    BY <2>4 DEF InterceptHold, Gate!Hold
  <2>5. ASSUME NEW r \in Requests, Resume(r) PROVE Gate!Leave(r)
    BY <2>5 DEF Resume, Gate!Leave
  <2>6. ASSUME NEW p \in Pages, OpenPage(p) \/ ClosePage(p) \/ CancelPoller(p) \/ Poll(p) \/ PollFails(p)
        PROVE  UNCHANGED Gate!gateVars
    BY <2>6 DEF OpenPage, ClosePage, CancelPoller, Poll, PollFails
  <2>7. ASSUME NEW p \in Pages, NEW r \in Requests, Dismiss(p, r)
        PROVE  UNCHANGED Gate!gateVars
    BY <2>7 DEF Dismiss
  <2>8. ASSUME NEW p \in Pages, NEW r \in Requests,
               ClickDrop(p, r) \/ \E retyped \in BOOLEAN : ClickForward(p, r, retyped)
        PROVE  UNCHANGED Gate!gateVars \/ \E t \in Requests, v \in Gate!Verdicts : Gate!Decide(t, v)
    <3>1. /\ r \in Requests
          /\ Target(reqId[r]) = {} \/ (Target(reqId[r]) = {r} /\ pc[r] = "waiting")
      <4>1. r \in dialogs[p]
        BY <2>8 DEF ClickDrop, ClickForward
      <4>2. Target(reqId[r]) \subseteq {r} /\ \A t \in Target(reqId[r]) : pc[t] = "waiting"
        BY <4>1, ClickReachesOwnRequest, Zenon
      <4> QED BY <4>2
    <3>2. CASE Target(reqId[r]) = {}
      BY <2>8, <3>2 DEF ClickDrop, ClickForward, Drop, Forward
    <3>3. CASE Target(reqId[r]) = {r} /\ pc[r] = "waiting" /\ ClickDrop(p, r)
      <4>1. verdictBar' = [verdictBar EXCEPT ![r] = "drop"]
        <5>1. decision' = [t \in Requests |-> IF t = r THEN "drop" ELSE decision[t]]
          BY <3>3 DEF ClickDrop, Drop
        <5>2. event' = [t \in Requests |-> t = r \/ event[t]]
          BY <3>3 DEF ClickDrop, Drop
        <5> QED
          BY <5>1, <5>2
      <4> QED BY <3>3, <4>1 DEF ClickDrop, Gate!Decide, Gate!Verdicts
    <3>4. CASE Target(reqId[r]) = {r} /\ pc[r] = "waiting"
                 /\ \E retyped \in BOOLEAN : ClickForward(p, r, retyped)
      <4>1. verdictBar' = [verdictBar EXCEPT ![r] = "forward"]
        <5>1. decision' = [t \in Requests |-> IF t = r THEN "forward" ELSE decision[t]]
          BY <3>4 DEF ClickForward, Forward
        <5>2. event' = [t \in Requests |-> t = r \/ event[t]]
          BY <3>4 DEF ClickForward, Forward
        <5> QED
          BY <5>1, <5>2
      <4> QED BY <3>4, <4>1 DEF ClickForward, Gate!Decide, Gate!Verdicts
    <3> QED BY <2>8, <3>1, <3>2, <3>3, <3>4
  <2>9. CASE UNCHANGED vars
    BY <2>9 DEF vars
  <2> QED BY <2>1, <2>2, <2>3, <2>4, <2>5, <2>6, <2>7, <2>8, <2>9
          DEF Next, User, Task, Switch, Gate!GateNext
<1>3. IInv /\ [Next]_vars => [Gate!GateNext]_(Gate!gateVars)
  BY <1>2
<1> QED BY <1>1, <1>3, Invariance, PTL DEF Spec, ImplementsGate, Gate!GateSpec
==============================================================================

--------------------------- MODULE InterceptManager ---------------------------
(* pypproxy/intercept/manager.py and its only user interface,               *)
(* pypproxy/ui/intercept_dialog.py.                                          *)
(*                                                                           *)
(* Everything runs on one event loop, so a step of the model is what a       *)
(* coroutine or a callback does between two suspensions.  The two            *)
(* `async with self._lock` blocks of intercept() never wait: no holder of    *)
(* the lock suspends.  The only suspension of intercept() is event.wait().   *)
EXTENDS Naturals, Sequences, FiniteSets

CONSTANTS Requests,   \* handler tasks; each calls intercept() once
          Pages,      \* browser tabs; each subscribes one queue
          QueueCap,   \* QueueCap[p]: maxsize of the queue of page p (64 for all in the code)
          Binary      \* the requests whose body is not valid UTF-8

ASSUME InterceptAssumption == QueueCap \in [Pages -> Nat \ {0}] /\ Binary \subseteq Requests

VARIABLES enabled,      \* _enabled
          counter,      \* _counter
          pending,      \* _pending: id -> request
          subscribers,  \* _subscribers (the pages that own the queues)
          reqId,        \* PendingRequest.id, 0 before the object exists
          event,        \* PendingRequest._event
          decision,     \* PendingRequest._decision
          edited,       \* PendingRequest.edited_headers and edited_body
          pc,           \* where the task that called intercept() is
          page,         \* the browser tab: unopened, open, closed
          polling,      \* the pages whose poller runs
          queue,        \* the queue each page subscribed
          dialogs       \* the dialogs a page shows

reqVars  == <<reqId, event, decision, edited>>
pageVars == <<page, polling, dialogs>>
vars == <<enabled, counter, pending, subscribers, reqId, event, decision,
          edited, pc, page, polling, queue, dialogs>>

\* Headers and body as one value: the request it was typed for, and what
\* became of it.  "mangled": the body went through decode(errors="replace")
\* and encode() without being edited.
Content == [from : Requests, form : {"original", "mangled", "retyped"}]
Original(r) == [from |-> r, form |-> "original"]

\* What the dialog's two text areas hold for r when they are read back.
ReadBack(r, retyped) ==
    [from |-> r,
     form |-> IF retyped THEN "retyped" ELSE IF r \in Binary THEN "mangled" ELSE "original"]

TypeOK ==
    /\ enabled \in BOOLEAN
    /\ counter \in Nat
    /\ DOMAIN pending \subseteq Nat
    /\ \A i \in DOMAIN pending : pending[i] \in Requests
    /\ pending = [i \in DOMAIN pending |-> pending[i]]
    /\ subscribers \subseteq Pages /\ polling \subseteq Pages
    /\ reqId \in [Requests -> Nat]
    /\ event \in [Requests -> BOOLEAN]
    /\ decision \in [Requests -> {"forward", "drop"}]
    /\ edited \in [Requests -> Content]
    /\ pc \in [Requests -> {"new", "waiting", "forwarded", "dropped"}]
    /\ page \in [Pages -> {"unopened", "open", "closed"}]
    /\ queue \in [Pages -> Seq(Requests)]
    /\ dialogs \in [Pages -> SUBSET Requests]

Init ==
    /\ enabled = FALSE
    /\ counter = 0
    /\ pending = [i \in {} |-> i]
    /\ subscribers = {} /\ polling = {}
    /\ reqId = [r \in Requests |-> 0]
    /\ event = [r \in Requests |-> FALSE]
    /\ decision = [r \in Requests |-> "forward"]
    /\ edited = [r \in Requests |-> Original(r)]
    /\ pc = [r \in Requests |-> "new"]
    /\ page = [p \in Pages |-> "unopened"]
    /\ queue = [p \in Pages |-> <<>>]
    /\ dialogs = [p \in Pages |-> {}]

-------------------------------------------------------------------------------
(* The manager *)

\* put_nowait on every subscriber, a full queue loses the notification.
Notify(r) ==
    queue' = [p \in Pages |->
                IF p \in subscribers /\ Len(queue[p]) < QueueCap[p]
                  THEN Append(queue[p], r) ELSE queue[p]]

\* intercept(), interception off: return the original at once.
InterceptPass(r) ==
    /\ pc[r] = "new"
    /\ ~enabled
    /\ pc' = [pc EXCEPT ![r] = "forwarded"]
    /\ UNCHANGED <<enabled, counter, pending, subscribers, reqVars, pageVars, queue>>

\* Mutated: ids are the number of pending requests, so they are reused.
NextIdFromLength == Cardinality(DOMAIN pending) + 1

\* intercept(), interception on: number, register, notify, wait.
NextId == counter + 1

InterceptHold(r) ==
    /\ pc[r] = "new"
    /\ enabled
    /\ counter' = counter + 1
    /\ reqId' = [reqId EXCEPT ![r] = NextId]
    /\ pending' = [i \in DOMAIN pending \cup {NextId} |-> IF i = NextId THEN r ELSE pending[i]]
    /\ Notify(r)
    /\ pc' = [pc EXCEPT ![r] = "waiting"]
    /\ UNCHANGED <<enabled, subscribers, event, decision, edited, pageVars>>

\* Mutated: the entry of _pending stays behind.
ResumeWithoutPop(r) ==
    /\ pc[r] = "waiting"
    /\ event[r]
    /\ pc' = [pc EXCEPT ![r] = IF decision[r] = "drop" THEN "dropped" ELSE "forwarded"]
    /\ UNCHANGED <<enabled, counter, pending, subscribers, reqVars, pageVars, queue>>

\* Mutated: the wait gives up before anyone decided.
ResumeOnTimeout(r) ==
    /\ pc[r] = "waiting"
    /\ pending' = [i \in DOMAIN pending \ {reqId[r]} |-> pending[i]]
    /\ pc' = [pc EXCEPT ![r] = IF decision[r] = "drop" THEN "dropped" ELSE "forwarded"]
    /\ UNCHANGED <<enabled, counter, subscribers, reqVars, pageVars, queue>>

\* intercept(), after event.wait(): leave _pending, return the outcome.
Resume(r) ==
    /\ pc[r] = "waiting"
    /\ event[r]
    /\ pending' = [i \in DOMAIN pending \ {reqId[r]} |-> pending[i]]
    /\ pc' = [pc EXCEPT ![r] = IF decision[r] = "drop" THEN "dropped" ELSE "forwarded"]
    /\ UNCHANGED <<enabled, counter, subscribers, reqVars, pageVars, queue>>

\* _pending.get(id): the requests a decision on this id reaches, none or one.
Target(id) == {t \in Requests : id \in DOMAIN pending /\ pending[id] = t}

\* forward(id, headers, body)
Forward(id, content) ==
    /\ edited' = [t \in Requests |-> IF t \in Target(id) THEN content ELSE edited[t]]
    /\ decision' = [t \in Requests |-> IF t \in Target(id) THEN "forward" ELSE decision[t]]
    /\ event' = [t \in Requests |-> t \in Target(id) \/ event[t]]

\* drop(id)
Drop(id) ==
    /\ decision' = [t \in Requests |-> IF t \in Target(id) THEN "drop" ELSE decision[t]]
    /\ event' = [t \in Requests |-> t \in Target(id) \/ event[t]]
    /\ UNCHANGED edited

\* The requests registered in _pending.
Registered == {pending[i] : i \in DOMAIN pending}

\* set_enabled(True)
Enable ==
    /\ enabled' = TRUE
    /\ UNCHANGED <<counter, pending, subscribers, reqVars, pc, pageVars, queue>>

\* Mutated: the decision is set, the event is not.
DisableWithoutWaking ==
    /\ enabled' = FALSE
    /\ decision' = [r \in Requests |-> IF r \in Registered THEN "forward" ELSE decision[r]]
    /\ UNCHANGED <<counter, pending, subscribers, reqId, event, edited, pc, pageVars, queue>>

\* set_enabled(False) releases all pending requests.
Disable ==
    /\ enabled' = FALSE
    /\ decision' = [r \in Requests |-> IF r \in Registered THEN "forward" ELSE decision[r]]
    /\ event' = [r \in Requests |-> r \in Registered \/ event[r]]
    /\ UNCHANGED <<counter, pending, subscribers, reqId, edited, pc, pageVars, queue>>

-------------------------------------------------------------------------------
(* The pages *)

\* build_intercept_panel(): a page subscribes when it is built and does not
\* look at list_pending().
OpenPage(p) ==
    /\ page[p] = "unopened"
    /\ page' = [page EXCEPT ![p] = "open"]
    /\ subscribers' = subscribers \cup {p}
    /\ polling' = polling \cup {p}
    /\ UNCHANGED <<enabled, counter, pending, reqVars, pc, queue, dialogs>>

\* The tab goes away with its dialogs; nothing in the code cancels its poller.
ClosePage(p) ==
    /\ page[p] = "open"
    /\ page' = [page EXCEPT ![p] = "closed"]
    /\ dialogs' = [dialogs EXCEPT ![p] = {}]
    /\ UNCHANGED <<enabled, counter, pending, subscribers, reqVars, pc, polling, queue>>

\* The poller's CancelledError handler: unsubscribe.
CancelPoller(p) ==
    /\ page[p] = "closed"
    /\ p \in polling
    /\ polling' = polling \ {p}
    /\ subscribers' = subscribers \ {p}
    /\ UNCHANGED <<enabled, counter, pending, reqVars, pc, page, queue, dialogs>>

\* Mutated: the next dialog is shown when the last one is closed.
PollOneAtATime(p) ==
    /\ p \in polling
    /\ queue[p] # <<>> /\ dialogs[p] = {}
    /\ queue' = [queue EXCEPT ![p] = Tail(@)]
    /\ dialogs' = [dialogs EXCEPT ![p] = IF page[p] = "open" THEN @ \cup {Head(queue[p])} ELSE @]
    /\ UNCHANGED <<enabled, counter, pending, subscribers, reqVars, pc, page, polling>>

\* One turn of the poller: at most one notification becomes a dialog, which
\* nobody sees once the tab is closed.
Poll(p) ==
    /\ p \in polling
    /\ queue[p] # <<>>
    /\ queue' = [queue EXCEPT ![p] = Tail(@)]
    /\ dialogs' = [dialogs EXCEPT ![p] = IF page[p] = "open" THEN @ \cup {Head(queue[p])} ELSE @]
    /\ UNCHANGED <<enabled, counter, pending, subscribers, reqVars, pc, page, polling>>

\* _show_dialog() raises: the poller ends, with the notification it took off
\* its queue, and nothing unsubscribes the queue.
PollFails(p) ==
    /\ p \in polling
    /\ queue[p] # <<>>
    /\ polling' = polling \ {p}
    /\ queue' = [queue EXCEPT ![p] = Tail(@)]
    /\ UNCHANGED <<enabled, counter, pending, subscribers, reqVars, pc, page, dialogs>>

CloseDialog(p, r) == dialogs' = [dialogs EXCEPT ![p] = @ \ {r}]

\* The dialog's Forward button; the request may have left long ago.
ClickForward(p, r, retyped) ==
    /\ r \in dialogs[p]
    /\ Forward(reqId[r], ReadBack(r, retyped))
    /\ CloseDialog(p, r)
    /\ UNCHANGED <<enabled, counter, pending, subscribers, reqId, pc, page, polling, queue>>

\* The dialog's Drop button.
ClickDrop(p, r) ==
    /\ r \in dialogs[p]
    /\ Drop(reqId[r])
    /\ CloseDialog(p, r)
    /\ UNCHANGED <<enabled, counter, pending, subscribers, reqId, pc, page, polling, queue>>

\* The dialog is not persistent: a click beside it closes it undecided.
Dismiss(p, r) ==
    /\ r \in dialogs[p]
    /\ CloseDialog(p, r)
    /\ UNCHANGED <<enabled, counter, pending, subscribers, reqVars, pc, page, polling, queue>>

\* The Intercept switch is part of a page.
Switch == (\E p \in Pages : page[p] = "open") /\ (Enable \/ Disable)

Task(r) == InterceptPass(r) \/ InterceptHold(r) \/ Resume(r)

User(p) ==
    \/ OpenPage(p) \/ ClosePage(p)
    \/ \E r \in Requests :
         \/ ClickDrop(p, r) \/ Dismiss(p, r)
         \/ \E retyped \in BOOLEAN : ClickForward(p, r, retyped)

Next ==
    \/ Switch
    \/ \E r \in Requests : Task(r)
    \/ \E p \in Pages : Poll(p) \/ PollFails(p) \/ CancelPoller(p) \/ User(p)

Spec == Init /\ [][Next]_vars

\* The loop runs a task that has been woken, and a poller whose sleep is over
\* until it ends.  Nothing is assumed of the user.
Fairness ==
    /\ \A r \in Requests : WF_vars(Resume(r))
    /\ \A p \in Pages : WF_vars(Poll(p))

FairSpec == Spec /\ Fairness
-------------------------------------------------------------------------------
(* Properties *)

\* _pending lists exactly the tasks that are paused in intercept(), each
\* under its own id: nothing leaks, nothing is shadowed by a reused id.
PendingIsWaiting ==
    /\ \A i \in DOMAIN pending : pc[pending[i]] = "waiting" /\ reqId[pending[i]] = i
    /\ \A r \in Requests : pc[r] = "waiting" => reqId[r] \in DOMAIN pending /\ pending[reqId[r]] = r

\* No request is left paused when interception is off: set_enabled(False)
\* woke every one that was registered and none can register afterwards.
NoneStrandedWhenOff ==
    ~enabled => \A r \in Requests : pc[r] = "waiting" => event[r]

\* What is sent upstream for a request is its own text or what was typed in
\* a dialog for that request, whatever stale dialogs other tabs still show.
OwnContent == \A r \in Requests : edited[r].from = r

\* Once intercept() has returned, no later click, in any tab, changes the
\* outcome or the content it returned.
ReturnedIsFinal ==
    [][\A r \in Requests : pc[r] \in {"forwarded", "dropped"} =>
         pc'[r] = pc[r] /\ edited'[r] = edited[r]]_vars

\* A dropped request never gets through without its sender being asked
\* again: only the switch or a Forward click can turn a drop into a forward.
DropStands ==
    [][\A r \in Requests :
         (pc[r] = "waiting" /\ event[r] /\ decision[r] = "drop" /\ decision'[r] # "drop")
           => (~enabled' \/ \E p \in Pages : r \in dialogs[p] /\ r \notin dialogs'[p])]_vars

\* A request held when interception is off returns, even if interception is
\* switched on again at once.
OffReleases ==
    \A r \in Requests : (pc[r] = "waiting" /\ ~enabled) ~> (pc[r] # "waiting")

\* A notification that was queued for an open tab becomes a dialog there,
\* however many others are queued before it and whatever became of their
\* dialogs, unless the tab is closed or its poller has ended with one that
\* could not be shown.  One that finds the queue full is not queued.
NotificationShown ==
    \A p \in Pages, r \in Requests :
        (page[p] = "open" /\ \E k \in 1..Len(queue[p]) : queue[p][k] = r)
          ~> (r \in dialogs[p] \/ page[p] = "closed" \/ p \notin polling)

\* The manager implements the gate: the verdict is the decision once the
\* event is set.
Gate == INSTANCE InterceptGate WITH
            gate <- enabled,
            place <- pc,
            verdict <- [r \in Requests |-> IF event[r] THEN decision[r] ELSE "none"]

\* The abstract specification the manager implements.
ImplementsGate == Gate!GateSpec
===============================================================================

----------------------------- MODULE TrafficStore -----------------------------
(* pypproxy/store/store.py, the tables of pypproxy/store/db.py behind it,    *)
(* and the traffic page of pypproxy/ui/app.py that subscribes to it.         *)
(*                                                                           *)
(* The store is called on the event loop; its threading.Lock is never        *)
(* contended.  Two things happen later on the loop, each in its own order:   *)
(* the put_nowait callbacks of _publish(), and the database coroutines, one  *)
(* at a time under Database._lock.  A crash may come between any two steps.  *)
EXTENDS Naturals, Sequences, FiniteSets

CONSTANTS Flows,        \* Entry objects, one per proxied request
          Colors,       \* row colours
          Pages,        \* traffic pages, each with one queue
          HasDb,        \* FALSE under --no-db
          QueueCap,     \* maxsize of a page's queue (512 in the code)
          PageLimit,    \* entries a page loads from the store (500 in the code)
          MaxBacklog,   \* bound: nobody colours or clears over a longer backlog
          MaxSessions   \* bound: runs of the program

ASSUME StoreAssumption ==
    /\ HasDb \in BOOLEAN
    /\ "" \in Colors
    /\ {QueueCap, PageLimit, MaxSessions} \subseteq Nat \ {0}
    /\ MaxBacklog \in Nat

VARIABLES stage,      \* where the flow of an Entry object is
          obj,        \* its id, response and colour
          entries,    \* _entries
          byId,       \* _by_id
          counter,    \* _counter
          half,       \* history: filled by a process_response() that raised, and
                      \* not updated since
          session,    \* how many times the program was started
          dbq,        \* database coroutines, in the order they take the lock
          saving,     \* the statement executed and not yet committed
          disk,       \* the committed rows of table entries
          subs,       \* _subscribers
          away,       \* pages that show another tab than traffic
          callbacks,  \* the put_nowait calls scheduled for each page's queue
          subq,       \* the queue of each page
          rows,       \* the rows a page shows, by id
          lost        \* history: flows a page was not told of

memVars  == <<stage, obj, entries, byId, counter, half>>
dbVars   == <<dbq, saving, disk>>
pageVars == <<subs, away, callbacks, subq, rows, lost>>
vars == <<memVars, session, dbVars, pageVars>>

Row == [of : Flows, resp : BOOLEAN, color : Colors]

\* _entry_to_row(): the entry as it is now.
RowOf(f) == [of |-> f, resp |-> obj[f].resp, color |-> obj[f].color]

Put(f) == [kind |-> "put", of |-> f]
Clearing == [kind |-> "clear"]
Ops == [kind : {"put"}, of : Flows] \cup {Clearing}
Statements == [kind : {"put"}, id : Nat, row : Row] \cup {Clearing}

TypeOK ==
    /\ stage \in [Flows -> {"idle", "open", "bare", "done"}]
    /\ obj \in [Flows -> [id : Nat, resp : BOOLEAN, color : Colors]]
    /\ entries \in Seq(Flows)
    /\ DOMAIN byId \subseteq Nat
    /\ byId \in [DOMAIN byId -> Flows]
    /\ counter \in Nat
    /\ half \subseteq Flows
    /\ session \in Nat
    /\ dbq \in Seq(Ops)
    /\ saving \in Seq(Statements) /\ Len(saving) <= 1
    /\ DOMAIN disk \subseteq Nat
    /\ disk \in [DOMAIN disk -> Row]
    /\ subs \subseteq Pages
    /\ away \subseteq Pages
    /\ callbacks \in [Pages -> Seq(Flows)]
    /\ subq \in [Pages -> Seq(Flows)]
    /\ rows = [s \in Pages |-> rows[s]]
    /\ \A s \in Pages : DOMAIN rows[s] \subseteq Nat /\ rows[s] \in [DOMAIN rows[s] -> Row]
    /\ lost \in [Pages -> SUBSET Flows]

Empty == [i \in {} |-> i]

Init ==
    /\ stage = [f \in Flows |-> "idle"]
    /\ obj = [f \in Flows |-> [id |-> 0, resp |-> FALSE, color |-> ""]]
    /\ entries = <<>>
    /\ byId = Empty
    /\ counter = 0
    /\ half = {}
    /\ session = 1
    /\ dbq = <<>>
    /\ saving = <<>>
    /\ disk = Empty
    /\ subs = {}
    /\ away = {}
    /\ callbacks = [s \in Pages |-> <<>>]
    /\ subq = [s \in Pages |-> <<>>]
    /\ rows = [s \in Pages |-> Empty]
    /\ lost = [s \in Pages |-> {}]

-------------------------------------------------------------------------------
(* What add() and update() have in common *)

With(fn, i, v) == [j \in DOMAIN fn \cup {i} |-> IF j = i THEN v ELSE fn[j]]
Idle(backlog) == Len(backlog) < MaxBacklog

\* _publish(): one put_nowait per subscriber is scheduled on the loop.
Publish(f) ==
    callbacks' = [s \in Pages |-> IF s \in subs THEN Append(callbacks[s], f) ELSE callbacks[s]]

\* _db_insert() and _db_update(): both end in INSERT OR REPLACE.
DbPut(f) == dbq' = IF HasDb THEN Append(dbq, Put(f)) ELSE dbq

\* Mutated: update() forgets _db_update().
UpdateUnsaved(f) ==
    /\ byId' = With(byId, obj'[f].id, f)
    /\ entries' = [k \in DOMAIN entries |-> IF obj[entries[k]].id = obj'[f].id THEN f ELSE entries[k]]
    /\ half' = half \ {f}
    /\ Publish(f)
    /\ UNCHANGED dbq

\* update(): the index takes the entry, the list only if it still has the id.
Update(f) ==
    /\ byId' = With(byId, obj'[f].id, f)
    /\ entries' = [k \in DOMAIN entries |-> IF obj[entries[k]].id = obj'[f].id THEN f ELSE entries[k]]
    /\ half' = half \ {f}
    /\ Publish(f)
    /\ DbPut(f)

-------------------------------------------------------------------------------
(* The proxy's calls *)

\* add(): process_request() records the request.
Add(f) ==
    /\ stage[f] = "idle"
    /\ stage' = [stage EXCEPT ![f] = "open"]
    /\ counter' = counter + 1
    /\ obj' = [obj EXCEPT ![f].id = counter']
    /\ entries' = Append(entries, f)
    /\ byId' = With(byId, counter', f)
    /\ Publish(f)
    /\ DbPut(f)
    /\ UNCHANGED <<half, session, saving, disk, subs, away, subq, rows, lost>>

\* An out-of-scope request: process_request() returns an Entry it never adds.
PassUnrecorded(f) ==
    /\ stage[f] = "idle"
    /\ stage' = [stage EXCEPT ![f] = "bare"]
    /\ UNCHANGED <<obj, entries, byId, counter, half, session, dbVars, pageVars>>

\* process_response() ends in update(), whatever happened to the entry since.
Respond(f) ==
    /\ stage[f] \in {"open", "bare"}
    /\ stage' = [stage EXCEPT ![f] = "done"]
    /\ obj' = [obj EXCEPT ![f].resp = TRUE]
    /\ Update(f)
    /\ UNCHANGED <<counter, session, saving, disk, subs, away, subq, rows, lost>>

\* process_response() has filled the entry when match() raises: the client is
\* answered 502, and nobody is told.
RespondRaises(f) ==
    /\ stage[f] \in {"open", "bare"}
    /\ stage' = [stage EXCEPT ![f] = "done"]
    /\ obj' = [obj EXCEPT ![f].resp = TRUE]
    /\ half' = half \cup {f}
    /\ UNCHANGED <<entries, byId, counter, session, dbVars, pageVars>>

\* The upstream request failed, or what comes before process_response() did:
\* the entry is left as it is.
Fail(f) ==
    /\ stage[f] \in {"open", "bare"}
    /\ stage' = [stage EXCEPT ![f] = "done"]
    /\ UNCHANGED <<obj, entries, byId, counter, half, session, dbVars, pageVars>>

-------------------------------------------------------------------------------
(* The database coroutines *)

\* Mutated: the waiting coroutine that came last takes the lock first.
DbExecuteNewest ==
    /\ saving = <<>>
    /\ dbq # <<>>
    /\ LET op == dbq[Len(dbq)]
       IN  saving' = << IF op.kind = "put"
                        THEN [kind |-> "put", id |-> obj[op.of].id, row |-> RowOf(op.of)]
                        ELSE op >>
    /\ dbq' = SubSeq(dbq, 1, Len(dbq) - 1)
    /\ UNCHANGED <<memVars, session, disk, pageVars>>

\* insert(), clear(): the row is built when the lock is held, not before.
DbExecute ==
    /\ saving = <<>>
    /\ dbq # <<>>
    /\ LET op == Head(dbq)
       IN  saving' = << IF op.kind = "put"
                        THEN [kind |-> "put", id |-> obj[op.of].id, row |-> RowOf(op.of)]
                        ELSE op >>
    /\ dbq' = Tail(dbq)
    /\ UNCHANGED <<memVars, session, disk, pageVars>>

DbCommit ==
    /\ saving # <<>>
    /\ saving' = <<>>
    /\ disk' = IF saving[1].kind = "put" THEN With(disk, saving[1].id, saving[1].row) ELSE Empty
    /\ UNCHANGED <<memVars, session, dbq, pageVars>>

\* Database.list() without a filter: ORDER BY id DESC LIMIT limit OFFSET offset.
NewerThan(i) == Cardinality({j \in DOMAIN disk : j > i})

DbList(offset, limit) == {i \in DOMAIN disk : NewerThan(i) \in offset..(offset + limit - 1)}

\* load_from_db(): append what the database returns, newest first, and move
\* the counter past it.
LoadFromDb ==
    LET loaded == IF HasDb THEN DbList(0, 0) ELSE {}
    IN  \E q \in [1..Cardinality(loaded) -> loaded] :
          /\ \A i, j \in 1..Cardinality(loaded) : i < j => q[i] > q[j]
          /\ entries' = [k \in 1..Cardinality(loaded) |-> disk[q[k]].of]
          /\ byId' = [i \in loaded |-> disk[i].of]
          /\ counter' \in loaded \cup {0} /\ \A i \in loaded : i <= counter'
          /\ obj' = [f \in Flows |->
                       IF \E i \in loaded : disk[i].of = f
                       THEN LET i == CHOOSE i \in loaded : disk[i].of = f
                            IN  [id |-> i, resp |-> disk[i].resp, color |-> disk[i].color]
                       ELSE obj[f]]

\* The process dies, and starts again: only the committed rows survive.
Restart ==
    /\ session < MaxSessions
    /\ session' = session + 1
    /\ stage' = [f \in Flows |-> IF stage[f] = "idle" THEN "idle" ELSE "done"]
    /\ LoadFromDb
    /\ half' = {}
    /\ dbq' = <<>> /\ saving' = <<>>
    /\ subs' = {} /\ away' = {}
    /\ callbacks' = [s \in Pages |-> <<>>]
    /\ subq' = [s \in Pages |-> <<>>]
    /\ rows' = [s \in Pages |-> Empty]
    /\ lost' = [s \in Pages |-> {}]
    /\ UNCHANGED <<disk>>

-------------------------------------------------------------------------------
(* The traffic pages *)

\* store.list(filter, 0, 500): the first entries, the oldest.
Loaded == {entries'[k] : k \in 1..Len(entries') \cap 1..PageLimit}
Listed == {entries'[k] : k \in 1..Len(entries')}

\* _refresh_table_rows(), and the table a page is built with.
Refresh(s) ==
    /\ rows' = [rows EXCEPT ![s] =
                  [i \in {obj'[f].id : f \in Loaded} |->
                     LET f == CHOOSE g \in Loaded : obj'[g].id = i
                     IN  [of |-> f, resp |-> obj'[f].resp, color |-> obj'[f].color]]]
    /\ lost' = [lost EXCEPT ![s] = Listed \ Loaded]

\* The page is built: the table is loaded and the queue subscribed at once.
OpenPage(s) ==
    /\ s \notin subs
    /\ UNCHANGED <<memVars, session, dbVars, callbacks, subq>>
    /\ subs' = subs \cup {s}
    /\ away' = away \ {s}
    /\ Refresh(s)

\* unsubscribe(): callbacks under way reach a queue that nobody reads.
ClosePage(s) ==
    /\ s \in subs
    /\ subs' = subs \ {s}
    /\ rows' = [rows EXCEPT ![s] = Empty]
    /\ callbacks' = [callbacks EXCEPT ![s] = <<>>]
    /\ subq' = [subq EXCEPT ![s] = <<>>]
    /\ lost' = [lost EXCEPT ![s] = {}]
    /\ UNCHANGED <<memVars, session, dbVars, away>>

LeaveTab(s) ==
    /\ s \in subs \ away
    /\ away' = away \cup {s}
    /\ UNCHANGED <<memVars, session, dbVars, subs, callbacks, subq, rows, lost>>

ReturnToTab(s) ==
    /\ s \in subs \cap away
    /\ UNCHANGED <<memVars, session, dbVars, subs, callbacks, subq>>
    /\ away' = away \ {s}
    /\ Refresh(s)

\* A put_nowait callback runs: QueueFull is raised in the callback, out of
\* reach of the suppress() in _publish().
Deliver(s) ==
    /\ callbacks[s] # <<>>
    /\ callbacks' = [callbacks EXCEPT ![s] = Tail(@)]
    /\ IF Len(subq[s]) < QueueCap
       THEN subq' = [subq EXCEPT ![s] = Append(@, Head(callbacks[s]))] /\ UNCHANGED lost
       ELSE lost' = [lost EXCEPT ![s] = @ \cup {Head(callbacks[s])}] /\ UNCHANGED subq
    /\ UNCHANGED <<memVars, session, dbVars, subs, away, rows>>

\* Mutated: the poller skips an entry whose id the table already has.
PollSkipsKnown(s) ==
    /\ s \in subs
    /\ subq[s] # <<>>
    /\ subq' = [subq EXCEPT ![s] = Tail(@)]
    /\ LET f == Head(subq[s])
           i == obj[f].id
       IN  IF s \in away
           THEN lost' = [lost EXCEPT ![s] = @ \cup {f}] /\ UNCHANGED rows
           ELSE /\ rows' = IF i \in DOMAIN rows[s] THEN rows ELSE [rows EXCEPT ![s] = With(@, i, RowOf(f))]
                /\ lost' = [lost EXCEPT ![s] = @ \ {f}]
    /\ UNCHANGED <<memVars, session, dbVars, subs, away, callbacks>>

\* One turn of the page's poller.  The table is redrawn from the entries.
Poll(s) ==
    /\ s \in subs
    /\ subq[s] # <<>>
    /\ subq' = [subq EXCEPT ![s] = Tail(@)]
    /\ LET f == Head(subq[s])
           i == obj[f].id
       IN  IF s \in away
           THEN lost' = [lost EXCEPT ![s] = @ \cup {f}] /\ UNCHANGED rows
           ELSE /\ rows' = [rows EXCEPT ![s] =
                              [j \in DOMAIN @ \cup {i} |-> RowOf(IF j = i THEN f ELSE @[j].of)]]
                /\ lost' = [lost EXCEPT ![s] = @ \ {f}]
    /\ UNCHANGED <<memVars, session, dbVars, subs, away, callbacks>>

\* set_color() on a row of the page, then the page is refreshed.
SetColor(s, i, c) ==
    /\ s \in subs \ away
    /\ i \in DOMAIN rows[s]
    /\ Idle(dbq) /\ Idle(callbacks[s])
    /\ IF i \in DOMAIN byId
       THEN /\ obj' = [obj EXCEPT ![byId[i]].color = c]
            /\ Update(byId[i])
       ELSE UNCHANGED <<obj, byId, entries, half, callbacks, dbq>>
    /\ Refresh(s)
    /\ UNCHANGED <<stage, counter, session, saving, disk, subs, away, subq>>

\* Mutated: clear() forgets the list.
ClearIndexOnly ==
    /\ byId' = Empty
    /\ dbq' = IF HasDb THEN Append(dbq, Clearing) ELSE dbq
    /\ UNCHANGED <<stage, obj, entries, counter, half, session, saving, disk, subs, away, callbacks, subq>>

\* clear(): the list and the index at once, the table when its turn comes.
Clear ==
    /\ entries' = <<>>
    /\ byId' = Empty
    /\ dbq' = IF HasDb THEN Append(dbq, Clearing) ELSE dbq
    /\ UNCHANGED <<stage, obj, counter, half, session, saving, disk, subs, away, callbacks, subq>>

\* POST /api/clear
ClearByApi ==
    /\ Idle(dbq)
    /\ Clear
    /\ UNCHANGED <<rows, lost>>

\* The Clear button of a page empties this page's table only.
ClearByPage(s) ==
    /\ s \in subs
    /\ Idle(dbq)
    /\ Clear
    /\ rows' = [rows EXCEPT ![s] = Empty]
    /\ UNCHANGED lost

Next ==
    \/ \E f \in Flows : Add(f) \/ PassUnrecorded(f) \/ Respond(f) \/ RespondRaises(f) \/ Fail(f)
    \/ DbExecute \/ DbCommit \/ Restart \/ ClearByApi
    \/ \E s \in Pages :
         \/ OpenPage(s) \/ ClosePage(s) \/ LeaveTab(s) \/ ReturnToTab(s)
         \/ Deliver(s) \/ Poll(s) \/ ClearByPage(s)
         \/ \E i \in DOMAIN rows[s], c \in Colors : SetColor(s, i, c)

Spec == Init /\ [][Next]_vars
-------------------------------------------------------------------------------
(* Properties *)

\* The list and the index agree, and the list is in the order of the ids:
\* an entry that list() returns is the one get() returns for its id.
ListedIsIndexed ==
    /\ \A k \in DOMAIN entries :
         obj[entries[k]].id \in DOMAIN byId /\ byId[obj[entries[k]].id] = entries[k]
    /\ \A j, k \in DOMAIN entries : j < k => obj[entries[j]].id < obj[entries[k]].id

\* A row shows the latest state of f; only of a half filled f, which nobody was
\* told of, the response may be missing.
UpToDate(row, f) ==
    row.of = f /\ row.color = obj[f].color /\ (row.resp = obj[f].resp \/ f \in half)

\* Once the database is idle the table holds every entry the index holds,
\* in its latest state, however adds, responses, colours and clears of
\* several flows were interleaved with the coroutines.  Only the response of
\* an exchange that raised in match() may be missing, until the next update().
DiskCatchesUp ==
    (HasDb /\ dbq = <<>> /\ saving = <<>>) =>
        \A i \in DOMAIN byId : i \in DOMAIN disk /\ UpToDate(disk[i], byId[i])

OnDisk(f) == obj[f].id \in DOMAIN disk /\ disk[obj[f].id].of = f

\* A crash loses only the newest entries: among the entries in the list, one
\* is in the table only if every older one is.
OldestSavedFirst ==
    \A j, k \in DOMAIN entries :
        (j < k /\ OnDisk(entries[k])) => OnDisk(entries[j])

\* What a page shows of an entry in the list is its latest state, unless a
\* notification is still on its way or was lost to a full queue, to another
\* tab being open, or to the page limit, or match() raised before there was one.
PageIsCurrent ==
    \A s \in subs \ away : \A k \in DOMAIN entries :
        LET f == entries[k]
        IN  \/ f \in lost[s]
            \/ \E n \in DOMAIN callbacks[s] : callbacks[s][n] = f
            \/ \E n \in DOMAIN subq[s] : subq[s][n] = f
            \/ obj[f].id \in DOMAIN rows[s] /\ UpToDate(rows[s][obj[f].id], f)

\* A response that process_response() recorded to its end, or that a later
\* update() took along, reaches the table, or the entry is cleared, or the
\* program stops first.
ResponseIsSaved ==
    \A f \in Flows, n \in 1..MaxSessions :
        (session = n /\ obj[f].id \in DOMAIN byId /\ byId[obj[f].id] = f
         /\ obj[f].resp /\ f \notin half)
          ~> \/ session > n
             \/ obj[f].id \notin DOMAIN byId \/ byId[obj[f].id] # f
             \/ OnDisk(f) /\ disk[obj[f].id].resp

\* docs/architecture.md: on startup load_from_db() restores prior sessions.
StartRestores == [][session' # session => DOMAIN byId' = DOMAIN disk]_vars
===============================================================================

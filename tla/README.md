# Specifications of pypproxy

pypproxy is an intercepting HTTP(S) proxy: clients connect to it, it decrypts,
records, edits and forwards their requests, and shows them in a web page, a
terminal and a REST interface.  This directory holds TLA+ models of its parts,
the TLC configurations that check them, and TLAPS proofs about them.

    tlc -config Forward.cfg MCForward      # model-check one run
    tlapm Forward_proofs.tla               # check the proofs of one module

`PROJECT.json` lists the components, the runs, the source lines every definition
stands for, the mutants that show each property can fail, the hazards and the
theorems.

## The system

The program is one Python process with **one asyncio event loop**.  The proxy, the
REST server, the NiceGUI pages, their pollers and the database coroutines all run
on it.  A step of a model is therefore what one coroutine or callback does between
two suspensions (`await`s that really suspend), and the interleavings are those of
these steps.  `threading.Lock` and `asyncio.Lock` are never held over a suspension
in the managers, so they never make anybody wait; the one lock that does is
`Database._lock`.

| Part | State it keeps | Operations | Talks to |
|------|----------------|------------|----------|
| `proxy/proxy.py` | one task per connection | handle, CONNECT/TLS, keep-alive loop, `_forward`, WebSocket and raw tunnels | everything below |
| `interceptor/` | none | process_request, process_response | rules, scope, store |
| `intercept/` + `ui/intercept_dialog.py` | switch, `_pending`, counter, subscribers; one queue and some dialogs per tab | intercept, forward, drop, set_enabled, subscribe | proxy (caller), pages (callbacks) |
| `rule/rule.py` | ordered list of shared Rule objects, counter | add, update, delete, match | REST, settings page, interceptor |
| `store/store.py`, `db.py` | list, index, counter, subscribers; one SQLite table | add, update, set_color, clear, list, load_from_db | proxy, pages, REST, scheduled database coroutines |
| `store/fts.py` | an index table kept by triggers | search | db |
| `store/scope.py`, `filter_parser.py` | list of patterns, switch | is_in_scope, add, remove; parse and match | interceptor, pages |
| `ui/app.py` | per tab: rows, filter, active tab, queue | poller, navigation, colours, Clear | store |
| `ui/settings.py` | per tab: rows rendered from shared objects | the panels for scope, rules, passthrough, DNS, certificates | rules, scope, config |
| `api/server.py` | the managers it was given | REST and `/ws` | all managers |
| `cert/` | CA files, leaf cache, client certificates | load_or_create, ssl_context_for | proxy |
| `proto/` | frames of a WebSocket, gRPC, MQTT; pending frames | relay, decode, hold | proxy |
| `script/` | a loaded module | on_request, on_response | proxy |
| `session/`, `config/` | JSON and YAML files | save, load, delete | pages, start-up |
| `bulk/`, `replay/`, `scan/`, `macro/`, `ab_test/` | none between calls | concurrent requests with limits, barriers, extraction | REST and pages |
| `dns/` | overrides, a UDP socket | answer or relay a query | settings |
| `security/`, `graphql/`, `analytics/`, `openapi/`, `report/`, `codegen/`, `exporter/`, `frida/`, `codec.py` | mostly none | pure inspection and text generation | pages, REST |

What makes it hard to test: steps of the proxy and of several tabs in any order
(dialogs that outlive their request, rows that outlive their rule); queues of fixed
size whose overflow is silent; database writes that are scheduled and not awaited,
so a crash may come between memory and disk; rules, scope and the switch changing
while a request waits; exceptions half-way through a request; and the many places
where a copy of the headers or the body is changed and another copy is sent.
`PROJECT.json` lists these hazards line by line.

What makes each part correct, in one line:

- *Manual interception*: a held request leaves exactly once, with the last decision
  for it and its own content; switching off strands nobody.
- *Store*: list, index and table agree; a crash loses a suffix; a page shows the
  latest state of what it was told of (both but for a response whose processing
  raised half-way).
- *Rules*: the applicable rule of highest priority fires, ties in the order of
  creation; ids are unique and never reused.
- *Pipeline*: what is recorded is what was sent and served; dropped and blocked
  requests are never sent; everything sent to a server that ends is answered.
- *Connections*: requests are read in step with the client; a relay loses no frame
  that was read.
- *Search*: every row that has a term is found, and no other.
- *Sending tools*: one result per item, in the order of the plan; failures never
  block a call, and an endless request takes its own place only.
- *Settings*: a click on an old row removes what the row names and nothing else;
  what the managers answer follows the last edit.
- *Files*: memory and sessions directory agree; certificates verify under the CA that
  clients were given.
- *GUI pages*: an answer never turns up on another card; no attached Frida session is
  lost from the table but for a later one of its target, or a call to Frida that
  raised half-way.

## Modules

| Module | Models | Run |
|--------|--------|-----|
| `InterceptGate` | what manual interception promises: a gate, and for each request its place and the standing verdict | via `InterceptManager` |
| `InterceptManager` | `intercept/manager.py`, the pollers and dialogs | `Intercept` |
| `TrafficStore` | `store.py`, the table of `db.py`, the traffic page of `ui/app.py` | `Store`, `StoreRestore` |
| `Search` | `fts.py`, the two searches, the importers; extends `TrafficStore` | `Search` |
| `Terminal` | `run_cui()` and `ui/cui.py`; extends `Search` | `Search` |
| `RuleManager` | `RuleManager`, its REST endpoints, the rules panel | `Rules` |
| `Forward` | `_forward()` and the interceptor; uses `InterceptGate` for the review | `Forward`, `ForwardActions` |
| `Connection` | `handle()`, CONNECT and TLS, the keep-alive loop, WebSocket and raw relay (`proxy.py`, `proto/ws.py`) | `Connection`, `ConnectionBody` |
| `Senders` | bulk sender, race, replay, scanner, A/B test, IDOR check, macro, GraphQL (`bulk/`, `replay/`, `scan/`, `ab_test/`, `macro/`, `security/idor_checker.py`, `graphql/`), their endpoints, the macro and GraphQL pages | `Senders` |
| `Settings` | the other panels of `ui/settings.py` and what they edit: scope, passthrough, ports, client certificates, DNS overrides | via `Program` |
| `Files` | `session/manager.py` with its page, `cert/ca.py` | via `Program` |
| `Program` | `Settings` and `Files` over ends, kills and starts of the program | `Program` |
| `Frida` | `frida/device.py` and `ui/frida_tab.py` | via `Workbench` |
| `Workbench` | the window of the GUI: navigation, the menu of a traffic row, resender, diff; with `Frida` | `Workbench` |
| `*_proofs` | theorems about the module of that name (`TrafficStore_proofs`: about `Terminal` and `Search` too; `Program_proofs`: about `Settings` and `Files`) | TLAPS |
| `MC*` | the values TLC gets | |

How they compose:

- `Forward` uses manual interception through `InterceptGate`: `InterceptManager` is
  shown to implement the gate (`ImplementsGate`, model-checked and proved), and
  `Forward` uses nothing but the gate's actions.
- `Connection` takes one `_forward()` as `PassOn` followed by `Answer` or
  `AnswerFails`, without assuming that either comes; `Forward` says what happens in
  between (`SentIsAnswered` is why, and for which servers, one of them does).
- `Search` and `Terminal` extend the store: `Search` gives `DbCommit` its triggers
  (`Commit`) and adds the importers, `Terminal` replaces the traffic page by the
  screen.  Every action of the store they use is the one of `TrafficStore`.
- `Program` instantiates `Settings` and `Files` side by side.  They share the start
  of the program: `_build_core()` loads the CA and makes all managers anew.
- `Workbench` instantiates `Frida`: navigation decides when its page is built and
  left, its threads run whatever page is shown.

Definitions called `Mutated` in a comment are plausible mistakes in the
code.  They are not part of a specification; `PROJECT.json` says which definition
each would replace and which property it breaks.

### InterceptManager

`intercept()` suspends once, in `event.wait()`: `InterceptHold` is everything before
it (numbering, registration, notification), `Resume` everything after.  `forward`,
`drop` and `set_enabled` are operators used by the callbacks of the pages.  A page's
poller takes one notification per turn; a dialog keeps the `PendingRequest` object,
so a click names a request that may have left (`reqId`) and finds it in `_pending`
or not.  A tab may be closed at any time and its poller may or may not be
cancelled.  `PollFails` is `_show_dialog()` raising: the poller catches nothing but an
empty queue and its cancellation, so it ends (`polling`), and its queue stays
subscribed.  When that happens is up to NiceGUI, so it may happen at any turn.
`QueueCap` is a number per page, so that one run has a queue that is long enough and
one that is not.  Content is abstracted to whose it is and what was done to it: a body
that is not UTF-8 comes back changed from the dialog's text area.

Refinement mapping: the gate is `enabled`, a request's place is its `pc`, its
verdict is `decision` once `event` is set.

### TrafficStore

The calls of the proxy, the pages and REST change memory at once and append a
coroutine to `dbq`; `DbExecute` is the one that holds `Database._lock` (the row is
built then, not when it was scheduled) and `DbCommit` its commit.  `Restart` may come
between any two steps and keeps only the committed rows.  `_publish()` schedules
one callback per subscriber; `Deliver` runs it and loses the entry when the queue
is full.  `lost` records, per page, the flows a page has not been told of and why.
A response is recorded in one step, `Respond`, or in half of one: `RespondRaises` is
`process_response()` filling the shared entry and then raising in `match()`, before
`store.update()`.  Memory then has a response that is in no table and on no page
until something else updates the entry; `half` are those flows, and the properties
except their response and nothing else of them.

### RuleManager

Rule objects are a heap, because the settings page keeps and writes to the objects
it was rendered with.  `_sort()` is specified by its result (a stable order by
descending priority), conditions by the outcome they have in each context: hit,
miss, or an exception from a regular expression that does not compile.

### Forward

`_forward()` suspends in `intercept()` and in `client.request()`.  `ArrivePassed`,
`ArriveHeld` and `LeaveReview` run the script, the gate and `process_request()` up to
the next suspension, `Answer` and `Fail` the rest.  As rules and scope may have
changed at every suspension, `match()` and `is_in_scope()` may answer anything.
Headers and bodies are named by where they come from (client, script, user, rule,
server), which is what the properties compare; the length of a body and its coding
are there because httpx acts on them.

### Connection

One client connection, from the first line to `close()`.  The client's stream is a
row of pieces, `<<i, k>>` being piece `k` of request `i` (its line, its header lines,
pieces of body); what has arrived is everything before `wrote`, and the reader
is at `at`.  Whether a read returns a whole body depends on how the client's writes
fall between the handler's steps, and so does whether data comes with the last
message of the TLS handshake: `SwitchReader` is the step after it, which puts a new
reader in the place of the one that may already hold data.

`slip` names why reading may be out of step with the client: `early` (data with the
end of the handshake), `short` (a body that had not arrived), `chunked` (a chunked
body is not read), `cut` (the client left in the middle of a request).  Out of step,
a line or a block of headers is of no single request (0), and the handler may find
too few words in it.  `over` are the peers that ended their stream, `reset` those
whose connection is lost.

In a relay both peers write and leave when they like; `Pump` and `PumpEnds` are one
turn of a pump, and `gather()` waits for both (`RelayEnds`) unless one raises
(`PumpBreaks`).  As in the code, the end of one stream is not passed on to the other
peer.

### Search

The index is an FTS5 table over the rows of `entries`, kept up by triggers in the
transaction of the statement (`Commit`).  A row is always written with `INSERT OR
REPLACE`; SQLite fires no delete trigger for the row that gives way, so `IndexPut`
only adds, and `IndexClear` takes away no more than the terms the rows have now.
`postings` are pairs of an id and a term: a term every row has, one of the request
and one of the response.  `Match` returns nothing when a posting has no row, as
`search()` does after SQLite's error.  An import adds a file of entries in one step:
the HAR importer keeps the items it can read, the JSON importer has a default for
every field (`HarItems`, `JsonItems`).

### Terminal

One subscriber and two loops.  `UpdateScreen` takes one notification per quarter of a
second and puts a row of its own on top, for an entry's response too; `KeyClear`
empties the store and the rows but not the queue; `KeyQuit` ends the loops and not
the program, because `gather()` waits for the proxy and the REST server as well.

### Senders

All the tools do the same thing: make a plan of a request, send its items in order, at
most `limit` at a time, and gather the results.  `Tool` says what each makes of its
request: the plan (payloads; parameters by categories by payloads; identifiers by test
values; steps), the limit (a Semaphore, the number of tasks where there is none, 1 for a
loop) and what an answer may be.  `Call` is an endpoint up to its first suspension,
`Send` the next task's turn, `Answer` an answer, an error or a timeout, `Return` the
end of `gather()`.  A macro's steps are in `done` with what they found; `Substitute`
is what a step is sent with.  The macro and the GraphQL page call the same runners
and write what comes back to what they show (`page`, `tree`), the REST endpoint of
the introspection to the `SchemaStore`.  Whether an answer looks suspicious is text,
except for the status test of the IDOR check.

### Settings

`shown` are the rows of each tab, drawn when the page was opened and after its own
edits only, so that a row may name what another tab or REST has removed.  A pattern
is the set of hosts it matches.  The proxy's copy of the passthrough list and port
(`proxy`) is made at the start and never again.  A DNS server has two dictionaries:
its own and, from `start()` on, the one of the protocol that answers; they are set
together unless the socket is still awaited (`raced`).

### Files

A session file and the two files of the CA are emptied, then written: a kill in
between leaves a file that cannot be read (`Torn`, `Cut`).  `whole` says whether the
program survived the save.  `GenerateCA` writes the certificate, then the key, with a
kill possible at every point; `LoadCA` loads whatever pair is there.  `mixed` notes
the one way to a pair that does not belong together: a user removed one file, and
the program was killed after the new certificate, before the new key.  Key pairs are
numbered in the order in which they were generated.

### Workbench and Frida

A click in the sidebar builds a new page and forgets the old one (`Nav`): `visits`
and `drawn` number pages and drawings of the resender's cards, because callbacks of
what is gone still run.  "Send to" only leaves a note (`pending`) that no page reads;
"Compare" fills the diff page of an earlier visit.  `Answer` writes to the card the
request came from if it is still there.  In `Frida`, `inject()` works in a thread of
the executor: `Attach`, `CreateScript` and `LoadScript` may each raise, and only
`Return`, on the loop, puts the session into the table.  `stored` is the order in
which that happened.  `lost` marks a live session that nobody can end: `resume()`
raised after `attach()`, before the session was stored in its `InjectionSession`
(`Attach`; only the panels that can spawn), or `unload()` or `detach()` raised, which
is swallowed while the entry leaves the table (`EndSession`).

## What the runs show

| Run | Instance | Shows |
|-----|----------|-------|
| `Intercept` | 2 requests (one binary), 2 tabs, one with a queue of 2, one with a queue of 1; 51 000 states | the manager implements the gate; `_pending` is exact; nobody is stranded when interception is off; no request gets another one's edits; a request that returned is never changed; a drop stands; switching off releases, and what is queued is shown while its poller runs |
| `Store` | 2 flows, 2 colours, 1 page, 2 sessions, queue and page limit 1; 2.8 million states | list and index agree; the table catches up; crashes lose a suffix; the page is current up to named losses |
| `Search` | 2 flows, 2 files to import, queue of 1, 2 sessions; 330 000 states | the index covers the table; a search is exact as long as ids are not shared; the screen has every listed entry up to named losses; responses that were recorded to the end are saved |
| `Rules` | 3 rule objects, 2 priorities, 1 context, 1 page; 520 000 states | priority, uniqueness, no resurrection, stability of ties |
| `Forward` | 2 requests, one to an endless server, a script, 3 sets of modifications; 205 000 states | drop, block, body and response are recorded truthfully; verdicts are delivered, and answers also beside a request that never ends |
| `Connection` | 22 plans of 2 or 3 requests, 3 kinds of connection, relays of 2 frames a side; 78 000 states | requests are passed on whole and in order unless one of four things happened; a whole request is passed on; frames arrive whichever pump ends first; a client that left keeps its connection only for `_forward()` or the server of a relay |
| `Senders` | one call of any tool at its interesting sizes (limits -1, 0 and more, no items, no entry), next to a macro or an introspection, with the pages; 200 000 states | replies are complete and in the order of the plan; a macro step is sent with the values found last; a call with more places than endless requests has every other result, and returns if there are none |
| `Program` | 2 tabs, 2 hosts, a pattern for both and one for one, 2 certificate names, 1 domain, 7 edits; 727 000 states | sessions and their files agree; certificates verify; overrides are in force; the scope shrinks only by a rule; a removal takes what its row names |
| `Workbench` | 2 tabs, 2 cards, 2 requests, 2 injections of one target, 5 clicks; 1.2 million states | answers stay on their card; attached sessions can be found but for the three named ways |

The bounds are enough for the cases that matter.

- Two requests and two tabs give two dialogs for one request, a stale dialog next to
  a newer request, and an id that could be reused; in the longer queue one
  notification waits behind the other, in the shorter one the second is lost, and
  either poller may end at any turn.
- Two flows and one colour change over a backlog give every order of two writes to
  one row, and a half recorded response before a write that takes it along; a page limit and a queue of 1 make both overflows happen.
- In `Search` the second session reuses the ids of the first, and both flows may go
  unrecorded and share the id 0: both ways to postings without a row.  One file has an
  item only one importer can read and one that neither can.
- Three rule objects are a rule, its replacement by PUT and a third that ties with
  either.
- The plans of `Connection` put every kind of request (no body, a body of two pieces, a
  closing one, a chunked one, an upgrade) after every other one that leaves the
  connection open or not, so each reason to be out of step meets each kind of
  successor; two frames are one that is passed on before and one after the other
  pump has ended.
- In `Senders` a limit of 2 under 3 payloads makes a task wait for another's answer;
  a macro of three steps has one that both uses and finds the variable, so that an
  earlier and a later value compete.  Endless requests (`MCEndless`): one under a limit
  of 2 and of 3, and a scan in which they take every place, where nothing is claimed.
- In `Program` seven steps are enough for: open two tabs, add in both, remove what the
  other has removed; create a session, be killed in a save, start and open again; remove
  a file of the CA, be killed in its regeneration, start and serve.
- In `Workbench` five clicks suffice to send, leave and come back, or add a card, before
  the answer; to inject from two tabs into one target and detach.

`MaxBacklog` bounds how many coroutines and callbacks may wait when a user colours or
clears, `MaxSessions` the restarts, `MaxEdits` and `MaxClicks` the steps of users,
`MaxCards`, `MaxSends` and `MaxInjections` what their names say; nothing else is
bounded by hand.  The proofs remove these bounds for the properties listed below.
Deadlock is checked where the system cannot stop; the runs that say
`CHECK_DEADLOCK FALSE` end when their bound is used up, when every request has been
handled and the tabs are closed, or when the connection is closed.

Runs that end in a violation, each a disagreement between the code and its
documentation:

- `StoreRestore`: a restart loads nothing, because `limit=0` means *no row* in SQL
  and *no limit* in `Store.list()`; ids start at 1 again and old rows are
  overwritten.
- `ForwardActions`: of a rule's modifications only the request body takes effect on
  the wire (and a header *append* to a header that exists, whose list is shared); a
  redirect rule redirects nothing.
- `ConnectionBody`: on a decrypted, kept-alive connection a body that arrives in two
  pieces is forwarded cut, and its rest is read as the line of the next request: the
  trace goes on to the second `_forward()`, whose line is not the client's second one.

### Seen while modelling

Kept in the models as the code has it, without a run of their own.

Requests and connections:

- A body replaced by a script, a user or a rule is sent under the old Content-Length,
  which httpx refuses (`proxy.py:239`; `Upstream`, `Answer` in `Forward`).
- The client gets decoded bytes labelled gzip (`proxy.py:242`).
- Two bytes more than the head has are sent ahead of the first frame of a WebSocket, in
  both directions (`proxy.py:297`; `DialWebSocket`, `Greet`); a client's frames reach
  the server unmasked.
- A plain connection serves one request (`Answer` in `Connection`), and a body that
  arrives in two pieces is cut there as well (`InStep`, `short`).
- When `match()` raises on a regular expression after the server has answered, the
  entry keeps the response in memory, unpublished and unsaved, and the client gets a
  502 (`interceptor.py:121`; `RespondRaises`).
- `timeout=30` limits every connect, write and read and not the request: a server that
  always sends another byte keeps its handler for ever (`proxy.py:232`; `Endless`).
- Out-of-scope requests have id 0, are indexed and stored when their response comes
  (`interceptor.py:128`), although the settings say they are not recorded
  (`settings.py:69`).
- A dialog mangles a binary body that was not edited (`ReadBack`).
- A request held while no tab was open, or whose notification met a full queue, has no
  dialog, and nobody can decide it; the switch releases it (`manager.py:126`; `Notify`,
  `OpenPage`).
- An exception in `_show_dialog()` ends the poller of its tab, whose queue stays
  subscribed (`intercept_dialog.py:19`; `PollFails`).

Store, search and terminal:

- A page loads the first 500 entries, which are the oldest (`app.py:405`; `Loaded`).
- A response that comes after `clear()` puts its entry back into the index and the table
  (`Update`).
- After a restart, session entries refer to ids that have been given again.
- A posting whose row is gone makes a whole search empty (`Match`).
- Filter expressions are read from left to right, without precedence.
- In the terminal `q` ends the screen and not the program (`main.py:194`); the footer's
  `/: filter` has no key; `c` leaves the queue as it is.

Rules and settings:

- A switch in a stale row replaces the rule that a PUT has put in its place
  (`settings.py:138`).
- A rule added in the settings page has a string for an action, on which
  `GET /api/rules` fails (`settings.py:204`; `AddInPanel`, `Strings`).
- Passthrough edits do not reach the proxy, which has its own copy (`settings.py:249`;
  `docs/protocols.md:109` tells users to add them there); the ports are never saved
  (`settings.py:353`).
- Removing a passthrough row another tab has removed raises `ValueError`
  (`settings.py:238`; `RemoveIgnore`).
- The overrides of a tab replace those of all other tabs (`SetOverrides`).
- The certificate made for a host is kept beyond its validity (`ca.py:95`, `ca.py:118`).

Tools and pages:

- A bulk call with a concurrency of 0 never returns; a negative one is a 500
  (`Send`, `Refused`).
- Two failed fetches of the A/B test compare as equal (`ab_test/runner.py:105`).
- An introspection answered with `{"data": null}` is a 500 (`introspection.py:171`); a
  late one overwrites a newer schema (`server.py:403`).
- Clear Steps does not stop the macro under way, whose rows appear afterwards.
- "Send to" leaves a note no page reads (`app.py:503`; `docs/web-ui.md:70-78` describes
  tabs that open with the entry), and the diff page a comparison fills is not the one
  that is shown (`app.py:527`; `docs/web-ui.md:80`).
- "+ New" in the resender draws all cards again, and what was typed is gone
  (`resender.py:54`).
- After a visit to another page Detach knows no target, and an attached session stays
  until its application ends; so does one whose `resume()`, `unload()` or `detach()`
  raised (`device.py:144`, `device.py:190`; `Attach`, `EndSession`); `inject()` has no
  timeout.

### Fairness

Each action that must go on has its own weak fairness; there is none of `Next`.

- `Resume`, `Poll`, `LeaveReview`, `DbExecute` and `Commit`: the loop runs a task that
  was woken, a poller whose sleep is over (until it ends), and a coroutine whose lock
  or database call is ready; asyncio's ready queue is first-in first-out.
- `Answer(r) \/ Fail(r)` in `Forward`, for requests that are not in `Endless`, and
  `Answer` in `Senders` likewise: a server that answers does so, and one that stops
  taking or sending runs into the 30 s, which httpx counts for each connect, write,
  read and place in its pool.  Nothing limits the whole of a request, so of the
  requests in `Endless` nothing is assumed; which these are is a constant, and the
  runs have some.
- `Send` and `Return` in `Senders`: a task gets its turn at a Semaphore that is free,
  and `gather()` ends; `asyncio.Semaphore` wakes its waiters in order.
- `Handler` in `Connection`: the connection's task goes on when it can read, and a dial
  ends one way or the other.  `Answer` and `AnswerFails`, the end of `_forward()`, are not
  part of it: the manual review has no timeout, and an endless server none either.
- The pumps, and `Greet` once the server has ended its stream: what can be read is read.
  A handler that waits for a peer is not made to go on.  `drain()` is taken to return:
  a peer that stays connected and never reads is not modelled.

Nothing is assumed of users, of clients, of Frida's threads or of the scheduling of
requests; no property needs strong fairness.

## What is proved

All for every value of the constants: any number of requests, tabs, flows, colours,
rules, priorities, contexts, sessions, hosts, cards, injections; any queue size and page
limit; with and without a database or a script.  The assumptions are the named
`ASSUME`s of the modules (sizes are positive, the empty colour is a colour, the
verdicts are functions of the context, patterns match hosts, files are lists of items,
a request to a tool has the lists that its endpoint reads), which TLC evaluates.

- `InterceptManager_proofs`: `TypeOK`, `PendingIsWaiting`, `NoneStrandedWhenOff`,
  `OwnContent`, `ReturnedIsFinal`, `DropStands` and the refinement `ImplementsGate`.
  The invariant adds that ids are positive, at most `counter` and different for
  different requests: without it a stale dialog might name somebody else.  Only then
  is the target of a decision at most the dialog's own request, on which all of the
  above rest.
- `TrafficStore_proofs`: `TypeOK`, `ListedIsIndexed`, `DiskCatchesUp`, `PageIsCurrent`,
  `OldestSavedFirst`.  The inductive part of the third is `LatestIsSomewhere`: for every
  indexed entry, the table, the statement being committed or a waiting coroutine will
  still write its latest state (all but the response of a flow in `half`), and no clear
  comes after it.  For the pages,
  `NotifiedAreKnown`: whatever a page is still to be told of is the entry that the list
  has under that id, so a poll never puts one entry's row over another's.  For the
  crash, `SavedInOrder`: what is queued comes after every clear (`ClearedFirst`) and
  behind the first write of every older entry (`BehindOlder`).
  The same module has the terminal interface and the search index, which extend the
  store: `IndexCoversTable`, `SearchIsExact`, `TerminalShowsListed` and the types.
  The first is inductive by itself: only `Commit` changes the table or the index, a put
  brings the terms of its row, and the rows go all at once.  `SearchIsExact` needs to
  know what a posting without a row can be, since replacing a row leaves its postings:
  one of a flow that has that id and was started (`PostingsAreOfRows`), its response
  only if the flow has one, and then every row of that flow that is in the table or
  about to be has it too.  Then, where one flow has an id, all postings of the id are
  those of its row, or there is no row and SQLite refuses the search.
  `TerminalShowsListed` needs that nothing is recorded before the screen subscribes.
- `RuleManager_proofs`: `TypeOK`, `OnePerId`, `HighestFires`, `DeletedStaysDeleted`,
  `TiesKeepOrder`.
  The invariant adds that the list is sorted and that ids in it are at most `counter`;
  objects that left the list may keep an id, and `Update` must not let them back in.
  The order of ties follows from what is said of a stable sort: two rules of one
  priority are moved by none of the steps that leave both in the list.
- `Forward_proofs`: `TypeOK`, `DropLeavesNoTrace`, `BlockHolds`, `BodySentIsRecorded`,
  `ServedIsRecorded`.  The invariant says, request by request, that nothing is
  recorded or sent before `process_request()`, that the handler and the gate agree on
  who is waiting, and that who waits for the server has been sent.
- `Connection_proofs`: `TypeOK` and `InStep`, for every plan.  The invariant places the
  reader: as long as nothing slipped, `at` and `replies` follow from the number of
  requests passed on and from where the handler is (`Placed`), and the client is
  ahead of both (`Bounded`, `AllWhole`).
- `Program_proofs`: `SessionsAreSaved`, `LeavesVerify`, `OverridesInForce`,
  `ScopeShrinksByRule`, `RemovalNamesItsRow` and the types of the settings.
  `SessionsAreSaved` is inductive (`SavedTogether` is the step that puts a session into
  memory and into its file).  For `LeavesVerify` the invariant says that the pair in
  the files, if both can be read, and the pair in use belong together or were
  `mixed`; for `OverridesInForce`, that the two dictionaries are equal from the
  start of the server on, unless it was raced.
  The two about the settings rest on what a removal leaves of a list: `ThoseAre` (a list
  comprehension keeps exactly the elements that pass, in a list) and `FirstGoes`
  (`list.remove()`).
- `Workbench_proofs`: `ResultIsOfItsCard`, `LiveIsListed`.  The first needs that
  the numbers on the cards are those of requests; the second that every injection that
  has returned was put into the table once (`StoredAreReturned`), which gives the
  place from which a later one has pushed it, and that a session once marked `lost`
  stays so.

- `Senders_proofs`: `RepliesInOrder` and `StepsUseLatestValue`, of every call by itself,
  since no call touches what another has (`OtherCall`).  For the first, the invariant
  says that the results that are in belong to different items that were sent; when there
  are as many as items, every item has one (a pigeonhole, `GatherIs`), and what the
  plan of a scan contains is `ScanPlanIs`.  For the second it says that a macro, which
  has one request under way at most, has the answers of all its earlier steps, in
  order, when it sends the next (`StepByStep`), so the last value in the list of
  results is the value of the latest step (`ValueIsLatest`).

Lists are gone through by recursive functions (`Those`, `FlattenSeq`).  The
library's induction theorem takes a predicate as a parameter, which the provers cannot
instantiate; `SetInduction` states it for a set instead, proved from the least
element of a set of naturals, and the lemmas about lists (`ThoseAre`, `FlattenIs`) first
show with it that the function exists, and then what it returns.

Only model-checked: liveness, which is out of the prover's reach (`OffReleases`,
`NotificationShown`, `ResponseIsSaved`, `SentIsAnswered`, `DecidedLeaves`, `MadeIsAsked`,
`FrameArrives`, `ConnectionEnds`, `CallsReturn`).  Every invariant and every action property
that a passing run checks is proved.

## Not modelled

`PROJECT.json` has the status of every component and the reason for each that is left
out.  In short:

- *Text in, text out, no state*: the inspection of entries (security checks, analytics,
  the analysis of scans and A/B answers), generated text (reports, OpenAPI, code, Frida
  hooks and templates), viewers' decoders, filter expressions, the parsers of GraphQL,
  gRPC and MQTT, export formats.  A model would repeat the function.
- *Never run by the program*: the interception of WebSocket frames
  (`WSInterceptManager`), plugins (`PluginManager`), `rebuild_index()`, `Config.save()`,
  `stop()` of the DNS server, `rename()` and `update_notes()` of sessions.  Nothing in the
  program calls them, so there is no behaviour to be faithful to.
- *Pages of the sending tools*: they need an entry that never reaches them (see
  `SendTo`), so their buttons do nothing.
- *Bytes*: the bits of WebSocket frames and DNS queries, X.509 fields, time, headers and
  bodies beyond where they come from and how long they are.
- *Writes that fail*: a full disk (`OSError`) under a session file, the files of the CA
  or the database; only kills interrupt a write.
- *Pipelining*: a client of `Connection` sends a request when it has the answer to the
  one before.
- *Overrides set during the start of the DNS server*: in the model (`raced`), and the
  dictionaries do differ then; `OverridesInForce` is about all other times.
- *Layout*: detail pane, theme.

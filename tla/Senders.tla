------------------------------ MODULE Senders ------------------------------
(***************************************************************************)
(* The tools that send requests of their own: replay, bulk sender, race,   *)
(* active scan, A/B test, IDOR check, macro, GraphQL replay and            *)
(* introspection, called over REST, and the pages of macro and GraphQL.    *)
(* Each turns its request into a plan, a sequence of items, and sends the  *)
(* items in that order, never more than `limit' at a time:                 *)
(*   - gather() of tasks that take turns at a Semaphore (bulk, race, scan),*)
(*   - gather() of tasks without a limit (replay, A/B test),               *)
(*   - a loop that awaits every request (IDOR, macro): a limit of 1.       *)
(* asyncio.Semaphore is first come, first served, so what has been sent is *)
(* always a prefix of the plan.  Every exception of httpx becomes a result,*)
(* also that of a server that is silent for longer than the timeout, which *)
(* is for each connect, write and read: nothing ends the request to a      *)
(* server that always sends another byte.                                  *)
(***************************************************************************)
EXTENDS Integers, Sequences, FiniteSets, SequencesExt

CONSTANTS
  Calls,      \* the calls that may be made
  Requests,   \* Requests[c]: what the caller of c may ask for over REST
  Texts,      \* what a user may type into the macro page: steps, if it is JSON
  Hosts,      \* GraphQL servers
  Endless,    \* <<t, i>>: the i-th request of a tool t may never come to an end
  Payloads    \* Payloads[cat]: ALL_PAYLOADS, the payloads of a category

ASSUME CallsAssumption == 0 \notin Calls

\* The lists of a request have the items they have; identifiers are digits.
IsSequence(s) == s \in Seq(Range(s))
WellFormed(r) ==
  /\ r.tool \in {"bulk", "race", "replay", "scan", "ab", "idor", "macro", "graphql", "introspect"}
  /\ r.tool = "bulk" => IsSequence(r.payloads)
  /\ r.tool \in {"race", "replay"} => r.count \in Int
  /\ r.tool = "scan" => IsSequence(r.params) /\ IsSequence(r.cats)
  /\ r.tool = "idor" => r.ids \in Seq(Nat)
  /\ r.tool = "macro" => IsSequence(r.steps)

ASSUME RequestsAssumption ==
  /\ \A c \in Calls : \A r \in Requests[c] : WellFormed(r)
  /\ \A t \in Texts : IsSequence(t.steps)
  /\ \A cat \in DOMAIN Payloads : IsSequence(Payloads[cat])

VARIABLES
  req,        \* req[c]: what call c asks for, NoRequest before it is made
  job,        \* job[c]: what its tool makes of it, the plan first
  sent,       \* sent[c]: how many items of its plan have been sent
  done,       \* done[c]: the results, in the order in which they came in
  used,       \* used[c][i]: what the placeholders of step i were replaced by
  reply,      \* reply[c]: what the caller gets
  page,       \* the macro page: its text, rows and variables on show
  tree,       \* the GraphQL page: the introspection whose schema it shows
  schemas     \* the SchemaStore: host -> the introspection its schema is of
vars == <<req, job, sent, done, used, reply, page, tree, schemas>>
pages == <<page, tree, schemas>>

NoRequest == [tool |-> "none"]
NoJob      == [plan |-> <<>>, limit |-> 0, outcomes |-> {}]
NotYet     == [code |-> 0, results |-> <<>>]
Failed(n)  == [code |-> n, results |-> <<>>]
NoText     == [json |-> FALSE, steps |-> <<>>]

-----------------------------------------------------------------------------
(* The plans.                                                              *)

\* _generate_test_ids() for a number: its neighbours and two small ones.
TestIds(n) ==
  LET deltas == <<1, -1, 2, -2, 0, 99, 100, 1000>>
      tests  == [k \in 1 .. 8 |-> LET x == n + deltas[k] IN IF x # n /\ x > 0 THEN <<x>> ELSE <<>>]
      all    == FlattenSeq(tests) \o <<1, 2>>
  IN SubSeq(all, 1, IF Len(all) < 6 THEN Len(all) ELSE 6)

\* Every parameter with every payload of every known category.
ScanPlan(params, cats) ==
  LET tests(p, cat) == IF cat \notin DOMAIN Payloads THEN <<>>
                       ELSE [n \in 1 .. Len(Payloads[cat]) |->
                              [param |-> p, cat |-> cat, payload |-> Payloads[cat][n]]]
      of(p) == FlattenSeq([k \in 1 .. Len(cats) |-> tests(p, cats[k])])
  IN FlattenSeq([k \in 1 .. Len(params) |-> of(params[k])])

\* Every identifier of the request with its test values, one after the other.
IdorPlan(ids) ==
  FlattenSeq([k \in 1 .. Len(ids) |->
    LET tests == TestIds(ids[k])
    IN [n \in 1 .. Len(tests) |-> [original |-> ids[k], test |-> tests[n]]]])

\* The values that a number from a request gives range() and max().
Times(n) == [k \in 1 .. n |-> k]
AtLeast(low, n) == IF n < low THEN low ELSE n

-----------------------------------------------------------------------------
(* The tools: what each sends, how many requests it has under way at most  *)
(* (the Semaphore, or what stands for it), what an answer may be.          *)

Sends(items, most) == [plan |-> items, limit |-> most, outcomes |-> {"ok", "error"}]

Bulk(r)   == Sends(r.payloads, r.concurrency)
Race(r)   == Sends(Times(AtLeast(0, r.count)), r.count)
Replay(r) == LET n == AtLeast(1, r.count) IN Sends(Times(n), n)
Scan(r)   == Sends(ScanPlan(r.params, r.cats), r.concurrency)
AB(r)     == Sends(<<"a", "b">>, 2)
Idor(r)   == Sends(IdorPlan(r.ids), 1)
Macro(r)  == Sends(r.steps, 1)
GraphQL(r) == Sends(<<"query">>, 1)

\* A JSON answer that is no answer to an introspection (its data null, say)
\* makes fetch_schema() raise.
FetchSchema(r) == [plan |-> <<"introspection">>, limit |-> 1, outcomes |-> {"ok", "error", "odd"}]

Tool(r) ==
  CASE r.tool = "bulk"       -> Bulk(r)
    [] r.tool = "race"       -> Race(r)
    [] r.tool = "replay"     -> Replay(r)
    [] r.tool = "scan"       -> Scan(r)
    [] r.tool = "ab"         -> AB(r)
    [] r.tool = "idor"       -> Idor(r)
    [] r.tool = "macro"      -> Macro(r)
    [] r.tool = "graphql"    -> GraphQL(r)
    [] r.tool = "introspect" -> FetchSchema(r)

\* Semaphore(n) refuses a negative number.  The scan returns before it gets
\* there when the request has no parameters.
Refused(r) == Tool(r).limit < 0 /\ ~(r.tool = "scan" /\ r.params = <<>>)

-----------------------------------------------------------------------------
(* A macro's variables: the last value extracted for each.                 *)

Steps(c) == IF req[c].tool = "macro" THEN req[c].steps ELSE <<>>

\* Mutated: the first value found is kept.
ValueFirst(rs, v) ==
  LET with == {k \in DOMAIN rs : v \in rs[k].found}
  IN IF with = {} THEN 0 ELSE rs[CHOOSE k \in with : \A l \in with : k <= l].at

\* The step whose answer gave v its value, after the answers in rs; 0 when
\* none has and the placeholder stays as it is.
Value(rs, v) ==
  LET with == {k \in DOMAIN rs : v \in rs[k].found}
  IN IF with = {} THEN 0 ELSE rs[CHOOSE k \in with : \A l \in with : l <= k].at

\* _substitute(): the placeholders of a step are replaced when it is sent.
Substitute(c, i) ==
  IF req[c].tool = "macro" THEN [v \in req[c].steps[i].uses |-> Value(done[c], v)] ELSE <<>>

\* IDOR: another identifier was answered with 2xx, and the baseline is one of
\* a refusal, of a success or unknown.
Suspect(r, item, outcome) ==
  /\ r.tool = "idor"
  /\ outcome = "ok"
  /\ r.baseline \in {0, 401, 403, 404} \cup 200 .. 299
  /\ item.test # item.original

\* Mutated: the results in the order in which they came in.
GatherAsAnswered(rs) == rs

\* gather() returns the results in the order of the tasks.
Gather(rs) ==
  [i \in 1 .. Len(rs) |-> rs[CHOOSE k \in 1 .. Len(rs) : rs[k].at = i]]

-----------------------------------------------------------------------------
Init ==
  /\ req = [c \in Calls |-> NoRequest]
  /\ job = [c \in Calls |-> NoJob]
  /\ sent = [c \in Calls |-> 0]
  /\ done = [c \in Calls |-> <<>>]
  /\ used = [c \in Calls |-> <<>>]
  /\ reply = [c \in Calls |-> NotYet]
  /\ page = [text |-> NoText, rows |-> 0, vars |-> 0]
  /\ tree = 0
  /\ schemas = [h \in {} |-> 0]

Plan(c)     == job[c].plan
Running(c)  == req[c] # NoRequest /\ reply[c] = NotYet

\* Mutated: a request that failed keeps its place.
InFlightFailed(c) == sent[c] - Cardinality({k \in DOMAIN done[c] : done[c][k].outcome = "ok"})

\* Requests of the call that are under way.
InFlight(c) == sent[c] - Len(done[c])

\* 404 for an entry that is not there, 500 when the Semaphore raises, 0 when
\* there is no answer yet.
Refusal(r) ==
  IF r.tool \in {"macro", "introspect"} THEN 0
  ELSE IF ~r.entry THEN 404 ELSE IF Refused(r) THEN 500 ELSE 0

\* An endpoint is called: the tasks are made, unless it answers at once.
Call(c, tools) ==
  /\ req[c] = NoRequest
  /\ \E r \in Requests[c] :
       /\ r.tool \in tools
       /\ req' = [req EXCEPT ![c] = r]
       /\ job' = [job EXCEPT ![c] = Tool(r)]
       /\ reply' = [reply EXCEPT ![c] = IF Refusal(r) = 0 THEN NotYet ELSE Failed(Refusal(r))]
  /\ UNCHANGED <<sent, done, used, pages>>

PostReplayOrBulk(c) == Call(c, {"replay", "bulk", "race"})
PostScan(c)         == Call(c, {"scan"})
PostMacro(c)        == Call(c, {"macro"})
PostIdorOrAB(c)     == Call(c, {"idor", "ab"})
PostIntrospect(c)   == Call(c, {"introspect"})
PostGraphQL(c)      == Call(c, {"graphql"})

\* The button of a page is "loading" while the call it made is under way.
Busy(tool) == \E c \in Calls : Running(c) /\ req[c].tool = tool /\ req[c].from = "page"

\* Run Macro: the page parses its text; what is not JSON, and no steps at all,
\* starts nothing.  The rows go, the variables of the last run stay.
RunMacro(c) ==
  /\ req[c] = NoRequest /\ ~Busy("macro")
  /\ page.text.json /\ page.text.steps # <<>>
  /\ req' = [req EXCEPT ![c] = [tool |-> "macro", steps |-> page.text.steps, from |-> "page"]]
  /\ job' = [job EXCEPT ![c] = Tool(req'[c])]
  /\ page' = [page EXCEPT !.rows = 0]
  /\ UNCHANGED <<sent, done, used, reply, tree, schemas>>

TypeSteps ==
  /\ \E t \in Texts : t # page.text /\ page' = [page EXCEPT !.text = t]
  /\ UNCHANGED <<req, job, sent, done, used, reply, tree, schemas>>

\* Clear Steps: text, rows and variables; a macro under way is not stopped.
ClearSteps ==
  /\ page' = [text |-> NoText, rows |-> 0, vars |-> 0]
  /\ UNCHANGED <<req, job, sent, done, used, reply, tree, schemas>>

\* The next task gets its turn (or the loop comes to its next item) and sends.
Send(c) ==
  /\ Running(c)
  /\ sent[c] < Len(Plan(c))
  /\ InFlight(c) < job[c].limit
  /\ sent' = [sent EXCEPT ![c] = @ + 1]
  /\ used' = [used EXCEPT ![c] = Append(@, Substitute(c, sent[c] + 1))]
  /\ UNCHANGED <<req, job, done, reply, pages>>

\* A request is answered, or fails, which is a result as well.
\* A macro's step takes over what it finds in the answer of what it looks for.
Answer(c, i) ==
  /\ Running(c)
  /\ i \in 1 .. sent[c] /\ \A k \in DOMAIN done[c] : done[c][k].at # i
  /\ \E outcome \in job[c].outcomes :
     \E found \in SUBSET (IF Steps(c) # <<>> /\ outcome = "ok" THEN Steps(c)[i].extracts ELSE {}) :
       done' = [done EXCEPT ![c] = Append(@,
         [at |-> i, outcome |-> outcome, found |-> found,
          suspect |-> Suspect(req[c], Plan(c)[i], outcome)])]
  /\ UNCHANGED <<req, job, sent, used, reply, pages>>

\* The failure of a GraphQL request is the failure of the call.
Result(c) ==
  IF req[c].tool \notin {"graphql", "introspect"} \/ done[c][1].outcome = "ok"
  THEN [code |-> 200, results |-> Gather(done[c])]
  ELSE Failed(IF done[c][1].outcome = "odd" THEN 500 ELSE 502)

\* All results are in: the caller gets them; a page puts those of this call in
\* the place of what it shows; over REST a schema goes to the store.
Return(c) ==
  /\ Running(c)
  /\ Len(done[c]) = Len(Plan(c))
  /\ reply' = [reply EXCEPT ![c] = Result(c)]
  /\ page' = IF req[c].tool = "macro" /\ req[c].from = "page"
             THEN [page EXCEPT !.rows = c, !.vars = c] ELSE page
  /\ LET schema == req[c].tool = "introspect" /\ Result(c).code = 200 IN
     /\ tree' = IF schema /\ req[c].from = "page" THEN c ELSE tree
     /\ schemas' = IF schema /\ req[c].from = "rest"
                   THEN [h \in DOMAIN schemas \cup {req[c].host} |-> IF h = req[c].host THEN c ELSE schemas[h]]
                   ELSE schemas
  /\ UNCHANGED <<req, job, sent, done, used>>

\* The Introspect button of the GraphQL page.
Introspect(c) ==
  /\ req[c] = NoRequest /\ ~Busy("introspect")
  /\ \E h \in Hosts : req' = [req EXCEPT ![c] = [tool |-> "introspect", host |-> h, from |-> "page"]]
  /\ job' = [job EXCEPT ![c] = Tool(req'[c])]
  /\ UNCHANGED <<sent, done, used, reply, pages>>

DeleteSchema(h) ==
  /\ schemas' = [g \in DOMAIN schemas \ {h} |-> schemas[g]]
  /\ UNCHANGED <<req, job, sent, done, used, reply, page, tree>>

Next ==
  \/ \E c \in Calls : PostReplayOrBulk(c) \/ PostScan(c) \/ PostMacro(c) \/ PostIdorOrAB(c)
  \/ \E c \in Calls : PostIntrospect(c) \/ PostGraphQL(c)
  \/ \E c \in Calls : RunMacro(c) \/ Introspect(c) \/ Send(c) \/ Return(c)
  \/ \E c \in Calls : \E i \in 1 .. sent[c] : Answer(c, i)
  \/ TypeSteps
  \/ ClearSteps
  \/ \E h \in Hosts : DeleteSchema(h)

(* Tasks run when they can; a server answers, or is silent for too long, or *)
(* is endless.                                                              *)
Fairness ==
  \A c \in Calls :
    /\ WF_vars(Send(c)) /\ WF_vars(Return(c))
    /\ WF_vars(\E i \in 1 .. sent[c] : <<req[c].tool, i>> \notin Endless /\ Answer(c, i))

Spec == Init /\ [][Next]_vars /\ Fairness

-----------------------------------------------------------------------------
Returned(c) == reply[c].code = 200
Results(c)  == reply[c].results

\* One result for every item of the plan, in the order of the plan.
InOrder(c) == /\ Len(Results(c)) = Len(Plan(c))
              /\ \A i \in 1 .. Len(Results(c)) : Results(c)[i].at = i

\* An active scan has tried every parameter with every payload of every
\* category that it was asked for and knows.
ScanIsComplete(c) ==
  req[c].tool = "scan" =>
    \A p \in Range(req[c].params) : \A cat \in Range(req[c].cats) \cap DOMAIN Payloads :
      \A x \in Range(Payloads[cat]) : \E i \in 1 .. Len(Results(c)) :
        Plan(c)[Results(c)[i].at] = [param |-> p, cat |-> cat, payload |-> x]

\* The test values may contain the identifier itself (1 does), and an answer
\* to it is no finding.
OriginalIsNoFinding(c) ==
  req[c].tool = "idor" =>
    \A i \in 1 .. Len(Results(c)) : Results(c)[i].suspect => Plan(c)[i].test # Plan(c)[i].original

(* What a caller gets is complete and in the order in which it asked,      *)
(* however many requests were under way, in whatever order the answers     *)
(* came in and whichever failed.                                           *)
RepliesInOrder ==
  \A c \in Calls : Returned(c) => InOrder(c) /\ ScanIsComplete(c) /\ OriginalIsNoFinding(c)

(* A step of a macro is sent with the values that the steps before it      *)
(* found, of two values of one variable the later, whatever other macros   *)
(* run at the same time and whichever of its steps failed.                 *)
FoundBefore(c, i, v) == {k \in DOMAIN done[c] : done[c][k].at < i /\ v \in done[c][k].found}
StepsUseLatestValue ==
  \A c \in Calls : \A i \in 1 .. Len(used[c]) : \A v \in DOMAIN used[c][i] :
    LET before == {done[c][k].at : k \in FoundBefore(c, i, v)}
    IN /\ used[c][i][v] \in before \cup {0}
       /\ \A j \in before : used[c][i][v] >= j

(* A request that never ends keeps its own place and no more: while there  *)
(* are fewer of them than the call may have under way, every other item is *)
(* sent and has its result, and without any the call returns.  It does not *)
(* when it may have none under way: the tasks of a Semaphore(0) wait for   *)
(* ever.                                                                   *)
Hung(c) == {i \in DOMAIN Plan(c) : <<req[c].tool, i>> \in Endless}
CallsReturn ==
  \A c \in Calls :
    (Running(c) /\ (Cardinality(Hung(c)) < job[c].limit \/ Plan(c) = <<>>))
      ~> /\ DOMAIN Plan(c) \ Hung(c) \subseteq {done[c][k].at : k \in DOMAIN done[c]}
         /\ Hung(c) = {} => ~Running(c)
=============================================================================

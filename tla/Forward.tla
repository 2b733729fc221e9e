-------------------------------- MODULE Forward --------------------------------
(* The life of a request in pypproxy/proxy/proxy.py, _forward(): script,     *)
(* manual interception, Interceptor.process_request(), upstream,             *)
(* Interceptor.process_response(), reply.                                    *)
(*                                                                           *)
(* _forward() suspends twice, in intercept() and in client.request(); what   *)
(* it does in between is one step.  Rules, scope and the Intercept switch    *)
(* may be changed during either suspension, so each call of match() and of   *)
(* is_in_scope() may find anything.  Manual interception is what             *)
(* InterceptGate promises, which InterceptManager is shown to implement.     *)
CONSTANTS Requests,
          Endless,  \* those whose server may never come to an end
          Script,   \* is a script loaded?
          ModSets   \* the sets of targets that the modify rules have

\* "req_append" is the operation append on a header the request has.
Targets == {"req_header", "req_append", "req_body", "resp_header", "resp_body"}

ASSUME ForwardAssumption ==
    Endless \subseteq Requests /\ Script \in BOOLEAN /\ ModSets \subseteq SUBSET Targets

VARIABLES gate, place, verdict,   \* the variables of InterceptGate
          pc,        \* where _forward() is
          req,       \* its headers and body
          entry,     \* the Entry process_request() returned
          listed,    \* requests whose Entry was given to store.add()
          known,     \* requests whose Entry the store has indexed and published
          sent,      \* the messages passed to client.request()
          reply      \* what the client was answered

Gate == INSTANCE InterceptGate

gateVars == <<gate, place, verdict>>
vars == <<gateVars, pc, req, entry, listed, known, sent, reply>>

\* Where headers and a body come from, and whether the Content-Length among
\* the headers is right for the body.
Lengths == {"right", "wrong"}
Bodies == {"client", "script", "edited", "rule"}
Message == [headers : {"client", "edited", "appended", "rule"}, body : Bodies, length : Lengths]
Arrived == [headers |-> "client", body |-> "client", length |-> "right"]

Entries == [headers : {"client", "edited", "appended", "rule"}, body : Bodies,
            tag : {"no entry", "", "blocked", "redirected"},
            resp : {"", "server", "script", "rule"}]
NoEntry == [headers |-> "client", body |-> "client", tag |-> "no entry", resp |-> ""]

\* Content codings: none, one that httpx and codec.py decode, another one.
Codings == {"none", "gzip", "other"}
Replies == [kind : {"none", "dropped", "blocked", "failed", "served"},
            body : {"", "server", "script"}, header : Codings, coded : Codings]
Plain(kind) == [kind |-> kind, body |-> "", header |-> "none", coded |-> "none"]

TypeOK ==
    /\ Gate!GateTypeOK
    /\ pc \in [Requests -> {"new", "review", "upstream", "done", "dead"}]
    /\ req \in [Requests -> Message]
    /\ entry \in [Requests -> Entries]
    /\ listed \subseteq Requests
    /\ known \subseteq Requests
    /\ sent \in [Requests -> SUBSET Message]
    /\ reply \in [Requests -> Replies]

Init ==
    /\ Gate!GateInit
    /\ pc = [r \in Requests |-> "new"]
    /\ req = [r \in Requests |-> Arrived]
    /\ entry = [r \in Requests |-> NoEntry]
    /\ listed = {}
    /\ known = {}
    /\ sent = [r \in Requests |-> {}]
    /\ reply = [r \in Requests |-> Plain("none")]

-------------------------------------------------------------------------------
(* Interceptor.process_request(), and what _forward() does with the result *)

\* What match() returns: no rule or one that passes, another one, or it raises.
Outcomes == [action : {"none", "block", "redirect", "raises"}, mods : {{}}]
            \cup [action : {"modify"}, mods : ModSets]

\* The Entry of message m, as rule o leaves it.
Recorded(m, o) ==
    [headers |-> IF {"req_header", "req_append"} \cap o.mods # {} THEN "rule" ELSE m.headers,
     body |-> IF "req_body" \in o.mods THEN "rule" ELSE m.body,
     tag |-> CASE o.action = "block" -> "blocked"
               [] o.action = "redirect" -> "redirected"
               [] OTHER -> "",
     resp |-> ""]

\* The headers _forward() still has: _apply_header_mod() copies the dict but
\* not its lists, so what it appends to one of them, and no more, is there.
HeadersLeft(m, o) ==
    CASE "req_append" \notin o.mods -> m.headers
      [] "req_header" \in o.mods    -> "appended"
      [] OTHER                      -> "rule"

Unmatched == [action |-> "none", mods |-> {}]

\* The body comes from the Entry, the headers do not; no Content-Length is
\* corrected, so a body of another length contradicts it.
Upstream(r, m, o, length) ==
    /\ pc' = [pc EXCEPT ![r] = "upstream"]
    /\ entry' = [entry EXCEPT ![r] = Recorded(m, o)]
    /\ sent' = [sent EXCEPT ![r] = {[headers |-> HeadersLeft(m, o),
                                     body |-> Recorded(m, o).body, length |-> length]}]
    /\ UNCHANGED reply

Reply(r, answer) ==
    /\ pc' = [pc EXCEPT ![r] = "done"]
    /\ reply' = [reply EXCEPT ![r] = answer]

\* An out-of-scope request goes upstream with an Entry the store never adds.
PassThrough(r, m) ==
    /\ Upstream(r, m, Unmatched, m.length)
    /\ UNCHANGED <<listed, known>>

\* Mutated: a blocked request is answered before it is recorded.
BlockUnrecorded(r, m, o) ==
    /\ entry' = [entry EXCEPT ![r] = Recorded(m, o)]
    /\ Reply(r, Plain("blocked"))
    /\ UNCHANGED <<listed, known, sent>>

Block(r, m, o) ==
    /\ entry' = [entry EXCEPT ![r] = Recorded(m, o)]
    /\ listed' = listed \cup {r}
    /\ known' = known \cup {r}
    /\ Reply(r, Plain("blocked"))
    /\ UNCHANGED sent

\* Mutated: the body is sent as it came, too.
AdmitUnmodified(r, m, o) ==
    /\ listed' = listed \cup {r}
    /\ known' = known \cup {r}
    /\ pc' = [pc EXCEPT ![r] = "upstream"]
    /\ entry' = [entry EXCEPT ![r] = Recorded(m, o)]
    /\ sent' = [sent EXCEPT ![r] = {m}]
    /\ UNCHANGED reply

Admit(r, m, o) ==
    /\ listed' = listed \cup {r}
    /\ known' = known \cup {r}
    /\ \E length \in Lengths :
         /\ "req_body" \notin o.mods => length = m.length
         /\ Upstream(r, m, o, length)

\* Mutated: only a block of an unmodified request is looked at.
BlockedUnlessEdited(m, o) == o.action = "block" /\ m.body # "edited"

Blocked(m, o) == o.action = "block"

\* match() raises out of process_request(), _forward() and handle().
ProcessRequest(r, m) ==
    \/ PassThrough(r, m)
    \/ \E o \in Outcomes :
         \/ Blocked(m, o) /\ Block(r, m, o)
         \/ ~Blocked(m, o) /\ o.action # "raises" /\ Admit(r, m, o)
         \/ /\ o.action = "raises"
            /\ pc' = [pc EXCEPT ![r] = "dead"]
            /\ UNCHANGED <<entry, listed, known, sent, reply>>

-------------------------------------------------------------------------------
(* The steps of _forward() *)

\* What on_request() makes of the body; it may raise, too.
Scripted == IF Script THEN {Arrived} \cup [headers : {"client"}, body : {"script"}, length : Lengths]
            ELSE {Arrived}

HookRaises(r) ==
    /\ Script /\ pc[r] = "new"
    /\ pc' = [pc EXCEPT ![r] = "dead"]
    /\ UNCHANGED <<gateVars, req, entry, listed, known, sent, reply>>

ArrivePassed(r) ==
    /\ pc[r] = "new"
    /\ Gate!Pass(r)
    /\ \E m \in Scripted :
         /\ req' = [req EXCEPT ![r] = m]
         /\ ProcessRequest(r, m)

ArriveHeld(r) ==
    /\ pc[r] = "new"
    /\ Gate!Hold(r)
    /\ \E m \in Scripted : req' = [req EXCEPT ![r] = m]
    /\ pc' = [pc EXCEPT ![r] = "review"]
    /\ UNCHANGED <<entry, listed, known, sent, reply>>

\* Mutated: the drop flag is tested after process_request().
LeaveRecordedFirst(r) ==
    /\ pc[r] = "review"
    /\ Gate!Leave(r)
    /\ IF place'[r] = "dropped"
       THEN /\ Reply(r, Plain("dropped"))
            /\ entry' = [entry EXCEPT ![r] = Recorded(req[r], Unmatched)]
            /\ listed' = listed \cup {r}
            /\ known' = known \cup {r}
            /\ UNCHANGED <<req, sent>>
       ELSE ProcessRequest(r, req[r]) /\ UNCHANGED req

\* Mutated: a held request waits for as long as interception is off again.
LeaveWhileOn(r) ==
    /\ pc[r] = "review" /\ gate
    /\ Gate!Leave(r)
    /\ IF place'[r] = "dropped"
       THEN Reply(r, Plain("dropped")) /\ UNCHANGED <<req, entry, listed, known, sent>>
       ELSE ProcessRequest(r, req[r]) /\ UNCHANGED req

\* intercept() returns: the text of the dialog, if any, and the verdict.
LeaveReview(r) ==
    /\ pc[r] = "review"
    /\ Gate!Leave(r)
    /\ IF place'[r] = "dropped"
       THEN Reply(r, Plain("dropped")) /\ UNCHANGED <<req, entry, listed, known, sent>>
       ELSE \E m \in {req[r]} \cup [headers : {"edited"}, body : {"edited"}, length : Lengths] :
              /\ req' = [req EXCEPT ![r] = m]
              /\ ProcessRequest(r, m)

\* httpx: content is decoded already; the header still names the coding.
Content(coding) == IF coding = "gzip" THEN "none" ELSE coding

\* decode_body(): falls back to the body as it is, with no coding applied.
DecodeBody(header, coded) ==
    IF header = "gzip" /\ coded = "gzip"
    THEN [coded |-> "none", applied |-> header] ELSE [coded |-> coded, applied |-> ""]

\* The reply: the script's body or the server's own, with its own headers.
Served(header) ==
    LET decoded == DecodeBody(header, Content(header))
    IN  [kind |-> "served",
         body |-> IF Script THEN "script" ELSE "server",
         header |-> IF decoded.applied # "" /\ Script THEN "none" ELSE header,
         coded |-> IF Script THEN decoded.coded ELSE Content(header)]

\* Mutated: update() is left out.
AnswerUnpublished(r) ==
    /\ pc[r] = "upstream"
    /\ \A m \in sent[r] : m.length = "right"
    /\ \E header \in Codings, o \in Outcomes :
         /\ o.action # "raises"
         /\ entry' = [entry EXCEPT ![r].resp = IF "resp_body" \in o.mods THEN "rule"
                                               ELSE IF Script THEN "script" ELSE "server"]
         /\ Reply(r, Served(header))
    /\ UNCHANGED <<gateVars, req, listed, known, sent>>

\* The server answers.  process_response() fills the Entry, applies the rule
\* that matches now to the Entry, and updates the store; match() may raise
\* before the update, which is answered 502.
Answer(r) ==
    /\ pc[r] = "upstream"
    /\ \A m \in sent[r] : m.length = "right"
    /\ \E header \in Codings, o \in Outcomes :
         /\ entry' = [entry EXCEPT ![r].resp = IF "resp_body" \in o.mods THEN "rule"
                                               ELSE IF Script THEN "script" ELSE "server"]
         /\ IF o.action = "raises"
            THEN Reply(r, Plain("failed")) /\ UNCHANGED known
            ELSE Reply(r, Served(header)) /\ known' = known \cup {r}
    /\ UNCHANGED <<gateVars, req, listed, sent>>

\* Mutated: the exception escapes.
FailUnanswered(r) ==
    /\ pc[r] = "upstream"
    /\ pc' = [pc EXCEPT ![r] = "dead"]
    /\ UNCHANGED <<gateVars, req, entry, listed, known, sent, reply>>

\* No connection, 30 s in which the server takes or sends nothing, on_response()
\* raises, or a body that is not as long as its Content-Length: 502.
Fail(r) ==
    /\ pc[r] = "upstream"
    /\ Reply(r, Plain("failed"))
    /\ UNCHANGED <<gateVars, req, entry, listed, known, sent>>

\* The user, and the Intercept switch.
Review ==
    /\ \/ Gate!SwitchOn \/ Gate!SwitchOff
       \/ \E r \in Requests, v \in Gate!Verdicts : Gate!Decide(r, v)
    /\ UNCHANGED <<pc, req, entry, listed, known, sent, reply>>

Next ==
    \/ Review
    \/ \E r \in Requests :
         \/ HookRaises(r) \/ ArrivePassed(r) \/ ArriveHeld(r) \/ LeaveReview(r)
         \/ Answer(r) \/ Fail(r)

Spec == Init /\ [][Next]_vars

\* The loop runs a handler that can go on.  The 30 s of httpx are for each
\* connect, write and read: they end the call of a server that says nothing,
\* not of one that always sends another byte.
FairSpec ==
    /\ Spec
    /\ \A r \in Requests : WF_vars(LeaveReview(r))
    /\ \A r \in Requests \ Endless : WF_vars(Answer(r) \/ Fail(r))
-------------------------------------------------------------------------------
(* Properties *)

\* A request the user dropped leaves no trace: it is not recorded and nothing
\* is sent, although it had passed the script and waited with the others.
DropLeavesNoTrace ==
    \A r \in Requests :
        place[r] = "dropped" => r \notin listed \cup known /\ sent[r] = {} /\ entry[r] = NoEntry

\* A rule that blocks, blocks whatever the user or the script made of the
\* request: the client gets 403, nothing is sent, and the entry is listed.
BlockHolds ==
    \A r \in Requests :
        (entry[r].tag = "blocked" \/ reply[r].kind = "blocked") =>
            /\ entry[r].tag = "blocked" /\ reply[r].kind = "blocked"
            /\ sent[r] = {} /\ r \in listed

\* The body that goes upstream is the one the entry shows, after the script,
\* the user and the rules.
BodySentIsRecorded ==
    \A r \in Requests : \A m \in sent[r] : entry[r] # NoEntry /\ m.body = entry[r].body

\* A client is served a response only if its entry shows one, and the store
\* has told its subscribers.
ServedIsRecorded ==
    \A r \in Requests : reply[r].kind = "served" => entry[r].resp # "" /\ r \in known

\* Whatever was sent to a server that comes to an end, by an answer or by its
\* silence, is answered, also while other requests are upstream for ever.
SentIsAnswered ==
    \A r \in Requests \ Endless : (pc[r] = "upstream") ~> (reply[r].kind # "none")

\* A held request that has a verdict leaves the review.
DecidedLeaves ==
    \A r \in Requests : (pc[r] = "review" /\ verdict[r] # "none") ~> (pc[r] # "review")

\* docs/rule-engine.md, "Actions": modifications are applied to the request and
\* to the response, and a redirect is answered, so what goes upstream and what
\* comes back is what the entry shows, and nothing that is redirected is sent.
ActionsHold ==
    \A r \in Requests :
        /\ \A m \in sent[r] : m.headers = entry[r].headers
        /\ reply[r].kind = "served" => reply[r].body = entry[r].resp
        /\ entry[r].tag = "redirected" => sent[r] = {}
===============================================================================

---------------------------- MODULE Forward_proofs ----------------------------
(* Proofs about Forward, for every set of requests, with or without a script *)
(* and for every list of modify rules.                                       *)
EXTENDS Forward, TLAPS

-------------------------------------------------------------------------------
(* The inductive invariant *)

\* Until process_request() runs, and for ever if the user dropped it, a request
\* has no Entry, is not listed, and was neither sent nor served.
Fresh(r) ==
    pc[r] \in {"new", "review"} \/ place[r] = "dropped" =>
        entry[r] = NoEntry /\ r \notin listed /\ r \notin known /\ sent[r] = {}

\* Where _forward() is agrees with where the gate has the request.
Placed(r) ==
    /\ pc[r] = "new" => place[r] = "new"
    /\ pc[r] = "review" <=> place[r] = "waiting"

\* A request that waits for the server has been sent, one that is still to be
\* processed has no reply.
Progress(r) ==
    /\ pc[r] = "upstream" => sent[r] # {}
    /\ pc[r] \in {"new", "review"} => reply[r].kind = "none"

\* BlockHolds, BodySentIsRecorded and ServedIsRecorded, of one request.
Honest(r) ==
    /\ entry[r].tag = "blocked" <=> reply[r].kind = "blocked"
    /\ reply[r].kind = "blocked" => sent[r] = {} /\ r \in listed
    /\ \A m \in sent[r] : entry[r] # NoEntry /\ m.body = entry[r].body
    /\ reply[r].kind = "served" => entry[r].resp # "" /\ r \in known

Good(r) == Fresh(r) /\ Placed(r) /\ Progress(r) /\ Honest(r)

IInv == TypeOK /\ \A r \in Requests : Good(r)

-------------------------------------------------------------------------------
(* Lemmas *)

\* The initial state satisfies the invariant.
LEMMA InitInv == Init => IInv
  <1> SUFFICES ASSUME Init PROVE IInv
    OBVIOUS
  <1>1. TypeOK
    BY DEF Init, TypeOK, Gate!GateInit, Gate!GateTypeOK, Message, Arrived, Lengths, Bodies,
           Entries, NoEntry, Replies, Plain, Codings
  <1>2. ASSUME NEW r \in Requests PROVE Good(r)
    <2>1. Plain("none").kind = "none" /\ NoEntry.tag # "blocked"
      BY DEF Plain, NoEntry
    <2>2. Fresh(r) /\ Placed(r)
      BY DEF Init, Fresh, Placed, Gate!GateInit
    <2>3. Progress(r) /\ Honest(r)
      BY <2>1 DEF Init, Progress, Honest
    <2> QED
      BY <2>2, <2>3 DEF Good
  <1> QED
    BY <1>1, <1>2 DEF IInv

\* A request that a step leaves alone keeps what it had.
LEMMA OthersStay ==
    ASSUME NEW q, Good(q),
           pc'[q] = pc[q], place'[q] = place[q], entry'[q] = entry[q], sent'[q] = sent[q],
           reply'[q] = reply[q], q \in listed' <=> q \in listed, q \in known' <=> q \in known
    PROVE  Good(q)'
  BY DEF Good, Fresh, Placed, Progress, Honest

\* Recorded() makes an Entry of a message, and what is sent is a message.
LEMMA RecordedType ==
    ASSUME NEW m \in Message, NEW o \in Outcomes, NEW length \in Lengths
    PROVE  /\ Recorded(m, o) \in Entries
           /\ Recorded(m, o).resp = "" /\ Recorded(m, o) # NoEntry
           /\ Recorded(m, o).tag = "blocked" <=> o.action = "block"
           /\ [headers |-> HeadersLeft(m, o), body |-> Recorded(m, o).body, length |-> length]
                \in Message
  <1>1. /\ m.headers \in {"client", "edited", "appended", "rule"}
        /\ m.body \in Bodies
    BY DEF Message
  <1>2. HeadersLeft(m, o) \in {"client", "edited", "appended", "rule"}
    BY <1>1 DEF HeadersLeft
  <1> QED
    BY <1>1, <1>2 DEF Recorded, Entries, NoEntry, Message, Bodies

\* The outcome without a rule is one of the outcomes.
LEMMA UnmatchedOutcome == Unmatched \in Outcomes
  BY DEF Unmatched, Outcomes

\* process_request(), whatever it decides, keeps the types.
LEMMA ProcessRequestTypes ==
    ASSUME TypeOK, NEW r \in Requests, NEW m \in Message, ProcessRequest(r, m)
    PROVE  /\ pc' \in [Requests -> {"new", "review", "upstream", "done", "dead"}]
           /\ entry' \in [Requests -> Entries]
           /\ listed' \subseteq Requests /\ known' \subseteq Requests
           /\ sent' \in [Requests -> SUBSET Message]
           /\ reply' \in [Requests -> Replies]
  <1> DEFINE Goal == /\ pc' \in [Requests -> {"new", "review", "upstream", "done", "dead"}]
                     /\ entry' \in [Requests -> Entries]
                     /\ listed' \subseteq Requests /\ known' \subseteq Requests
                     /\ sent' \in [Requests -> SUBSET Message]
                     /\ reply' \in [Requests -> Replies]
  <1> SUFFICES Goal
    OBVIOUS
  <1>1. ASSUME NEW o \in Outcomes, NEW length \in Lengths, Upstream(r, m, o, length),
               listed' \subseteq Requests, known' \subseteq Requests
        PROVE  Goal
    BY <1>1, RecordedType DEF Upstream, TypeOK
  <1>2. CASE PassThrough(r, m)
    <2>1. m.length \in Lengths
      BY DEF Message
    <2> QED
      BY <1>1, <1>2, <2>1, UnmatchedOutcome DEF PassThrough, TypeOK
  <1>3. ASSUME NEW o \in Outcomes, Block(r, m, o) PROVE Goal
    <2>1. Recorded(m, o) \in Entries
      BY RecordedType DEF Lengths
    <2>2. Plain("blocked") \in Replies
      BY DEF Plain, Replies, Codings
    <2> QED
      BY <1>3, <2>1, <2>2 DEF Block, Reply, TypeOK
  <1>4. ASSUME NEW o \in Outcomes, Admit(r, m, o) PROVE Goal
    BY <1>1, <1>4 DEF Admit, TypeOK
  <1>5. CASE /\ pc' = [pc EXCEPT ![r] = "dead"]
             /\ UNCHANGED <<entry, listed, known, sent, reply>>
    BY <1>5 DEF TypeOK
  <1> QED
    BY <1>2, <1>3, <1>4, <1>5 DEF ProcessRequest

\* What process_request() and the lines after it establish for a request that
\* had no Entry: it is blocked, sent, or its handler is dead.
LEMMA ProcessRequestResult ==
    ASSUME TypeOK, NEW r \in Requests, NEW m \in Message, ProcessRequest(r, m),
           entry[r] = NoEntry, sent[r] = {}, reply[r].kind # "blocked", reply[r].kind # "served"
    PROVE  /\ pc'[r] \notin {"new", "review"}
           /\ pc'[r] = "upstream" => sent'[r] # {}
           /\ entry'[r].tag = "blocked" <=> reply'[r].kind = "blocked"
           /\ reply'[r].kind = "blocked" => sent'[r] = {} /\ r \in listed'
           /\ \A n \in sent'[r] : entry'[r] # NoEntry /\ n.body = entry'[r].body
           /\ reply'[r].kind # "served"
           /\ \A q \in Requests \ {r} :
                /\ pc'[q] = pc[q] /\ entry'[q] = entry[q] /\ sent'[q] = sent[q]
                /\ reply'[q] = reply[q]
                /\ q \in listed' <=> q \in listed
                /\ q \in known' <=> q \in known
  <1> DEFINE Goal ==
           /\ pc'[r] \notin {"new", "review"}
           /\ pc'[r] = "upstream" => sent'[r] # {}
           /\ entry'[r].tag = "blocked" <=> reply'[r].kind = "blocked"
           /\ reply'[r].kind = "blocked" => sent'[r] = {} /\ r \in listed'
           /\ \A n \in sent'[r] : entry'[r] # NoEntry /\ n.body = entry'[r].body
           /\ reply'[r].kind # "served"
           /\ \A q \in Requests \ {r} :
                /\ pc'[q] = pc[q] /\ entry'[q] = entry[q] /\ sent'[q] = sent[q]
                /\ reply'[q] = reply[q]
                /\ q \in listed' <=> q \in listed
                /\ q \in known' <=> q \in known
  <1> SUFFICES Goal
    OBVIOUS
  <1>1. ASSUME NEW o \in Outcomes, NEW length \in Lengths, Upstream(r, m, o, length),
               o.action # "block",
               \A q \in Requests \ {r} : /\ q \in listed' <=> q \in listed
                                         /\ q \in known' <=> q \in known
        PROVE  Goal
    <2>1. /\ pc'[r] = "upstream" /\ entry'[r] = Recorded(m, o) /\ reply' = reply
          /\ sent'[r] = {[headers |-> HeadersLeft(m, o), body |-> Recorded(m, o).body,
                          length |-> length]}
      BY <1>1 DEF Upstream, TypeOK
    <2>2. /\ Recorded(m, o) # NoEntry /\ Recorded(m, o).tag # "blocked"
      BY <1>1, RecordedType
    <2>3. \A n \in sent'[r] : n.body = Recorded(m, o).body
      BY <2>1
    <2>4. \A q \in Requests \ {r} :
            pc'[q] = pc[q] /\ entry'[q] = entry[q] /\ sent'[q] = sent[q] /\ reply'[q] = reply[q]
      BY <1>1 DEF Upstream, TypeOK
    <2> QED
      BY <1>1, <2>1, <2>2, <2>3, <2>4
  <1>2. CASE PassThrough(r, m)
    <2>1. m.length \in Lengths
      BY DEF Message
    <2> QED
      BY <1>1, <1>2, <2>1, UnmatchedOutcome DEF PassThrough, Unmatched
  <1>3. ASSUME NEW o \in Outcomes, Blocked(m, o), Block(r, m, o) PROVE Goal
    <2>1. Recorded(m, o).tag = "blocked"
      BY <1>3, RecordedType DEF Lengths, Blocked
    <2>2. /\ pc'[r] = "done" /\ entry'[r] = Recorded(m, o) /\ r \in listed'
          /\ sent'[r] = {} /\ reply'[r] = Plain("blocked")
      BY <1>3 DEF Block, Reply, TypeOK
    <2>3. reply'[r].kind = "blocked"
      <3>1. Plain("blocked").kind = "blocked"
        BY DEF Plain
      <3> QED
        BY <2>2, <3>1
    <2>4. \A q \in Requests \ {r} :
            /\ pc'[q] = pc[q] /\ entry'[q] = entry[q] /\ sent'[q] = sent[q]
            /\ reply'[q] = reply[q]
            /\ q \in listed' <=> q \in listed
            /\ q \in known' <=> q \in known
      BY <1>3 DEF Block, Reply, TypeOK
    <2> QED
      BY <2>1, <2>2, <2>3, <2>4
  <1>4. ASSUME NEW o \in Outcomes, ~Blocked(m, o), Admit(r, m, o) PROVE Goal
    BY <1>1, <1>4 DEF Admit, Blocked
  <1>5. CASE /\ pc' = [pc EXCEPT ![r] = "dead"]
             /\ UNCHANGED <<entry, listed, known, sent, reply>>
    <2>1. NoEntry.tag # "blocked"
      BY DEF NoEntry
    <2>2. pc'[r] = "dead" /\ \A q \in Requests \ {r} : pc'[q] = pc[q]
      BY <1>5 DEF TypeOK
    <2> QED
      BY <1>5, <2>1, <2>2
  <1> QED
    BY <1>2, <1>3, <1>4, <1>5 DEF ProcessRequest
-------------------------------------------------------------------------------
(* The steps *)

\* Every step keeps the types.
LEMMA TypeStep == TypeOK /\ [Next]_vars => TypeOK'
  <1> SUFFICES ASSUME TypeOK, [Next]_vars PROVE TypeOK'
    OBVIOUS
  <1>1. ASSUME Review PROVE TypeOK'
    <2>1. Gate!GateTypeOK'
      BY <1>1 DEF Review, TypeOK, Gate!GateTypeOK, Gate!SwitchOn, Gate!SwitchOff, Gate!Decide,
                  Gate!Verdicts
    <2> QED
      BY <1>1, <2>1 DEF Review, TypeOK
  <1>2. ASSUME NEW r \in Requests, HookRaises(r) PROVE TypeOK'
    BY <1>2 DEF HookRaises, TypeOK, Gate!GateTypeOK, gateVars
  <1>3. Scripted \subseteq Message
    BY DEF Scripted, Message, Arrived, Lengths, Bodies
  <1>4. ASSUME NEW r \in Requests, ArrivePassed(r) PROVE TypeOK'
    <2>1. PICK m \in Scripted : req' = [req EXCEPT ![r] = m] /\ ProcessRequest(r, m)
      BY <1>4 DEF ArrivePassed
    <2>2. Gate!GateTypeOK'
      BY <1>4 DEF ArrivePassed, Gate!Pass, TypeOK, Gate!GateTypeOK
    <2>3. req' \in [Requests -> Message]
      BY <1>3, <2>1 DEF TypeOK
    <2> QED
      BY <1>3, <2>1, <2>2, <2>3, ProcessRequestTypes DEF TypeOK
  <1>5. ASSUME NEW r \in Requests, ArriveHeld(r) PROVE TypeOK'
    <2>1. Gate!GateTypeOK'
      BY <1>5 DEF ArriveHeld, Gate!Hold, TypeOK, Gate!GateTypeOK
    <2>2. req' \in [Requests -> Message]
      BY <1>3, <1>5 DEF ArriveHeld, TypeOK
    <2> QED
      BY <1>5, <2>1, <2>2 DEF ArriveHeld, TypeOK
  <1>6. ASSUME NEW r \in Requests, LeaveReview(r) PROVE TypeOK'
    <2>1. Gate!GateTypeOK'
      BY <1>6 DEF LeaveReview, Gate!Leave, TypeOK, Gate!GateTypeOK
    <2>2. CASE Reply(r, Plain("dropped")) /\ UNCHANGED <<req, entry, listed, known, sent>>
      <3>1. Plain("dropped") \in Replies
        BY DEF Plain, Replies, Codings
      <3> QED
        BY <2>1, <2>2, <3>1 DEF Reply, TypeOK
    <2>3. CASE \E m \in {req[r]} \cup [headers : {"edited"}, body : {"edited"}, length : Lengths] :
                 req' = [req EXCEPT ![r] = m] /\ ProcessRequest(r, m)
      <3>1. PICK m \in {req[r]} \cup [headers : {"edited"}, body : {"edited"}, length : Lengths] :
                 req' = [req EXCEPT ![r] = m] /\ ProcessRequest(r, m)
        BY <2>3
      <3>2. m \in Message
        BY DEF TypeOK, Message, Bodies
      <3>3. req' \in [Requests -> Message]
        BY <3>1, <3>2 DEF TypeOK
      <3> QED
        BY <2>1, <3>1, <3>2, <3>3, ProcessRequestTypes DEF TypeOK
    <2> QED
      BY <1>6, <2>2, <2>3 DEF LeaveReview
  <1>7. ASSUME NEW r \in Requests, Answer(r) PROVE TypeOK'
    <2>1. PICK header \in Codings, o \in Outcomes :
            /\ entry' = [entry EXCEPT ![r].resp = IF "resp_body" \in o.mods THEN "rule"
                                                 ELSE IF Script THEN "script" ELSE "server"]
            /\ \/ Reply(r, Plain("failed")) /\ UNCHANGED known
               \/ Reply(r, Served(header)) /\ known' = known \cup {r}
      BY <1>7 DEF Answer
    <2>2. Served(header) \in Replies /\ Plain("failed") \in Replies
      BY DEF Served, Replies, DecodeBody, Content, Codings, Plain
    <2>3. entry' \in [Requests -> Entries]
      <3>1. \A x \in {"server", "script", "rule"} : [entry[r] EXCEPT !.resp = x] \in Entries
        <4>1. entry[r] \in Entries
          BY DEF TypeOK
        <4> QED
          BY <4>1 DEF Entries
      <3>2. PICK x \in {"server", "script", "rule"} :
              entry' = [entry EXCEPT ![r] = [entry[r] EXCEPT !.resp = x]]
        BY <2>1
      <3> QED
        BY <3>1, <3>2 DEF TypeOK
    <2>4. Gate!GateTypeOK' /\ req' = req /\ listed' = listed /\ sent' = sent
      BY <1>7 DEF Answer, gateVars, TypeOK, Gate!GateTypeOK
    <2> QED
      BY <2>1, <2>2, <2>3, <2>4 DEF Reply, TypeOK
  <1>8. ASSUME NEW r \in Requests, Fail(r) PROVE TypeOK'
    <2>1. Plain("failed") \in Replies
      BY DEF Plain, Replies, Codings
    <2> QED
      BY <1>8, <2>1 DEF Fail, Reply, TypeOK, Gate!GateTypeOK, gateVars
  <1>9. CASE UNCHANGED vars
    BY <1>9 DEF vars, gateVars, TypeOK, Gate!GateTypeOK
  <1> QED
    BY <1>1, <1>2, <1>4, <1>5, <1>6, <1>7, <1>8, <1>9 DEF Next

\* process_request() leaves its request as the invariant has it, provided the
\* gate let the request through.
LEMMA ProcessRequestGood ==
    ASSUME IInv, NEW r \in Requests, NEW m \in Message, ProcessRequest(r, m),
           pc[r] \in {"new", "review"},
           place'[r] = "forwarded", \A q \in Requests \ {r} : place'[q] = place[q]
    PROVE  \A q \in Requests : Good(q)'
  <1>1. /\ entry[r] = NoEntry /\ sent[r] = {} /\ r \notin listed /\ r \notin known
        /\ reply[r].kind = "none"
    BY DEF IInv, Good, Fresh, Progress
  <1>2. ASSUME NEW q \in Requests \ {r} PROVE Good(q)'
    BY <1>1, <1>2, ProcessRequestResult, OthersStay DEF IInv
  <1>3. Good(r)'
    BY <1>1, ProcessRequestResult DEF IInv, Good, Fresh, Placed, Progress, Honest
  <1> QED
    BY <1>2, <1>3

\* Every step keeps what the invariant says of each request.
LEMMA GoodStep == IInv /\ [Next]_vars => \A q \in Requests : Good(q)'
  <1> SUFFICES ASSUME IInv, [Next]_vars PROVE \A q \in Requests : Good(q)'
    OBVIOUS
  <1>0. /\ TypeOK /\ \A q \in Requests : Good(q)
    BY DEF IInv
  <1>1. ASSUME Review PROVE \A q \in Requests : Good(q)'
    <2>1. place' = place
      BY <1>1 DEF Review, Gate!SwitchOn, Gate!SwitchOff, Gate!Decide
    <2> QED
      BY <1>0, <1>1, <2>1, OthersStay DEF Review
  <1>2. ASSUME NEW r \in Requests, HookRaises(r) PROVE \A q \in Requests : Good(q)'
    <2>1. pc' = [pc EXCEPT ![r] = "dead"] /\ pc[r] = "new"
      BY <1>2 DEF HookRaises
    <2>2. UNCHANGED <<place, entry, listed, known, sent, reply>>
      BY <1>2 DEF HookRaises, gateVars
    <2>3. Good(r)'
      BY <1>0, <2>1, <2>2 DEF TypeOK, Good, Fresh, Placed, Progress, Honest
    <2>4. ASSUME NEW q \in Requests \ {r} PROVE Good(q)'
      BY <1>0, <2>1, <2>2, OthersStay DEF TypeOK
    <2> QED
      BY <2>3, <2>4
  <1>3. Scripted \subseteq Message
    BY DEF Scripted, Message, Arrived, Lengths, Bodies
  <1>4. ASSUME NEW r \in Requests, ArrivePassed(r) PROVE \A q \in Requests : Good(q)'
    <2>1. PICK m \in Scripted : ProcessRequest(r, m)
      BY <1>4 DEF ArrivePassed
    <2>2. pc[r] = "new" /\ place' = [place EXCEPT ![r] = "forwarded"]
      BY <1>4 DEF ArrivePassed, Gate!Pass
    <2> QED
      BY <1>0, <1>3, <2>1, <2>2, ProcessRequestGood DEF TypeOK, Gate!GateTypeOK
  <1>5. ASSUME NEW r \in Requests, ArriveHeld(r) PROVE \A q \in Requests : Good(q)'
    <2>1. /\ pc[r] = "new" /\ pc' = [pc EXCEPT ![r] = "review"]
          /\ place' = [place EXCEPT ![r] = "waiting"]
          /\ UNCHANGED <<entry, listed, known, sent, reply>>
      BY <1>5 DEF ArriveHeld, Gate!Hold
    <2>2. Good(r)'
      BY <1>0, <2>1 DEF TypeOK, Gate!GateTypeOK, Good, Fresh, Placed, Progress, Honest
    <2>3. ASSUME NEW q \in Requests \ {r} PROVE Good(q)'
      BY <1>0, <2>1, OthersStay DEF TypeOK, Gate!GateTypeOK
    <2> QED
      BY <2>2, <2>3
  <1>6. ASSUME NEW r \in Requests, LeaveReview(r) PROVE \A q \in Requests : Good(q)'
    <2>1. /\ pc[r] = "review"
          /\ place' = [place EXCEPT ![r] = IF verdict[r] = "drop" THEN "dropped" ELSE "forwarded"]
      BY <1>6 DEF LeaveReview, Gate!Leave
    <2>2. CASE place'[r] = "dropped"
      <3>1. /\ pc' = [pc EXCEPT ![r] = "done"] /\ reply' = [reply EXCEPT ![r] = Plain("dropped")]
            /\ UNCHANGED <<entry, listed, known, sent>>
        BY <1>6, <2>2 DEF LeaveReview, Reply
      <3>2. Plain("dropped").kind = "dropped" /\ NoEntry.tag # "blocked"
        BY DEF Plain, NoEntry
      <3>3. Good(r)'
        BY <1>0, <2>1, <2>2, <3>1, <3>2 DEF TypeOK, Good, Fresh, Placed, Progress, Honest
      <3>4. ASSUME NEW q \in Requests \ {r} PROVE Good(q)'
        BY <1>0, <2>1, <3>1, OthersStay DEF TypeOK, Gate!GateTypeOK
      <3> QED
        BY <3>3, <3>4
    <2>3. CASE place'[r] # "dropped"
      <3>1. PICK m \in {req[r]} \cup [headers : {"edited"}, body : {"edited"}, length : Lengths] :
                 ProcessRequest(r, m)
        BY <1>6, <2>3 DEF LeaveReview
      <3>2. m \in Message
        BY <1>0 DEF TypeOK, Message, Bodies
      <3>3. place'[r] = "forwarded" /\ \A q \in Requests \ {r} : place'[q] = place[q]
        BY <1>0, <2>1, <2>3 DEF TypeOK, Gate!GateTypeOK
      <3> QED
        BY <2>1, <3>1, <3>2, <3>3, ProcessRequestGood
    <2> QED
      BY <2>2, <2>3
  <1>7. ASSUME NEW r \in Requests, Answer(r) PROVE \A q \in Requests : Good(q)'
    <2>1. PICK header \in Codings, o \in Outcomes :
            /\ entry' = [entry EXCEPT ![r].resp = IF "resp_body" \in o.mods THEN "rule"
                                                 ELSE IF Script THEN "script" ELSE "server"]
            /\ \/ Reply(r, Plain("failed")) /\ UNCHANGED known
               \/ Reply(r, Served(header)) /\ known' = known \cup {r}
      BY <1>7 DEF Answer
    <2>2. pc[r] = "upstream" /\ UNCHANGED <<place, listed, sent>>
      BY <1>7 DEF Answer, gateVars
    <2>3. Served(header).kind = "served" /\ Plain("failed").kind = "failed"
      BY DEF Served, Plain
    <2>4. /\ pc' = [pc EXCEPT ![r] = "done"]
          /\ reply'[r].kind \in {"served", "failed"}
          /\ reply'[r].kind = "served" => r \in known'
          /\ \A q \in Requests \ {r} : reply'[q] = reply[q] /\ (q \in known' <=> q \in known)
      BY <1>0, <2>1, <2>3 DEF Reply, TypeOK
    <2>5. /\ entry'[r].resp # "" /\ entry'[r].tag = entry[r].tag /\ entry'[r].body = entry[r].body
          /\ \A q \in Requests \ {r} : entry'[q] = entry[q]
      BY <1>0, <2>1 DEF TypeOK, Entries
    <2>6. Good(r)'
      <3>1. place[r] # "dropped" /\ place[r] # "waiting" /\ sent[r] # {}
        BY <1>0, <2>2 DEF Good, Fresh, Placed, Progress
      <3>2. entry[r].tag # "blocked" /\ \A m \in sent[r] : m.body = entry[r].body
        BY <1>0, <3>1 DEF Good, Honest
      <3>3. NoEntry.resp = ""
        BY DEF NoEntry
      <3> QED
        BY <1>0, <2>2, <2>4, <2>5, <3>1, <3>2, <3>3
           DEF TypeOK, Good, Fresh, Placed, Progress, Honest
    <2>7. ASSUME NEW q \in Requests \ {r} PROVE Good(q)'
      BY <1>0, <2>2, <2>4, <2>5, OthersStay DEF TypeOK
    <2> QED
      BY <2>6, <2>7
  <1>8. ASSUME NEW r \in Requests, Fail(r) PROVE \A q \in Requests : Good(q)'
    <2>1. /\ pc[r] = "upstream" /\ pc' = [pc EXCEPT ![r] = "done"]
          /\ reply' = [reply EXCEPT ![r] = Plain("failed")]
          /\ UNCHANGED <<place, entry, listed, known, sent>>
      BY <1>8 DEF Fail, Reply, gateVars
    <2>2. Plain("failed").kind = "failed"
      BY DEF Plain
    <2>3. Good(r)'
      <3>1. place[r] # "dropped" /\ place[r] # "waiting" /\ sent[r] # {}
        BY <1>0, <2>1 DEF Good, Fresh, Placed, Progress
      <3>2. entry[r].tag # "blocked"
        BY <1>0, <3>1 DEF Good, Honest
      <3> QED
        BY <1>0, <2>1, <2>2, <3>1, <3>2 DEF TypeOK, Good, Fresh, Placed, Progress, Honest
    <2>4. ASSUME NEW q \in Requests \ {r} PROVE Good(q)'
      BY <1>0, <2>1, OthersStay DEF TypeOK
    <2> QED
      BY <2>3, <2>4
  <1>9. CASE UNCHANGED vars
    BY <1>0, <1>9, OthersStay DEF vars, gateVars
  <1> QED
    BY <1>1, <1>2, <1>4, <1>5, <1>6, <1>7, <1>8, <1>9 DEF Next
-------------------------------------------------------------------------------
(* Theorems *)

\* IInv is an invariant of Forward.
THEOREM Invariance == Spec => []IInv
  <1>1. IInv /\ [Next]_vars => IInv'
    BY TypeStep, GoodStep DEF IInv
  <1> QED
    BY InitInv, <1>1, PTL DEF Spec

\* Every variable of _forward() keeps its type.
THEOREM TypeCorrect == Spec => []TypeOK
  <1>1. IInv => TypeOK
    BY DEF IInv
  <1> QED
    BY Invariance, <1>1, PTL

\* A dropped request is never recorded and never sent.
THEOREM DropsLeaveNoTrace == Spec => []DropLeavesNoTrace
  <1>1. IInv => DropLeavesNoTrace
    BY DEF IInv, Good, Fresh, DropLeavesNoTrace
  <1> QED
    BY Invariance, <1>1, PTL

\* A blocked request is answered 403, listed, and never sent.
THEOREM BlocksHold == Spec => []BlockHolds
  <1>1. IInv => BlockHolds
    BY DEF IInv, Good, Honest, BlockHolds
  <1> QED
    BY Invariance, <1>1, PTL

\* The body sent upstream is the body of the Entry.
THEOREM SentBodyIsRecorded == Spec => []BodySentIsRecorded
  <1>1. IInv => BodySentIsRecorded
    BY DEF IInv, Good, Honest, BodySentIsRecorded
  <1> QED
    BY Invariance, <1>1, PTL

\* A response that is served is in its Entry, and the store has published it.
THEOREM ServedResponseIsRecorded == Spec => []ServedIsRecorded
  <1>1. IInv => ServedIsRecorded
    BY DEF IInv, Good, Honest, ServedIsRecorded
  <1> QED
    BY Invariance, <1>1, PTL
===============================================================================

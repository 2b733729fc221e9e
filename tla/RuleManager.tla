------------------------------ MODULE RuleManager ------------------------------
(* RuleManager of pypproxy/rule/rule.py, and the two interfaces that edit    *)
(* it: the REST endpoints of pypproxy/api/server.py and the rules panel of   *)
(* pypproxy/ui/settings.py.                                                  *)
(*                                                                           *)
(* Rule objects are shared: a panel keeps the objects it was rendered with,  *)
(* and writes to them, whatever the list has become since.                   *)
EXTENDS Integers, Sequences, FiniteSets

CONSTANTS Objs,      \* Rule objects, one per request body or form
          Prios,     \* priorities
          Contexts,  \* what match() is called with
          Verdicts,  \* what the conditions of a rule may say of each context
          Pages      \* open settings pages

ASSUME RuleAssumption ==
    /\ Prios \subseteq Int /\ Prios # {}
    /\ Verdicts # {}
    /\ Verdicts \subseteq [Contexts -> {"hit", "miss", "raises"}]

VARIABLES heap,     \* the fields of each Rule object
          made,     \* the objects that exist
          rules,    \* _rules
          counter,  \* _counter
          shown     \* the objects whose rows each page shows, in order

vars == <<heap, made, rules, counter, shown>>

\* action: is it a member of Action, or the string that a form returns?
Rule == [id : Nat, enabled : BOOLEAN, priority : Prios, on : Verdicts, action : {"enum", "str"}]

TypeOK ==
    /\ heap \in [Objs -> Rule]
    /\ made \subseteq Objs
    /\ rules \in Seq(made)
    /\ counter \in Nat
    /\ shown \in [Pages -> Seq(made)]

Blank == [id |-> 0, enabled |-> TRUE, priority |-> CHOOSE p \in Prios : TRUE,
          on |-> CHOOSE v \in Verdicts : TRUE, action |-> "enum"]

Init ==
    /\ heap = [o \in Objs |-> Blank]
    /\ made = {}
    /\ rules = <<>>
    /\ counter = 0
    /\ shown = [p \in Pages |-> <<>>]

-------------------------------------------------------------------------------
(* RuleManager *)

\* p rearranges a list of n elements.
Rearranges(p, n) ==
    /\ p \in [1..n -> 1..n]
    /\ \A k \in 1..n : \E i \in 1..n : p[i] = k
    /\ \A i, j \in 1..n : i # j => p[i] # p[j]

\* Mutated: ascending.
SortAscending(q) ==
    \E p \in [DOMAIN q -> DOMAIN q] :
      /\ Rearranges(p, Len(q))
      /\ rules' = [i \in 1..Len(q) |-> q[p[i]]]
      /\ \A i, j \in 1..Len(q) : i < j =>
           LET a == heap'[q[p[i]]].priority
               b == heap'[q[p[j]]].priority
           IN  a < b \/ (a = b /\ p[i] < p[j])

\* Mutated: sorted ascending and reversed, which reverses equal priorities.
SortReversed(q) ==
    \E p \in [DOMAIN q -> DOMAIN q] :
      /\ Rearranges(p, Len(q))
      /\ rules' = [i \in 1..Len(q) |-> q[p[i]]]
      /\ \A i, j \in 1..Len(q) : i < j =>
           LET a == heap'[q[p[i]]].priority
               b == heap'[q[p[j]]].priority
           IN  a > b \/ (a = b /\ p[i] > p[j])

\* _sort(): by descending priority, equal priorities in the order they had.
Sort(q) ==
    \E p \in [DOMAIN q -> DOMAIN q] :
      /\ Rearranges(p, Len(q))
      /\ rules' = [i \in 1..Len(q) |-> q[p[i]]]
      /\ \A i, j \in 1..Len(q) : i < j =>
           LET a == heap'[q[p[i]]].priority
               b == heap'[q[p[j]]].priority
           IN  a > b \/ (a = b /\ p[i] < p[j])

\* Mutated: the rule keeps the id it came with.
AddKeepingId(o, rule) ==
    /\ counter' = counter + 1
    /\ heap' = [heap EXCEPT ![o] = [rule EXCEPT !.id = 1]]
    /\ Sort(Append(rules, o))

\* add(): the manager numbers the rule, whatever id it came with.
Add(o, rule) ==
    /\ counter' = counter + 1
    /\ heap' = [heap EXCEPT ![o] = [rule EXCEPT !.id = counter']]
    /\ Sort(Append(rules, o))

\* Mutated: update() adds a rule it does not find.
UpdateOrAdd(o) ==
    LET same == {k \in DOMAIN rules : heap[rules[k]].id = heap'[o].id}
    IN  IF same = {} THEN Sort(Append(rules, o))
        ELSE \E k \in same : (\A j \in same : k <= j) /\ Sort([rules EXCEPT ![k] = o])

\* update(): the first rule with the id of o gives its place to o.
Update(o) ==
    LET same == {k \in DOMAIN rules : heap[rules[k]].id = heap'[o].id}
    IN  IF same = {} THEN UNCHANGED rules
        ELSE \E k \in same : (\A j \in same : k <= j) /\ Sort([rules EXCEPT ![k] = o])

\* delete(): the others stay, in their order.
Delete(i) ==
    LET others == {k \in DOMAIN rules : heap[rules[k]].id # i}
    IN  \E e \in [1..Cardinality(others) -> others] :
          /\ \A m, n \in 1..Cardinality(others) : m < n => e[m] < e[n]
          /\ rules' = [n \in 1..Cardinality(others) |-> rules[e[n]]]

\* match(): the first enabled rule whose conditions hold, or whose regular
\* expression does not compile, which raises out of match().
Live(c) == {k \in DOMAIN rules : heap[rules[k]].enabled /\ heap[rules[k]].on[c] # "miss"}
Fired(c) == {rules[k] : k \in {n \in Live(c) : \A j \in Live(c) : n <= j}}

-------------------------------------------------------------------------------
(* REST *)

\* from_dict() of a request body.
Bodies == [id : {0}, enabled : BOOLEAN, priority : Prios, on : Verdicts, action : {"enum"}]

\* POST /api/rules, and each rule of POST /api/import/rules
PostRule(o, rule) ==
    /\ o \notin made
    /\ made' = made \cup {o}
    /\ Add(o, rule)
    /\ UNCHANGED shown

\* PUT /api/rules/{id}: a new object for a rule that may be gone.
PutRule(o, i, rule) ==
    /\ o \notin made
    /\ made' = made \cup {o}
    /\ heap' = [heap EXCEPT ![o] = [rule EXCEPT !.id = i]]
    /\ Update(o)
    /\ UNCHANGED <<counter, shown>>

\* DELETE /api/rules/{id}
DeleteRule(i) ==
    /\ Delete(i)
    /\ UNCHANGED <<heap, made, counter, shown>>

-------------------------------------------------------------------------------
(* The rules panel *)

\* _refresh() fails at the first rule whose action is a string: that rule's
\* row has its switch and no button, and the rows after it are missing.
Strings(q) == {k \in DOMAIN q : heap'[q[k]].action = "str"}
Rendered(q) ==
    LET last == {k \in Strings(q) : \A j \in Strings(q) : k <= j}
    IN  SubSeq(q, 1, IF last = {} THEN Len(q) ELSE CHOOSE k \in last : TRUE)
Refresh(p) == shown' = [shown EXCEPT ![p] = Rendered(rules')]

OpenPanel(p) ==
    /\ UNCHANGED <<heap, made, rules, counter>>
    /\ Refresh(p)

\* _add(): the form's action is passed on as the string it is.
AddInPanel(p, o, priority, verdict) ==
    /\ o \notin made
    /\ made' = made \cup {o}
    /\ Add(o, [id |-> 0, enabled |-> TRUE, priority |-> priority, on |-> verdict, action |-> "str"])
    /\ Refresh(p)

\* A row's switch: setattr() on the object the row was rendered with, then
\* update().  Another page may have moved the switch, so the value is any.
Toggle(p, o, value) ==
    /\ \E k \in DOMAIN shown[p] : shown[p][k] = o
    /\ heap' = [heap EXCEPT ![o].enabled = value]
    /\ Update(o)
    /\ UNCHANGED <<made, counter, shown>>

\* A row's delete button.
DeleteInPanel(p, o) ==
    /\ heap[o].action = "enum"
    /\ \E k \in DOMAIN shown[p] : shown[p][k] = o
    /\ Delete(heap[o].id)
    /\ UNCHANGED <<heap, made, counter>>
    /\ Refresh(p)

Next ==
    \/ \E o \in Objs, rule \in Bodies : PostRule(o, rule)
    \/ \E o \in Objs, i \in 1..counter, rule \in Bodies : PutRule(o, i, rule)
    \/ \E i \in 1..counter : DeleteRule(i)
    \/ \E p \in Pages :
         \/ OpenPanel(p)
         \/ \E o \in Objs, priority \in Prios, verdict \in Verdicts :
              AddInPanel(p, o, priority, verdict)
         \/ \E o \in made, value \in BOOLEAN : Toggle(p, o, value)
         \/ \E o \in made : DeleteInPanel(p, o)

Spec == Init /\ [][Next]_vars
-------------------------------------------------------------------------------
(* Properties *)

Listed == {rules[k] : k \in DOMAIN rules}
Ids == {heap[o].id : o \in Listed}
Matches(o, c) == heap[o].enabled /\ heap[o].on[c] # "miss"

\* The rule that fires has the highest priority of all enabled rules that
\* match, and no rule fires only if none matches, whatever mixture of REST
\* calls, switches of stale panels and deletions led to the list.
HighestFires ==
    \A c \in Contexts :
        /\ Fired(c) = {} <=> ~\E o \in Listed : Matches(o, c)
        /\ \A f \in Fired(c), o \in Listed :
             Matches(o, c) => heap[o].priority <= heap[f].priority

\* Two rules never share an id, so update() and delete() reach the one meant.
OnePerId ==
    /\ \A j, k \in DOMAIN rules : j # k => heap[rules[j]].id # heap[rules[k]].id
    /\ Ids \subseteq 1..counter

\* A deleted rule never comes back, not even by a PUT that was under way or
\* by the switch of a panel that still shows it, and its id is not reused.
DeletedStaysDeleted == [][\A i \in 1..counter : i \in Ids' => i \in Ids]_vars

\* An edit changes the order of two listed rules only if it changes the
\* priority of one of them.
TiesKeepOrder ==
    [][\A i, j \in DOMAIN rules, k, l \in DOMAIN rules' :
         (/\ i < j /\ k > l
          /\ rules'[k] = rules[i] /\ rules'[l] = rules[j])
            => \/ heap'[rules[i]].priority # heap[rules[i]].priority
               \/ heap'[rules[j]].priority # heap[rules[j]].priority]_vars
===============================================================================

-------------------------- MODULE RuleManager_proofs --------------------------
(* Proofs about RuleManager, for every set of rules, priorities and panels.  *)
EXTENDS RuleManager, TLAPS, FiniteSetTheorems, WellFoundedInduction

\* The list is sorted by descending priority.
Sorted ==
    \A j, k \in DOMAIN rules : j < k => heap[rules[k]].priority <= heap[rules[j]].priority

IInv == TypeOK /\ Sorted /\ OnePerId

-------------------------------------------------------------------------------
(* Lists *)

\* What _sort() returns holds the elements of q, by descending priority.
LEMMA SortProps ==
    ASSUME NEW q \in Seq(made'), made' \subseteq Objs, heap' \in [Objs -> Rule], Sort(q)
    PROVE  /\ rules' \in Seq(made') /\ Len(rules') = Len(q)
           /\ Sorted'
           /\ \A k \in DOMAIN rules' : \E i \in DOMAIN q : rules'[k] = q[i]
           /\ (\A j, k \in DOMAIN q : j # k => heap'[q[j]].id # heap'[q[k]].id)
              => \A j, k \in DOMAIN rules' : j # k => heap'[rules'[j]].id # heap'[rules'[k]].id
<1> DEFINE n == Len(q)
<1>1. n \in Nat /\ DOMAIN q = 1..n /\ \A i \in 1..n : q[i] \in made' /\ q[i] \in Objs
  OBVIOUS
<1>2. PICK p \in [1..n -> 1..n] :
        /\ \A i, j \in 1..n : i # j => p[i] # p[j]
        /\ rules' = [i \in 1..n |-> q[p[i]]]
        /\ \A i, j \in 1..n : i < j =>
             \/ heap'[q[p[i]]].priority > heap'[q[p[j]]].priority
             \/ heap'[q[p[i]]].priority = heap'[q[p[j]]].priority
  BY <1>1 DEF Sort, Rearranges
<1> HIDE DEF n
<1>3. \A i \in 1..n : p[i] \in 1..n
  OBVIOUS
<1>4. rules' \in Seq(made') /\ Len(rules') = n /\ DOMAIN rules' = 1..n
  BY <1>1, <1>2, <1>3
<1>5. \A i \in 1..n : heap'[q[p[i]]].priority \in Int
  BY <1>1, <1>3, RuleAssumption DEF Rule
<1>6. Sorted'
  BY <1>2, <1>4, <1>5 DEF Sorted
<1>7. \A k \in DOMAIN rules' : \E i \in DOMAIN q : rules'[k] = q[i]
  BY <1>1, <1>2, <1>3, <1>4
<1>8. ASSUME \A j, k \in DOMAIN q : j # k => heap'[q[j]].id # heap'[q[k]].id,
             NEW j \in DOMAIN rules', NEW k \in DOMAIN rules', j # k
      PROVE  heap'[rules'[j]].id # heap'[rules'[k]].id
  <2>1. p[j] \in 1..n /\ p[k] \in 1..n /\ p[j] # p[k]
    BY <1>2, <1>3, <1>4, <1>8
  <2> QED BY <1>1, <1>2, <1>4, <1>8, <2>1
<1> QED BY <1>4, <1>6, <1>7, <1>8 DEF n

LEMMA Types ==
    ASSUME TypeOK
    PROVE  /\ heap \in [Objs -> Rule] /\ made \subseteq Objs
           /\ Len(rules) \in Nat /\ DOMAIN rules = 1..Len(rules)
           /\ \A k \in DOMAIN rules : rules[k] \in made /\ rules[k] \in Objs
           /\ \A o \in Objs : /\ heap[o].id \in Nat /\ heap[o].priority \in Int
                              /\ heap[o] \in Rule
<1>1. /\ heap \in [Objs -> Rule] /\ made \subseteq Objs
      /\ rules \in Seq(made)
  BY DEF TypeOK
<1>2. \A o \in Objs : heap[o].id \in Nat /\ heap[o].priority \in Int
  BY <1>1, RuleAssumption DEF Rule
<1> QED BY <1>1, <1>2

\* add()
LEMMA AddStep ==
    ASSUME IInv, NEW o \in Objs \ made, NEW rule \in Rule,
           made' = made \cup {o}, Add(o, rule)
    PROVE  /\ heap' \in [Objs -> Rule] /\ rules' \in Seq(made') /\ counter' \in Nat
           /\ Sorted' /\ OnePerId'
           /\ \A i \in 1..counter : i \in Ids' => i \in Ids
<1>1. counter \in Nat /\ counter' = counter + 1 /\ rules \in Seq(made)
  BY DEF IInv, TypeOK, Add
<1>2. /\ heap' = [heap EXCEPT ![o] = [rule EXCEPT !.id = counter']]
      /\ heap' \in [Objs -> Rule] /\ heap'[o].id = counter'
      /\ \A x \in made : heap'[x] = heap[x]
  <2>1. heap \in [Objs -> Rule] /\ made \subseteq Objs
    BY DEF IInv, TypeOK
  <2>2. heap' = [heap EXCEPT ![o] = [rule EXCEPT !.id = counter']] /\ counter' \in Nat
    BY <1>1 DEF Add
  <2>3. [rule EXCEPT !.id = counter'] \in Rule /\ [rule EXCEPT !.id = counter'].id = counter'
    BY <2>2 DEF Rule
  <2> QED BY <2>1, <2>2, <2>3
<1> DEFINE q == Append(rules, o)
<1>3. /\ q \in Seq(made') /\ made' \subseteq Objs /\ Sort(q)
      /\ DOMAIN q = 1..(Len(rules) + 1) /\ q[Len(rules) + 1] = o
      /\ \A k \in 1..Len(rules) : q[k] = rules[k]
  BY <1>1 DEF Add, IInv, TypeOK
<1>4. \A k \in 1..Len(rules) : /\ heap'[q[k]] = heap[rules[k]] /\ heap[rules[k]].id \in 1..counter
                               /\ heap[rules[k]].id \in Ids
  BY <1>1, <1>2, <1>3, Types DEF IInv, OnePerId, Ids, Listed
<1>5. \A j, k \in DOMAIN q : j # k => heap'[q[j]].id # heap'[q[k]].id
  <2> SUFFICES ASSUME NEW j \in DOMAIN q, NEW k \in DOMAIN q, j # k
               PROVE  heap'[q[j]].id # heap'[q[k]].id
    OBVIOUS
  <2>1. CASE j \in 1..Len(rules) /\ k \in 1..Len(rules)
    BY <1>4, <2>1, Types DEF IInv, OnePerId
  <2>2. CASE j = Len(rules) + 1 \/ k = Len(rules) + 1
    BY <1>1, <1>2, <1>3, <1>4, <2>2
  <2> QED BY <1>1, <1>3, <2>1, <2>2
<1> HIDE DEF q
<1>6. /\ rules' \in Seq(made') /\ Sorted'
      /\ \A j, k \in DOMAIN rules' : j # k => heap'[rules'[j]].id # heap'[rules'[k]].id
      /\ \A k \in DOMAIN rules' : \E i \in DOMAIN q : rules'[k] = q[i]
  BY <1>2, <1>3, <1>5, SortProps
<1>7. \A k \in DOMAIN rules' : \/ heap'[rules'[k]].id = counter'
                               \/ heap'[rules'[k]].id \in Ids /\ heap'[rules'[k]].id \in 1..counter
  BY <1>1, <1>2, <1>3, <1>4, <1>6
<1>8. OnePerId'
  BY <1>1, <1>6, <1>7 DEF OnePerId, Ids, Listed
<1>9. \A i \in 1..counter : i \in Ids' => i \in Ids
  BY <1>1, <1>7 DEF Ids, Listed
<1> QED BY <1>1, <1>2, <1>6, <1>8, <1>9

\* update(), by an object that has its id and may be in the list already.
LEMMA UpdateStep ==
    ASSUME IInv, NEW o \in made', made' \subseteq Objs, made \subseteq made',
           counter' = counter, heap' \in [Objs -> Rule],
           \A x \in made : heap'[x].id = heap[x].id /\ heap'[x].priority = heap[x].priority,
           Update(o)
    PROVE  /\ rules' \in Seq(made')
           /\ Sorted' /\ OnePerId'
           /\ \A i \in 1..counter : i \in Ids' => i \in Ids
<1>1. /\ rules \in Seq(made') /\ Len(rules) \in Nat /\ DOMAIN rules = 1..Len(rules)
      /\ \A k \in DOMAIN rules : /\ rules[k] \in made
                                 /\ heap'[rules[k]].id = heap[rules[k]].id
                                 /\ heap'[rules[k]].priority = heap[rules[k]].priority
  <2>1. rules \in Seq(made') /\ Len(rules) \in Nat /\ DOMAIN rules = 1..Len(rules)
    BY DEF IInv, TypeOK
  <2>2. \A k \in DOMAIN rules : rules[k] \in made
    BY Types DEF IInv
  <2> QED BY <2>1, <2>2
<1>2. Sorted /\ OnePerId
  BY DEF IInv
<1>3. CASE UNCHANGED rules
  <2>1. Sorted' /\ \A j, k \in DOMAIN rules : j # k => heap'[rules[j]].id # heap'[rules[k]].id
    BY <1>1, <1>2, <1>3 DEF Sorted, OnePerId
  <2>2. Ids' = Ids
    BY <1>1, <1>3 DEF Ids, Listed
  <2>3. OnePerId'
    BY <1>2, <1>3, <2>1, <2>2 DEF OnePerId
  <2> QED BY <1>1, <1>3, <2>1, <2>2, <2>3
<1>4. CASE \E k \in DOMAIN rules : heap[rules[k]].id = heap'[o].id /\ Sort([rules EXCEPT ![k] = o])
  <2>1. PICK k \in DOMAIN rules : heap[rules[k]].id = heap'[o].id /\ Sort([rules EXCEPT ![k] = o])
    BY <1>4
  <2> DEFINE q == [rules EXCEPT ![k] = o]
  <2>2. q \in Seq(made') /\ DOMAIN q = DOMAIN rules /\ q[k] = o
        /\ \A j \in DOMAIN rules : j # k => q[j] = rules[j]
    BY <1>1
  <2>3. \A j \in DOMAIN rules : heap'[q[j]].id = heap[rules[j]].id
    BY <1>1, <2>1, <2>2
  <2> HIDE DEF q
  <2>4. \A i, j \in DOMAIN q : i # j => heap'[q[i]].id # heap'[q[j]].id
    BY <1>2, <2>2, <2>3 DEF OnePerId
  <2>5. Sort(q)
    BY <2>1 DEF q
  <2>6. /\ rules' \in Seq(made') /\ Sorted'
        /\ \A i, j \in DOMAIN rules' : i # j => heap'[rules'[i]].id # heap'[rules'[j]].id
        /\ \A j \in DOMAIN rules' : \E i \in DOMAIN q : rules'[j] = q[i]
    BY <2>2, <2>4, <2>5, SortProps
  <2>7. Ids' \subseteq Ids
    BY <2>2, <2>3, <2>6 DEF Ids, Listed
  <2> QED BY <1>2, <2>6, <2>7 DEF OnePerId
<1> QED BY <1>3, <1>4 DEF Update

LEMMA DeleteStep ==
    ASSUME IInv, NEW i, Delete(i), UNCHANGED <<heap, made, counter>>
    PROVE  /\ rules' \in Seq(made)
           /\ Sorted' /\ OnePerId'
           /\ \A j \in 1..counter : j \in Ids' => j \in Ids
<1> DEFINE others == {k \in DOMAIN rules : heap[rules[k]].id # i}
           m == Cardinality(others)
<1>1. /\ rules \in Seq(made) /\ Len(rules) \in Nat /\ DOMAIN rules = 1..Len(rules)
      /\ \A k \in DOMAIN rules : rules[k] \in made /\ heap[rules[k]].id \in Ids
      /\ Sorted /\ OnePerId
  BY DEF IInv, TypeOK, Ids, Listed
<1>2. IsFiniteSet(others) /\ m \in Nat
  <2>1. IsFiniteSet(1..Len(rules)) /\ others \subseteq 1..Len(rules)
    BY <1>1, FS_Interval
  <2> HIDE DEF others
  <2> QED BY <2>1, FS_Subset, FS_CardinalityType
<1>3. PICK e \in [1..m -> others] : /\ \A x, y \in 1..m : x < y => e[x] < e[y]
                                   /\ rules' = [n \in 1..m |-> rules[e[n]]]
  BY DEF Delete
<1>4. \A n \in 1..m : e[n] \in DOMAIN rules /\ e[n] \in Nat
  BY <1>1
<1> HIDE DEF others, m
<1>5. /\ rules' \in Seq(made) /\ DOMAIN rules' = 1..m
      /\ \A n \in 1..m : rules'[n] = rules[e[n]] /\ rules'[n] \in made
  BY <1>1, <1>2, <1>3, <1>4
<1>6. Sorted'
  <2> SUFFICES ASSUME NEW j \in 1..m, NEW k \in 1..m, j < k
               PROVE  heap[rules'[k]].priority <= heap[rules'[j]].priority
    BY <1>5 DEF Sorted
  <2> QED BY <1>1, <1>3, <1>4, <1>5 DEF Sorted
<1>7. \A j, k \in DOMAIN rules' : j # k => heap[rules'[j]].id # heap[rules'[k]].id
  <2> SUFFICES ASSUME NEW j \in 1..m, NEW k \in 1..m, j # k
               PROVE  heap[rules'[j]].id # heap[rules'[k]].id
    BY <1>5
  <2>1. j < k \/ k < j
    BY <1>2
  <2>2. e[j] # e[k]
    BY <1>3, <1>4, <2>1
  <2> QED BY <1>1, <1>4, <1>5, <2>2 DEF OnePerId
<1>8. Ids' \subseteq Ids
  BY <1>1, <1>4, <1>5 DEF Ids, Listed
<1> QED BY <1>1, <1>5, <1>6, <1>7, <1>8 DEF OnePerId

-------------------------------------------------------------------------------
(* The panel *)

LEMMA RefreshType ==
    ASSUME NEW p \in Pages, shown \in [Pages -> Seq(made)], made \subseteq made',
           rules' \in Seq(made'), Refresh(p)
    PROVE  shown' \in [Pages -> Seq(made')]
<1> DEFINE last == {k \in Strings(rules') : \A j \in Strings(rules') : k <= j}
           n == IF last = {} THEN Len(rules') ELSE CHOOSE k \in last : TRUE
<1>1. Len(rules') \in Nat /\ DOMAIN rules' = 1..Len(rules')
  OBVIOUS
<1>2. last \subseteq 1..Len(rules')
  BY <1>1 DEF Strings
<1>3. n \in 0..Len(rules')
  <2> HIDE DEF last
  <2>1. CASE last = {}
    BY <1>1, <2>1
  <2>2. CASE last # {}
    <3>1. n \in last
      BY <2>2
    <3> HIDE DEF n
    <3>2. n \in 1..Len(rules')
      BY <1>2, <3>1
    <3> QED BY <1>1, <3>2
  <2> QED BY <2>1, <2>2
<1>4. Rendered(rules') = SubSeq(rules', 1, n)
  BY DEF Rendered
<1> HIDE DEF n
<1>5. Rendered(rules') \in Seq(made')
  BY <1>1, <1>3, <1>4
<1>6. \A q \in Pages : shown[q] \in Seq(made')
  OBVIOUS
<1> QED BY <1>5, <1>6 DEF Refresh

\* What a step leaves of the invariant and of the ids.
Kept == IInv' /\ (\A i \in 1..counter : i \in Ids' => i \in Ids)

LEMMA StepKept ==
    ASSUME IInv, [Next]_vars
    PROVE  Kept
<1>0. TypeOK /\ Sorted /\ OnePerId /\ made \subseteq Objs /\ counter \in Nat
      /\ shown \in [Pages -> Seq(made)]
  BY DEF IInv, TypeOK
<1>1. ASSUME NEW o \in Objs, NEW rule \in Bodies, PostRule(o, rule) PROVE Kept
  <2>1. o \in Objs \ made /\ rule \in Rule /\ made' = made \cup {o} /\ Add(o, rule)
    BY <1>1 DEF PostRule, Bodies, Rule
  <2>2. /\ heap' \in [Objs -> Rule] /\ rules' \in Seq(made') /\ counter' \in Nat
        /\ Sorted' /\ OnePerId' /\ \A i \in 1..counter : i \in Ids' => i \in Ids
    BY <2>1, AddStep
  <2>3. shown' \in [Pages -> Seq(made')] /\ made' \subseteq Objs
    <3>1. shown' = shown
      BY <1>1 DEF PostRule
    <3>2. \A q \in Pages : shown[q] \in Seq(made')
      BY <1>0, <2>1
    <3> QED BY <1>0, <2>1, <3>1, <3>2
  <2> QED BY <2>2, <2>3 DEF Kept, IInv, TypeOK
<1>2. ASSUME NEW o \in Objs, NEW i \in 1..counter, NEW rule \in Bodies, PutRule(o, i, rule)
      PROVE  Kept
  <2>1. /\ o \notin made /\ made' = made \cup {o} /\ made' \subseteq Objs
        /\ heap' = [heap EXCEPT ![o] = [rule EXCEPT !.id = i]]
        /\ Update(o) /\ counter' = counter /\ shown' = shown
    BY <1>0, <1>2 DEF PutRule
  <2>2. [rule EXCEPT !.id = i] \in Rule
    BY <1>0 DEF Bodies, Rule
  <2>3. heap' \in [Objs -> Rule] /\ \A x \in made : heap'[x] = heap[x]
    BY <1>0, <2>1, <2>2 DEF TypeOK
  <2>4. rules' \in Seq(made') /\ Sorted' /\ OnePerId' /\ \A j \in 1..counter : j \in Ids' => j \in Ids
    BY <2>1, <2>3, UpdateStep
  <2>5. shown' \in [Pages -> Seq(made')]
    <3>1. \A q \in Pages : shown[q] \in Seq(made')
      BY <1>0, <2>1
    <3> QED BY <1>0, <2>1, <3>1
  <2> QED BY <1>0, <2>1, <2>3, <2>4, <2>5 DEF Kept, IInv, TypeOK
<1>3. ASSUME NEW i \in 1..counter, DeleteRule(i) PROVE Kept
  <2>1. Delete(i) /\ UNCHANGED <<heap, made, counter, shown>>
    BY <1>3 DEF DeleteRule
  <2>2. rules' \in Seq(made) /\ Sorted' /\ OnePerId' /\ \A j \in 1..counter : j \in Ids' => j \in Ids
    BY <2>1, DeleteStep
  <2> QED BY <2>1, <2>2 DEF Kept, IInv, TypeOK
<1>4. ASSUME NEW p \in Pages, OpenPanel(p) PROVE Kept
  <2>1. UNCHANGED <<heap, made, rules, counter>> /\ Refresh(p) /\ rules' \in Seq(made')
        /\ made \subseteq made'
    BY <1>0, <1>4 DEF OpenPanel, TypeOK
  <2>2. shown' \in [Pages -> Seq(made')]
    BY <1>0, <2>1, RefreshType
  <2>3. TypeOK'
    BY <1>0, <2>1, <2>2 DEF TypeOK
  <2>4. Sorted' /\ OnePerId' /\ Ids' = Ids
    BY <1>0, <2>1 DEF Sorted, OnePerId, Ids, Listed
  <2> QED BY <2>3, <2>4 DEF Kept, IInv
<1>5. ASSUME NEW p \in Pages, NEW o \in Objs, NEW priority \in Prios, NEW verdict \in Verdicts,
             AddInPanel(p, o, priority, verdict)
      PROVE  Kept
  <2> DEFINE rule == [id |-> 0, enabled |-> TRUE, priority |-> priority, on |-> verdict, action |-> "str"]
  <2>1. o \in Objs \ made /\ rule \in Rule /\ made' = made \cup {o} /\ Add(o, rule) /\ Refresh(p)
    BY <1>5 DEF AddInPanel, Rule
  <2> HIDE DEF rule
  <2>2. /\ heap' \in [Objs -> Rule] /\ rules' \in Seq(made') /\ counter' \in Nat
        /\ Sorted' /\ OnePerId' /\ \A i \in 1..counter : i \in Ids' => i \in Ids
    BY <2>1, AddStep
  <2>3. shown' \in [Pages -> Seq(made')] /\ made' \subseteq Objs
    BY <1>0, <2>1, <2>2, RefreshType
  <2> QED BY <2>2, <2>3 DEF Kept, IInv, TypeOK
<1>6. ASSUME NEW p \in Pages, NEW o \in made, NEW value \in BOOLEAN, Toggle(p, o, value)
      PROVE  Kept
  <2>1. /\ heap' = [heap EXCEPT ![o].enabled = value] /\ Update(o)
        /\ UNCHANGED <<made, counter, shown>> /\ o \in made'
    BY <1>6 DEF Toggle
  <2>2. o \in Objs /\ heap \in [Objs -> Rule] /\ [heap[o] EXCEPT !.enabled = value] \in Rule
    BY <1>0 DEF TypeOK, Rule
  <2>3. heap' = [heap EXCEPT ![o] = [heap[o] EXCEPT !.enabled = value]]
    BY <2>1
  <2>4. heap' \in [Objs -> Rule]
    BY <2>2, <2>3
  <2>5. \A x \in made : heap'[x].id = heap[x].id /\ heap'[x].priority = heap[x].priority
    BY <1>0, <2>2, <2>3 DEF Rule
  <2>6. rules' \in Seq(made') /\ Sorted' /\ OnePerId' /\ \A j \in 1..counter : j \in Ids' => j \in Ids
    BY <1>0, <2>1, <2>4, <2>5, UpdateStep
  <2> QED BY <1>0, <2>1, <2>4, <2>6 DEF Kept, IInv, TypeOK
<1>7. ASSUME NEW p \in Pages, NEW o \in made, DeleteInPanel(p, o) PROVE Kept
  <2>1. Delete(heap[o].id) /\ UNCHANGED <<heap, made, counter>> /\ Refresh(p)
    BY <1>7 DEF DeleteInPanel
  <2>2. rules' \in Seq(made) /\ Sorted' /\ OnePerId' /\ \A j \in 1..counter : j \in Ids' => j \in Ids
    BY <2>1, DeleteStep
  <2>3. shown' \in [Pages -> Seq(made')]
    BY <1>0, <2>1, <2>2, RefreshType
  <2> QED BY <1>0, <2>1, <2>2, <2>3 DEF Kept, IInv, TypeOK
<1>8. CASE UNCHANGED vars
  BY <1>0, <1>8 DEF vars, Kept, IInv, TypeOK, Sorted, OnePerId, Ids, Listed
<1> QED BY <1>1, <1>2, <1>3, <1>4, <1>5, <1>6, <1>7, <1>8 DEF Next

-------------------------------------------------------------------------------
(* Ties *)

\* A step reverses two listed rules only if it changes a priority of theirs.
Ties ==
    \A i, j \in DOMAIN rules, k, l \in DOMAIN rules' :
      (/\ i < j /\ k > l
       /\ rules'[k] = rules[i] /\ rules'[l] = rules[j])
         => \/ heap'[rules[i]].priority # heap[rules[i]].priority
            \/ heap'[rules[j]].priority # heap[rules[j]].priority

\* _sort() keeps the order of equal priorities: those that were listed stand
\* in q where they stood, and two whose priorities did not change come out of
\* it in the order of the sorted list before.
LEMMA SortTies ==
    ASSUME IInv, NEW q \in Seq(made'), made' \subseteq Objs, heap' \in [Objs -> Rule], Sort(q),
           \A x \in DOMAIN q, y \in DOMAIN rules : q[x] = rules[y] => x = y
    PROVE  Ties
<1> SUFFICES ASSUME NEW i \in DOMAIN rules, NEW j \in DOMAIN rules,
                    NEW k \in DOMAIN rules', NEW l \in DOMAIN rules',
                    i < j, k > l, rules'[k] = rules[i], rules'[l] = rules[j],
                    heap'[rules[i]].priority = heap[rules[i]].priority,
                    heap'[rules[j]].priority = heap[rules[j]].priority
             PROVE  FALSE
  BY DEF Ties
<1> DEFINE n == Len(q)
<1>1. n \in Nat /\ DOMAIN q = 1..n /\ DOMAIN rules = 1..Len(rules) /\ Len(rules) \in Nat
  BY Types DEF IInv
<1>2. PICK p \in [1..n -> 1..n] :
        /\ rules' = [x \in 1..n |-> q[p[x]]]
        /\ \A x, y \in 1..n : x < y =>
             \/ heap'[q[p[x]]].priority > heap'[q[p[y]]].priority
             \/ heap'[q[p[x]]].priority = heap'[q[p[y]]].priority /\ p[x] < p[y]
  BY <1>1 DEF Sort, Rearranges
<1> HIDE DEF n
<1>3. k \in 1..n /\ l \in 1..n /\ p[k] \in 1..n /\ p[l] \in 1..n
  BY <1>2
<1>4. q[p[k]] = rules[i] /\ q[p[l]] = rules[j]
  BY <1>2, <1>3
<1>5. p[k] = i /\ p[l] = j
  BY <1>1, <1>3, <1>4
<1>6. \/ heap'[rules[j]].priority > heap'[rules[i]].priority
      \/ p[l] < p[k]
  BY <1>1, <1>2, <1>3, <1>4
<1>7. /\ heap[rules[j]].priority <= heap[rules[i]].priority
      /\ heap[rules[j]].priority \in Int /\ heap[rules[i]].priority \in Int
  BY Types DEF IInv, Sorted
<1> QED BY <1>1, <1>5, <1>6, <1>7

\* add() appends a rule that was not listed.
LEMMA AddTies ==
    ASSUME IInv, NEW o \in Objs \ made, NEW rule \in Rule,
           made' = made \cup {o}, Add(o, rule)
    PROVE  Ties
<1> DEFINE q == Append(rules, o)
<1>1. /\ rules \in Seq(made) /\ made' \subseteq Objs /\ Len(rules) \in Nat
      /\ DOMAIN rules = 1..Len(rules) /\ \A k \in DOMAIN rules : rules[k] \in made
  BY Types DEF IInv, TypeOK
<1>2. /\ q \in Seq(made') /\ Sort(q) /\ DOMAIN q = 1..(Len(rules) + 1)
      /\ q[Len(rules) + 1] = o /\ \A k \in 1..Len(rules) : q[k] = rules[k]
  BY <1>1 DEF Add
<1>3. heap' \in [Objs -> Rule]
  BY AddStep
<1> HIDE DEF q
<1>4. ASSUME NEW x \in DOMAIN q, NEW y \in DOMAIN rules, q[x] = rules[y] PROVE x = y
  <2>1. x \in 1..Len(rules)
    BY <1>1, <1>2, <1>4
  <2>2. heap[rules[x]].id = heap[rules[y]].id
    BY <1>2, <1>4, <2>1
  <2> QED BY <1>1, <2>1, <2>2 DEF IInv, OnePerId
<1> QED BY <1>1, <1>2, <1>3, <1>4, SortTies

\* update() puts o where the rule with its id was.
LEMMA UpdateTies ==
    ASSUME IInv, NEW o \in made', made' \subseteq Objs, made \subseteq made',
           heap' \in [Objs -> Rule],
           \A x \in made : heap'[x].id = heap[x].id,
           Update(o)
    PROVE  Ties
<1>1. /\ rules \in Seq(made') /\ Len(rules) \in Nat /\ DOMAIN rules = 1..Len(rules)
      /\ \A k \in DOMAIN rules : rules[k] \in made /\ heap'[rules[k]].id = heap[rules[k]].id
      /\ \A x, y \in DOMAIN rules : x # y => heap[rules[x]].id # heap[rules[y]].id
  BY Types DEF IInv, TypeOK, OnePerId
<1>2. CASE UNCHANGED rules
  BY <1>1, <1>2 DEF Ties
<1>3. CASE \E k \in DOMAIN rules : heap[rules[k]].id = heap'[o].id /\ Sort([rules EXCEPT ![k] = o])
  <2>1. PICK m \in DOMAIN rules : heap[rules[m]].id = heap'[o].id /\ Sort([rules EXCEPT ![m] = o])
    BY <1>3
  <2> DEFINE q == [rules EXCEPT ![m] = o]
  <2>2. /\ q \in Seq(made') /\ DOMAIN q = DOMAIN rules /\ q[m] = o /\ Sort(q)
        /\ \A x \in DOMAIN rules : x # m => q[x] = rules[x]
    BY <1>1, <2>1
  <2> HIDE DEF q
  <2>3. \A x \in DOMAIN q, y \in DOMAIN rules : q[x] = rules[y] => x = y
    BY <1>1, <2>1, <2>2
  <2> QED BY <2>2, <2>3, SortTies
<1> QED BY <1>2, <1>3 DEF Update

\* delete() takes rules out and moves none.
LEMMA DeleteTies ==
    ASSUME IInv, NEW i, Delete(i)
    PROVE  Ties
<1> DEFINE others == {k \in DOMAIN rules : heap[rules[k]].id # i}
           m == Cardinality(others)
<1>1. /\ DOMAIN rules = 1..Len(rules) /\ Len(rules) \in Nat
      /\ \A x, y \in DOMAIN rules : x # y => heap[rules[x]].id # heap[rules[y]].id
  BY Types DEF IInv, OnePerId
<1>2. m \in Nat
  <2>1. IsFiniteSet(1..Len(rules)) /\ others \subseteq 1..Len(rules)
    BY <1>1, FS_Interval
  <2> HIDE DEF others
  <2> QED BY <2>1, FS_Subset, FS_CardinalityType
<1>3. PICK e \in [1..m -> others] : /\ \A x, y \in 1..m : x < y => e[x] < e[y]
                                   /\ rules' = [n \in 1..m |-> rules[e[n]]]
  BY DEF Delete
<1>4. \A n \in 1..m : e[n] \in DOMAIN rules /\ e[n] \in Nat
  BY <1>1
<1> HIDE DEF others, m
<1>5. ASSUME NEW a \in DOMAIN rules, NEW b \in DOMAIN rules, NEW k \in 1..m, NEW l \in 1..m,
             a < b, k > l, rules'[k] = rules[a], rules'[l] = rules[b]
      PROVE  FALSE
  <2>1. rules[e[k]] = rules[a] /\ rules[e[l]] = rules[b] /\ e[k] \in DOMAIN rules /\ e[l] \in DOMAIN rules
    BY <1>3, <1>4, <1>5
  <2>2. e[k] = a /\ e[l] = b
    BY <1>1, <2>1
  <2>3. e[l] < e[k]
    BY <1>2, <1>3, <1>5
  <2> QED BY <1>1, <1>5, <2>2, <2>3
<1> QED BY <1>3, <1>5 DEF Ties

LEMMA StepTies ==
    ASSUME IInv, [Next]_vars
    PROVE  Ties
<1>0. TypeOK /\ made \subseteq Objs /\ counter \in Nat
  BY DEF IInv, TypeOK
<1>1. ASSUME NEW o \in Objs, NEW rule \in Bodies, PostRule(o, rule) PROVE Ties
  <2>1. o \in Objs \ made /\ rule \in Rule /\ made' = made \cup {o} /\ Add(o, rule)
    BY <1>1 DEF PostRule, Bodies, Rule
  <2> QED BY <2>1, AddTies
<1>2. ASSUME NEW o \in Objs, NEW i \in 1..counter, NEW rule \in Bodies, PutRule(o, i, rule)
      PROVE  Ties
  <2>1. /\ o \notin made /\ made' = made \cup {o} /\ made' \subseteq Objs
        /\ heap' = [heap EXCEPT ![o] = [rule EXCEPT !.id = i]]
        /\ Update(o)
    BY <1>0, <1>2 DEF PutRule
  <2>2. [rule EXCEPT !.id = i] \in Rule
    BY <1>0 DEF Bodies, Rule
  <2>3. heap' \in [Objs -> Rule] /\ \A x \in made : heap'[x] = heap[x]
    BY <1>0, <2>1, <2>2 DEF TypeOK
  <2> QED BY <2>1, <2>3, UpdateTies
<1>3. ASSUME NEW i \in 1..counter, DeleteRule(i) PROVE Ties
  BY <1>3, DeleteTies DEF DeleteRule
<1>4. ASSUME NEW p \in Pages, OpenPanel(p) PROVE Ties
  <2>1. rules' = rules /\ DOMAIN rules = 1..Len(rules) /\ Len(rules) \in Nat
        /\ \A x, y \in DOMAIN rules : x # y => heap[rules[x]].id # heap[rules[y]].id
    BY <1>4, Types DEF OpenPanel, IInv, OnePerId
  <2> QED BY <2>1 DEF Ties
<1>5. ASSUME NEW p \in Pages, NEW o \in Objs, NEW priority \in Prios, NEW verdict \in Verdicts,
             AddInPanel(p, o, priority, verdict)
      PROVE  Ties
  <2> DEFINE rule == [id |-> 0, enabled |-> TRUE, priority |-> priority, on |-> verdict, action |-> "str"]
  <2>1. o \in Objs \ made /\ rule \in Rule /\ made' = made \cup {o} /\ Add(o, rule)
    BY <1>5 DEF AddInPanel, Rule
  <2> HIDE DEF rule
  <2> QED BY <2>1, AddTies
<1>6. ASSUME NEW p \in Pages, NEW o \in made, NEW value \in BOOLEAN, Toggle(p, o, value)
      PROVE  Ties
  <2>1. heap' = [heap EXCEPT ![o].enabled = value] /\ Update(o) /\ made' = made
    BY <1>6 DEF Toggle
  <2>2. o \in Objs /\ heap \in [Objs -> Rule] /\ [heap[o] EXCEPT !.enabled = value] \in Rule
    BY <1>0 DEF TypeOK, Rule
  <2>3. heap' = [heap EXCEPT ![o] = [heap[o] EXCEPT !.enabled = value]]
    BY <2>1
  <2>4. heap' \in [Objs -> Rule]
    BY <2>2, <2>3
  <2>5. \A x \in made : heap'[x].id = heap[x].id
    BY <1>0, <2>2, <2>3 DEF Rule
  <2> QED BY <1>0, <2>1, <2>4, <2>5, UpdateTies
<1>7. ASSUME NEW p \in Pages, NEW o \in made, DeleteInPanel(p, o) PROVE Ties
  BY <1>7, DeleteTies DEF DeleteInPanel
<1>8. CASE UNCHANGED vars
  <2>1. rules' = rules /\ DOMAIN rules = 1..Len(rules) /\ Len(rules) \in Nat
        /\ \A x, y \in DOMAIN rules : x # y => heap[rules[x]].id # heap[rules[y]].id
    BY <1>8, Types DEF vars, IInv, OnePerId
  <2> QED BY <2>1 DEF Ties
<1> QED BY <1>1, <1>2, <1>3, <1>4, <1>5, <1>6, <1>7, <1>8 DEF Next

LEMMA InitIInv == Init => IInv
<1> SUFFICES ASSUME Init PROVE IInv
  OBVIOUS
<1>1. Blank \in Rule
  BY RuleAssumption DEF Blank, Rule
<1>2. heap \in [Objs -> Rule] /\ rules = <<>> /\ made = {} /\ counter = 0
      /\ shown = [p \in Pages |-> <<>>]
  BY <1>1 DEF Init
<1>3. TypeOK
  BY <1>2 DEF TypeOK
<1>4. \A k \in DOMAIN rules : FALSE
  BY <1>2
<1> QED BY <1>3, <1>4 DEF IInv, Sorted, OnePerId, Ids, Listed

-------------------------------------------------------------------------------
(* Theorems *)

\* The inductive invariant of the rule list and its editors.
THEOREM Invariance == Spec => []IInv
<1>1. IInv /\ [Next]_vars => IInv'
  BY StepKept DEF Kept
<1> QED BY InitIInv, <1>1, PTL DEF Spec

\* Type correctness of the rule objects, the list and the panels.
THEOREM TypeCorrect == Spec => []TypeOK
<1>1. IInv => TypeOK
  BY DEF IInv
<1> QED BY <1>1, Invariance, PTL

\* No two listed rules share an id: update() and delete() reach one rule.
THEOREM IdsAreDistinct == Spec => []OnePerId
<1>1. IInv => OnePerId
  BY DEF IInv
<1> QED BY <1>1, Invariance, PTL

\* match() returns a rule of the highest priority among all that match, and
\* nothing only when no enabled rule matches.
THEOREM HighestPriorityFires == Spec => []HighestFires
<1>1. IInv => HighestFires
  <2> SUFFICES ASSUME IInv, NEW c \in Contexts
               PROVE  /\ Fired(c) = {} <=> ~\E o \in Listed : Matches(o, c)
                      /\ \A f \in Fired(c), o \in Listed :
                           Matches(o, c) => heap[o].priority <= heap[f].priority
    BY DEF HighestFires
  <2>0. /\ DOMAIN rules = 1..Len(rules) /\ Len(rules) \in Nat /\ Sorted
        /\ \A k \in DOMAIN rules : heap[rules[k]].priority \in Int
    BY Types DEF IInv
  <2>1. \A k \in DOMAIN rules : k \in Live(c) <=> Matches(rules[k], c)
    BY DEF Live, Matches
  <2>2. Live(c) \subseteq DOMAIN rules /\ Live(c) \subseteq Nat
    BY <2>0 DEF Live
  <2>3. Live(c) # {} => Fired(c) # {}
    <3> SUFFICES ASSUME Live(c) # {} PROVE Fired(c) # {}
      OBVIOUS
    <3>1. PICK k \in Live(c) : \A j \in Live(c) : ~(<<j, k>> \in OpToRel(<, Nat))
      BY <2>2, WFMin, NatLessThanWellFounded
    <3>2. OpToRel(<, Nat) = {ss \in Nat \X Nat : ss[1] < ss[2]}
      BY DEF OpToRel
    <3>3. \A j \in Live(c) : k <= j
      <4>1. \A j \in Live(c) : ~(<<j, k>> \in {ss \in Nat \X Nat : ss[1] < ss[2]})
        BY <3>1, <3>2
      <4>2. \A j \in Live(c) : j \in Nat /\ k \in Nat
        BY <2>2
      <4>3. ASSUME NEW j \in Nat, k \in Nat, ~(<<j, k>> \in {ss \in Nat \X Nat : ss[1] < ss[2]})
            PROVE  k <= j
        <5>1. <<j, k>> \in Nat \X Nat /\ <<j, k>>[1] = j /\ <<j, k>>[2] = k
          BY <4>3
        <5>2. ~(<<j, k>>[1] < <<j, k>>[2])
          BY <4>3, <5>1, Zenon
        <5> QED BY <4>3, <5>1, <5>2
      <4> QED BY <4>1, <4>2, <4>3
    <3> QED BY <3>3 DEF Fired
  <2>4. Fired(c) # {} => Live(c) # {}
    BY DEF Fired
  <2>5. Fired(c) = {} <=> ~\E o \in Listed : Matches(o, c)
    BY <2>1, <2>2, <2>3, <2>4 DEF Listed
  <2>6. ASSUME NEW f \in Fired(c), NEW o \in Listed, Matches(o, c)
        PROVE  heap[o].priority <= heap[f].priority
    <3>1. PICK k \in Live(c) : f = rules[k] /\ \A j \in Live(c) : k <= j
      BY DEF Fired
    <3>2. PICK j \in DOMAIN rules : o = rules[j]
      BY DEF Listed
    <3>3. k <= j /\ k \in DOMAIN rules
      BY <2>1, <2>2, <2>6, <3>1, <3>2
    <3>4. CASE k = j
      BY <2>0, <3>1, <3>2, <3>4
    <3>5. CASE k < j
      BY <2>0, <3>1, <3>2, <3>3, <3>5 DEF Sorted
    <3> QED BY <2>0, <3>3, <3>4, <3>5
  <2> QED BY <2>5, <2>6
<1> QED BY <1>1, Invariance, PTL

\* A deleted rule stays deleted, and its id is never given again.
THEOREM NoneReturns == Spec => DeletedStaysDeleted
<1>1. IInv /\ [Next]_vars => (\A i \in 1..counter : i \in Ids' => i \in Ids)
  BY StepKept DEF Kept
<1>2. IInv /\ [Next]_vars => [\A i \in 1..counter : i \in Ids' => i \in Ids]_vars
  BY <1>1
<1> QED BY <1>2, Invariance, PTL DEF Spec, DeletedStaysDeleted

\* An edit, by REST or on a panel however old, reverses two listed rules only
\* if it changes the priority of one of them.
THEOREM OrderOfTies == Spec => TiesKeepOrder
<1>1. IInv /\ [Next]_vars => [Ties]_vars
  BY StepTies
<1>2. Spec => [][Ties]_vars
  BY <1>1, Invariance, PTL DEF Spec
<1> QED BY <1>2 DEF TiesKeepOrder, Ties
===============================================================================

------------------------- MODULE TrafficStore_proofs -------------------------
(* Proofs about TrafficStore, for every set of flows, pages and colours, and *)
(* about the terminal interface and the search index, which extend it.       *)
EXTENDS Terminal, TLAPS, FiniteSetTheorems

\* Ids are below the counter, and a flow that was not captured has none.
IdsBounded ==
    /\ \A f \in Flows : stage[f] \in {"idle", "bare"} => obj[f].id = 0
    /\ \A f \in Flows : stage[f] = "open" => obj[f].id \in 1..counter
    /\ \A k \in DOMAIN entries : obj[entries[k]].id \in 1..counter
    /\ \A i \in DOMAIN byId : i <= counter /\ obj[byId[i]].id = i /\ stage[byId[i]] # "idle"
    /\ \A k \in DOMAIN dbq : dbq[k].kind = "put" => stage[dbq[k].of] # "idle"

\* The statement of this coroutine will touch the row of id i.
Affects(op, i) == op.kind = "clear" \/ obj[op.of].id = i

\* No coroutine from position k on touches the row of id i.
Untouched(k, i) == \A j \in k..Len(dbq) : ~Affects(dbq[j], i)

\* Where the latest state of an indexed entry is: its last write is waiting
\* with nothing behind it that touches the row, or is executed, or committed.
InQueue(i) == \E k \in 1..Len(dbq) : dbq[k] = Put(byId[i]) /\ Untouched(k + 1, i)
InSaving(i) ==
    /\ Untouched(1, i)
    /\ saving # <<>> /\ saving[1].kind = "put" /\ saving[1].id = i /\ UpToDate(saving[1].row, byId[i])
InTable(i) ==
    /\ Untouched(1, i)
    /\ saving = <<>> \/ (saving[1].kind = "put" /\ saving[1].id # i)
    /\ i \in DOMAIN disk /\ UpToDate(disk[i], byId[i])

LatestIsSomewhere == HasDb => \A i \in DOMAIN byId : InQueue(i) \/ InSaving(i) \/ InTable(i)

IInv == TypeOK /\ IdsBounded /\ ListedIsIndexed /\ LatestIsSomewhere

-------------------------------------------------------------------------------

LEMMA InitIInv == Init => IInv
<1> SUFFICES ASSUME Init PROVE IInv
  OBVIOUS
<1>1. /\ entries = <<>> /\ dbq = <<>> /\ saving = <<>>
      /\ DOMAIN byId = {} /\ DOMAIN disk = {}
  BY DEF Init, Empty
<1>2. /\ \A k \in DOMAIN entries : FALSE
      /\ \A k \in DOMAIN dbq : FALSE
      /\ Len(saving) <= 1
  BY <1>1
<1>3. TypeOK
  <2>1. /\ rows = [s \in Pages |-> rows[s]]
        /\ \A s \in Pages : DOMAIN rows[s] = {} /\ rows[s] \in [DOMAIN rows[s] -> Row]
    BY DEF Init, Empty
  <2>2. byId \in [DOMAIN byId -> Flows] /\ disk \in [DOMAIN disk -> Row]
    BY DEF Init, Empty
  <2>3. obj \in [Flows -> [id : Nat, resp : BOOLEAN, color : Colors]]
    BY StoreAssumption DEF Init
  <2>4. entries \in Seq(Flows) /\ dbq \in Seq(Ops) /\ saving \in Seq(Statements)
    BY <1>1
  <2>5. callbacks \in [Pages -> Seq(Flows)] /\ subq \in [Pages -> Seq(Flows)]
    <3>1. callbacks = [s \in Pages |-> <<>>] /\ subq = [s \in Pages |-> <<>>]
      BY DEF Init
    <3> QED BY <3>1
  <2>6. /\ stage \in [Flows -> {"idle", "open", "bare", "done"}]
        /\ lost \in [Pages -> SUBSET Flows]
        /\ counter \in Nat /\ session \in Nat /\ half \subseteq Flows
        /\ subs \subseteq Pages /\ away \subseteq Pages
    BY DEF Init
  <2> QED BY <1>1, <1>2, <2>1, <2>2, <2>3, <2>4, <2>5, <2>6 DEF TypeOK
<1>4. IdsBounded
  BY <1>1, <1>2 DEF IdsBounded, Init
<1>5. ListedIsIndexed
  BY <1>2 DEF ListedIsIndexed
<1>6. LatestIsSomewhere
  BY <1>1 DEF LatestIsSomewhere
<1> QED BY <1>3, <1>4, <1>5, <1>6 DEF IInv

\* load_from_db() asks for LIMIT 0 and gets nothing.
LEMMA NothingLoaded ==
    ASSUME Restart
    PROVE  entries' = <<>> /\ byId' = Empty /\ counter' = 0 /\ obj' = [f \in Flows |-> obj[f]]
<1> DEFINE loaded == IF HasDb THEN DbList(0, 0) ELSE {}
<1>1. loaded = {}
  <2>1. 0..(0 + 0 - 1) = {}
    OBVIOUS
  <2> QED BY <2>1 DEF DbList
<1>2. Cardinality(loaded) = 0
  BY <1>1, FS_EmptySet
<1>3. /\ entries' = [k \in 1..0 |-> entries'[k]]
      /\ byId' = [i \in {} |-> disk[i].of]
      /\ counter' \in {} \cup {0}
      /\ obj' = [f \in Flows |-> obj[f]]
  BY <1>1, <1>2 DEF Restart, LoadFromDb
<1>4. entries' = <<>>
  BY <1>3
<1> QED BY <1>3, <1>4 DEF Empty

-------------------------------------------------------------------------------
(* Types *)

LEMMA WithProps ==
    ASSUME NEW S, NEW fn, NEW i \in Nat, NEW v \in S,
           DOMAIN fn \subseteq Nat, fn \in [DOMAIN fn -> S]
    PROVE  /\ DOMAIN With(fn, i, v) = DOMAIN fn \cup {i}
           /\ DOMAIN With(fn, i, v) \subseteq Nat
           /\ With(fn, i, v) \in [DOMAIN With(fn, i, v) -> S]
           /\ With(fn, i, v)[i] = v
           /\ \A j \in DOMAIN fn : j # i => With(fn, i, v)[j] = fn[j]
  BY DEF With

\* What Update() leaves of the memory and schedules.
LEMMA UpdateType ==
    ASSUME TypeOK, obj' \in [Flows -> [id : Nat, resp : BOOLEAN, color : Colors]],
           NEW f \in Flows, Update(f)
    PROVE  /\ DOMAIN byId' \subseteq Nat /\ byId' \in [DOMAIN byId' -> Flows]
           /\ entries' \in Seq(Flows)
           /\ callbacks' \in [Pages -> Seq(Flows)]
           /\ dbq' \in Seq(Ops)
           /\ half' \subseteq Flows
<1>1. obj'[f].id \in Nat
  OBVIOUS
<1>2. DOMAIN byId' \subseteq Nat /\ byId' \in [DOMAIN byId' -> Flows]
  <2>1. DOMAIN byId \subseteq Nat /\ byId \in [DOMAIN byId -> Flows]
    BY DEF TypeOK
  <2> QED BY <1>1, <2>1, WithProps DEF Update
<1>3. entries' \in Seq(Flows)
  <2>1. entries \in Seq(Flows) /\ DOMAIN entries = 1..Len(entries) /\ Len(entries) \in Nat
    BY DEF TypeOK
  <2>2. entries' = [k \in 1..Len(entries) |-> IF obj[entries[k]].id = obj'[f].id THEN f ELSE entries[k]]
    BY <2>1 DEF Update
  <2>3. \A k \in 1..Len(entries) : entries[k] \in Flows
    BY <2>1
  <2> QED BY <2>1, <2>2, <2>3
<1>4. callbacks' \in [Pages -> Seq(Flows)]
  BY DEF Update, Publish, TypeOK
<1>5. dbq' \in Seq(Ops)
  <2>1. dbq \in Seq(Ops) /\ Put(f) \in Ops
    BY DEF TypeOK, Put, Ops
  <2> QED BY <2>1 DEF Update, DbPut
<1>6. half' \subseteq Flows
  BY DEF Update, TypeOK
<1> QED BY <1>2, <1>3, <1>4, <1>5, <1>6

\* A refreshed page shows rows.
LEMMA RefreshType ==
    ASSUME TypeOK, NEW s \in Pages, Refresh(s),
           obj' \in [Flows -> [id : Nat, resp : BOOLEAN, color : Colors]],
           entries' \in Seq(Flows)
    PROVE  /\ rows' = [q \in Pages |-> rows'[q]]
           /\ \A q \in Pages : DOMAIN rows'[q] \subseteq Nat /\ rows'[q] \in [DOMAIN rows'[q] -> Row]
           /\ lost' \in [Pages -> SUBSET Flows]
<1>1. Listed \subseteq Flows /\ Loaded \subseteq Flows
  BY DEF Listed, Loaded
<1>2. lost' \in [Pages -> SUBSET Flows]
  BY <1>1 DEF Refresh, TypeOK
<1> DEFINE D == {obj'[f].id : f \in Loaded}
           G(i) == CHOOSE g \in Loaded : obj'[g].id = i
           R == [i \in D |-> [of |-> G(i), resp |-> obj'[G(i)].resp, color |-> obj'[G(i)].color]]
<1>3. D \subseteq Nat
  BY <1>1
<1>4. \A i \in D : G(i) \in Loaded
  OBVIOUS
<1>5. R \in [D -> Row]
  <2>1. \A i \in D : [of |-> G(i), resp |-> obj'[G(i)].resp, color |-> obj'[G(i)].color] \in Row
    <3> HIDE DEF D, G
    <3> QED BY <1>1, <1>4 DEF Row
  <2> HIDE DEF D, G
  <2> QED BY <2>1
<1>6. rows' = [rows EXCEPT ![s] = R]
  BY DEF Refresh
<1> HIDE DEF D, G, R
<1>7. DOMAIN R = D
  BY <1>5
<1> QED BY <1>2, <1>3, <1>5, <1>6, <1>7 DEF TypeOK

\* Queues of flows stay queues of flows.
LEMMA QueueType ==
    ASSUME NEW q \in [Pages -> Seq(Flows)], NEW s \in Pages
    PROVE  /\ \A f \in Flows : [q EXCEPT ![s] = Append(@, f)] \in [Pages -> Seq(Flows)]
           /\ [q EXCEPT ![s] = <<>>] \in [Pages -> Seq(Flows)]
           /\ q[s] # <<>> => /\ Head(q[s]) \in Flows
                             /\ [q EXCEPT ![s] = Tail(@)] \in [Pages -> Seq(Flows)]
  OBVIOUS

\* A page that shows nothing shows rows.
LEMMA RowsType ==
    ASSUME TypeOK, NEW s \in Pages, NEW R,
           DOMAIN R \subseteq Nat, R \in [DOMAIN R -> Row],
           rows' = [rows EXCEPT ![s] = R]
    PROVE  /\ rows' = [q \in Pages |-> rows'[q]]
           /\ \A q \in Pages : DOMAIN rows'[q] \subseteq Nat /\ rows'[q] \in [DOMAIN rows'[q] -> Row]
  BY DEF TypeOK

\* What is up to date of g stays so: g changes at most by a response that nobody
\* is told of.
Kept(g) ==
    /\ obj'[g].id = obj[g].id /\ obj'[g].color = obj[g].color
    /\ g \in half' \/ (g \notin half /\ obj'[g].resp = obj[g].resp)

\* Flows that move on unrecorded, or half filled.
LEMMA UntoldStep ==
    ASSUME TypeOK, NEW f \in Flows, PassUnrecorded(f) \/ RespondRaises(f) \/ Fail(f)
    PROVE  /\ stage' \in [Flows -> {"idle", "open", "bare", "done"}]
           /\ obj' \in [Flows -> [id : Nat, resp : BOOLEAN, color : Colors]]
           /\ half' \subseteq Flows
           /\ \A g \in Flows : Kept(g)
<1> USE DEF TypeOK
<1>1. CASE PassUnrecorded(f) \/ Fail(f)
  BY <1>1 DEF PassUnrecorded, Fail, Kept
<1>2. CASE RespondRaises(f)
  <2>1. /\ obj' = [obj EXCEPT ![f].resp = TRUE] /\ half' = half \cup {f}
        /\ stage' = [stage EXCEPT ![f] = "done"]
    BY <1>2 DEF RespondRaises
  <2>2. obj' \in [Flows -> [id : Nat, resp : BOOLEAN, color : Colors]]
    BY <2>1
  <2>3. /\ obj'[f].id = obj[f].id /\ obj'[f].color = obj[f].color
        /\ \A g \in Flows : g # f => obj'[g] = obj[g]
    BY <2>1
  <2> QED BY <2>1, <2>2, <2>3 DEF Kept
<1> QED BY <1>1, <1>2

LEMMA StepType ==
    ASSUME TypeOK, [Next]_vars
    PROVE  TypeOK'
<1> USE DEF memVars, dbVars, pageVars
<1>0. "" \in Colors /\ HasDb \in BOOLEAN /\ entries \in Seq(Flows)
  BY StoreAssumption DEF TypeOK
<1>1. ASSUME NEW f \in Flows, Add(f) PROVE TypeOK'
  <2>0. /\ stage' \in [Flows -> {"idle", "open", "bare", "done"}]
        /\ counter' \in Nat
        /\ entries' \in Seq(Flows)
    BY <1>1 DEF Add, TypeOK
  <2>1. obj' \in [Flows -> [id : Nat, resp : BOOLEAN, color : Colors]]
    <3>1. obj \in [Flows -> [id : Nat, resp : BOOLEAN, color : Colors]]
      BY DEF TypeOK
    <3>2. obj' = [obj EXCEPT ![f].id = counter']
      BY <1>1 DEF Add
    <3> QED BY <2>0, <3>1, <3>2
  <2>4. callbacks' \in [Pages -> Seq(Flows)]
    BY <1>1 DEF Add, TypeOK, Publish
  <2>2. DOMAIN byId' \subseteq Nat /\ byId' \in [DOMAIN byId' -> Flows]
    BY <1>1, <2>0, WithProps DEF Add, TypeOK
  <2>3. dbq' \in Seq(Ops)
    <3>1. dbq \in Seq(Ops) /\ Put(f) \in Ops
      BY DEF TypeOK, Put, Ops
    <3> QED BY <3>1, <1>1 DEF Add, DbPut
  <2> QED BY <1>1, <2>0, <2>1, <2>2, <2>3, <2>4 DEF Add, TypeOK
<1>2. ASSUME NEW f \in Flows, Respond(f) PROVE TypeOK'
  <2>1. /\ stage' \in [Flows -> {"idle", "open", "bare", "done"}]
        /\ obj' \in [Flows -> [id : Nat, resp : BOOLEAN, color : Colors]]
    BY <1>2 DEF Respond, TypeOK
  <2> QED BY <1>2, <2>1, UpdateType DEF Respond, TypeOK
<1>3. ASSUME NEW f \in Flows, PassUnrecorded(f) \/ RespondRaises(f) \/ Fail(f) PROVE TypeOK'
  BY <1>3, UntoldStep DEF PassUnrecorded, RespondRaises, Fail, TypeOK
<1>4. CASE DbExecute
  <2>1. dbq \in Seq(Ops) /\ dbq # <<>> /\ Head(dbq) \in Ops
    BY <1>4 DEF DbExecute, TypeOK
  <2>2. ASSUME NEW f \in Flows
        PROVE  [kind |-> "put", id |-> obj[f].id, row |-> RowOf(f)] \in Statements
    BY DEF TypeOK, RowOf, Row, Statements
  <2>3. PICK st \in Statements : saving' = <<st>>
    BY <2>1, <2>2, <1>4 DEF DbExecute, Ops, Statements, Clearing
  <2>4. saving' \in Seq(Statements) /\ Len(saving') <= 1
    BY <2>3
  <2> QED BY <2>1, <2>4, <1>4 DEF DbExecute, TypeOK
<1>5. CASE DbCommit
  <2>1. saving[1] \in Statements
    BY <1>5 DEF DbCommit, TypeOK
  <2>2. DOMAIN disk' \subseteq Nat /\ disk' \in [DOMAIN disk' -> Row]
    <3>1. CASE saving[1].kind = "put"
      <4>1. saving[1].id \in Nat /\ saving[1].row \in Row
        BY <2>1, <3>1 DEF Statements, Clearing
      <4>2. DOMAIN disk \subseteq Nat /\ disk \in [DOMAIN disk -> Row]
        BY DEF TypeOK
      <4>3. disk' = With(disk, saving[1].id, saving[1].row)
        BY <1>5, <3>1 DEF DbCommit
      <4> HIDE DEF memVars, dbVars, pageVars
      <4> QED BY <4>1, <4>2, <4>3, WithProps
    <3>2. CASE saving[1].kind # "put"
      BY <1>5, <3>2 DEF DbCommit, Empty
    <3> QED BY <3>1, <3>2
  <2>3. saving' \in Seq(Statements) /\ Len(saving') <= 1
    BY <1>5 DEF DbCommit
  <2> QED BY <2>2, <2>3, <1>5 DEF DbCommit, TypeOK
<1>6. CASE Restart
  <2>1. /\ entries' \in Seq(Flows) /\ counter' \in Nat
        /\ DOMAIN byId' \subseteq Nat /\ byId' \in [DOMAIN byId' -> Flows]
        /\ obj' \in [Flows -> [id : Nat, resp : BOOLEAN, color : Colors]]
    BY <1>6, NothingLoaded DEF TypeOK, Empty
  <2>2. /\ stage' \in [Flows -> {"idle", "open", "bare", "done"}] /\ session' \in Nat
        /\ subs' \subseteq Pages /\ away' \subseteq Pages
        /\ lost' \in [Pages -> SUBSET Flows]
    BY <1>6 DEF Restart, TypeOK
  <2>3. callbacks' = [s \in Pages |-> <<>>] /\ subq' = [s \in Pages |-> <<>>]
        /\ dbq' = <<>> /\ saving' = <<>>
    BY <1>6 DEF Restart
  <2>4. /\ callbacks' \in [Pages -> Seq(Flows)] /\ subq' \in [Pages -> Seq(Flows)]
        /\ dbq' \in Seq(Ops) /\ saving' \in Seq(Statements) /\ Len(saving') <= 1
    BY <2>3
  <2>5. /\ rows' = [s \in Pages |-> rows'[s]]
        /\ \A s \in Pages : DOMAIN rows'[s] \subseteq Nat /\ rows'[s] \in [DOMAIN rows'[s] -> Row]
    BY <1>6 DEF Restart, Empty
  <2> QED BY <1>6, <2>1, <2>2, <2>4, <2>5 DEF Restart, TypeOK
<1>7. ASSUME NEW s \in Pages, OpenPage(s) \/ ReturnToTab(s) PROVE TypeOK'
  BY <1>7, RefreshType DEF OpenPage, ReturnToTab, TypeOK
<1>8. ASSUME NEW s \in Pages, LeaveTab(s) PROVE TypeOK'
  BY <1>8 DEF LeaveTab, TypeOK
<1>9. ASSUME NEW s \in Pages, ClosePage(s) PROVE TypeOK'
  <2>1. callbacks' \in [Pages -> Seq(Flows)] /\ subq' \in [Pages -> Seq(Flows)]
    BY <1>9, QueueType DEF ClosePage, TypeOK
  <2>2. lost' \in [Pages -> SUBSET Flows] /\ subs' \subseteq Pages
    BY <1>9 DEF ClosePage, TypeOK
  <2>3. DOMAIN Empty = {} /\ Empty \in [DOMAIN Empty -> Row]
    BY DEF Empty
  <2>4. /\ rows' = [q \in Pages |-> rows'[q]]
        /\ \A q \in Pages : DOMAIN rows'[q] \subseteq Nat /\ rows'[q] \in [DOMAIN rows'[q] -> Row]
    BY <1>9, <2>3, RowsType DEF ClosePage
  <2> QED BY <1>9, <2>1, <2>2, <2>4 DEF ClosePage, TypeOK
<1>10. ASSUME NEW s \in Pages, Deliver(s) PROVE TypeOK'
  <2>1. callbacks' \in [Pages -> Seq(Flows)] /\ Head(callbacks[s]) \in Flows
    BY <1>10, QueueType DEF Deliver, TypeOK
  <2>2. subq' \in [Pages -> Seq(Flows)]
    <3>1. subq' = subq \/ subq' = [subq EXCEPT ![s] = Append(@, Head(callbacks[s]))]
      BY <1>10 DEF Deliver
    <3>2. subq \in [Pages -> Seq(Flows)]
      BY DEF TypeOK
    <3>3. [subq EXCEPT ![s] = Append(@, Head(callbacks[s]))] \in [Pages -> Seq(Flows)]
      BY <2>1, <3>2, QueueType
    <3> QED BY <3>1, <3>2, <3>3
  <2>3. lost' \in [Pages -> SUBSET Flows]
    <3>1. lost' = lost \/ lost' = [lost EXCEPT ![s] = @ \cup {Head(callbacks[s])}]
      BY <1>10 DEF Deliver
    <3>2. lost \in [Pages -> SUBSET Flows]
      BY DEF TypeOK
    <3> QED BY <2>1, <3>1, <3>2
  <2> QED BY <1>10, <2>1, <2>2, <2>3 DEF Deliver, TypeOK
<1>11. ASSUME NEW s \in Pages, Poll(s) PROVE TypeOK'
  <2>1. subq' \in [Pages -> Seq(Flows)] /\ Head(subq[s]) \in Flows
    BY <1>11, QueueType DEF Poll, TypeOK
  <2>2. lost' \in [Pages -> SUBSET Flows]
    <3>1. \/ lost' = [lost EXCEPT ![s] = @ \cup {Head(subq[s])}]
          \/ lost' = [lost EXCEPT ![s] = @ \ {Head(subq[s])}]
      BY <1>11 DEF Poll
    <3>2. lost \in [Pages -> SUBSET Flows]
      BY DEF TypeOK
    <3> QED BY <2>1, <3>1, <3>2
  <2>3. /\ rows' = [q \in Pages |-> rows'[q]]
        /\ \A q \in Pages : DOMAIN rows'[q] \subseteq Nat /\ rows'[q] \in [DOMAIN rows'[q] -> Row]
    <3>1. \A f \in Flows : RowOf(f) \in Row /\ obj[f].id \in Nat
      BY DEF TypeOK, RowOf, Row
    <3>2. \A j \in DOMAIN rows[s] : rows[s][j].of \in Flows
      BY DEF TypeOK, Row
    <3>3. CASE rows' = rows
      BY <3>3 DEF TypeOK
    <3> DEFINE f == Head(subq[s])
               R == [j \in DOMAIN rows[s] \cup {obj[f].id} |-> RowOf(IF j = obj[f].id THEN f ELSE rows[s][j].of)]
    <3>4. CASE rows' = [rows EXCEPT ![s] = R]
      <4>1. DOMAIN R \subseteq Nat
        BY <2>1, <3>1 DEF TypeOK
      <4>2. R \in [DOMAIN R -> Row]
        BY <2>1, <3>1, <3>2
      <4> HIDE DEF R
      <4> QED BY <3>4, <4>1, <4>2, RowsType
    <3>5. rows' = rows \/ rows' = [rows EXCEPT ![s] = R]
      BY <1>11 DEF Poll
    <3> QED BY <3>3, <3>4, <3>5
  <2> QED BY <1>11, <2>1, <2>2, <2>3 DEF Poll, TypeOK
<1>12. ASSUME NEW s \in Pages, NEW i \in DOMAIN rows[s], NEW c \in Colors, SetColor(s, i, c)
       PROVE  TypeOK'
  <2>1. obj' \in [Flows -> [id : Nat, resp : BOOLEAN, color : Colors]]
    <3>1. obj' = obj \/ (byId[i] \in Flows /\ obj' = [obj EXCEPT ![byId[i]].color = c])
      BY <1>12 DEF SetColor, TypeOK
    <3>2. obj \in [Flows -> [id : Nat, resp : BOOLEAN, color : Colors]]
      BY DEF TypeOK
    <3> QED BY <1>12, <3>1, <3>2
  <2>2. /\ DOMAIN byId' \subseteq Nat /\ byId' \in [DOMAIN byId' -> Flows]
        /\ entries' \in Seq(Flows)
        /\ callbacks' \in [Pages -> Seq(Flows)]
        /\ dbq' \in Seq(Ops) /\ half' \subseteq Flows
    <3>1. CASE i \in DOMAIN byId
      BY <1>12, <2>1, <3>1, UpdateType DEF SetColor, TypeOK
    <3>2. CASE i \notin DOMAIN byId
      BY <1>12, <3>2 DEF SetColor, TypeOK
    <3> QED BY <3>1, <3>2
  <2>3. Refresh(s)
    BY <1>12 DEF SetColor
  <2> QED BY <1>12, <2>1, <2>2, <2>3, RefreshType DEF SetColor, TypeOK
<1>13. ASSUME Clear, lost' = lost, rows' = rows \/ \E s \in Pages : rows' = [rows EXCEPT ![s] = Empty]
       PROVE  TypeOK'
  <2>1. entries' \in Seq(Flows) /\ DOMAIN byId' \subseteq Nat /\ byId' \in [DOMAIN byId' -> Flows]
    BY <1>13 DEF Clear, Empty
  <2>2. dbq' \in Seq(Ops)
    BY <1>13 DEF Clear, TypeOK, Ops
  <2>3. /\ rows' = [q \in Pages |-> rows'[q]]
        /\ \A q \in Pages : DOMAIN rows'[q] \subseteq Nat /\ rows'[q] \in [DOMAIN rows'[q] -> Row]
    <3>1. DOMAIN Empty = {} /\ Empty \in [DOMAIN Empty -> Row]
      BY DEF Empty
    <3>2. CASE rows' = rows
      BY <3>2 DEF TypeOK
    <3>3. ASSUME NEW s \in Pages, rows' = [rows EXCEPT ![s] = Empty]
          PROVE  /\ rows' = [q \in Pages |-> rows'[q]]
                 /\ \A q \in Pages : DOMAIN rows'[q] \subseteq Nat /\ rows'[q] \in [DOMAIN rows'[q] -> Row]
      BY <3>1, <3>3, RowsType
    <3> QED BY <1>13, <3>2, <3>3
  <2> QED BY <1>13, <2>1, <2>2, <2>3 DEF Clear, TypeOK
<1>14. CASE UNCHANGED vars
  BY <1>14 DEF vars, TypeOK
<1>15. CASE ClearByApi
  BY <1>13, <1>15 DEF ClearByApi
<1>16. ASSUME NEW s \in Pages, ClearByPage(s) PROVE TypeOK'
  BY <1>13, <1>16 DEF ClearByPage
<1> QED BY <1>1, <1>2, <1>3, <1>4, <1>5, <1>6, <1>7, <1>8, <1>9, <1>10, <1>11, <1>12,
           <1>14, <1>15, <1>16 DEF Next

-------------------------------------------------------------------------------
(* Ids and the list *)

\* update() of an entry that has the id of its place in the index.
LEMMA UpdateKeepsIds ==
    ASSUME TypeOK, TypeOK', IdsBounded, ListedIsIndexed,
           NEW f \in Flows, Update(f),
           \A g \in Flows : obj'[g].id = obj[g].id,
           \A g \in Flows : stage'[g] # stage[g] => g = f /\ stage'[g] = "done",
           counter' = counter, obj[f].id <= counter, stage[f] # "idle"
    PROVE  IdsBounded' /\ ListedIsIndexed'
<1> DEFINE n == obj[f].id
<1>1. n \in Nat /\ obj'[f].id = n
  BY DEF TypeOK
<1>2. /\ DOMAIN byId' = DOMAIN byId \cup {n} /\ byId'[n] = f
      /\ \A i \in DOMAIN byId : i # n => byId'[i] = byId[i]
      /\ \A i \in DOMAIN byId' : byId'[i] \in Flows
  <2>1. byId' = With(byId, n, f)
    BY <1>1 DEF Update
  <2>2. DOMAIN byId \subseteq Nat /\ byId \in [DOMAIN byId -> Flows]
    BY DEF TypeOK
  <2> HIDE DEF n
  <2>3. /\ DOMAIN byId' = DOMAIN byId \cup {n} /\ byId'[n] = f
        /\ \A i \in DOMAIN byId : i # n => byId'[i] = byId[i]
        /\ byId' \in [DOMAIN byId' -> Flows]
    BY <1>1, <2>1, <2>2 DEF With
  <2> QED BY <2>3
<1>3. /\ DOMAIN entries' = DOMAIN entries
      /\ \A k \in DOMAIN entries : entries'[k] = IF obj[entries[k]].id = n THEN f ELSE entries[k]
      /\ \A k \in DOMAIN entries : entries[k] \in Flows
  BY <1>1 DEF Update, TypeOK
<1>4. \A k \in DOMAIN entries : obj'[entries'[k]].id = obj[entries[k]].id
  BY <1>1, <1>3
<1>5. ListedIsIndexed'
  BY <1>1, <1>2, <1>3, <1>4 DEF ListedIsIndexed
<1>6. \A g \in Flows : /\ stage'[g] \in {"idle", "bare"} => obj'[g].id = 0
                       /\ stage'[g] = "open" => obj'[g].id \in 1..counter'
                       /\ stage[g] # "idle" => stage'[g] # "idle"
  BY DEF IdsBounded
<1>7. \A k \in DOMAIN entries' : obj'[entries'[k]].id \in 1..counter'
  BY <1>3, <1>4 DEF IdsBounded
<1>8. \A i \in DOMAIN byId' : i <= counter' /\ obj'[byId'[i]].id = i /\ stage'[byId'[i]] # "idle"
  <2>1. \A i \in DOMAIN byId : i # n => /\ byId'[i] = byId[i] /\ i <= counter
                                       /\ obj[byId[i]].id = i /\ stage[byId[i]] # "idle"
    BY <1>2 DEF IdsBounded
  <2> QED BY <1>1, <1>2, <1>6, <2>1
<1>9. \A k \in DOMAIN dbq' : dbq'[k].kind = "put" => stage'[dbq'[k].of] # "idle"
  <2>1. \A k \in DOMAIN dbq : dbq[k].kind = "put" => dbq[k].of \in Flows /\ stage[dbq[k].of] # "idle"
    BY DEF IdsBounded, TypeOK, Ops, Clearing
  <2>2. CASE dbq' = dbq
    BY <1>6, <2>1, <2>2
  <2>3. CASE dbq' = Append(dbq, Put(f))
    <3>1. dbq \in Seq(Ops)
      BY DEF TypeOK
    <3>2. \A k \in DOMAIN dbq' : (k \in DOMAIN dbq /\ dbq'[k] = dbq[k]) \/ dbq'[k] = Put(f)
      BY <2>3, <3>1
    <3> QED BY <1>6, <2>1, <3>2 DEF Put
  <2> QED BY <2>2, <2>3 DEF Update, DbPut
<1> QED BY <1>5, <1>6, <1>7, <1>8, <1>9 DEF IdsBounded

LEMMA AddKeepsIds ==
    ASSUME TypeOK, TypeOK', IdsBounded, ListedIsIndexed, NEW f \in Flows, Add(f)
    PROVE  IdsBounded' /\ ListedIsIndexed'
<1> DEFINE n == counter'
<1>1. /\ n = counter + 1 /\ n \in Nat \ {0} /\ counter \in Nat
      /\ obj[f].id = 0 /\ obj'[f].id = n /\ stage[f] = "idle" /\ stage'[f] = "open"
      /\ \A g \in Flows \ {f} : obj'[g] = obj[g] /\ stage'[g] = stage[g]
  BY DEF Add, TypeOK, IdsBounded
<1>2. /\ DOMAIN byId' = DOMAIN byId \cup {n} /\ byId'[n] = f
      /\ \A i \in DOMAIN byId : i # n => byId'[i] = byId[i]
  <2>1. byId' = With(byId, n, f)
    BY DEF Add
  <2>2. DOMAIN byId \subseteq Nat /\ byId \in [DOMAIN byId -> Flows]
    BY DEF TypeOK
  <2> HIDE DEF n
  <2> QED BY <1>1, <2>1, <2>2 DEF With
<1>3. \A i \in DOMAIN byId : i <= counter /\ i # n /\ byId[i] \in Flows \ {f}
                            /\ obj[byId[i]].id = i /\ stage[byId[i]] # "idle"
  BY <1>1 DEF IdsBounded, TypeOK
<1>4. /\ Len(entries) \in Nat /\ DOMAIN entries = 1..Len(entries)
      /\ DOMAIN entries' = 1..(Len(entries) + 1)
      /\ entries'[Len(entries) + 1] = f
      /\ \A k \in DOMAIN entries : entries'[k] = entries[k]
  BY DEF Add, TypeOK
<1>5. \A k \in DOMAIN entries : /\ obj[entries[k]].id \in 1..counter
                               /\ entries[k] \in Flows \ {f}
                               /\ obj'[entries[k]].id = obj[entries[k]].id
  <2>1. \A k \in DOMAIN entries : obj[entries[k]].id \in 1..counter /\ entries[k] \in Flows
    BY DEF IdsBounded, TypeOK
  <2> QED BY <1>1, <2>1
<1>6. ListedIsIndexed'
  <2>1. ASSUME NEW k \in DOMAIN entries'
        PROVE  obj'[entries'[k]].id \in DOMAIN byId' /\ byId'[obj'[entries'[k]].id] = entries'[k]
    <3>1. CASE k \in DOMAIN entries
      BY <3>1, <1>1, <1>2, <1>3, <1>4, <1>5 DEF ListedIsIndexed
    <3>2. CASE k = Len(entries) + 1
      BY <3>2, <1>1, <1>2, <1>4
    <3> QED BY <3>1, <3>2, <1>4
  <2>2. ASSUME NEW j \in DOMAIN entries', NEW k \in DOMAIN entries', j < k
        PROVE  obj'[entries'[j]].id < obj'[entries'[k]].id
    <3>1. j \in DOMAIN entries
      BY <2>2, <1>4
    <3>2. CASE k \in DOMAIN entries
      BY <3>1, <3>2, <2>2, <1>4, <1>5 DEF ListedIsIndexed
    <3>3. CASE k = Len(entries) + 1
      BY <3>1, <3>3, <1>1, <1>4, <1>5
    <3> QED BY <3>2, <3>3, <1>4
  <2> QED BY <2>1, <2>2 DEF ListedIsIndexed
<1>7. \A g \in Flows : /\ stage'[g] \in {"idle", "bare"} => obj'[g].id = 0
                       /\ stage'[g] = "open" => obj'[g].id \in 1..counter'
                       /\ stage[g] # "idle" => stage'[g] # "idle"
  <2>1. CASE TRUE
    <3>1. ASSUME NEW g \in Flows \ {f}
          PROVE  /\ stage'[g] \in {"idle", "bare"} => obj'[g].id = 0
                 /\ stage'[g] = "open" => obj'[g].id \in 1..counter'
      BY <1>1 DEF IdsBounded
    <3> QED BY <1>1, <3>1
  <2> QED BY <2>1
<1>8. \A k \in DOMAIN entries' : obj'[entries'[k]].id \in 1..counter'
  BY <1>1, <1>4, <1>5
<1>9. \A i \in DOMAIN byId' : i <= counter' /\ obj'[byId'[i]].id = i /\ stage'[byId'[i]] # "idle"
  <2>1. ASSUME NEW i \in DOMAIN byId
        PROVE  i <= counter' /\ obj'[byId'[i]].id = i /\ stage'[byId'[i]] # "idle"
    <3>1. i \in Nat /\ byId'[i] = byId[i] /\ i <= counter
      BY <1>2, <1>3 DEF TypeOK
    <3>2. obj'[byId[i]] = obj[byId[i]] /\ stage'[byId[i]] = stage[byId[i]]
      BY <1>1, <1>3
    <3> QED BY <3>1, <3>2, <1>1, <1>3
  <2>2. n <= counter' /\ obj'[byId'[n]].id = n /\ stage'[byId'[n]] # "idle"
    BY <1>1, <1>2
  <2> QED BY <2>1, <2>2, <1>2
<1>10. \A k \in DOMAIN dbq' : dbq'[k].kind = "put" => stage'[dbq'[k].of] # "idle"
  <2>1. \A k \in DOMAIN dbq : dbq[k].kind = "put" => dbq[k].of \in Flows /\ stage[dbq[k].of] # "idle"
    BY DEF IdsBounded, TypeOK, Ops, Clearing
  <2>2. \A k \in DOMAIN dbq' : (k \in DOMAIN dbq /\ dbq'[k] = dbq[k]) \/ dbq'[k] = Put(f)
    <3>1. dbq \in Seq(Ops)
      BY DEF TypeOK
    <3>2. dbq' = dbq \/ dbq' = Append(dbq, Put(f))
      BY DEF Add, DbPut
    <3> QED BY <3>1, <3>2
  <2> QED BY <1>1, <1>7, <2>1, <2>2 DEF Put
<1> QED BY <1>6, <1>7, <1>8, <1>9, <1>10 DEF IdsBounded

-------------------------------------------------------------------------------
(* The latest state of an entry is never lost on the way to the table *)

\* A step that queues a write of f, the entry now indexed under its id, and
\* changes no other indexed entry.
LEMMA QueueingKeepsLatest ==
    ASSUME TypeOK, TypeOK', IdsBounded, LatestIsSomewhere,
           NEW f \in Flows, NEW n \in Nat, obj'[f].id = n, byId'[n] = f,
           DbPut(f), UNCHANGED <<saving, disk>>,
           \A i \in DOMAIN byId' : i # n =>
               i \in DOMAIN byId /\ byId'[i] = byId[i] /\ Kept(byId[i]),
           \A g \in Flows : stage[g] # "idle" => obj'[g].id = obj[g].id
    PROVE  LatestIsSomewhere'
<1> SUFFICES ASSUME HasDb, NEW i \in DOMAIN byId'
             PROVE  (InQueue(i) \/ InSaving(i) \/ InTable(i))'
  BY DEF LatestIsSomewhere
<1>1. /\ dbq \in Seq(Ops) /\ Len(dbq) \in Nat
      /\ dbq' = Append(dbq, Put(f)) /\ Len(dbq') = Len(dbq) + 1
      /\ dbq'[Len(dbq) + 1] = Put(f)
      /\ \A k \in 1..Len(dbq) : dbq'[k] = dbq[k]
  BY DEF TypeOK, DbPut
<1>2. CASE i = n
  <2> DEFINE k == Len(dbq) + 1
  <2>1. ASSUME NEW m, m = k PROVE Untouched(m + 1, i)'
    BY <1>1, <2>1 DEF Untouched
  <2>2. dbq'[k] = Put(byId[i])' /\ k \in 1..Len(dbq')
    BY <1>1, <1>2 DEF Put
  <2>3. (InQueue(i))'
    BY <2>1, <2>2 DEF InQueue
  <2> QED BY <2>3
<1>3. CASE i # n
  <2>1. i \in DOMAIN byId /\ byId'[i] = byId[i] /\ Kept(byId[i])
    BY <1>3
  <2>2. Put(byId[i])' = Put(byId[i])
    BY <2>1 DEF Put
  <2>3. \A j \in 1..Len(dbq) : ~Affects(dbq[j], i) => ~Affects(dbq[j], i)'
    <3> SUFFICES ASSUME NEW j \in 1..Len(dbq), ~Affects(dbq[j], i)
                 PROVE  ~Affects(dbq[j], i)'
      OBVIOUS
    <3>1. dbq[j] \in Ops /\ dbq[j].kind # "clear"
      BY <1>1 DEF Affects
    <3>2. dbq[j].kind = "put" /\ dbq[j].of \in Flows
      BY <3>1 DEF Ops, Clearing
    <3>3. stage[dbq[j].of] # "idle"
      BY <1>1, <3>2 DEF IdsBounded
    <3> QED BY <1>1, <3>2, <3>3 DEF Affects
  <2>4. \A j : j = Len(dbq) + 1 => ~Affects(dbq[j], i)'
    BY <1>1, <1>3 DEF Affects, Put
  <2>5. ASSUME NEW k \in 1..(Len(dbq) + 1), Untouched(k, i)
        PROVE  Untouched(k, i)'
    <3> SUFFICES ASSUME NEW j \in k..Len(dbq') PROVE ~Affects(dbq[j], i)'
      BY DEF Untouched
    <3>1. CASE j = Len(dbq) + 1
      BY <2>4, <3>1
    <3>2. CASE j \in k..Len(dbq)
      BY <2>3, <2>5, <3>2 DEF Untouched
    <3> QED BY <1>1, <3>1, <3>2
  <2>6. CASE InQueue(i)
    <3>1. PICK k \in 1..Len(dbq) : dbq[k] = Put(byId[i]) /\ Untouched(k + 1, i)
      BY <2>6 DEF InQueue
    <3>2. Untouched(k + 1, i)' /\ dbq'[k] = Put(byId[i])' /\ k \in 1..Len(dbq')
      BY <1>1, <2>2, <2>5, <3>1
    <3>3. (InQueue(i))'
      BY <3>2 DEF InQueue
    <3> QED BY <3>3
  <2>7. CASE InSaving(i)
    <3>1. Untouched(1, i)'
      BY <1>1, <2>5, <2>7 DEF InSaving
    <3>2. (InSaving(i))'
      BY <2>1, <2>7, <3>1 DEF InSaving, UpToDate, Kept
    <3> QED BY <3>2
  <2>8. CASE InTable(i)
    <3>1. Untouched(1, i)'
      BY <1>1, <2>5, <2>8 DEF InTable
    <3>2. (InTable(i))'
      BY <2>1, <2>8, <3>1 DEF InTable, UpToDate, Kept
    <3> QED BY <3>2
  <2> QED BY <2>1, <2>6, <2>7, <2>8 DEF LatestIsSomewhere
<1> QED BY <1>2, <1>3

\* The coroutine at the head takes the lock.
LEMMA ExecuteKeepsLatest ==
    ASSUME TypeOK, IdsBounded, LatestIsSomewhere, DbExecute
    PROVE  LatestIsSomewhere'
<1> SUFFICES ASSUME HasDb, NEW i \in DOMAIN byId
             PROVE  (InQueue(i) \/ InSaving(i) \/ InTable(i))'
  BY DEF LatestIsSomewhere, DbExecute, memVars
<1>1. /\ dbq \in Seq(Ops) /\ Len(dbq) \in Nat \ {0}
      /\ dbq' = Tail(dbq) /\ Len(dbq') = Len(dbq) - 1
      /\ \A k \in 1..Len(dbq') : dbq'[k] = dbq[k + 1]
      /\ Head(dbq) = dbq[1] /\ dbq[1] \in Ops /\ saving = <<>>
  BY DEF TypeOK, DbExecute
<1>2. UNCHANGED <<obj, byId, disk, half>>
  BY DEF DbExecute, memVars
<1>4. Put(byId[i])' = Put(byId[i])
  BY <1>2 DEF Put
<1>5. ASSUME NEW k \in 1..Len(dbq), Untouched(k + 1, i)
      PROVE  Untouched(k, i)'
  BY <1>1, <1>2, <1>5 DEF Untouched, Affects
<1>6. CASE InQueue(i)
  <2>1. PICK k \in 1..Len(dbq) : dbq[k] = Put(byId[i]) /\ Untouched(k + 1, i)
    BY <1>6 DEF InQueue
  <2>2. CASE k = 1
    <3>1. Untouched(1, i)'
      BY <1>5, <2>1, <2>2
    <3>2. byId[i] \in Flows /\ obj[byId[i]].id = i
      BY DEF TypeOK, IdsBounded
    <3>3. saving' = <<[kind |-> "put", id |-> i, row |-> RowOf(byId[i])]>>
      BY <1>1, <2>1, <2>2, <3>2 DEF DbExecute, Put
    <3>4. (InSaving(i))'
      BY <1>2, <3>1, <3>3 DEF InSaving, UpToDate, RowOf
    <3> QED BY <3>4
  <2>3. CASE k # 1
    <3>1. (k - 1) \in 1..Len(dbq') /\ dbq'[k - 1] = Put(byId[i]) /\ Untouched(k, i)'
      BY <1>1, <1>5, <2>1, <2>3
    <3>2. (InQueue(i))'
      BY <1>2, <1>4, <3>1 DEF InQueue
    <3> QED BY <3>2
  <2> QED BY <2>2, <2>3
<1>7. CASE InTable(i)
  <2>1. ~Affects(dbq[1], i) /\ Untouched(2, i)
    BY <1>1, <1>7 DEF InTable, Untouched
  <2>2. Untouched(1, i)'
    BY <1>1, <1>5, <2>1
  <2>3. dbq[1].kind = "put" /\ obj[dbq[1].of].id # i
    BY <1>1, <2>1 DEF Affects, Ops, Clearing
  <2>4. saving'[1].kind = "put" /\ saving'[1].id # i
    BY <1>1, <2>3 DEF DbExecute
  <2>5. (InTable(i))'
    BY <1>2, <1>7, <2>2, <2>4 DEF InTable, UpToDate
  <2> QED BY <2>5
<1>8. ~InSaving(i)
  BY <1>1 DEF InSaving
<1> QED BY <1>6, <1>7, <1>8 DEF LatestIsSomewhere

\* The statement is committed.
LEMMA CommitKeepsLatest ==
    ASSUME TypeOK, LatestIsSomewhere, DbCommit
    PROVE  LatestIsSomewhere'
<1> SUFFICES ASSUME HasDb, NEW i \in DOMAIN byId
             PROVE  (InQueue(i) \/ InSaving(i) \/ InTable(i))'
  BY DEF LatestIsSomewhere, DbCommit, memVars
<1>1. UNCHANGED <<obj, byId, dbq, half>> /\ saving' = <<>> /\ saving # <<>>
  BY DEF DbCommit, memVars
<1>3. CASE InQueue(i)
  <2>1. (InQueue(i))'
    BY <1>1, <1>3 DEF InQueue, Untouched, Affects, Put
  <2> QED BY <2>1
<1>4. CASE InSaving(i)
  <2>1. disk' = With(disk, i, saving[1].row) /\ UpToDate(saving[1].row, byId[i])
    BY <1>4 DEF DbCommit, InSaving
  <2>2. i \in DOMAIN disk' /\ UpToDate(disk'[i], byId[i])
    BY <2>1 DEF With
  <2>3. Untouched(1, i)'
    BY <1>1, <1>4 DEF InSaving, Untouched, Affects
  <2>4. (InTable(i))'
    BY <1>1, <2>2, <2>3 DEF InTable, UpToDate
  <2> QED BY <2>4
<1>5. CASE InTable(i)
  <2>1. saving[1].kind = "put" /\ saving[1].id # i /\ i \in DOMAIN disk /\ UpToDate(disk[i], byId[i])
    BY <1>1, <1>5 DEF InTable
  <2>2. disk' = With(disk, saving[1].id, saving[1].row)
    BY <2>1 DEF DbCommit
  <2>3. i \in DOMAIN disk' /\ UpToDate(disk'[i], byId[i])
    BY <2>1, <2>2 DEF With
  <2>4. Untouched(1, i)'
    BY <1>1, <1>5 DEF InTable, Untouched, Affects
  <2>5. (InTable(i))'
    BY <1>1, <2>3, <2>4 DEF InTable, UpToDate
  <2> QED BY <2>5
<1> QED BY <1>3, <1>4, <1>5 DEF LatestIsSomewhere

-------------------------------------------------------------------------------
(* The invariant *)

\* A step that only moves a flow on, or only concerns the pages.
Quiet ==
    /\ UNCHANGED <<entries, byId, counter, dbq, saving, disk>>
    /\ \A g \in Flows : Kept(g)
    /\ \A g \in Flows : \/ stage'[g] = stage[g]
                        \/ stage[g] = "idle" /\ stage'[g] = "bare"
                        \/ stage[g] \in {"open", "bare"} /\ stage'[g] = "done"

LEMMA QuietStep ==
    ASSUME TypeOK, IdsBounded, ListedIsIndexed, LatestIsSomewhere, Quiet
    PROVE  IdsBounded' /\ ListedIsIndexed' /\ LatestIsSomewhere'
<1>1. /\ UNCHANGED <<entries, byId, counter, dbq, saving, disk>>
      /\ \A g \in Flows : obj'[g].id = obj[g].id
  BY DEF Quiet, Kept
<1>2. \A g \in Flows : /\ stage'[g] \in {"idle", "bare"} => obj'[g].id = 0
                       /\ stage'[g] = "open" => obj'[g].id \in 1..counter'
                       /\ stage[g] # "idle" => stage'[g] # "idle"
  BY <1>1 DEF Quiet, IdsBounded
<1>3. /\ \A i \in DOMAIN byId : byId[i] \in Flows
      /\ \A k \in DOMAIN entries : entries[k] \in Flows
      /\ \A k \in DOMAIN dbq : dbq[k].kind = "put" => dbq[k].of \in Flows
  BY DEF TypeOK, Ops, Clearing
<1>4. IdsBounded'
  BY <1>1, <1>2, <1>3 DEF IdsBounded
<1>5. ListedIsIndexed'
  BY <1>1, <1>3 DEF ListedIsIndexed
<1>6. LatestIsSomewhere'
  <2> SUFFICES ASSUME HasDb, NEW i \in DOMAIN byId, InQueue(i) \/ InSaving(i) \/ InTable(i)
               PROVE  (InQueue(i) \/ InSaving(i) \/ InTable(i))'
    BY <1>1 DEF LatestIsSomewhere
  <2>1. ASSUME NEW k \in Nat \ {0}, Untouched(k, i) PROVE Untouched(k, i)'
    <3>1. \A j \in k..Len(dbq) : j \in DOMAIN dbq /\ dbq[j] \in Ops
      BY DEF TypeOK
    <3>2. \A j \in k..Len(dbq) : dbq[j].kind = "clear" \/ dbq[j].of \in Flows
      BY <3>1 DEF Ops, Clearing
    <3> QED BY <1>1, <2>1, <3>2 DEF Untouched, Affects
  <2>2. CASE InQueue(i)
    <3>1. PICK k \in 1..Len(dbq) : dbq[k] = Put(byId[i]) /\ Untouched(k + 1, i)
      BY <2>2 DEF InQueue
    <3>2. k \in 1..Len(dbq') /\ dbq'[k] = Put(byId[i])' /\ Untouched(k + 1, i)'
      BY <1>1, <2>1, <3>1 DEF Put
    <3>3. (InQueue(i))'
      BY <3>2 DEF InQueue
    <3> QED BY <3>3
  <2>3. Kept(byId[i])
    BY <1>3 DEF Quiet
  <2>4. CASE InSaving(i)
    <3>1. Untouched(1, i)'
      BY <2>1, <2>4 DEF InSaving
    <3>2. (InSaving(i))'
      BY <1>1, <2>3, <2>4, <3>1 DEF InSaving, UpToDate, Kept
    <3> QED BY <3>2
  <2>5. CASE InTable(i)
    <3>1. Untouched(1, i)'
      BY <2>1, <2>5 DEF InTable
    <3>2. (InTable(i))'
      BY <1>1, <2>3, <2>5, <3>1 DEF InTable, UpToDate, Kept
    <3> QED BY <3>2
  <2> QED BY <2>2, <2>4, <2>5
<1> QED BY <1>4, <1>5, <1>6

\* The database coroutines leave the memory alone.
LEMMA DatabaseStep ==
    ASSUME TypeOK, IdsBounded, ListedIsIndexed, LatestIsSomewhere, DbExecute \/ DbCommit
    PROVE  IdsBounded' /\ ListedIsIndexed' /\ LatestIsSomewhere'
<1>1. UNCHANGED <<stage, obj, entries, byId, counter>>
  BY DEF DbExecute, DbCommit, memVars
<1>2. \A k \in DOMAIN dbq' : dbq'[k].kind = "put" => stage[dbq'[k].of] # "idle"
  <2>1. dbq \in Seq(Ops) /\ \A k \in DOMAIN dbq : dbq[k].kind = "put" => stage[dbq[k].of] # "idle"
    BY DEF TypeOK, IdsBounded
  <2>2. dbq' = dbq \/ (dbq # <<>> /\ dbq' = Tail(dbq))
    BY DEF DbExecute, DbCommit
  <2> QED BY <2>1, <2>2
<1>3. IdsBounded'
  BY <1>1, <1>2 DEF IdsBounded
<1>4. ListedIsIndexed'
  BY <1>1 DEF ListedIsIndexed
<1> QED BY <1>3, <1>4, ExecuteKeepsLatest, CommitKeepsLatest

LEMMA ClearStep ==
    ASSUME TypeOK, IdsBounded, Clear
    PROVE  IdsBounded' /\ ListedIsIndexed' /\ LatestIsSomewhere'
<1>1. /\ entries' = <<>> /\ \A k \in DOMAIN entries' : FALSE
      /\ DOMAIN byId' = {} /\ UNCHANGED <<stage, obj, counter>>
  BY DEF Clear, Empty
<1>2. \A k \in DOMAIN dbq' : dbq'[k].kind = "put" => stage[dbq'[k].of] # "idle"
  <2>1. dbq \in Seq(Ops) /\ \A k \in DOMAIN dbq : dbq[k].kind = "put" => stage[dbq[k].of] # "idle"
    BY DEF TypeOK, IdsBounded
  <2>2. dbq' = dbq \/ dbq' = Append(dbq, Clearing)
    BY DEF Clear
  <2> QED BY <2>1, <2>2 DEF Clearing
<1>3. IdsBounded'
  BY <1>1, <1>2 DEF IdsBounded
<1> QED BY <1>1, <1>3 DEF ListedIsIndexed, LatestIsSomewhere

LEMMA RestartStep ==
    ASSUME TypeOK, IdsBounded, Restart
    PROVE  IdsBounded' /\ ListedIsIndexed' /\ LatestIsSomewhere'
<1>1. /\ entries' = <<>> /\ DOMAIN byId' = {} /\ dbq' = <<>>
      /\ \A g \in Flows : obj'[g] = obj[g]
  BY NothingLoaded DEF Restart, Empty
<1>2. /\ \A k \in DOMAIN entries' : FALSE
      /\ \A k \in DOMAIN dbq' : FALSE
  BY <1>1
<1>3. \A g \in Flows : /\ stage'[g] # "bare" /\ stage'[g] # "open"
                       /\ stage'[g] = "idle" => stage[g] = "idle"
  BY DEF Restart
<1>4. IdsBounded'
  BY <1>1, <1>2, <1>3 DEF IdsBounded
<1> QED BY <1>1, <1>2, <1>4 DEF ListedIsIndexed, LatestIsSomewhere

LEMMA AddStep ==
    ASSUME TypeOK, TypeOK', IdsBounded, ListedIsIndexed, LatestIsSomewhere,
           NEW f \in Flows, Add(f)
    PROVE  LatestIsSomewhere'
<1> DEFINE n == counter'
<1>1. /\ n \in Nat /\ counter \in Nat /\ n = counter + 1 /\ obj'[f].id = n
      /\ DbPut(f) /\ UNCHANGED <<saving, disk>> /\ stage[f] = "idle"
      /\ \A g \in Flows \ {f} : Kept(g)
  BY DEF Add, TypeOK, Kept
<1>2. byId' = With(byId, n, f)
  BY DEF Add
<1>3. \A i \in DOMAIN byId : byId[i] \in Flows /\ stage[byId[i]] # "idle"
  BY DEF TypeOK, IdsBounded
<1>4. \A g \in Flows : stage[g] # "idle" => obj'[g].id = obj[g].id
  BY <1>1 DEF Kept
<1> HIDE DEF n
<1>5. byId'[n] = f
  BY <1>2 DEF With
<1>6. \A i \in DOMAIN byId' : i # n =>
          i \in DOMAIN byId /\ byId'[i] = byId[i] /\ Kept(byId[i])
  BY <1>1, <1>2, <1>3 DEF With
<1> QED BY <1>1, <1>4, <1>5, <1>6, QueueingKeepsLatest

\* Both callers of update() change the entry without changing its id.
LEMMA UpdateStep ==
    ASSUME TypeOK, TypeOK', IdsBounded, ListedIsIndexed, LatestIsSomewhere,
           NEW f \in Flows, Update(f), UNCHANGED <<counter, saving, disk>>,
           \A g \in Flows : obj'[g].id = obj[g].id,
           \A g \in Flows : g # f => obj'[g] = obj[g],
           \A g \in Flows : stage'[g] # stage[g] => g = f /\ stage'[g] = "done",
           obj[f].id <= counter, stage[f] # "idle"
    PROVE  IdsBounded' /\ ListedIsIndexed' /\ LatestIsSomewhere'
<1>1. IdsBounded' /\ ListedIsIndexed'
  BY UpdateKeepsIds
<1> DEFINE n == obj[f].id
<1>2. n \in Nat /\ obj'[f].id = n
  BY DEF TypeOK
<1>3. DbPut(f) /\ byId' = With(byId, n, f)
  BY <1>2 DEF Update
<1>4. \A i \in DOMAIN byId : byId[i] \in Flows /\ obj[byId[i]].id = i
  BY DEF TypeOK, IdsBounded
<1>5. \A i \in DOMAIN byId : i # n => byId[i] # f /\ Kept(byId[i])
  BY <1>4 DEF Kept, Update
<1> HIDE DEF n
<1>6. byId'[n] = f
  BY <1>3 DEF With
<1>7. \A i \in DOMAIN byId' : i # n =>
          i \in DOMAIN byId /\ byId'[i] = byId[i] /\ Kept(byId[i])
  BY <1>3, <1>4, <1>5 DEF With
<1> QED BY <1>1, <1>2, <1>3, <1>6, <1>7, QueueingKeepsLatest

LEMMA StepIInv == IInv /\ [Next]_vars => IInv'
<1> SUFFICES ASSUME IInv, [Next]_vars PROVE IInv'
  OBVIOUS
<1>0. TypeOK /\ TypeOK' /\ IdsBounded /\ ListedIsIndexed /\ LatestIsSomewhere
  BY StepType DEF IInv
<1> DEFINE Goal == IdsBounded' /\ ListedIsIndexed' /\ LatestIsSomewhere'
<1> SUFFICES Goal
  BY <1>0 DEF IInv
<1>1. ASSUME NEW f \in Flows, Add(f) PROVE Goal
  BY <1>0, <1>1, AddKeepsIds, AddStep
<1>2. ASSUME NEW f \in Flows, Respond(f) PROVE Goal
  <2>1. /\ \A g \in Flows : obj'[g].id = obj[g].id
        /\ \A g \in Flows : g # f => obj'[g] = obj[g]
        /\ \A g \in Flows : stage'[g] # stage[g] => g = f /\ stage'[g] = "done"
        /\ stage[f] # "idle" /\ Update(f) /\ UNCHANGED <<counter, saving, disk>>
    BY <1>0, <1>2 DEF Respond, TypeOK
  <2>2. obj[f].id <= counter
    BY <1>0, <1>2 DEF Respond, TypeOK, IdsBounded
  <2> QED BY <1>0, <2>1, <2>2, UpdateStep
<1>3. ASSUME NEW f \in Flows, PassUnrecorded(f) \/ RespondRaises(f) \/ Fail(f) PROVE Goal
  <2>1. UNCHANGED <<entries, byId, counter, dbq, saving, disk>>
    BY <1>3 DEF PassUnrecorded, RespondRaises, Fail, dbVars
  <2>2. \A g \in Flows : \/ stage'[g] = stage[g]
                         \/ stage[g] = "idle" /\ stage'[g] = "bare"
                         \/ stage[g] \in {"open", "bare"} /\ stage'[g] = "done"
    BY <1>0, <1>3 DEF PassUnrecorded, RespondRaises, Fail, TypeOK
  <2>3. \A g \in Flows : Kept(g)
    BY <1>0, <1>3, UntoldStep
  <2> QED BY <1>0, <2>1, <2>2, <2>3, QuietStep DEF Quiet
<1>4. CASE DbExecute \/ DbCommit
  BY <1>0, <1>4, DatabaseStep
<1>5. CASE Restart
  BY <1>0, <1>5, RestartStep
<1>6. ASSUME NEW s \in Pages,
             \/ OpenPage(s) \/ ClosePage(s) \/ LeaveTab(s) \/ ReturnToTab(s)
             \/ Deliver(s) \/ Poll(s)
      PROVE  Goal
  <2>1. UNCHANGED <<stage, obj, entries, byId, counter, half, dbq, saving, disk>>
    BY <1>6 DEF OpenPage, ClosePage, LeaveTab, ReturnToTab, Deliver, Poll, memVars, dbVars
  <2> QED BY <1>0, <2>1, QuietStep DEF Quiet, Kept
<1>7. ASSUME NEW s \in Pages, NEW i \in DOMAIN rows[s], NEW c \in Colors, SetColor(s, i, c)
      PROVE  Goal
  <2>1. CASE i \in DOMAIN byId
    <3>1. byId[i] \in Flows /\ obj[byId[i]].id <= counter /\ stage[byId[i]] # "idle"
      BY <1>0, <2>1 DEF TypeOK, IdsBounded
    <3>2. obj' = [obj EXCEPT ![byId[i]].color = c] /\ Update(byId[i])
          /\ UNCHANGED <<stage, counter, saving, disk>>
      BY <1>7, <2>1 DEF SetColor
    <3>3. /\ \A g \in Flows : obj'[g].id = obj[g].id
          /\ \A g \in Flows : g # byId[i] => obj'[g] = obj[g]
      BY <1>0, <3>1, <3>2 DEF TypeOK
    <3> QED BY <1>0, <3>1, <3>2, <3>3, UpdateStep
  <2>2. CASE i \notin DOMAIN byId
    <3>1. UNCHANGED <<stage, obj, entries, byId, counter, half, dbq, saving, disk>>
      BY <1>7, <2>2 DEF SetColor, dbVars
    <3> QED BY <1>0, <3>1, QuietStep DEF Quiet, Kept
  <2> QED BY <2>1, <2>2
<1>8. CASE Clear
  BY <1>0, <1>8, ClearStep
<1>9. CASE ClearByApi
  BY <1>8, <1>9 DEF ClearByApi
<1>10. ASSUME NEW s \in Pages, ClearByPage(s) PROVE Goal
  BY <1>8, <1>10 DEF ClearByPage
<1>11. CASE UNCHANGED vars
  <2>1. UNCHANGED <<stage, obj, entries, byId, counter, half, dbq, saving, disk>>
    BY <1>11 DEF vars, memVars, dbVars
  <2> QED BY <1>0, <2>1, QuietStep DEF Quiet, Kept
<1> HIDE DEF Goal
<1> QED BY <1>1, <1>2, <1>3, <1>4, <1>5, <1>6, <1>7, <1>9, <1>10, <1>11 DEF Next

-------------------------------------------------------------------------------
(* What a page shows *)

\* No other entry in the list has the id of q.
Known(q) ==
    /\ obj[q].id <= counter
    /\ \A k \in DOMAIN entries : obj[entries[k]].id = obj[q].id => entries[k] = q

Waits(seq, f) == \E n \in DOMAIN seq : seq[n] = f
Shows(s, f) == obj[f].id \in DOMAIN rows[s] /\ UpToDate(rows[s][obj[f].id], f)
Current(s, f) == f \in lost[s] \/ Waits(callbacks[s], f) \/ Waits(subq[s], f) \/ Shows(s, f)

\* Notifications under way, and flows that will cause some, concern the entry
\* that the list has under their id, if it has one: a row is not overwritten by
\* another entry's.
NotifiedAreKnown ==
    /\ \A s \in Pages, f \in Flows : Waits(callbacks[s], f) \/ Waits(subq[s], f) => Known(f)
    /\ \A f \in Flows : stage[f] \in {"open", "bare"} => Known(f)

LEMMA CurrentIsCurrent ==
    PageIsCurrent <=> \A s \in subs \ away : \A k \in DOMAIN entries : Current(s, entries[k])
BY DEF PageIsCurrent, Current, Waits, Shows

\* What is listed has an id of its own.
LEMMA ListedHaveOwnId ==
    ASSUME TypeOK, IdsBounded, ListedIsIndexed
    PROVE  /\ \A k \in DOMAIN entries : entries[k] \in Flows /\ obj[entries[k]].id \in 1..counter
           /\ \A j, k \in DOMAIN entries : obj[entries[j]].id = obj[entries[k]].id => entries[j] = entries[k]
           /\ counter \in Nat
BY DEF TypeOK, IdsBounded, ListedIsIndexed

LEMMA RefreshShows ==
    ASSUME TypeOK', IdsBounded', ListedIsIndexed', NEW s \in Pages, Refresh(s),
           rows = [t \in Pages |-> rows[t]], lost \in [Pages -> SUBSET Flows]
    PROVE  /\ \A k \in DOMAIN entries' : Current(s, entries[k])'
           /\ \A t \in Pages \ {s} : rows'[t] = rows[t] /\ lost'[t] = lost[t]
<1>1. /\ rows'[s] = [i \in {obj'[f].id : f \in Loaded} |->
                       LET f == CHOOSE g \in Loaded : obj'[g].id = i
                       IN  [of |-> f, resp |-> obj'[f].resp, color |-> obj'[f].color]]
      /\ lost'[s] = Listed \ Loaded
      /\ \A t \in Pages \ {s} : rows'[t] = rows[t] /\ lost'[t] = lost[t]
  BY DEF Refresh
<1>2. /\ \A f \in Loaded : f \in Listed
      /\ \A f \in Listed : \E k \in DOMAIN entries' : entries'[k] = f
      /\ \A k \in DOMAIN entries' : entries'[k] \in Listed
  <2>1. DOMAIN entries' = 1..Len(entries')
    BY DEF TypeOK
  <2> QED
    BY <2>1 DEF Loaded, Listed
<1>3. \A f, g \in Listed : obj'[f].id = obj'[g].id => f = g
  <2>1. \A j, k \in DOMAIN entries' : obj'[entries'[j]].id = obj'[entries'[k]].id => entries'[j] = entries'[k]
    BY DEF ListedIsIndexed
  <2> QED
    BY <1>2, <2>1
<1>4. ASSUME NEW f \in Loaded PROVE Shows(s, f)'
  <2>1. (CHOOSE g \in Loaded : obj'[g].id = obj'[f].id) = f
    BY <1>2, <1>3
  <2> DEFINE i == obj'[f].id
  <2>2. i \in {obj'[g].id : g \in Loaded}
    OBVIOUS
  <2>3. rows'[s][i] = LET g == CHOOSE g \in Loaded : obj'[g].id = i
                      IN  [of |-> g, resp |-> obj'[g].resp, color |-> obj'[g].color]
    <3> HIDE DEF i
    <3> QED
      BY <1>1, <2>2
  <2>4. i \in DOMAIN rows'[s]
    BY <1>1, <2>2
  <2>5. rows'[s][i] = [of |-> f, resp |-> obj'[f].resp, color |-> obj'[f].color]
    BY <2>1, <2>3
  <2> QED
    BY <2>4, <2>5 DEF Shows, UpToDate
<1>5. ASSUME NEW k \in DOMAIN entries' PROVE Current(s, entries[k])'
  <2>1. entries'[k] \in Listed
    BY <1>2
  <2>2. CASE entries'[k] \in Loaded
    BY <1>4, <2>2 DEF Current
  <2>3. CASE entries'[k] \notin Loaded
    BY <1>1, <2>1, <2>3 DEF Current
  <2> QED
    BY <2>2, <2>3
<1> QED
  BY <1>1, <1>5

\* _publish(): every subscriber is told of f, and nobody of anything else.
LEMMA PublishWaits ==
    ASSUME TypeOK, NEW f \in Flows, Publish(f)
    PROVE  /\ \A s \in subs : Waits(callbacks[s], f)'
           /\ \A s \in Pages, g \in Flows : Waits(callbacks[s], g) => Waits(callbacks[s], g)'
           /\ \A s \in Pages, g \in Flows : Waits(callbacks[s], g)' => Waits(callbacks[s], g) \/ g = f
<1>1. ASSUME NEW s \in Pages
      PROVE  /\ s \in subs => Waits(callbacks[s], f)'
             /\ \A g \in Flows : Waits(callbacks[s], g) => Waits(callbacks[s], g)'
             /\ \A g \in Flows : Waits(callbacks[s], g)' => Waits(callbacks[s], g) \/ g = f
  <2>1. callbacks[s] \in Seq(Flows)
    BY DEF TypeOK
  <2>2. callbacks'[s] = IF s \in subs THEN Append(callbacks[s], f) ELSE callbacks[s]
    BY DEF Publish
  <2>3. CASE s \in subs
    <3>1. /\ DOMAIN callbacks'[s] = 1..(Len(callbacks[s]) + 1) /\ DOMAIN callbacks[s] = 1..Len(callbacks[s])
          /\ Len(callbacks[s]) \in Nat
          /\ callbacks'[s][Len(callbacks[s]) + 1] = f
          /\ \A n \in DOMAIN callbacks[s] : callbacks'[s][n] = callbacks[s][n]
      BY <2>1, <2>2, <2>3
    <3>2. /\ \A n \in DOMAIN callbacks[s] : n \in DOMAIN callbacks'[s]
          /\ \A n \in DOMAIN callbacks'[s] : n \in DOMAIN callbacks[s] \/ callbacks'[s][n] = f
          /\ Len(callbacks[s]) + 1 \in DOMAIN callbacks'[s]
      BY <3>1
    <3> QED
      BY <3>1, <3>2 DEF Waits
  <2>4. CASE s \notin subs
    BY <2>2, <2>4 DEF Waits
  <2> QED
    BY <2>3, <2>4
<1>2. subs \subseteq Pages
  BY DEF TypeOK
<1> QED
  BY <1>1, <1>2

\* update() of a known entry changes the place of no other in the list, and
\* every page that is told of it is as current as before.
LEMMA UpdateTells ==
    ASSUME TypeOK, TypeOK', IdsBounded, ListedIsIndexed, NotifiedAreKnown, PageIsCurrent,
           NEW f \in Flows, Known(f), Update(f),
           UNCHANGED <<counter, subs, away, subq>>,
           \A g \in Flows : obj'[g].id = obj[g].id /\ (g # f => obj'[g] = obj[g]),
           \A g \in Flows : stage'[g] \in {"open", "bare"} => stage[g] = stage'[g]
    PROVE  /\ NotifiedAreKnown'
           /\ \A s \in subs' \ away' : (rows'[s] = rows[s] /\ lost'[s] = lost[s]) =>
                \A k \in DOMAIN entries' : Current(s, entries[k])'
<1>1. Publish(f)
  BY DEF Update
<1>2. /\ DOMAIN entries' = DOMAIN entries
      /\ \A k \in DOMAIN entries : entries'[k] = entries[k] /\ entries[k] \in Flows
  <2>1. entries' = [k \in DOMAIN entries |-> IF obj[entries[k]].id = obj[f].id THEN f ELSE entries[k]]
    BY DEF Update
  <2>2. \A k \in DOMAIN entries : obj[entries[k]].id = obj[f].id => entries[k] = f
    BY DEF Known
  <2> QED
    BY <2>1, <2>2, ListedHaveOwnId
<1>3. ASSUME NEW g \in Flows, Known(g) PROVE Known(g)'
  BY <1>2, <1>3 DEF Known
<1>4. NotifiedAreKnown'
  <2>1. ASSUME NEW s \in Pages, NEW g \in Flows, Waits(callbacks[s], g)' \/ Waits(subq[s], g)'
        PROVE  Known(g)'
    <3>1. Waits(callbacks[s], g) \/ Waits(subq[s], g) \/ g = f
      BY <1>1, <2>1, PublishWaits DEF Waits
    <3> QED
      BY <1>3, <3>1 DEF NotifiedAreKnown
  <2>2. \A g \in Flows : stage'[g] \in {"open", "bare"} => Known(g)'
    BY <1>3 DEF NotifiedAreKnown
  <2> QED
    BY <2>1, <2>2 DEF NotifiedAreKnown
<1>5. ASSUME NEW s \in subs' \ away', rows'[s] = rows[s], lost'[s] = lost[s], NEW k \in DOMAIN entries'
      PROVE  Current(s, entries[k])'
  <2>1. s \in subs \ away /\ s \in Pages /\ entries'[k] = entries[k] /\ entries[k] \in Flows /\ k \in DOMAIN entries
    BY <1>2 DEF TypeOK
  <2>2. CASE entries[k] = f
    BY <1>1, <2>1, <2>2, PublishWaits DEF Current
  <2>3. CASE entries[k] # f
    <3>1. Kept(entries[k])
      BY <2>1, <2>3 DEF Update, Kept
    <3>2. Current(s, entries[k])
      BY <2>1, CurrentIsCurrent
    <3>3. CASE Waits(callbacks[s], entries[k])
      BY <1>1, <2>1, <3>3, PublishWaits DEF Current
    <3>4. CASE Waits(subq[s], entries[k])
      BY <2>1, <3>4 DEF Current, Waits
    <3>5. CASE entries[k] \in lost[s]
      BY <1>5, <2>1, <3>5 DEF Current
    <3>6. CASE Shows(s, entries[k])
      BY <1>5, <2>1, <3>1, <3>6 DEF Current, Shows, UpToDate, Kept
    <3> QED
      BY <3>2, <3>3, <3>4, <3>5, <3>6 DEF Current
  <2> QED
    BY <2>2, <2>3
<1> QED
  BY <1>4, <1>5

LEMMA AddTells ==
    ASSUME TypeOK, TypeOK', IdsBounded, ListedIsIndexed, NotifiedAreKnown, PageIsCurrent,
           NEW f \in Flows, Add(f)
    PROVE  NotifiedAreKnown' /\ PageIsCurrent'
<1>1. /\ Publish(f) /\ UNCHANGED <<subs, away, subq, rows, lost, half>>
      /\ counter' = counter + 1 /\ counter \in Nat
      /\ obj'[f].id = counter' /\ stage'[f] = "open"
      /\ \A g \in Flows \ {f} : obj'[g] = obj[g] /\ stage'[g] = stage[g]
      /\ stage[f] = "idle" /\ obj[f].id = 0
  BY DEF Add, TypeOK, IdsBounded
<1>2. /\ Len(entries) \in Nat /\ DOMAIN entries = 1..Len(entries)
      /\ DOMAIN entries' = 1..(Len(entries) + 1)
      /\ entries'[Len(entries) + 1] = f
      /\ \A k \in DOMAIN entries : entries'[k] = entries[k]
  BY DEF Add, TypeOK
<1>3. \A k \in DOMAIN entries : /\ entries[k] \in Flows \ {f} /\ obj[entries[k]].id \in 1..counter
                               /\ obj'[entries[k]] = obj[entries[k]]
  BY <1>1, ListedHaveOwnId
<1>4. \A k \in DOMAIN entries' : k \in DOMAIN entries \/ entries'[k] = f
  BY <1>2
<1>5. Known(f)'
  BY <1>1, <1>2, <1>3, <1>4 DEF Known
<1>6. ASSUME NEW g \in Flows, Known(g), g # f PROVE Known(g)'
  <2>1. obj'[g].id = obj[g].id /\ obj[g].id <= counter /\ obj[g].id \in Nat
    BY <1>1, <1>6 DEF Known, TypeOK
  <2>2. obj'[g].id <= counter' /\ obj'[g].id # obj'[f].id
    BY <1>1, <2>1
  <2> QED
    BY <1>2, <1>3, <1>4, <1>6, <2>1, <2>2 DEF Known
<1>7. NotifiedAreKnown'
  <2>1. ASSUME NEW s \in Pages, NEW g \in Flows, Waits(callbacks[s], g)' \/ Waits(subq[s], g)'
        PROVE  Known(g)'
    <3>1. Waits(callbacks[s], g) \/ Waits(subq[s], g) \/ g = f
      BY <1>1, <2>1, PublishWaits DEF Waits
    <3> QED
      BY <1>5, <1>6, <3>1 DEF NotifiedAreKnown
  <2>2. \A g \in Flows : stage'[g] \in {"open", "bare"} => Known(g)'
    BY <1>1, <1>5, <1>6 DEF NotifiedAreKnown
  <2> QED
    BY <2>1, <2>2 DEF NotifiedAreKnown
<1>8. ASSUME NEW s \in subs' \ away', NEW k \in DOMAIN entries' PROVE Current(s, entries[k])'
  <2>1. s \in subs \ away /\ s \in Pages
    BY <1>1 DEF TypeOK
  <2>2. CASE entries'[k] = f
    BY <1>1, <2>1, <2>2, PublishWaits DEF Current
  <2>3. CASE k \in DOMAIN entries
    <3>1. entries'[k] = entries[k] /\ obj'[entries[k]] = obj[entries[k]] /\ entries[k] \in Flows
      BY <1>2, <1>3, <2>3
    <3>2. Current(s, entries[k])
      BY <2>1, <2>3, CurrentIsCurrent
    <3>3. CASE Waits(callbacks[s], entries[k])
      BY <1>1, <2>1, <3>1, <3>3, PublishWaits DEF Current
    <3>4. CASE Waits(subq[s], entries[k])
      BY <1>1, <3>1, <3>4 DEF Current, Waits
    <3>5. CASE entries[k] \in lost[s]
      BY <1>1, <3>1, <3>5 DEF Current
    <3>6. CASE Shows(s, entries[k])
      BY <1>1, <3>1, <3>6 DEF Current, Shows, UpToDate
    <3> QED
      BY <3>2, <3>3, <3>4, <3>5, <3>6 DEF Current
  <2> QED
    BY <1>4, <2>2, <2>3
<1>9. PageIsCurrent'
  BY <1>8 DEF PageIsCurrent, Current, Waits, Shows
<1> QED
  BY <1>7, <1>9

\* What waits in a sequence: at its head, or after it; before the last, or last.
LEMMA WaitsInTail ==
    ASSUME NEW q \in Seq(Flows), q # <<>>
    PROVE  Head(q) \in Flows /\ \A f \in Flows : Waits(q, f) <=> f = Head(q) \/ Waits(Tail(q), f)
<1>1. /\ Len(q) \in Nat \ {0} /\ DOMAIN q = 1..Len(q) /\ Head(q) = q[1] /\ q[1] \in Flows
      /\ DOMAIN Tail(q) = 1..(Len(q) - 1)
      /\ \A n \in 1..(Len(q) - 1) : Tail(q)[n] = q[n + 1]
  OBVIOUS
<1>2. ASSUME NEW f \in Flows, Waits(q, f) PROVE f = Head(q) \/ Waits(Tail(q), f)
  <2>1. PICK n \in 1..Len(q) : q[n] = f
    BY <1>1, <1>2 DEF Waits
  <2>2. CASE n = 1
    BY <1>1, <2>1, <2>2
  <2>3. CASE n # 1
    <3>1. n - 1 \in 1..(Len(q) - 1) /\ (n - 1) + 1 = n
      BY <1>1, <2>3
    <3> QED
      BY <1>1, <2>1, <3>1 DEF Waits
  <2> QED
    BY <2>2, <2>3
<1>3. ASSUME NEW f \in Flows, f = Head(q) \/ Waits(Tail(q), f) PROVE Waits(q, f)
  <2>1. CASE f = Head(q)
    BY <1>1, <2>1 DEF Waits
  <2>2. CASE Waits(Tail(q), f)
    <3>1. PICK n \in 1..(Len(q) - 1) : Tail(q)[n] = f
      BY <1>1, <2>2 DEF Waits
    <3>2. n + 1 \in 1..Len(q) /\ q[n + 1] = f
      BY <1>1, <3>1
    <3> QED
      BY <1>1, <3>2 DEF Waits
  <2> QED
    BY <1>3, <2>1, <2>2
<1> QED
  BY <1>1, <1>2, <1>3

LEMMA WaitsAtEnd ==
    ASSUME NEW q \in Seq(Flows), NEW g \in Flows
    PROVE  \A f \in Flows : Waits(Append(q, g), f) <=> Waits(q, f) \/ f = g
<1>1. /\ Len(q) \in Nat /\ DOMAIN q = 1..Len(q) /\ DOMAIN Append(q, g) = 1..(Len(q) + 1)
      /\ \A n \in DOMAIN q : Append(q, g)[n] = q[n]
      /\ Append(q, g)[Len(q) + 1] = g
  OBVIOUS
<1>2. /\ \A n \in DOMAIN q : n \in DOMAIN Append(q, g)
      /\ \A n \in DOMAIN Append(q, g) : n \in DOMAIN q \/ n = Len(q) + 1
      /\ Len(q) + 1 \in DOMAIN Append(q, g)
  BY <1>1
<1> QED
  BY <1>1, <1>2 DEF Waits

\* A step that leaves the list alone and notifies nobody of anything new.
ListStays ==
    /\ UNCHANGED <<entries, counter>>
    /\ \A f \in Flows : Kept(f)
    /\ \A t \in Pages, f \in Flows : Waits(callbacks[t], f)' \/ Waits(subq[t], f)'
                                        => Waits(callbacks[t], f) \/ Waits(subq[t], f)
    /\ \A f \in Flows : stage'[f] \in {"open", "bare"} => stage[f] = stage'[f] \/ obj[f].id = 0

LEMMA KnownStay ==
    ASSUME TypeOK, IdsBounded, NotifiedAreKnown, ListStays
    PROVE  NotifiedAreKnown'
<1>1. /\ UNCHANGED <<entries, counter>> /\ \A f \in Flows : obj'[f].id = obj[f].id
      /\ \A k \in DOMAIN entries : entries[k] \in Flows
  BY DEF ListStays, Kept, TypeOK
<1>2. ASSUME NEW f \in Flows, Known(f) PROVE Known(f)'
  BY <1>1, <1>2 DEF Known
<1>3. ASSUME NEW f \in Flows, obj[f].id = 0 PROVE Known(f)
  <2>1. \A k \in DOMAIN entries : obj[entries[k]].id # 0
    BY DEF IdsBounded
  <2> QED
    BY <1>3, <2>1 DEF Known, TypeOK
<1>4. \A t \in Pages, f \in Flows : Waits(callbacks[t], f)' \/ Waits(subq[t], f)' => Known(f)'
  BY <1>2 DEF ListStays, NotifiedAreKnown
<1>5. \A f \in Flows : stage'[f] \in {"open", "bare"} => Known(f)'
  BY <1>2, <1>3 DEF ListStays, NotifiedAreKnown
<1> QED
  BY <1>4, <1>5 DEF NotifiedAreKnown

\* The page t shows what it showed, and waits for what it waited for.
PageStays(t) ==
    /\ t \in subs' \ away' => t \in subs \ away
    /\ UNCHANGED <<callbacks[t], subq[t], rows[t], lost[t]>>

LEMMA CurrentStay ==
    ASSUME TypeOK, PageIsCurrent, entries' = entries, \A f \in Flows : Kept(f), NEW t \in Pages, PageStays(t),
           t \in subs' \ away', NEW k \in DOMAIN entries'
    PROVE  Current(t, entries[k])'
<1>1. Current(t, entries[k]) /\ entries'[k] = entries[k] /\ Kept(entries[k])
  BY CurrentIsCurrent DEF PageStays, TypeOK
<1> QED
  BY <1>1 DEF Current, Waits, Shows, UpToDate, Kept, PageStays

LEMMA DeliverKeepsCurrent ==
    ASSUME TypeOK, IdsBounded, NotifiedAreKnown, PageIsCurrent, NEW s \in Pages, Deliver(s)
    PROVE  NotifiedAreKnown' /\ PageIsCurrent'
<1> DEFINE g == Head(callbacks[s])
<1>1. /\ UNCHANGED <<stage, obj, entries, counter, half, subs, away, rows>>
      /\ callbacks[s] # <<>> /\ callbacks[s] \in Seq(Flows) /\ subq[s] \in Seq(Flows)
      /\ callbacks'[s] = Tail(callbacks[s])
      /\ \A t \in Pages \ {s} : callbacks'[t] = callbacks[t] /\ subq'[t] = subq[t] /\ lost'[t] = lost[t]
  BY DEF Deliver, TypeOK, memVars
<1>2. \/ subq'[s] = Append(subq[s], g) /\ lost'[s] = lost[s]
      \/ subq'[s] = subq[s] /\ lost'[s] = lost[s] \cup {g}
  BY DEF Deliver, TypeOK
<1>3. /\ g \in Flows
      /\ \A f \in Flows : Waits(callbacks[s], f) <=> f = g \/ Waits(callbacks'[s], f)
  BY <1>1, WaitsInTail
<1> HIDE DEF g
<1>4. /\ \A f \in Flows : Waits(subq[s], f) => Waits(subq'[s], f)
      /\ \A f \in Flows : Waits(subq'[s], f) => Waits(subq[s], f) \/ f = g
      /\ Waits(subq'[s], g) \/ g \in lost'[s]
      /\ \A f \in Flows : f \in lost[s] => f \in lost'[s]
  <2>1. CASE subq'[s] = Append(subq[s], g) /\ lost'[s] = lost[s]
    <3>1. \A f \in Flows : Waits(subq'[s], f) <=> Waits(subq[s], f) \/ f = g
      BY <1>1, <1>3, <2>1, WaitsAtEnd
    <3> QED
      BY <1>3, <2>1, <3>1
  <2>2. CASE subq'[s] = subq[s] /\ lost'[s] = lost[s] \cup {g}
    BY <1>3, <2>2
  <2> QED
    BY <1>2, <2>1, <2>2
<1>5. NotifiedAreKnown'
  <2>1. ASSUME NEW t \in Pages, NEW f \in Flows, Waits(callbacks'[t], f) \/ Waits(subq'[t], f)
        PROVE  Waits(callbacks[t], f) \/ Waits(subq[t], f)
    BY <1>1, <1>3, <1>4, <2>1
  <2>2. ListStays
    BY <1>1, <2>1 DEF ListStays, Waits, Kept
  <2> QED
    BY <2>2, KnownStay
<1>6. ASSUME NEW t \in subs' \ away', NEW k \in DOMAIN entries' PROVE Current(t, entries[k])'
  <2>1. t \in subs \ away /\ t \in Pages /\ entries[k] \in Flows /\ entries'[k] = entries[k] /\ k \in DOMAIN entries
    BY <1>1 DEF TypeOK
  <2>2. Current(t, entries[k])
    BY <2>1, CurrentIsCurrent
  <2>3. CASE t # s
    BY <1>1, <2>1, <2>3, CurrentStay DEF PageStays, Kept
  <2>4. CASE t = s
    <3>1. Waits(callbacks[s], entries[k]) => Waits(callbacks'[s], entries[k]) \/ Waits(subq'[s], entries[k]) \/ entries[k] \in lost'[s]
      BY <1>3, <1>4, <2>1
    <3>2. Waits(subq[s], entries[k]) => Waits(subq'[s], entries[k])
      BY <1>4, <2>1
    <3>3. entries[k] \in lost[s] => entries[k] \in lost'[s]
      BY <1>4, <2>1
    <3>4. Shows(s, entries[k]) => Shows(s, entries[k])'
      BY <1>1, <2>1 DEF Shows, UpToDate
    <3> QED
      BY <2>1, <2>2, <2>4, <3>1, <3>2, <3>3, <3>4 DEF Current, Waits
  <2> QED
    BY <2>3, <2>4
<1> QED
  BY <1>5, <1>6 DEF PageIsCurrent, Current, Waits, Shows

LEMMA PollKeepsCurrent ==
    ASSUME TypeOK, IdsBounded, NotifiedAreKnown, PageIsCurrent, NEW s \in Pages, Poll(s)
    PROVE  NotifiedAreKnown' /\ PageIsCurrent'
<1> DEFINE g == Head(subq[s])
           i == obj[g].id
<1>1. /\ UNCHANGED <<stage, obj, entries, counter, half, subs, away, callbacks>>
      /\ subq[s] # <<>> /\ subq[s] \in Seq(Flows) /\ s \in subs
      /\ subq'[s] = Tail(subq[s])
  BY DEF Poll, TypeOK, memVars
<1>2. \A t \in Pages \ {s} : subq'[t] = subq[t] /\ rows'[t] = rows[t] /\ lost'[t] = lost[t]
  BY DEF Poll, TypeOK
<1>3. s \notin away => /\ rows'[s] = [j \in DOMAIN rows[s] \cup {i} |-> RowOf(IF j = i THEN g ELSE rows[s][j].of)]
                       /\ lost'[s] = lost[s] \ {g}
  <2>1. s \notin away => rows' = [rows EXCEPT ![s] =
                [j \in DOMAIN @ \cup {i} |-> RowOf(IF j = i THEN g ELSE @[j].of)]]
    BY DEF Poll
  <2>2. rows = [t \in Pages |-> rows[t]]
    BY DEF TypeOK
  <2>3. s \notin away => lost'[s] = lost[s] \ {g}
    BY DEF Poll, TypeOK
  <2> QED
    BY <2>1, <2>2, <2>3
<1>4. /\ g \in Flows
      /\ \A f \in Flows : Waits(subq[s], f) <=> f = g \/ Waits(subq'[s], f)
  BY <1>1, WaitsInTail
<1> HIDE DEF g
<1>5. Known(g)
  BY <1>4 DEF NotifiedAreKnown
<1>6. NotifiedAreKnown'
  <2>1. ASSUME NEW t \in Pages, NEW f \in Flows, Waits(callbacks'[t], f) \/ Waits(subq'[t], f)
        PROVE  Waits(callbacks[t], f) \/ Waits(subq[t], f)
    BY <1>1, <1>2, <1>4, <2>1
  <2>2. ListStays
    BY <1>1, <2>1 DEF ListStays, Waits, Kept
  <2> QED
    BY <2>2, KnownStay
<1>7. ASSUME NEW t \in subs' \ away', NEW k \in DOMAIN entries' PROVE Current(t, entries[k])'
  <2> DEFINE f == entries[k]
  <2>1. t \in subs \ away /\ t \in Pages /\ f \in Flows /\ entries'[k] = f /\ k \in DOMAIN entries
    BY <1>1 DEF TypeOK
  <2>2. Current(t, f)
    BY <2>1, CurrentIsCurrent
  <2>3. CASE t # s
    BY <1>1, <1>2, <2>1, <2>3, CurrentStay DEF PageStays, Kept
  <2>4. CASE t = s /\ f = g
    <3>1. i \in DOMAIN rows'[s] /\ rows'[s][i] = RowOf(g)
      BY <1>3, <2>1, <2>4
    <3>2. Shows(s, f)'
      BY <1>1, <2>1, <2>4, <3>1 DEF Shows, UpToDate, RowOf
    <3> QED
      BY <2>1, <2>4, <3>2 DEF Current
  <2>5. CASE t = s /\ f # g
    <3>1. obj[f].id # i
      BY <1>5, <2>1, <2>5 DEF Known
    <3> HIDE DEF i
    <3>2. CASE Shows(s, f)
      <4>1. obj[f].id \in DOMAIN rows[s] /\ rows[s][obj[f].id].of = f
        BY <3>2 DEF Shows, UpToDate
      <4>2. obj[f].id \in DOMAIN rows'[s] /\ rows'[s][obj[f].id] = RowOf(f)
        BY <1>3, <2>1, <2>5, <3>1, <4>1
      <4>3. Shows(s, f)'
        BY <1>1, <2>1, <4>2 DEF Shows, UpToDate, RowOf
      <4> QED
        BY <2>1, <2>5, <4>3 DEF Current
    <3>3. CASE f \in lost[s]
      BY <1>3, <2>1, <2>5, <3>3 DEF Current
    <3>4. CASE Waits(callbacks[s], f)
      BY <1>1, <2>1, <2>5, <3>4 DEF Current, Waits
    <3>5. CASE Waits(subq[s], f)
      <4>1. Waits(subq'[s], f)
        BY <1>4, <2>1, <2>5, <3>5
      <4> QED
        BY <2>1, <2>5, <4>1 DEF Current, Waits
    <3> QED
      BY <2>2, <2>5, <3>2, <3>3, <3>4, <3>5 DEF Current
  <2> QED
    BY <2>3, <2>4, <2>5
<1> QED
  BY <1>6, <1>7 DEF PageIsCurrent, Current, Waits, Shows

\* A page that is built, or returned to, is refreshed.
LEMMA RefreshKeepsCurrent ==
    ASSUME TypeOK, TypeOK', IdsBounded, IdsBounded', ListedIsIndexed', NotifiedAreKnown, PageIsCurrent,
           NEW s \in Pages, Refresh(s), UNCHANGED <<stage, obj, entries, counter, half, callbacks, subq>>,
           \A t \in Pages \ {s} : t \in subs' \ away' => t \in subs \ away
    PROVE  NotifiedAreKnown' /\ PageIsCurrent'
<1>1. ListStays
  BY DEF ListStays, Waits, Kept
<1>2. rows = [t \in Pages |-> rows[t]] /\ lost \in [Pages -> SUBSET Flows]
  BY DEF TypeOK
<1>3. ASSUME NEW t \in subs' \ away', NEW k \in DOMAIN entries' PROVE Current(t, entries[k])'
  <2>1. t \in Pages
    BY DEF TypeOK
  <2>2. CASE t = s
    BY <1>2, <2>2, RefreshShows
  <2>3. CASE t # s
    <3>1. rows'[t] = rows[t] /\ lost'[t] = lost[t]
      BY <1>2, <2>1, <2>3, RefreshShows
    <3>2. PageStays(t)
      BY <2>1, <2>3, <3>1 DEF PageStays
    <3> QED
      BY <2>1, <3>2, CurrentStay DEF Kept
  <2> QED
    BY <2>2, <2>3
<1> QED
  BY <1>1, <1>3, KnownStay DEF PageIsCurrent, Current, Waits, Shows

LEMMA ColorKeepsCurrent ==
    ASSUME TypeOK, TypeOK', IdsBounded, IdsBounded', ListedIsIndexed, ListedIsIndexed',
           NotifiedAreKnown, PageIsCurrent,
           NEW s \in Pages, NEW i \in DOMAIN rows[s], NEW c \in Colors, SetColor(s, i, c)
    PROVE  NotifiedAreKnown' /\ PageIsCurrent'
<1>1. Refresh(s) /\ UNCHANGED <<stage, counter, subs, away, subq>>
  BY DEF SetColor
<1>2. CASE i \notin DOMAIN byId
  <2>1. UNCHANGED <<obj, entries, half, callbacks>>
    BY <1>2 DEF SetColor
  <2> QED
    BY <1>1, <2>1, RefreshKeepsCurrent
<1>3. CASE i \in DOMAIN byId
  <2> DEFINE f == byId[i]
  <2>1. /\ f \in Flows /\ obj[f].id = i /\ i <= counter
        /\ obj' = [obj EXCEPT ![f].color = c] /\ Update(f)
    BY <1>3 DEF SetColor, TypeOK, IdsBounded
  <2>2. \A k \in DOMAIN entries : obj[entries[k]].id = i => entries[k] = f
    BY DEF ListedIsIndexed
  <2> HIDE DEF f
  <2>3. Known(f)
    BY <2>1, <2>2 DEF Known
  <2>4. \A g \in Flows : obj'[g].id = obj[g].id /\ (g # f => obj'[g] = obj[g])
    BY <2>1 DEF TypeOK
  <2>5. /\ NotifiedAreKnown'
        /\ \A t \in subs' \ away' : (rows'[t] = rows[t] /\ lost'[t] = lost[t]) =>
             \A k \in DOMAIN entries' : Current(t, entries[k])'
    BY <1>1, <2>1, <2>3, <2>4, UpdateTells
  <2>6. rows = [t \in Pages |-> rows[t]] /\ lost \in [Pages -> SUBSET Flows] /\ subs' \subseteq Pages
    BY DEF TypeOK
  <2>7. ASSUME NEW t \in subs' \ away', NEW k \in DOMAIN entries' PROVE Current(t, entries[k])'
    <3>1. CASE t = s
      BY <1>1, <2>6, <3>1, RefreshShows
    <3>2. CASE t # s
      <4>1. rows'[t] = rows[t] /\ lost'[t] = lost[t]
        BY <1>1, <2>6, <3>2, RefreshShows
      <4> QED
        BY <2>5, <4>1
    <3> QED
      BY <3>1, <3>2
  <2> QED
    BY <2>5, <2>7 DEF PageIsCurrent, Current, Waits, Shows
<1> QED
  BY <1>2, <1>3

\* Pages that are closed, hidden or emptied, and flows that move on unrecorded.
LEMMA OthersKeepCurrent ==
    ASSUME TypeOK, TypeOK', IdsBounded, NotifiedAreKnown, PageIsCurrent,
           UNCHANGED <<entries, counter>>, \A f \in Flows : Kept(f),
           \A f \in Flows : stage'[f] \in {"open", "bare"} => stage[f] = stage'[f] \/ obj[f].id = 0,
           \A t \in Pages : \/ PageStays(t)
                            \/ t \notin subs' \ away' /\ callbacks'[t] = <<>> /\ subq'[t] = <<>>
    PROVE  NotifiedAreKnown' /\ PageIsCurrent'
<1>1. ASSUME NEW t \in Pages, NEW f \in Flows, Waits(callbacks'[t], f) \/ Waits(subq'[t], f)
      PROVE  Waits(callbacks[t], f) \/ Waits(subq[t], f)
  <2>1. PageStays(t)
    BY <1>1 DEF Waits
  <2> QED
    BY <1>1, <2>1 DEF PageStays
<1>2. ListStays
  BY <1>1 DEF ListStays, Waits
<1>3. ASSUME NEW t \in subs' \ away', NEW k \in DOMAIN entries' PROVE Current(t, entries[k])'
  <2>1. t \in Pages
    BY DEF TypeOK
  <2> QED
    BY <2>1, CurrentStay
<1> QED
  BY <1>2, <1>3, KnownStay DEF PageIsCurrent, Current, Waits, Shows

LEMMA StepKeepsCurrent == IInv /\ IInv' /\ NotifiedAreKnown /\ PageIsCurrent /\ [Next]_vars
                            => NotifiedAreKnown' /\ PageIsCurrent'
<1> SUFFICES ASSUME IInv, IInv', NotifiedAreKnown, PageIsCurrent, [Next]_vars
             PROVE  NotifiedAreKnown' /\ PageIsCurrent'
  OBVIOUS
<1>0. TypeOK /\ TypeOK' /\ IdsBounded /\ IdsBounded' /\ ListedIsIndexed /\ ListedIsIndexed'
  BY DEF IInv
<1> DEFINE Goal == NotifiedAreKnown' /\ PageIsCurrent'
<1> SUFFICES Goal
  OBVIOUS
<1>1. ASSUME NEW f \in Flows, Add(f) PROVE Goal
  BY <1>0, <1>1, AddTells
<1>2. ASSUME NEW f \in Flows, Respond(f) PROVE Goal
  <2>1. /\ \A g \in Flows : obj'[g].id = obj[g].id /\ (g # f => obj'[g] = obj[g])
        /\ \A g \in Flows : stage'[g] \in {"open", "bare"} => stage[g] = stage'[g]
        /\ Update(f) /\ UNCHANGED <<counter, subs, away, subq, rows, lost>>
    BY <1>0, <1>2 DEF Respond, TypeOK
  <2>2. Known(f)
    BY <1>2 DEF Respond, NotifiedAreKnown
  <2>3. /\ NotifiedAreKnown'
        /\ \A s \in subs' \ away' : (rows'[s] = rows[s] /\ lost'[s] = lost[s]) =>
             \A k \in DOMAIN entries' : Current(s, entries[k])'
    BY <1>0, <2>1, <2>2, UpdateTells
  <2>4. \A s \in subs' \ away' : \A k \in DOMAIN entries' : Current(s, entries[k])'
    BY <2>1, <2>3
  <2> QED
    BY <2>3, <2>4 DEF PageIsCurrent, Current, Waits, Shows
<1>3. ASSUME NEW f \in Flows, PassUnrecorded(f) \/ RespondRaises(f) \/ Fail(f) PROVE Goal
  <2>1. UNCHANGED <<entries, counter, subs, away, callbacks, subq, rows, lost>>
    BY <1>3 DEF PassUnrecorded, RespondRaises, Fail, pageVars
  <2>2. \A g \in Flows : stage'[g] \in {"open", "bare"} => stage[g] = stage'[g] \/ obj[g].id = 0
    BY <1>0, <1>3 DEF PassUnrecorded, RespondRaises, Fail, TypeOK, IdsBounded
  <2>3. \A t \in Pages : PageStays(t)
    BY <2>1 DEF PageStays
  <2>4. \A g \in Flows : Kept(g)
    BY <1>0, <1>3, UntoldStep
  <2> QED
    BY <1>0, <2>1, <2>2, <2>3, <2>4, OthersKeepCurrent
<1>4. ASSUME UNCHANGED <<stage, obj, entries, counter, half, subs, away, callbacks, subq, rows, lost>>
      PROVE  Goal
  <2>1. \A t \in Pages : PageStays(t)
    BY <1>4 DEF PageStays
  <2> QED
    BY <1>0, <1>4, <2>1, OthersKeepCurrent DEF Kept
<1>5. CASE Restart
  <2>1. subs' = {} /\ \A t \in Pages : callbacks'[t] = <<>> /\ subq'[t] = <<>>
    BY <1>5 DEF Restart
  <2>2. \A f \in Flows : stage'[f] \notin {"open", "bare"}
    BY <1>5 DEF Restart
  <2>3. \A t \in Pages, f \in Flows : ~Waits(callbacks[t], f)' /\ ~Waits(subq[t], f)'
    BY <2>1 DEF Waits
  <2> QED
    BY <2>1, <2>2, <2>3 DEF NotifiedAreKnown, PageIsCurrent
<1>6. ASSUME NEW s \in Pages, OpenPage(s) \/ ReturnToTab(s) PROVE Goal
  <2>1. /\ Refresh(s) /\ UNCHANGED <<stage, obj, entries, counter, half, callbacks, subq>>
        /\ \A t \in Pages \ {s} : t \in subs' \ away' => t \in subs \ away
    BY <1>6 DEF OpenPage, ReturnToTab, memVars
  <2> QED
    BY <1>0, <2>1, RefreshKeepsCurrent
<1>7. ASSUME NEW s \in Pages, ClosePage(s) \/ LeaveTab(s) PROVE Goal
  <2>1. UNCHANGED <<stage, obj, entries, counter, half>>
    BY <1>7 DEF ClosePage, LeaveTab, memVars
  <2>2. CASE ClosePage(s)
    <3>1. /\ s \notin subs' /\ callbacks'[s] = <<>> /\ subq'[s] = <<>>
          /\ \A t \in Pages \ {s} : PageStays(t)
      BY <1>0, <2>2 DEF ClosePage, TypeOK, PageStays
    <3> QED
      BY <1>0, <2>1, <3>1, OthersKeepCurrent DEF Kept
  <2>3. CASE LeaveTab(s)
    <3>1. \A t \in Pages : PageStays(t)
      BY <2>3 DEF LeaveTab, PageStays
    <3> QED
      BY <1>0, <2>1, <3>1, OthersKeepCurrent DEF Kept
  <2> QED
    BY <1>7, <2>2, <2>3
<1>8. ASSUME NEW s \in Pages, Deliver(s) \/ Poll(s) PROVE Goal
  BY <1>0, <1>8, DeliverKeepsCurrent, PollKeepsCurrent
<1>9. ASSUME NEW s \in Pages, NEW i \in DOMAIN rows[s], NEW c \in Colors, SetColor(s, i, c) PROVE Goal
  BY <1>0, <1>9, ColorKeepsCurrent
<1>10. CASE Clear
  <2>1. entries' = <<>> /\ UNCHANGED <<stage, obj, counter, callbacks, subq>>
    BY <1>10 DEF Clear
  <2>2. \A k \in DOMAIN entries' : FALSE
    BY <2>1
  <2>3. ASSUME NEW f \in Flows, Known(f) PROVE Known(f)'
    BY <2>1, <2>2, <2>3 DEF Known
  <2> QED
    BY <2>1, <2>2, <2>3 DEF NotifiedAreKnown, PageIsCurrent, Waits
<1>11. ASSUME NEW s \in Pages, ClearByPage(s) PROVE Goal
  BY <1>10, <1>11 DEF ClearByPage
<1>12. CASE DbExecute \/ DbCommit
  BY <1>4, <1>12 DEF DbExecute, DbCommit, memVars, pageVars
<1>13. CASE UNCHANGED vars
  BY <1>4, <1>13 DEF vars, memVars, pageVars
<1>14. CASE ClearByApi
  BY <1>10, <1>14 DEF ClearByApi
<1> HIDE DEF Goal
<1> QED
  BY <1>1, <1>2, <1>3, <1>5, <1>6, <1>7, <1>8, <1>9, <1>11, <1>12, <1>13, <1>14 DEF Next

-------------------------------------------------------------------------------
(* What a crash leaves in the table *)

\* The flow whose row is executed and not committed.
Writing(f) == saving # <<>> /\ saving[1].kind = "put" /\ saving[1].row.of = f

\* What waits to be written concerns the entry that the list has under its id,
\* and nothing in the table is of a flow to come.
WrittenAreKnown ==
    /\ \A p \in DOMAIN dbq : dbq[p].kind = "put" => Known(dbq[p].of)
    /\ (saving # <<>> /\ saving[1].kind = "put") =>
          /\ Known(saving[1].row.of)
          /\ saving[1].id = obj[saving[1].row.of].id
          /\ stage[saving[1].row.of] # "idle"
    /\ \A i \in DOMAIN disk : stage[disk[i].of] # "idle"

\* Entries in the list were all queued after the last clear().
ClearedFirst ==
    \A k \in DOMAIN entries :
        /\ saving # <<>> /\ saving[1].kind = "clear" => ~OnDisk(entries[k])
        /\ \A p \in DOMAIN dbq : dbq[p].kind = "clear" =>
              /\ ~OnDisk(entries[k]) /\ ~Writing(entries[k])
              /\ \A q \in DOMAIN dbq : q < p => dbq[q] # Put(entries[k])

\* An entry is written, being written or queued behind every older one.
BehindOlder ==
    \A j, k \in DOMAIN entries : j < k =>
        /\ OnDisk(entries[k]) \/ Writing(entries[k]) => OnDisk(entries[j])
        /\ \A p \in DOMAIN dbq : dbq[p] = Put(entries[k]) =>
              \/ OnDisk(entries[j]) \/ Writing(entries[j])
              \/ \E q \in DOMAIN dbq : q < p /\ dbq[q] = Put(entries[j])

SavedInOrder == WrittenAreKnown /\ ClearedFirst /\ BehindOlder

LEMMA ListedAreStarted ==
    ASSUME TypeOK, IdsBounded, ListedIsIndexed
    PROVE  \A k \in DOMAIN entries : entries[k] \in Flows /\ stage[entries[k]] # "idle"
BY DEF TypeOK, IdsBounded, ListedIsIndexed

\* Every entry in the list is in the table, or on its way there.
LEMMA ListedAreSomewhere ==
    ASSUME TypeOK, IdsBounded, ListedIsIndexed, LatestIsSomewhere, HasDb, NEW k \in DOMAIN entries
    PROVE  OnDisk(entries[k]) \/ Writing(entries[k]) \/ \E q \in DOMAIN dbq : dbq[q] = Put(entries[k])
<1> DEFINE i == obj[entries[k]].id
<1>1. i \in DOMAIN byId /\ byId[i] = entries[k]
  BY DEF ListedIsIndexed
<1>2. CASE InQueue(i)
  <2>1. DOMAIN dbq = 1..Len(dbq)
    BY DEF TypeOK
  <2> QED
    BY <1>1, <1>2, <2>1 DEF InQueue
<1>3. CASE InSaving(i)
  BY <1>1, <1>3 DEF InSaving, Writing, UpToDate
<1>4. CASE InTable(i)
  BY <1>1, <1>4 DEF InTable, OnDisk, UpToDate
<1> QED
  BY <1>1, <1>2, <1>3, <1>4 DEF LatestIsSomewhere

\* add() and update(): the row of f is queued, behind all that is queued.
LEMMA QueueKeepsOrder ==
    ASSUME TypeOK, IdsBounded, ListedIsIndexed, LatestIsSomewhere, SavedInOrder,
           NEW f \in Flows, DbPut(f), UNCHANGED <<saving, disk>>, Known(f)',
           \A g \in Flows : stage[g] # "idle" =>
               stage'[g] # "idle" /\ obj'[g].id = obj[g].id /\ (Known(g) => Known(g)'),
           \A k \in DOMAIN entries : k \in DOMAIN entries' /\ entries'[k] = entries[k],
           \A k \in DOMAIN entries' : k \in DOMAIN entries \/
               (entries'[k] = f /\ stage[f] = "idle" /\ \A j \in DOMAIN entries' : ~(k < j))
    PROVE  SavedInOrder'
<1>1. /\ \A p \in DOMAIN dbq : dbq[p].kind = "put" => dbq[p].of \in Flows /\ stage[dbq[p].of] # "idle"
      /\ (saving # <<>> /\ saving[1].kind = "put") => saving[1].row.of \in Flows /\ stage[saving[1].row.of] # "idle"
      /\ \A i \in DOMAIN disk : disk[i].of \in Flows /\ stage[disk[i].of] # "idle"
  <2>1. \A p \in DOMAIN dbq : dbq[p] \in Ops
    BY DEF TypeOK
  <2>2. \A p \in DOMAIN dbq : dbq[p].kind = "put" => dbq[p].of \in Flows
    BY <2>1 DEF Ops, Clearing
  <2>3. saving # <<>> => saving[1] \in Statements
    BY DEF TypeOK
  <2>4. (saving # <<>> /\ saving[1].kind = "put") => saving[1].row.of \in Flows
    BY <2>3 DEF Statements, Clearing, Row
  <2>5. \A i \in DOMAIN disk : disk[i].of \in Flows
    BY DEF TypeOK, Row
  <2> QED
    BY <2>2, <2>4, <2>5 DEF SavedInOrder, WrittenAreKnown, IdsBounded
<1>2. /\ DOMAIN dbq = 1..Len(dbq) /\ Len(dbq) \in Nat
      /\ \/ HasDb /\ DOMAIN dbq' = 1..(Len(dbq) + 1) /\ dbq'[Len(dbq) + 1] = Put(f)
                  /\ \A p \in DOMAIN dbq : dbq'[p] = dbq[p]
         \/ dbq' = dbq
  BY DEF DbPut, TypeOK
<1>3. /\ \A p \in DOMAIN dbq : p \in DOMAIN dbq' /\ dbq'[p] = dbq[p]
      /\ \A p \in DOMAIN dbq' : \/ p \in DOMAIN dbq
                                \/ /\ HasDb /\ dbq'[p] = Put(f) /\ \A q \in DOMAIN dbq : q < p
                                   /\ \A q \in DOMAIN dbq' : ~(p < q)
  BY <1>2
<1>4. ASSUME NEW g \in Flows, stage[g] # "idle" PROVE (OnDisk(g)' <=> OnDisk(g)) /\ (Writing(g)' <=> Writing(g))
  BY <1>4 DEF OnDisk, Writing
<1>5. ASSUME stage[f] = "idle"
      PROVE  ~OnDisk(f)' /\ ~Writing(f)' /\ \A p \in DOMAIN dbq : dbq[p] # Put(f)
  BY <1>1, <1>5 DEF OnDisk, Writing, Put
<1>6. \A k \in DOMAIN entries : entries[k] \in Flows /\ stage[entries[k]] # "idle"
  BY ListedAreStarted
<1>7. WrittenAreKnown'
  <2>1. ASSUME NEW p \in DOMAIN dbq', dbq'[p].kind = "put" PROVE Known(dbq[p].of)'
    <3>1. CASE p \in DOMAIN dbq
      <4>1. PICK g \in Flows : dbq[p].of = g /\ Known(g) /\ stage[g] # "idle" /\ dbq'[p].of = g
        BY <1>1, <1>3, <2>1, <3>1 DEF SavedInOrder, WrittenAreKnown
      <4> QED
        BY <4>1 DEF Known
    <3>2. CASE p \notin DOMAIN dbq
      <4>1. dbq'[p].of = f
        BY <1>3, <3>2 DEF Put
      <4> QED
        BY <4>1 DEF Known
    <3> QED
      BY <3>1, <3>2
  <2>2. ASSUME saving' # <<>>, saving'[1].kind = "put"
        PROVE  /\ Known(saving[1].row.of)'
               /\ saving'[1].id = obj'[saving'[1].row.of].id
               /\ stage'[saving'[1].row.of] # "idle"
    <3>1. PICK g \in Flows : /\ saving[1].row.of = g /\ Known(g) /\ stage[g] # "idle"
                             /\ saving[1].id = obj[g].id
      BY <1>1, <2>2 DEF SavedInOrder, WrittenAreKnown
    <3>2. saving'[1].row.of = g /\ saving'[1].id = obj[g].id
      BY <3>1
    <3>3. Known(g)' /\ obj'[g].id = obj[g].id /\ stage'[g] # "idle"
      BY <3>1
    <3> QED
      BY <3>2, <3>3 DEF Known
  <2>3. \A i \in DOMAIN disk' : stage'[disk'[i].of] # "idle"
    BY <1>1
  <2> QED
    BY <2>1, <2>2, <2>3 DEF WrittenAreKnown
<1>8. ClearedFirst'
  <2> SUFFICES ASSUME NEW k \in DOMAIN entries'
               PROVE  /\ saving' # <<>> /\ saving'[1].kind = "clear" => ~OnDisk(entries[k])'
                      /\ \A p \in DOMAIN dbq' : dbq'[p].kind = "clear" =>
                            /\ ~OnDisk(entries[k])' /\ ~Writing(entries[k])'
                            /\ \A q \in DOMAIN dbq' : q < p => dbq'[q] # Put(entries'[k])
    BY DEF ClearedFirst, Put
  <2>1. \A p \in DOMAIN dbq' : dbq'[p].kind = "clear" => p \in DOMAIN dbq
    BY <1>3 DEF Put
  <2>2. \A p, q \in DOMAIN dbq' : p \in DOMAIN dbq /\ q < p => q \in DOMAIN dbq
    BY <1>2
  <2>3. CASE k \in DOMAIN entries
    <3>1. /\ saving # <<>> /\ saving[1].kind = "clear" => ~OnDisk(entries[k])
          /\ \A p \in DOMAIN dbq : dbq[p].kind = "clear" =>
                /\ ~OnDisk(entries[k]) /\ ~Writing(entries[k])
                /\ \A q \in DOMAIN dbq : q < p => dbq[q] # Put(entries[k])
      BY <2>3 DEF SavedInOrder, ClearedFirst
    <3>2. /\ entries'[k] = entries[k] /\ entries[k] \in Flows
          /\ OnDisk(entries[k])' <=> OnDisk(entries[k])
          /\ Writing(entries[k])' <=> Writing(entries[k])
      BY <1>4, <1>6, <2>3 DEF OnDisk, Writing
    <3> QED
      BY <1>3, <2>1, <2>2, <3>1, <3>2
  <2>4. CASE k \notin DOMAIN entries
    <3>1. entries'[k] = f /\ stage[f] = "idle"
      BY <2>4
    <3>2. ~OnDisk(entries[k])' /\ ~Writing(entries[k])' /\ \A p \in DOMAIN dbq : dbq[p] # Put(entries'[k])
      BY <1>5, <3>1 DEF OnDisk, Writing
    <3> QED
      BY <1>3, <2>1, <2>2, <3>2
  <2> QED
    BY <2>3, <2>4
<1>9. BehindOlder'
  <2> SUFFICES ASSUME NEW j \in DOMAIN entries', NEW k \in DOMAIN entries', j < k
               PROVE  /\ OnDisk(entries[k])' \/ Writing(entries[k])' => OnDisk(entries[j])'
                      /\ \A p \in DOMAIN dbq' : dbq'[p] = Put(entries'[k]) =>
                            \/ OnDisk(entries[j])' \/ Writing(entries[j])'
                            \/ \E q \in DOMAIN dbq' : q < p /\ dbq'[q] = Put(entries'[j])
    BY DEF BehindOlder, Put
  <2>1. /\ j \in DOMAIN entries /\ entries'[j] = entries[j] /\ entries[j] \in Flows
        /\ OnDisk(entries[j])' <=> OnDisk(entries[j])
        /\ Writing(entries[j])' <=> Writing(entries[j])
    BY <1>4, <1>6 DEF OnDisk, Writing
  <2>2. ASSUME NEW p \in DOMAIN dbq', p \notin DOMAIN dbq
        PROVE  \/ OnDisk(entries[j])' \/ Writing(entries[j])'
               \/ \E q \in DOMAIN dbq' : q < p /\ dbq'[q] = Put(entries'[j])
    <3>1. HasDb /\ \A q \in DOMAIN dbq : q < p
      BY <1>3, <2>2
    <3> QED
      BY <1>3, <2>1, <3>1, ListedAreSomewhere
  <2>3. CASE k \in DOMAIN entries
    <3>1. /\ OnDisk(entries[k]) \/ Writing(entries[k]) => OnDisk(entries[j])
          /\ \A p \in DOMAIN dbq : dbq[p] = Put(entries[k]) =>
                \/ OnDisk(entries[j]) \/ Writing(entries[j])
                \/ \E q \in DOMAIN dbq : q < p /\ dbq[q] = Put(entries[j])
      BY <2>1, <2>3 DEF SavedInOrder, BehindOlder
    <3>2. /\ entries'[k] = entries[k] /\ entries[k] \in Flows
          /\ OnDisk(entries[k])' <=> OnDisk(entries[k])
          /\ Writing(entries[k])' <=> Writing(entries[k])
      BY <1>4, <1>6, <2>3 DEF OnDisk, Writing
    <3> QED
      BY <1>3, <2>1, <2>2, <3>1, <3>2
  <2>4. CASE k \notin DOMAIN entries
    <3>1. entries'[k] = f /\ stage[f] = "idle"
      BY <2>4
    <3>2. ~OnDisk(entries[k])' /\ ~Writing(entries[k])' /\ \A p \in DOMAIN dbq : dbq[p] # Put(entries'[k])
      BY <1>5, <3>1 DEF OnDisk, Writing
    <3> QED
      BY <1>3, <2>2, <3>2
  <2> QED
    BY <2>3, <2>4
<1> QED
  BY <1>7, <1>8, <1>9 DEF SavedInOrder

LEMMA ExecuteKeepsOrder ==
    ASSUME TypeOK, IdsBounded, SavedInOrder, DbExecute
    PROVE  SavedInOrder'
<1> DEFINE op == dbq[1]
<1>1. /\ saving = <<>> /\ UNCHANGED <<stage, obj, entries, counter, disk>>
      /\ Len(dbq) \in Nat \ {0} /\ DOMAIN dbq = 1..Len(dbq) /\ DOMAIN dbq' = 1..(Len(dbq) - 1)
      /\ \A p \in DOMAIN dbq' : p + 1 \in DOMAIN dbq /\ dbq'[p] = dbq[p + 1]
      /\ 1 \in DOMAIN dbq
  BY DEF DbExecute, TypeOK, memVars
<1>2. op \in Ops
  BY <1>1 DEF TypeOK
<1>3. saving' = << IF op.kind = "put" THEN [kind |-> "put", id |-> obj[op.of].id, row |-> RowOf(op.of)] ELSE op >>
  BY DEF DbExecute
<1> HIDE DEF op
<1>4. /\ saving' # <<>> /\ saving'[1].kind = op.kind
      /\ op.kind = "put" => /\ saving'[1].id = obj[op.of].id /\ saving'[1].row.of = op.of
                            /\ Known(op.of) /\ stage[op.of] # "idle"
  <2>1. op.kind = "put" => Known(op.of) /\ stage[op.of] # "idle"
    BY <1>1 DEF op, SavedInOrder, WrittenAreKnown, IdsBounded
  <2> QED
    BY <1>3, <2>1 DEF RowOf
<1>5. ASSUME NEW f \in Flows
      PROVE  /\ OnDisk(f)' <=> OnDisk(f)
             /\ ~Writing(f)
             /\ Writing(f)' <=> op = Put(f)
  <2>1. op = Put(f) <=> op.kind = "put" /\ op.of = f
    BY <1>2 DEF Ops, Put, Clearing
  <2> QED
    BY <1>1, <1>4, <2>1 DEF OnDisk, Writing
<1>6. \A k \in DOMAIN entries : entries[k] \in Flows
  BY DEF TypeOK
<1>7. WrittenAreKnown'
  <2>1. ASSUME NEW p \in DOMAIN dbq', dbq'[p].kind = "put" PROVE Known(dbq[p].of)'
    <3>1. Known(dbq[p + 1].of) /\ dbq'[p].of = dbq[p + 1].of
      BY <1>1, <2>1 DEF SavedInOrder, WrittenAreKnown
    <3> QED
      BY <1>1, <3>1 DEF Known
  <2>2. ASSUME saving'[1].kind = "put" PROVE Known(saving[1].row.of)'
    BY <1>1, <1>4, <2>2 DEF Known
  <2>3. saving'[1].kind = "put" => saving'[1].id = obj'[saving'[1].row.of].id /\ stage'[saving'[1].row.of] # "idle"
    BY <1>1, <1>4
  <2>4. \A i \in DOMAIN disk' : stage'[disk'[i].of] # "idle"
    BY <1>1 DEF SavedInOrder, WrittenAreKnown
  <2> QED
    BY <2>1, <2>2, <2>3, <2>4 DEF WrittenAreKnown
<1>8. ClearedFirst'
  <2> SUFFICES ASSUME NEW k \in DOMAIN entries
               PROVE  /\ saving' # <<>> /\ saving'[1].kind = "clear" => ~OnDisk(entries[k])'
                      /\ \A p \in DOMAIN dbq' : dbq'[p].kind = "clear" =>
                            /\ ~OnDisk(entries[k])' /\ ~Writing(entries[k])'
                            /\ \A q \in DOMAIN dbq' : q < p => dbq'[q] # Put(entries[k])
    BY <1>1 DEF ClearedFirst, Put
  <2>1. \A p \in DOMAIN dbq : dbq[p].kind = "clear" =>
            /\ ~OnDisk(entries[k])
            /\ \A q \in DOMAIN dbq : q < p => dbq[q] # Put(entries[k])
    BY DEF SavedInOrder, ClearedFirst
  <2>2. /\ OnDisk(entries[k])' <=> OnDisk(entries[k])
        /\ Writing(entries[k])' <=> op = Put(entries[k])
    BY <1>1, <1>5, <1>6 DEF OnDisk, Writing
  <2>3. saving'[1].kind = "clear" => ~OnDisk(entries[k])'
    BY <1>1, <1>4, <2>1, <2>2 DEF op
  <2>4. ASSUME NEW p \in DOMAIN dbq', dbq'[p].kind = "clear"
        PROVE  /\ ~OnDisk(entries[k])' /\ ~Writing(entries[k])'
               /\ \A q \in DOMAIN dbq' : q < p => dbq'[q] # Put(entries[k])
    <3>1. p + 1 \in DOMAIN dbq /\ dbq[p + 1].kind = "clear" /\ 1 < p + 1
      BY <1>1, <2>4
    <3>2. ~OnDisk(entries[k]) /\ \A q \in DOMAIN dbq : q < p + 1 => dbq[q] # Put(entries[k])
      BY <2>1, <3>1
    <3>3. op # Put(entries[k])
      BY <1>1, <3>1, <3>2 DEF op
    <3>4. ASSUME NEW q \in DOMAIN dbq', q < p PROVE dbq'[q] # Put(entries[k])
      <4>1. q + 1 \in DOMAIN dbq /\ q + 1 < p + 1 /\ dbq'[q] = dbq[q + 1]
        BY <1>1, <3>4
      <4> QED
        BY <3>2, <4>1
    <3> QED
      BY <2>2, <3>2, <3>3, <3>4
  <2> QED
    BY <2>3, <2>4
<1>9. BehindOlder'
  <2> SUFFICES ASSUME NEW j \in DOMAIN entries, NEW k \in DOMAIN entries, j < k
               PROVE  /\ OnDisk(entries[k])' \/ Writing(entries[k])' => OnDisk(entries[j])'
                      /\ \A p \in DOMAIN dbq' : dbq'[p] = Put(entries[k]) =>
                            \/ OnDisk(entries[j])' \/ Writing(entries[j])'
                            \/ \E q \in DOMAIN dbq' : q < p /\ dbq'[q] = Put(entries[j])
    BY <1>1 DEF BehindOlder, Put
  <2>1. /\ OnDisk(entries[k]) => OnDisk(entries[j])
        /\ \A p \in DOMAIN dbq : dbq[p] = Put(entries[k]) =>
              OnDisk(entries[j]) \/ \E q \in DOMAIN dbq : q < p /\ dbq[q] = Put(entries[j])
    BY <1>5, <1>6 DEF SavedInOrder, BehindOlder
  <2>2. /\ OnDisk(entries[k])' <=> OnDisk(entries[k])
        /\ Writing(entries[k])' <=> op = Put(entries[k])
        /\ OnDisk(entries[j])' <=> OnDisk(entries[j])
        /\ Writing(entries[j])' <=> op = Put(entries[j])
    BY <1>1, <1>5, <1>6 DEF OnDisk, Writing
  <2>3. op = Put(entries[k]) => OnDisk(entries[j])
    BY <1>1, <2>1 DEF op
  <2>4. ASSUME NEW p \in DOMAIN dbq', dbq'[p] = Put(entries[k])
        PROVE  \/ OnDisk(entries[j])' \/ Writing(entries[j])'
               \/ \E q \in DOMAIN dbq' : q < p /\ dbq'[q] = Put(entries[j])
    <3>1. p + 1 \in DOMAIN dbq /\ dbq[p + 1] = Put(entries[k])
      BY <1>1, <2>4
    <3>2. CASE OnDisk(entries[j])
      BY <2>2, <3>2
    <3>3. CASE ~OnDisk(entries[j])
      <4>1. PICK q \in DOMAIN dbq : q < p + 1 /\ dbq[q] = Put(entries[j])
        BY <2>1, <3>1, <3>3
      <4>2. CASE q = 1
        BY <2>2, <4>1, <4>2 DEF op
      <4>3. CASE q # 1
        <5>1. q - 1 \in DOMAIN dbq' /\ q - 1 < p /\ (q - 1) + 1 = q
          BY <1>1, <4>1, <4>3
        <5>2. dbq'[q - 1] = dbq[q]
          BY <1>1, <5>1
        <5> QED
          BY <4>1, <5>1, <5>2
      <4> QED
        BY <4>2, <4>3
    <3> QED
      BY <3>2, <3>3
  <2> QED
    BY <2>1, <2>2, <2>3, <2>4
<1> QED
  BY <1>7, <1>8, <1>9 DEF SavedInOrder

LEMMA CommitKeepsOrder ==
    ASSUME TypeOK, IdsBounded, SavedInOrder, DbCommit
    PROVE  SavedInOrder'
<1> DEFINE w == saving[1]
<1>1. /\ saving # <<>> /\ saving' = <<>> /\ UNCHANGED <<stage, obj, entries, counter, dbq>>
      /\ disk' = IF w.kind = "put" THEN With(disk, w.id, w.row) ELSE Empty
  BY DEF DbCommit, memVars
<1>2. w.kind \in {"put", "clear"}
  <2>1. w \in Statements
    BY <1>1 DEF TypeOK
  <2> QED
    BY <2>1 DEF Statements, Clearing
<1>3. w.kind = "put" => Known(w.row.of) /\ w.id = obj[w.row.of].id /\ stage[w.row.of] # "idle"
  BY <1>1 DEF SavedInOrder, WrittenAreKnown
<1>4. \A k \in DOMAIN entries : w.kind = "clear" => ~OnDisk(entries[k])
  BY <1>1 DEF SavedInOrder, ClearedFirst
<1>5. \A f \in Flows : Writing(f) <=> w.kind = "put" /\ w.row.of = f
  BY <1>1 DEF Writing
<1> HIDE DEF w
<1>6. ASSUME NEW k \in DOMAIN entries
      PROVE  /\ OnDisk(entries[k])' <=> OnDisk(entries[k]) \/ Writing(entries[k])
             /\ ~Writing(entries[k])'
  <2> DEFINE f == entries[k]
  <2>0. f \in Flows /\ entries'[k] = f
    BY <1>1 DEF TypeOK
  <2>1. CASE w.kind = "clear"
    <3>1. DOMAIN disk' = {}
      BY <1>1, <2>1 DEF Empty
    <3> QED
      BY <1>1, <1>4, <1>5, <2>0, <2>1, <3>1 DEF OnDisk, Writing
  <2>2. CASE w.kind = "put" /\ obj[f].id = w.id
    <3>1. w.row.of = f
      BY <1>3, <2>2 DEF Known
    <3>2. obj[f].id \in DOMAIN disk' /\ disk'[obj[f].id] = w.row
      BY <1>1, <2>2 DEF With
    <3>3. OnDisk(f)'
      BY <1>1, <2>0, <3>1, <3>2 DEF OnDisk
    <3> QED
      BY <1>1, <1>5, <2>0, <2>2, <3>1, <3>3 DEF Writing, OnDisk
  <2>3. CASE w.kind = "put" /\ obj[f].id # w.id
    <3>1. w.row.of # f
      BY <1>3, <2>3
    <3>2. /\ obj[f].id \in DOMAIN disk' <=> obj[f].id \in DOMAIN disk
          /\ obj[f].id \in DOMAIN disk => disk'[obj[f].id] = disk[obj[f].id]
      BY <1>1, <2>3 DEF With
    <3> QED
      BY <1>1, <1>5, <2>0, <3>1, <3>2 DEF OnDisk, Writing
  <2> QED
    BY <1>2, <2>1, <2>2, <2>3
<1>7. WrittenAreKnown'
  <2>1. ASSUME NEW p \in DOMAIN dbq', dbq'[p].kind = "put" PROVE Known(dbq[p].of)'
    <3>1. Known(dbq[p].of)
      BY <1>1, <2>1 DEF SavedInOrder, WrittenAreKnown
    <3> QED
      BY <1>1, <3>1 DEF Known
  <2>2. ASSUME NEW i \in DOMAIN disk' PROVE stage'[disk'[i].of] # "idle"
    <3>1. w.kind = "put" /\ (disk'[i] = w.row \/ (i \in DOMAIN disk /\ disk'[i] = disk[i]))
      BY <1>1, <2>2 DEF With, Empty
    <3> QED
      BY <1>1, <1>3, <3>1 DEF SavedInOrder, WrittenAreKnown
  <2> QED
    BY <1>1, <2>1, <2>2 DEF WrittenAreKnown
<1>8. ClearedFirst'
  BY <1>1, <1>6 DEF SavedInOrder, ClearedFirst, Put
<1>9. BehindOlder'
  BY <1>1, <1>6 DEF SavedInOrder, BehindOlder, Put
<1> QED
  BY <1>7, <1>8, <1>9 DEF SavedInOrder

\* Steps that leave the list, the coroutines and the table alone.
LEMMA RestKeepsOrder ==
    ASSUME TypeOK, SavedInOrder, UNCHANGED <<entries, counter, dbq, saving, disk>>,
           \A g \in Flows : obj'[g].id = obj[g].id /\ (stage[g] # "idle" => stage'[g] # "idle")
    PROVE  SavedInOrder'
<1>0. /\ \A k \in DOMAIN entries : entries[k] \in Flows
      /\ \A p \in DOMAIN dbq : dbq[p].kind = "put" => dbq[p].of \in Flows
  BY DEF TypeOK, Ops, Clearing
<1>1. /\ (saving # <<>> /\ saving[1].kind = "put") => saving[1].row.of \in Flows
      /\ \A i \in DOMAIN disk : disk[i].of \in Flows
  <2>1. saving # <<>> => saving[1] \in Statements
    BY DEF TypeOK
  <2>2. (saving # <<>> /\ saving[1].kind = "put") => saving[1].row.of \in Flows
    BY <2>1 DEF Statements, Clearing, Row
  <2> QED
    BY <2>2 DEF TypeOK, Row
<1>2. WrittenAreKnown'
  <2>1. \A p \in DOMAIN dbq : dbq[p].kind = "put" => Known(dbq[p].of)
    BY DEF SavedInOrder, WrittenAreKnown
  <2>2. ASSUME NEW p \in DOMAIN dbq', dbq'[p].kind = "put" PROVE Known(dbq[p].of)'
    BY <1>0, <2>1, <2>2 DEF Known
  <2>3. ASSUME saving # <<>>, saving[1].kind = "put"
        PROVE  Known(saving[1].row.of)' /\ saving[1].id = obj'[saving[1].row.of].id /\ stage'[saving[1].row.of] # "idle"
    BY <1>0, <1>1, <2>3 DEF SavedInOrder, WrittenAreKnown, Known
  <2>4. \A i \in DOMAIN disk : stage'[disk[i].of] # "idle"
    BY <1>1 DEF SavedInOrder, WrittenAreKnown
  <2> QED
    BY <2>2, <2>3, <2>4 DEF WrittenAreKnown
<1>3. ClearedFirst'
  BY <1>0 DEF SavedInOrder, ClearedFirst, OnDisk, Writing, Put
<1>4. BehindOlder'
  BY <1>0 DEF SavedInOrder, BehindOlder, OnDisk, Writing, Put
<1> QED
  BY <1>2, <1>3, <1>4 DEF SavedInOrder

LEMMA EmptyListInOrder ==
    ASSUME TypeOK, SavedInOrder, entries' = <<>>, UNCHANGED disk,
           \/ Clear
           \/ dbq' = <<>> /\ saving' = <<>> /\ \A g \in Flows : stage[g] # "idle" => stage'[g] # "idle"
    PROVE  SavedInOrder'
<1>1. \A k \in DOMAIN entries' : FALSE
  OBVIOUS
<1>2. ClearedFirst' /\ BehindOlder'
  BY <1>1 DEF ClearedFirst, BehindOlder
<1>3. CASE Clear
  <2>1. UNCHANGED <<stage, obj, counter, saving, disk>>
    BY <1>3 DEF Clear
  <2>2. \A p \in DOMAIN dbq' : dbq'[p].kind = "put" => p \in DOMAIN dbq /\ dbq'[p] = dbq[p]
    <3>1. dbq \in Seq(Ops) /\ (dbq' = dbq \/ dbq' = Append(dbq, Clearing))
      BY <1>3 DEF Clear, TypeOK
    <3>2. CASE dbq' = Append(dbq, Clearing)
      <4>1. \A p \in DOMAIN dbq' : p \in DOMAIN dbq \/ dbq'[p] = Clearing
        BY <3>1, <3>2
      <4>2. \A p \in DOMAIN dbq : dbq'[p] = dbq[p]
        BY <3>1, <3>2
      <4> QED
        BY <4>1, <4>2 DEF Clearing
    <3> QED
      BY <3>1, <3>2
  <2>3. ASSUME NEW p \in DOMAIN dbq', dbq'[p].kind = "put" PROVE Known(dbq[p].of)'
    <3>1. dbq'[p] = dbq[p] /\ Known(dbq[p].of)
      BY <2>2, <2>3 DEF SavedInOrder, WrittenAreKnown
    <3> QED
      BY <1>1, <2>1, <3>1 DEF Known
  <2>4. ASSUME saving # <<>>, saving[1].kind = "put" PROVE Known(saving[1].row.of)'
    <3>1. Known(saving[1].row.of)
      BY <2>4 DEF SavedInOrder, WrittenAreKnown
    <3> QED
      BY <1>1, <2>1, <3>1 DEF Known
  <2>5. /\ (saving # <<>> /\ saving[1].kind = "put") =>
              saving[1].id = obj[saving[1].row.of].id /\ stage[saving[1].row.of] # "idle"
        /\ \A i \in DOMAIN disk : stage[disk[i].of] # "idle"
    BY DEF SavedInOrder, WrittenAreKnown
  <2>6. WrittenAreKnown'
    BY <2>1, <2>3, <2>4, <2>5 DEF WrittenAreKnown
  <2> QED
    BY <1>2, <2>6 DEF SavedInOrder
<1>4. CASE dbq' = <<>> /\ saving' = <<>> /\ \A g \in Flows : stage[g] # "idle" => stage'[g] # "idle"
  <2>1. \A p \in DOMAIN dbq' : FALSE
    BY <1>4
  <2>2. \A i \in DOMAIN disk : disk[i].of \in Flows /\ stage[disk[i].of] # "idle"
    BY DEF TypeOK, Row, SavedInOrder, WrittenAreKnown
  <2>3. WrittenAreKnown'
    BY <1>4, <2>1, <2>2 DEF WrittenAreKnown
  <2> QED
    BY <1>2, <2>3 DEF SavedInOrder
<1> QED
  BY <1>3, <1>4

\* Both callers of update() concern a flow that is known.
LEMMA UpdateKeepsOrder ==
    ASSUME TypeOK, IdsBounded, ListedIsIndexed, LatestIsSomewhere, SavedInOrder,
           NEW f \in Flows, Known(f), Update(f), UNCHANGED <<counter, saving, disk>>,
           \A g \in Flows : obj'[g].id = obj[g].id /\ (stage[g] # "idle" => stage'[g] # "idle")
    PROVE  SavedInOrder'
<1>1. entries' = [k \in DOMAIN entries |-> IF obj[entries[k]].id = obj[f].id THEN f ELSE entries[k]]
  BY DEF Update
<1>2. \A k \in DOMAIN entries : obj[entries[k]].id = obj[f].id => entries[k] = f
  BY DEF Known
<1>3. DOMAIN entries' = DOMAIN entries /\ \A k \in DOMAIN entries : entries'[k] = entries[k] /\ entries[k] \in Flows
  BY <1>1, <1>2, ListedAreStarted
<1>4. ASSUME NEW g \in Flows, Known(g) PROVE Known(g)'
  BY <1>3, <1>4 DEF Known
<1> QED
  BY <1>3, <1>4, QueueKeepsOrder DEF Update

LEMMA AddKeepsOrder ==
    ASSUME TypeOK, IdsBounded, ListedIsIndexed, LatestIsSomewhere, SavedInOrder,
           NEW f \in Flows, Add(f)
    PROVE  SavedInOrder'
<1>1. /\ counter' = counter + 1 /\ counter \in Nat /\ obj'[f].id = counter'
      /\ stage[f] = "idle" /\ DbPut(f) /\ UNCHANGED <<saving, disk>>
      /\ \A g \in Flows : g # f => obj'[g] = obj[g] /\ stage'[g] = stage[g]
  BY DEF Add, TypeOK
<1>2. /\ Len(entries) \in Nat /\ DOMAIN entries = 1..Len(entries)
      /\ DOMAIN entries' = 1..(Len(entries) + 1)
      /\ entries'[Len(entries) + 1] = f
      /\ \A k \in DOMAIN entries : entries'[k] = entries[k]
  BY DEF Add, TypeOK
<1>3. \A k \in DOMAIN entries : entries[k] \in Flows /\ entries[k] # f /\ obj[entries[k]].id \in 1..counter
  BY <1>1, ListedAreStarted DEF IdsBounded
<1>4. \A k \in DOMAIN entries : k \in DOMAIN entries' /\ entries'[k] = entries[k]
  BY <1>2
<1>5. \A k \in DOMAIN entries' : k \in DOMAIN entries \/
         (entries'[k] = f /\ stage[f] = "idle" /\ \A j \in DOMAIN entries' : ~(k < j))
  BY <1>1, <1>2
<1>6. Known(f)'
  <2>1. ASSUME NEW k \in DOMAIN entries', obj'[entries'[k]].id = obj'[f].id PROVE entries'[k] = f
    BY <1>1, <1>3, <1>4, <1>5, <2>1
  <2> QED
    BY <1>1, <2>1 DEF Known
<1>7. ASSUME NEW g \in Flows, stage[g] # "idle"
      PROVE  stage'[g] # "idle" /\ obj'[g].id = obj[g].id /\ (Known(g) => Known(g)')
  <2>1. g # f /\ stage'[g] # "idle" /\ obj'[g].id = obj[g].id /\ obj[g].id \in Nat
    BY <1>1, <1>7 DEF TypeOK
  <2>2. ASSUME Known(g) PROVE Known(g)'
    <3>1. obj'[g].id <= counter /\ obj'[g].id <= counter' /\ obj'[g].id # obj'[f].id
      BY <1>1, <2>1, <2>2 DEF Known
    <3>2. ASSUME NEW k \in DOMAIN entries', obj'[entries'[k]].id = obj'[g].id PROVE entries'[k] = g
      <4>1. k \in DOMAIN entries /\ entries'[k] = entries[k] /\ obj[entries[k]].id = obj[g].id
        BY <1>1, <1>3, <1>4, <1>5, <2>1, <3>1, <3>2
      <4> QED
        BY <2>2, <4>1 DEF Known
    <3> QED
      BY <3>1, <3>2 DEF Known
  <2> QED
    BY <2>1, <2>2
<1> QED
  BY <1>1, <1>4, <1>5, <1>6, <1>7, QueueKeepsOrder

LEMMA StepKeepsOrder == IInv /\ IInv' /\ NotifiedAreKnown /\ SavedInOrder /\ [Next]_vars => SavedInOrder'
<1> SUFFICES ASSUME IInv, IInv', NotifiedAreKnown, SavedInOrder, [Next]_vars PROVE SavedInOrder'
  OBVIOUS
<1>0. TypeOK /\ TypeOK' /\ IdsBounded /\ ListedIsIndexed /\ LatestIsSomewhere
  BY DEF IInv
<1>1. ASSUME NEW f \in Flows, Add(f) PROVE SavedInOrder'
  BY <1>0, <1>1, AddKeepsOrder
<1>2. ASSUME NEW f \in Flows, Respond(f) PROVE SavedInOrder'
  <2>1. /\ \A g \in Flows : obj'[g].id = obj[g].id /\ (stage[g] # "idle" => stage'[g] # "idle")
        /\ Update(f) /\ UNCHANGED <<counter, saving, disk>>
    BY <1>0, <1>2 DEF Respond, TypeOK
  <2>2. Known(f)
    BY <1>2 DEF Respond, NotifiedAreKnown
  <2> QED
    BY <1>0, <2>1, <2>2, UpdateKeepsOrder
<1>3. ASSUME UNCHANGED <<entries, counter, dbq, saving, disk>>,
             \A g \in Flows : obj'[g].id = obj[g].id /\ (stage[g] # "idle" => stage'[g] # "idle")
      PROVE  SavedInOrder'
  BY <1>0, <1>3, RestKeepsOrder
<1>4. ASSUME NEW f \in Flows, PassUnrecorded(f) \/ RespondRaises(f) \/ Fail(f) PROVE SavedInOrder'
  <2>1. UNCHANGED <<entries, counter, dbq, saving, disk>>
    BY <1>4 DEF PassUnrecorded, RespondRaises, Fail, dbVars
  <2>2. \A g \in Flows : obj'[g].id = obj[g].id /\ (stage[g] # "idle" => stage'[g] # "idle")
    <3>1. \A g \in Flows : obj'[g].id = obj[g].id
      BY <1>0, <1>4, UntoldStep DEF Kept
    <3>2. \A g \in Flows : stage[g] # "idle" => stage'[g] # "idle"
      BY <1>0, <1>4 DEF PassUnrecorded, RespondRaises, Fail, TypeOK
    <3> QED
      BY <3>1, <3>2
  <2> QED
    BY <1>3, <2>1, <2>2
<1>5. CASE DbExecute \/ DbCommit
  BY <1>0, <1>5, ExecuteKeepsOrder, CommitKeepsOrder
<1>6. CASE Restart
  <2>1. /\ entries' = <<>> /\ dbq' = <<>> /\ saving' = <<>> /\ UNCHANGED disk
        /\ \A g \in Flows : stage[g] # "idle" => stage'[g] # "idle"
    BY <1>6, NothingLoaded DEF Restart
  <2> QED
    BY <1>0, <2>1, EmptyListInOrder
<1>7. ASSUME NEW s \in Pages,
             OpenPage(s) \/ ClosePage(s) \/ LeaveTab(s) \/ ReturnToTab(s) \/ Deliver(s) \/ Poll(s)
      PROVE  SavedInOrder'
  <2>1. UNCHANGED <<stage, obj, entries, counter, dbq, saving, disk>>
    BY <1>7 DEF OpenPage, ClosePage, LeaveTab, ReturnToTab, Deliver, Poll, memVars, dbVars
  <2> QED
    BY <1>3, <2>1
<1>8. ASSUME NEW s \in Pages, NEW i \in DOMAIN rows[s], NEW c \in Colors, SetColor(s, i, c)
      PROVE  SavedInOrder'
  <2>1. CASE i \in DOMAIN byId
    <3> DEFINE f == byId[i]
    <3>1. /\ f \in Flows /\ obj[f].id = i /\ i <= counter
          /\ obj' = [obj EXCEPT ![f].color = c] /\ Update(f)
          /\ UNCHANGED <<stage, counter, saving, disk>>
      BY <1>0, <1>8, <2>1 DEF SetColor, TypeOK, IdsBounded
    <3>2. \A k \in DOMAIN entries : obj[entries[k]].id = i => entries[k] = f
      BY <1>0 DEF ListedIsIndexed
    <3> HIDE DEF f
    <3>3. Known(f)
      BY <3>1, <3>2 DEF Known
    <3>4. \A g \in Flows : obj'[g].id = obj[g].id
      BY <1>0, <3>1 DEF TypeOK
    <3> QED
      BY <1>0, <3>1, <3>3, <3>4, UpdateKeepsOrder
  <2>2. CASE i \notin DOMAIN byId
    <3>1. UNCHANGED <<stage, obj, entries, counter, dbq, saving, disk>>
      BY <1>8, <2>2 DEF SetColor
    <3> QED
      BY <1>3, <3>1
  <2> QED
    BY <2>1, <2>2
<1>9. CASE Clear
  <2>1. entries' = <<>> /\ UNCHANGED disk
    BY <1>9 DEF Clear
  <2> QED
    BY <1>0, <1>9, <2>1, EmptyListInOrder
<1>10. CASE ClearByApi
  BY <1>9, <1>10 DEF ClearByApi
<1>11. ASSUME NEW s \in Pages, ClearByPage(s) PROVE SavedInOrder'
  BY <1>9, <1>11 DEF ClearByPage
<1>12. CASE UNCHANGED vars
  <2>1. UNCHANGED <<stage, obj, entries, counter, dbq, saving, disk>>
    BY <1>12 DEF vars, memVars, dbVars
  <2> QED
    BY <1>3, <2>1
<1> QED
  BY <1>1, <1>2, <1>4, <1>5, <1>6, <1>7, <1>8, <1>10, <1>11, <1>12 DEF Next

-------------------------------------------------------------------------------
(* Theorems *)

\* The inductive invariant of the store, its database and its pages.
THEOREM Invariance == Spec => []IInv
BY InitIInv, StepIInv, PTL DEF Spec

\* Type correctness of the list, the index, the coroutines and the pages.
THEOREM TypeCorrect == Spec => []TypeOK
<1>1. IInv => TypeOK
  BY DEF IInv
<1> QED BY <1>1, Invariance, PTL

\* What list() returns is what get() returns, in the order of the ids, however
\* add(), update(), set_color(), clear() and a restart follow one another.
THEOREM ListAndIndexAgree == Spec => []ListedIsIndexed
<1>1. IInv => ListedIsIndexed
  BY DEF IInv
<1> QED BY <1>1, Invariance, PTL

\* When no database coroutine is left, the table holds the latest state of
\* every entry of the index, for any number of flows and any interleaving.
THEOREM TableCatchesUp == Spec => []DiskCatchesUp
<1>1. IInv => DiskCatchesUp
  <2> SUFFICES ASSUME IInv, HasDb, dbq = <<>>, saving = <<>>, NEW i \in DOMAIN byId
               PROVE  i \in DOMAIN disk /\ UpToDate(disk[i], byId[i])
    BY DEF DiskCatchesUp
  <2>1. InQueue(i) \/ InSaving(i) \/ InTable(i)
    BY DEF IInv, LatestIsSomewhere
  <2>2. ~InQueue(i)
    BY DEF InQueue
  <2>3. ~InSaving(i)
    BY DEF InSaving
  <2> QED BY <2>1, <2>2, <2>3 DEF InTable
<1> QED BY <1>1, Invariance, PTL

\* What pages are told of, and what they show, hold together.
THEOREM NothingUnknown == Spec => [](NotifiedAreKnown /\ PageIsCurrent)
<1>1. Init => NotifiedAreKnown /\ PageIsCurrent
  <2> SUFFICES ASSUME Init PROVE NotifiedAreKnown /\ PageIsCurrent
    OBVIOUS
  <2>1. ASSUME NEW s \in Pages, NEW f \in Flows PROVE ~Waits(callbacks[s], f) /\ ~Waits(subq[s], f)
    <3>1. callbacks[s] = <<>> /\ subq[s] = <<>>
      BY DEF Init
    <3>2. ~Waits(<<>>, f)
      BY DEF Waits
    <3> QED
      BY <3>1, <3>2
  <2>2. \A f \in Flows : stage[f] \notin {"open", "bare"}
    BY DEF Init
  <2>3. subs = {}
    BY DEF Init
  <2> QED
    BY <2>1, <2>2, <2>3 DEF NotifiedAreKnown, PageIsCurrent
<1> QED
  BY <1>1, Invariance, StepKeepsCurrent, PTL DEF Spec

\* A page that is shown is behind for an entry of the list only while a
\* notification is on its way, or when one was lost: in however many pages,
\* whatever the order of responses, colours, clears, polls and tab switches.
THEOREM PageShowsWhatItWasTold == Spec => []PageIsCurrent
BY NothingUnknown, PTL

\* Killed at any moment, the program loses the newest entries only: what a
\* crash finds in the table of the entries listed is an unbroken run of the
\* oldest, however adds, answers, colours and clears were interleaved with
\* the coroutines.
THEOREM CrashKeepsTheOldest == Spec => []OldestSavedFirst
<1>1. Init => SavedInOrder
  <2> SUFFICES ASSUME Init PROVE SavedInOrder
    OBVIOUS
  <2>1. saving = <<>> /\ entries = <<>> /\ dbq = <<>> /\ DOMAIN disk = {}
    BY DEF Init, Empty
  <2>2. /\ \A k \in DOMAIN entries : FALSE
        /\ \A p \in DOMAIN dbq : FALSE
        /\ \A i \in DOMAIN disk : FALSE
    BY <2>1
  <2> QED
    BY <2>1, <2>2 DEF SavedInOrder, WrittenAreKnown, ClearedFirst, BehindOlder
<1>2. SavedInOrder => OldestSavedFirst
  BY DEF SavedInOrder, BehindOlder, OldestSavedFirst
<1> QED
  BY <1>1, <1>2, Invariance, NothingUnknown, StepKeepsOrder, PTL DEF Spec

-------------------------------------------------------------------------------
(* The terminal interface (Terminal, Search): types *)

\* Type correctness of the store, its index and the screen.
TerminalTypeOK ==
    /\ TypeOK
    /\ postings \subseteq Nat \X AllTerms
    /\ list \in Seq(Flows)
    /\ subs \subseteq {screen}

\* The ids that an import gives, and the entry each belongs to.
LEMMA ImportIds ==
    ASSUME TypeOK, NEW puts \in Seq(Flows)
    PROVE  \A f \in {puts[k] : k \in DOMAIN puts} :
             \E k \in 1..Len(puts) : /\ (CHOOSE j \in DOMAIN puts : puts[j] = f) = k
                                     /\ puts[k] = f /\ counter + k \in Nat
<1> SUFFICES ASSUME NEW f \in {puts[k] : k \in DOMAIN puts}
             PROVE  \E k \in 1..Len(puts) : /\ (CHOOSE j \in DOMAIN puts : puts[j] = f) = k
                                            /\ puts[k] = f /\ counter + k \in Nat
  OBVIOUS
<1> DEFINE k == CHOOSE j \in DOMAIN puts : puts[j] = f
<1>1. k \in DOMAIN puts /\ puts[k] = f
  OBVIOUS
<1>2. counter \in Nat /\ DOMAIN puts = 1..Len(puts)
  BY DEF TypeOK
<1> HIDE DEF k
<1>3. k \in 1..Len(puts) /\ counter + k \in Nat
  BY <1>1, <1>2
<1> QED BY <1>1, <1>3 DEF k

LEMMA AddAllType ==
    ASSUME TypeOK, NEW puts \in Seq(Flows), AddAll(puts)
    PROVE  TypeOK'
<1> DEFINE new == {puts[k] : k \in DOMAIN puts}
           at(f) == CHOOSE k \in DOMAIN puts : puts[k] = f
           ids == {counter + at(f) : f \in new}
<1>1. /\ Len(puts) \in Nat /\ DOMAIN puts = 1..Len(puts) /\ \A k \in 1..Len(puts) : puts[k] \in Flows
      /\ counter \in Nat /\ new \subseteq Flows
  BY DEF TypeOK
<1>2. \A f \in new : at(f) \in 1..Len(puts) /\ counter + at(f) \in Nat
  <2> SUFFICES ASSUME NEW f \in new PROVE at(f) \in 1..Len(puts) /\ counter + at(f) \in Nat
    OBVIOUS
  <2>1. PICK k \in 1..Len(puts) : at(f) = k /\ counter + k \in Nat
    BY ImportIds
  <2> HIDE DEF at
  <2> QED BY <2>1
<1>3. stage' \in [Flows -> {"idle", "open", "bare", "done"}] /\ counter' \in Nat
  <2>1. stage' = [f \in Flows |-> IF f \in new THEN "done" ELSE stage[f]] /\ counter' = counter + Len(puts)
    BY DEF AddAll
  <2>2. stage \in [Flows -> {"idle", "open", "bare", "done"}]
    BY DEF TypeOK
  <2> HIDE DEF new
  <2> QED BY <1>1, <2>1, <2>2
<1>4. obj' \in [Flows -> [id : Nat, resp : BOOLEAN, color : Colors]]
  <2>1. obj' = [f \in Flows |-> IF f \in new THEN [obj[f] EXCEPT !.id = counter + at(f), !.resp = TRUE] ELSE obj[f]]
    BY DEF AddAll
  <2> HIDE DEF new, at
  <2>2. obj \in [Flows -> [id : Nat, resp : BOOLEAN, color : Colors]]
    BY DEF TypeOK
  <2>3. \A f \in new : [obj[f] EXCEPT !.id = counter + at(f), !.resp = TRUE] \in [id : Nat, resp : BOOLEAN, color : Colors]
    BY <1>1, <1>2, <2>2
  <2> QED BY <2>1, <2>2, <2>3
<1>5. entries' \in Seq(Flows)
  <2>1. entries \in Seq(Flows) /\ entries' = entries \o puts
    BY DEF AddAll, TypeOK
  <2> QED BY <2>1
<1>6. DOMAIN byId' \subseteq Nat /\ byId' \in [DOMAIN byId' -> Flows]
  <2>1. byId' = [i \in DOMAIN byId \cup ids |-> IF i \in ids THEN puts[i - counter] ELSE byId[i]]
    BY DEF AddAll
  <2>2. \A i \in ids : i \in Nat /\ puts[i - counter] \in Flows
    <3> SUFFICES ASSUME NEW f \in new PROVE counter + at(f) \in Nat /\ puts[(counter + at(f)) - counter] \in Flows
      OBVIOUS
    <3> HIDE DEF new, at
    <3>1. (counter + at(f)) - counter = at(f)
      BY <1>1, <1>2
    <3> QED BY <1>1, <1>2, <3>1
  <2>3. DOMAIN byId \subseteq Nat /\ byId \in [DOMAIN byId -> Flows]
    BY DEF TypeOK
  <2> HIDE DEF ids
  <2> QED BY <2>1, <2>2, <2>3
<1>7. callbacks' \in [Pages -> Seq(Flows)]
  <2>1. callbacks \in [Pages -> Seq(Flows)]
    BY DEF TypeOK
  <2>2. \A s \in Pages : callbacks[s] \o puts \in Seq(Flows)
    BY <2>1
  <2> QED BY <2>1, <2>2 DEF AddAll
<1>8. dbq' \in Seq(Ops)
  <2>1. dbq \in Seq(Ops) /\ \A k \in 1..Len(puts) : Put(puts[k]) \in Ops
    BY <1>1 DEF TypeOK, Put, Ops
  <2>2. [k \in DOMAIN puts |-> Put(puts[k])] \in Seq(Ops)
    BY <1>1, <2>1
  <2>3. dbq \o [k \in DOMAIN puts |-> Put(puts[k])] \in Seq(Ops)
    BY <2>1, <2>2
  <2> QED BY <2>1, <2>3 DEF AddAll
<1>9. UNCHANGED <<half, session, saving, disk, subs, away, subq, rows, lost>>
  BY DEF AddAll
<1> QED BY <1>3, <1>4, <1>5, <1>6, <1>7, <1>8, <1>9 DEF TypeOK

\* What an import adds.
LEMMA ImportAdds ==
    ASSUME NEW items \in Files, Import(items)
    PROVE  \E puts \in Seq(Flows) : AddAll(puts)
<1>1. items \in Seq(Items) /\ Len(items) \in Nat /\ DOMAIN items = 1..Len(items)
  BY FilesAssumption
<1>2. PICK read \in SUBSET DOMAIN items : AddRead(items, read)
  BY DEF Import, ImportHar, ImportJson, HarItems, JsonItems
<1>3. \A k \in DOMAIN items : items[k].of \in Flows
  <2>1. \A k \in DOMAIN items : items[k] \in Items
    BY <1>1
  <2>2. \A x \in Items : x.of \in Flows
    BY DEF Items
  <2> QED BY <2>1, <2>2
<1>4. Cardinality(read) \in Nat
  <2>1. IsFiniteSet(1..Len(items)) /\ read \subseteq 1..Len(items)
    BY <1>1, <1>2, FS_Interval
  <2> QED BY <2>1, FS_Subset, FS_CardinalityType
<1>5. PICK e \in [1..Cardinality(read) -> read] : AddAll([n \in 1..Cardinality(read) |-> items[e[n]].of])
  BY <1>2 DEF AddRead
<1>6. [n \in 1..Cardinality(read) |-> items[e[n]].of] \in Seq(Flows)
  BY <1>3, <1>4, <1>5
<1> QED BY <1>5, <1>6

\* What a commit leaves of the postings, by their terms.
LEMMA TermsOf ==
    ASSUME NEW row
    PROVE  /\ <<"host", "all">> \in Terms(row)
           /\ \A f : <<"request", f>> \in Terms(row) <=> f = row.of
           /\ \A f : <<"response", f>> \in Terms(row) <=> f = row.of /\ row.resp
<1>1. \A f : /\ <<"request", f>> # <<"host", "all">> /\ <<"response", f>> # <<"host", "all">>
             /\ \A g : <<"request", f>> # <<"response", g>>
             /\ \A g : <<"request", f>> = <<"request", g>> <=> f = g
             /\ \A g : <<"response", f>> = <<"response", g>> <=> f = g
  OBVIOUS
<1> QED BY <1>1 DEF Terms

LEMMA PutPostings ==
    ASSUME NEW i, NEW row, postings' = IndexPut(i, row)
    PROVE  \A j, t : <<j, t>> \in postings' <=> <<j, t>> \in postings \/ (j = i /\ t \in Terms(row))
BY DEF IndexPut, Postings

LEMMA ClearPostings ==
    ASSUME postings' = IndexClear
    PROVE  \A j, t : <<j, t>> \in postings' <=>
                       /\ <<j, t>> \in postings
                       /\ ~(j \in DOMAIN disk /\ t \in Terms(disk[j]))
BY DEF IndexClear, Postings

LEMMA RowTerms ==
    ASSUME NEW row \in Row
    PROVE  Terms(row) \subseteq AllTerms
BY DEF Terms, AllTerms, Row

LEMMA TerminalStepType == TerminalTypeOK /\ [TerminalNext]_termVars => TerminalTypeOK'
<1> SUFFICES ASSUME TerminalTypeOK, [TerminalNext]_termVars PROVE TerminalTypeOK'
  OBVIOUS
<1>0. TypeOK /\ list \in Seq(Flows) /\ postings \subseteq Nat \X AllTerms /\ subs \subseteq {screen}
      /\ screen \in Pages
  BY TerminalAssumption DEF TerminalTypeOK
<1>1. CASE UNCHANGED termVars
  <2>1. UNCHANGED vars /\ UNCHANGED <<postings, list>>
    BY <1>1 DEF termVars, searchVars
  <2>2. TypeOK'
    BY <1>0, <2>1, StepType
  <2> QED BY <1>0, <2>1, <2>2 DEF TerminalTypeOK, vars, pageVars
<1>2. CASE Start
  <2>1. TypeOK'
    BY <1>0, <1>2, StepType DEF Start, Next
  <2> QED BY <1>0, <1>2, <2>1 DEF Start, Restart, TerminalTypeOK
<1>3. CASE Subscribe
  <2>1. TypeOK'
    BY <1>0, <1>3 DEF Subscribe, TypeOK, memVars, dbVars
  <2> QED BY <1>0, <1>3, <2>1 DEF Subscribe, TerminalTypeOK
<1>4. CASE UpdateScreen
  <2>1. subq' \in [Pages -> Seq(Flows)] /\ Head(subq[screen]) \in Flows
    BY <1>0, <1>4, QueueType DEF UpdateScreen, TypeOK
  <2>2. TypeOK'
    BY <1>0, <1>4, <2>1 DEF UpdateScreen, TypeOK, memVars, dbVars
  <2>3. list' \in Seq(Flows)
    BY <1>0, <1>4, <2>1 DEF UpdateScreen
  <2> QED BY <1>0, <1>4, <2>2, <2>3 DEF UpdateScreen, TerminalTypeOK
<1>5. CASE KeyClear
  <2>1. TypeOK'
    BY <1>0, <1>5, StepType DEF KeyClear, ClearByApi, Next
  <2> QED BY <1>0, <1>5, <2>1 DEF KeyClear, Clear, TerminalTypeOK
<1>6. CASE KeyQuit
  <2>1. callbacks' \in [Pages -> Seq(Flows)] /\ subq' \in [Pages -> Seq(Flows)]
    BY <1>0, <1>6, QueueType DEF KeyQuit, TypeOK
  <2>2. TypeOK'
    BY <1>0, <1>6, <2>1 DEF KeyQuit, TypeOK, memVars, dbVars
  <2> QED BY <1>0, <1>6, <2>2 DEF KeyQuit, TerminalTypeOK
<1>7. CASE Deliver(screen) /\ UNCHANGED <<postings, list>>
  <2>1. TypeOK'
    BY <1>0, <1>7, StepType DEF Next
  <2> QED BY <1>0, <1>7, <2>1 DEF Deliver, TerminalTypeOK
<1>8. CASE Commit /\ UNCHANGED list
  <2>1. TypeOK' /\ subs' = subs
    BY <1>0, <1>8, StepType DEF Commit, DbCommit, Next, pageVars
  <2>2. postings' \subseteq Nat \X AllTerms
    <3>1. saving[1] \in Statements
      BY <1>0, <1>8 DEF Commit, DbCommit, TypeOK
    <3>2. CASE saving[1].kind = "put"
      <4>1. saving[1].id \in Nat /\ saving[1].row \in Row
        BY <3>1, <3>2 DEF Statements, Clearing
      <4>2. postings' = postings \cup Postings(saving[1].id, saving[1].row)
        BY <1>8, <3>2 DEF Commit, IndexPut
      <4>3. Postings(saving[1].id, saving[1].row) \subseteq Nat \X AllTerms
        BY <4>1, RowTerms DEF Postings
      <4> QED BY <1>0, <4>2, <4>3
    <3>3. CASE saving[1].kind # "put"
      BY <1>0, <1>8, <3>3 DEF Commit, IndexClear
    <3> QED BY <3>2, <3>3
  <2> QED BY <1>0, <1>8, <2>1, <2>2 DEF TerminalTypeOK
<1>9. ASSUME NEW items \in Files, Import(items), UNCHANGED <<postings, list>> PROVE TerminalTypeOK'
  <2>1. PICK puts \in Seq(Flows) : AddAll(puts)
    BY <1>9, ImportAdds
  <2>2. TypeOK' /\ subs' = subs
    BY <1>0, <2>1, AddAllType DEF AddAll
  <2> QED BY <1>0, <1>9, <2>2 DEF TerminalTypeOK
<1>10. CASE (DbExecute \/ ClearByApi) /\ UNCHANGED <<postings, list>>
  <2>1. TypeOK'
    BY <1>0, <1>10, StepType DEF Next
  <2> QED BY <1>0, <1>10, <2>1 DEF DbExecute, ClearByApi, Clear, pageVars, TerminalTypeOK
<1>11. ASSUME NEW f \in Flows, Add(f) \/ PassUnrecorded(f) \/ Respond(f) \/ RespondRaises(f) \/ Fail(f),
              UNCHANGED <<postings, list>>
       PROVE  TerminalTypeOK'
  <2>1. TypeOK'
    BY <1>0, <1>11, StepType DEF Next
  <2> QED BY <1>0, <1>11, <2>1 DEF Add, PassUnrecorded, Respond, RespondRaises, Fail, pageVars, TerminalTypeOK
<1> QED BY <1>1, <1>2, <1>3, <1>4, <1>5, <1>6, <1>7, <1>8, <1>9, <1>10, <1>11
           DEF TerminalNext, SearchNext

-------------------------------------------------------------------------------
(* The screen *)

LEMMA ElementsOf ==
    ASSUME NEW s \in Seq(Flows)
    PROVE  /\ Elements(<<>>) = {}
           /\ \A f \in Flows : Elements(Append(s, f)) = Elements(s) \cup {f}
           /\ \A t \in Seq(Flows) : Elements(s \o t) = Elements(s) \cup Elements(t)
           /\ \A f \in Flows : Elements(<<f>> \o s) = {f} \cup Elements(s)
           /\ s # <<>> => /\ Head(s) \in Flows
                          /\ Elements(s) = {Head(s)} \cup Elements(Tail(s))
<1>1. Elements(<<>>) = {}
  BY DEF Elements
<1>2. ASSUME NEW f \in Flows PROVE Elements(Append(s, f)) = Elements(s) \cup {f}
  <2>1. \A k \in DOMAIN s : k \in DOMAIN Append(s, f) /\ Append(s, f)[k] = s[k]
    OBVIOUS
  <2>2. Len(s) + 1 \in DOMAIN Append(s, f) /\ Append(s, f)[Len(s) + 1] = f
    OBVIOUS
  <2>3. \A k \in DOMAIN Append(s, f) : k \in DOMAIN s \/ k = Len(s) + 1
    OBVIOUS
  <2> QED BY <2>1, <2>2, <2>3 DEF Elements
<1>3. ASSUME NEW q \in Seq(Flows), NEW t \in Seq(Flows) PROVE Elements(q \o t) = Elements(q) \cup Elements(t)
  <2> DEFINE m == Len(q)
             n == Len(t)
             c == q \o t
  <2>1. /\ m \in Nat /\ n \in Nat /\ DOMAIN q = 1..m /\ DOMAIN t = 1..n /\ DOMAIN c = 1..(m + n)
        /\ \A k \in 1..m : c[k] = q[k]
        /\ \A k \in 1..n : c[m + k] = t[k]
    OBVIOUS
  <2> HIDE DEF m, n, c
  <2>2. \A k \in 1..m : k \in 1..(m + n)
    BY <2>1
  <2>3. \A k \in 1..n : m + k \in 1..(m + n)
    BY <2>1
  <2>4. \A k \in 1..(m + n) : k \in 1..m \/ \E j \in 1..n : k = m + j
    <3> SUFFICES ASSUME NEW k \in 1..(m + n), k \notin 1..m PROVE \E j \in 1..n : k = m + j
      OBVIOUS
    <3>1. k - m \in 1..n /\ k = m + (k - m)
      BY <2>1
    <3> QED BY <3>1
  <2>5. ASSUME NEW k \in 1..(m + n) PROVE c[k] \in Elements(q) \cup Elements(t)
    <3>1. CASE k \in 1..m
      BY <2>1, <3>1 DEF Elements
    <3>2. CASE k \notin 1..m
      <4>1. PICK j \in 1..n : k = m + j
        BY <2>4, <3>2
      <4> QED BY <2>1, <4>1 DEF Elements
    <3> QED BY <3>1, <3>2
  <2>6. Elements(q) \subseteq Elements(c) /\ Elements(t) \subseteq Elements(c)
    BY <2>1, <2>2, <2>3 DEF Elements
  <2>7. Elements(c) = Elements(q) \cup Elements(t)
    <3>1. Elements(c) = {c[k] : k \in 1..(m + n)}
      BY <2>1 DEF Elements
    <3> QED BY <2>5, <2>6, <3>1
  <2> QED BY <2>7 DEF c
<1>4. ASSUME NEW f \in Flows PROVE Elements(<<f>> \o s) = {f} \cup Elements(s)
  <2>1. <<f>> \in Seq(Flows) /\ Elements(<<f>>) = {f}
    BY DEF Elements
  <2> QED BY <1>3, <2>1
<1>5. ASSUME s # <<>> PROVE Head(s) \in Flows /\ Elements(s) = {Head(s)} \cup Elements(Tail(s))
  <2>1. Head(s) \in Flows /\ Tail(s) \in Seq(Flows) /\ s = <<Head(s)>> \o Tail(s)
    BY <1>5
  <2>2. <<Head(s)>> \in Seq(Flows) /\ Elements(<<Head(s)>>) = {Head(s)}
    BY <2>1 DEF Elements
  <2> QED BY <1>3, <2>1, <2>2
<1> QED BY <1>1, <1>2, <1>3, <1>4, <1>5

\* Where a listed entry is to be found.
OnScreen == Elements(list) \cup Elements(subq[screen]) \cup Elements(callbacks[screen]) \cup lost[screen]

\* Nothing is recorded before the screen subscribes.
ScreenInv ==
    /\ ~Started /\ away = {} => entries = <<>>
    /\ TerminalShowsListed

\* What is added or updated is announced to the screen.
LEMMA AnnouncedIsOnScreen ==
    ASSUME TerminalTypeOK, ScreenInv, Started \/ away # {}, NEW new \in Seq(Flows),
           Elements(entries') \subseteq Elements(entries) \cup Elements(new),
           callbacks' = [s \in Pages |-> IF s \in subs THEN callbacks[s] \o new ELSE callbacks[s]],
           UNCHANGED <<subs, away, subq, lost, list>>
    PROVE  ScreenInv'
<1>1. screen \in Pages /\ callbacks[screen] \in Seq(Flows)
  BY TerminalAssumption DEF TerminalTypeOK, TypeOK
<1>2. CASE ~Started
  BY <1>2 DEF ScreenInv, TerminalShowsListed, Started
<1>3. CASE Started
  <2>1. callbacks'[screen] = callbacks[screen] \o new
    BY <1>1, <1>3 DEF Started
  <2>2. Elements(callbacks'[screen]) = Elements(callbacks[screen]) \cup Elements(new)
    BY <1>1, <2>1, ElementsOf
  <2>3. Elements(entries) \subseteq OnScreen
    BY <1>3 DEF ScreenInv, TerminalShowsListed, OnScreen
  <2>4. Elements(list') = Elements(list) /\ Elements(subq'[screen]) = Elements(subq[screen]) /\ lost'[screen] = lost[screen]
    OBVIOUS
  <2>5. Elements(entries') \subseteq
          Elements(list') \cup Elements(subq'[screen]) \cup Elements(callbacks'[screen]) \cup lost'[screen]
    BY <2>2, <2>3, <2>4 DEF OnScreen
  <2> QED BY <1>3, <2>5 DEF ScreenInv, TerminalShowsListed, Started, Elements
<1> QED BY <1>2, <1>3

LEMMA ScreenStep == TerminalTypeOK /\ ScreenInv /\ [TerminalNext]_termVars => ScreenInv'
<1> SUFFICES ASSUME TerminalTypeOK, ScreenInv, [TerminalNext]_termVars PROVE ScreenInv'
  OBVIOUS
<1>0. /\ TypeOK /\ screen \in Pages /\ entries \in Seq(Flows) /\ list \in Seq(Flows) /\ subs \subseteq {screen}
      /\ callbacks \in [Pages -> Seq(Flows)] /\ subq \in [Pages -> Seq(Flows)] /\ lost \in [Pages -> SUBSET Flows]
  BY TerminalAssumption DEF TerminalTypeOK, TypeOK
<1>00. Elements(<<>>) = {} /\ <<>> \in Seq(Flows)
  BY DEF Elements
<1>1. CASE UNCHANGED <<entries, subs, away, callbacks, subq, lost, list>>
  BY <1>1 DEF ScreenInv, TerminalShowsListed, Started, Elements
<1>2. CASE UNCHANGED termVars
  BY <1>1, <1>2 DEF termVars, searchVars, vars, memVars, pageVars
<1>3. CASE Start
  <2>1. entries' = <<>> /\ subs' = {}
    BY <1>3, NothingLoaded DEF Start, Restart
  <2> QED BY <2>1 DEF ScreenInv, TerminalShowsListed, Started
<1>4. CASE Subscribe
  <2>1. entries' = <<>>
    BY <1>4 DEF Subscribe, ScreenInv, memVars
  <2>2. Started'
    BY <1>4 DEF Subscribe, Started
  <2> QED BY <2>1, <2>2 DEF ScreenInv, TerminalShowsListed, Elements
<1>5. CASE UpdateScreen
  <2>1. /\ Started /\ Started' /\ subq[screen] # <<>> /\ list' = <<Head(subq[screen])>> \o list
        /\ subq'[screen] = Tail(subq[screen]) /\ UNCHANGED <<entries, callbacks, lost>>
    BY <1>0, <1>5 DEF UpdateScreen, Started, memVars
  <2>2. Head(subq[screen]) \in Flows /\ Elements(subq[screen]) = {Head(subq[screen])} \cup Elements(Tail(subq[screen]))
    BY <1>0, <2>1, ElementsOf
  <2>3. Elements(list') = {Head(subq[screen])} \cup Elements(list)
    BY <1>0, <2>1, <2>2, ElementsOf
  <2>4. Elements(subq'[screen]) = Elements(Tail(subq[screen])) /\ lost'[screen] = lost[screen]
    BY <2>1
  <2>5. Elements(entries') = Elements(entries) /\ Elements(callbacks'[screen]) = Elements(callbacks[screen])
    BY <2>1 DEF Elements
  <2>6. Elements(entries) \subseteq OnScreen
    BY <2>1 DEF ScreenInv, TerminalShowsListed, OnScreen
  <2>7. Elements(entries') \subseteq
          Elements(list') \cup Elements(subq'[screen]) \cup Elements(callbacks'[screen]) \cup lost'[screen]
    BY <2>2, <2>3, <2>4, <2>5, <2>6 DEF OnScreen
  <2> QED BY <2>1, <2>7 DEF ScreenInv, TerminalShowsListed, Elements
<1>6. CASE entries' = <<>>
  BY <1>6 DEF ScreenInv, TerminalShowsListed, Elements
<1>7. CASE KeyQuit
  <2>1. ~Started' /\ away' # {}
    BY <1>7 DEF KeyQuit, Started
  <2> QED BY <2>1 DEF ScreenInv, TerminalShowsListed
<1>8. CASE Deliver(screen) /\ UNCHANGED <<postings, list>>
  <2> DEFINE f == Head(callbacks[screen])
  <2>1. /\ callbacks[screen] # <<>> /\ callbacks'[screen] = Tail(callbacks[screen])
        /\ UNCHANGED <<entries, subs, away, list>>
    BY <1>0, <1>8 DEF Deliver, memVars
  <2>2. f \in Flows /\ Elements(callbacks[screen]) = {f} \cup Elements(Tail(callbacks[screen]))
    BY <1>0, <2>1, ElementsOf
  <2>3. \/ subq'[screen] = Append(subq[screen], f) /\ lost'[screen] = lost[screen]
        \/ subq'[screen] = subq[screen] /\ lost'[screen] = lost[screen] \cup {f}
    BY <1>0, <1>8 DEF Deliver
  <2>4. Elements(Append(subq[screen], f)) = Elements(subq[screen]) \cup {f}
    BY <1>0, <2>2, ElementsOf
  <2> HIDE DEF f
  <2>5. Elements(subq'[screen]) \cup lost'[screen] = Elements(subq[screen]) \cup lost[screen] \cup {f}
    BY <2>3, <2>4
  <2>6. Elements(callbacks'[screen]) \cup {f} = Elements(callbacks[screen])
    BY <2>1, <2>2
  <2>7. Elements(entries') = Elements(entries) /\ Elements(list') = Elements(list)
    BY <2>1 DEF Elements
  <2>8. ASSUME Started PROVE Elements(entries) \subseteq OnScreen
    BY <2>8 DEF ScreenInv, TerminalShowsListed, OnScreen
  <2>9. ASSUME Started
        PROVE  Elements(entries') \subseteq
                 Elements(list') \cup Elements(subq'[screen]) \cup Elements(callbacks'[screen]) \cup lost'[screen]
    BY <2>5, <2>6, <2>7, <2>8, <2>9 DEF OnScreen
  <2>10. Started' <=> Started
    BY <2>1 DEF Started
  <2> QED BY <2>1, <2>9, <2>10 DEF ScreenInv, TerminalShowsListed, Elements
<1>9. CASE KeyClear
  BY <1>6, <1>9 DEF KeyClear, Clear
<1>10. ASSUME Started \/ away # {}, UNCHANGED list, Commit \/ DbExecute \/ ClearByApi PROVE ScreenInv'
  BY <1>1, <1>6, <1>10 DEF Commit, DbCommit, DbExecute, ClearByApi, Clear, memVars, pageVars
<1>11. ASSUME Started \/ away # {}, NEW items \in Files, Import(items), UNCHANGED list PROVE ScreenInv'
  <2>1. PICK puts \in Seq(Flows) : AddAll(puts)
    BY <1>11, ImportAdds
  <2>2. Elements(entries') = Elements(entries) \cup Elements(puts)
    <3>1. entries' = entries \o puts
      BY <2>1 DEF AddAll
    <3> QED BY <1>0, <3>1, ElementsOf
  <2>3. /\ callbacks' = [s \in Pages |-> IF s \in subs THEN callbacks[s] \o puts ELSE callbacks[s]]
        /\ UNCHANGED <<subs, away, subq, lost>>
    BY <2>1 DEF AddAll
  <2> QED BY <1>11, <2>2, <2>3, AnnouncedIsOnScreen
<1>12. ASSUME Started \/ away # {}, NEW f \in Flows, UNCHANGED list, Add(f) \/ Respond(f) PROVE ScreenInv'
  <2>1. <<f>> \in Seq(Flows) /\ Elements(<<f>>) = {f}
    BY DEF Elements
  <2>2. Elements(entries') \subseteq Elements(entries) \cup {f}
    <3>1. CASE Add(f)
      <4>1. entries' = Append(entries, f)
        BY <3>1 DEF Add
      <4> QED BY <1>0, <4>1, ElementsOf DEF Elements
    <3>2. CASE Respond(f)
      BY <1>0, <3>2 DEF Respond, Update, Elements
    <3> QED BY <1>12, <3>1, <3>2
  <2>3. \A s \in Pages : Append(callbacks[s], f) = callbacks[s] \o <<f>>
    BY <1>0
  <2>4. Publish(f) /\ UNCHANGED <<subs, away, subq, lost>>
    BY <1>12 DEF Add, Respond, Update
  <2>5. callbacks' = [s \in Pages |-> IF s \in subs THEN callbacks[s] \o <<f>> ELSE callbacks[s]]
    BY <2>3, <2>4 DEF Publish
  <2> QED BY <1>12, <2>1, <2>2, <2>4, <2>5, AnnouncedIsOnScreen
<1>13. ASSUME NEW f \in Flows, UNCHANGED list, PassUnrecorded(f) \/ RespondRaises(f) \/ Fail(f) PROVE ScreenInv'
  BY <1>1, <1>13 DEF PassUnrecorded, RespondRaises, Fail, pageVars
<1> QED BY <1>2, <1>3, <1>4, <1>5, <1>7, <1>8, <1>9, <1>10, <1>11, <1>12, <1>13 DEF TerminalNext, SearchNext

\* Type correctness of the terminal interface with the store behind it.
LEMMA TerminalInitType == TerminalInit => TerminalTypeOK
<1> SUFFICES ASSUME TerminalInit PROVE TerminalTypeOK
  OBVIOUS
<1>1. TypeOK
  BY InitIInv DEF TerminalInit, SearchInit, IInv
<1>2. postings = {} /\ list = <<>> /\ subs = {}
  BY DEF TerminalInit, SearchInit, Init
<1> QED BY <1>1, <1>2 DEF TerminalTypeOK

THEOREM TerminalTypeCorrect == TerminalSpec => []TerminalTypeOK
BY TerminalInitType, TerminalStepType, PTL DEF TerminalSpec

THEOREM ScreenShowsListed == TerminalSpec => []TerminalShowsListed
<1>1. TerminalInit => ScreenInv
  BY DEF TerminalInit, SearchInit, Init, ScreenInv, TerminalShowsListed, Started
<1>2. ScreenInv => TerminalShowsListed
  BY DEF ScreenInv
<1> QED BY <1>1, <1>2, ScreenStep, TerminalTypeCorrect, PTL DEF TerminalSpec

-------------------------------------------------------------------------------
(* The postings *)

Posted(i, kind, x) == <<i, <<kind, x>>>> \in postings
Putting == saving # <<>> /\ saving[1].kind = "put"

\* What is posted under an id: the requests of flows that have the id, and the
\* responses they have; nothing that the row of such a flow will not have.
PostingsAreOfRows ==
    /\ \A i \in Nat : Posted(i, "host", "all") => i \in DOMAIN disk
    /\ \A i \in Nat, f \in Flows : Posted(i, "request", f) => stage[f] # "idle" /\ obj[f].id = i
    /\ \A i \in Nat, f \in Flows : Posted(i, "response", f) =>
         /\ Posted(i, "request", f) /\ obj[f].resp
         /\ i \in DOMAIN disk /\ disk[i].of = f => disk[i].resp
         /\ Putting /\ saving[1].row.of = f => saving[1].row.resp

\* What is written is of a flow that has its id.
WritesAreOfFlows ==
    /\ Putting =>
         /\ stage[saving[1].row.of] # "idle" /\ saving[1].id = obj[saving[1].row.of].id
         /\ saving[1].row.resp => obj[saving[1].row.of].resp
    /\ \A k \in DOMAIN dbq : dbq[k].kind = "put" => stage[dbq[k].of] # "idle"

IndexInv == PostingsAreOfRows /\ WritesAreOfFlows

LEMMA PuttingType ==
    ASSUME TypeOK
    PROVE  /\ Putting => saving[1].id \in Nat /\ saving[1].row \in Row
           /\ Putting => saving[1].row.of \in Flows /\ saving[1].row.resp \in BOOLEAN
           /\ \A i \in DOMAIN disk : i \in Nat /\ disk[i].of \in Flows /\ disk[i].resp \in BOOLEAN
           /\ \A k \in DOMAIN dbq : dbq[k].kind = "put" => dbq[k].of \in Flows
<1>1. Putting => saving[1] \in Statements
  BY DEF TypeOK, Putting
<1>2. Putting => saving[1].id \in Nat /\ saving[1].row \in Row
  BY <1>1 DEF Putting, Statements, Clearing
<1>3. \A r \in Row : r.of \in Flows /\ r.resp \in BOOLEAN
  BY DEF Row
<1>4. \A i \in DOMAIN disk : i \in Nat /\ disk[i] \in Row
  BY DEF TypeOK
<1>5. \A k \in DOMAIN dbq : dbq[k] \in Ops
  BY DEF TypeOK
<1>6. \A op \in Ops : op.kind = "put" => op.of \in Flows
  BY DEF Ops, Clearing
<1> QED BY <1>2, <1>3, <1>4, <1>5, <1>6

\* A flow that was started keeps its id, and its response: so the postings
\* stay what they are while neither the table nor the index changes.
LEMMA StartedKeepIds ==
    ASSUME TypeOK, IndexInv, UNCHANGED <<postings, disk>>,
           \A f \in Flows : stage[f] # "idle" =>
             stage'[f] # "idle" /\ obj'[f].id = obj[f].id /\ (obj[f].resp => obj'[f].resp),
           saving' = saving \/ saving' = <<>>,
           \A k \in DOMAIN dbq' : dbq'[k].kind = "put" => stage'[dbq'[k].of] # "idle"
    PROVE  IndexInv'
<1>1. Putting' => Putting /\ saving' = saving
  BY DEF Putting
<1>2. \A i, x, y : Posted(i, x, y)' <=> Posted(i, x, y)
  BY DEF Posted
<1>3. PostingsAreOfRows'
  <2>1. \A i \in Nat : Posted(i, "host", "all")' => i \in DOMAIN disk'
    BY <1>2 DEF IndexInv, PostingsAreOfRows
  <2>2. ASSUME NEW i \in Nat, NEW f \in Flows, Posted(i, "request", f)'
        PROVE  stage'[f] # "idle" /\ obj'[f].id = i
    BY <1>2, <2>2 DEF IndexInv, PostingsAreOfRows
  <2>3. ASSUME NEW i \in Nat, NEW f \in Flows, Posted(i, "response", f)'
        PROVE  /\ Posted(i, "request", f)' /\ obj'[f].resp
               /\ i \in DOMAIN disk' /\ disk'[i].of = f => disk'[i].resp
               /\ Putting' /\ saving'[1].row.of = f => saving'[1].row.resp
    <3>1. /\ Posted(i, "request", f) /\ obj[f].resp /\ stage[f] # "idle"
          /\ i \in DOMAIN disk /\ disk[i].of = f => disk[i].resp
          /\ Putting /\ saving[1].row.of = f => saving[1].row.resp
      BY <1>2, <2>3 DEF IndexInv, PostingsAreOfRows
    <3> QED BY <1>1, <1>2, <3>1
  <2> QED BY <2>1, <2>2, <2>3 DEF PostingsAreOfRows
<1>4. WritesAreOfFlows'
  <2>1. ASSUME Putting'
        PROVE  /\ stage'[saving'[1].row.of] # "idle" /\ saving'[1].id = obj'[saving'[1].row.of].id
               /\ saving'[1].row.resp => obj'[saving'[1].row.of].resp
    BY <1>1, <2>1, PuttingType DEF IndexInv, WritesAreOfFlows
  <2> QED BY <2>1 DEF WritesAreOfFlows
<1> QED BY <1>3, <1>4 DEF IndexInv

\* The statement that is executed writes the row as it is now.
LEMMA ExecuteKeepsIndex ==
    ASSUME TypeOK, IndexInv, DbExecute, UNCHANGED postings
    PROVE  IndexInv'
<1>1. UNCHANGED <<stage, obj, disk, postings>> /\ saving = <<>> /\ dbq # <<>> /\ dbq' = Tail(dbq)
  BY DEF DbExecute, memVars
<1>2. dbq \in Seq(Ops) /\ 1 \in DOMAIN dbq /\ Head(dbq) = dbq[1]
  BY <1>1 DEF TypeOK
<1>3. \A k \in DOMAIN dbq' : k + 1 \in DOMAIN dbq /\ dbq'[k] = dbq[k + 1]
  BY <1>1, <1>2
<1>4. \A k \in DOMAIN dbq' : dbq'[k].kind = "put" => stage'[dbq'[k].of] # "idle"
  BY <1>1, <1>3 DEF IndexInv, WritesAreOfFlows
<1> DEFINE f == dbq[1].of
<1>5. CASE dbq[1].kind = "put"
  <2>1. /\ f \in Flows /\ stage[f] # "idle"
        /\ saving' = <<[kind |-> "put", id |-> obj[f].id, row |-> RowOf(f)]>>
    BY <1>2, <1>5, PuttingType DEF DbExecute, IndexInv, WritesAreOfFlows
  <2> HIDE DEF f
  <2>2. saving'[1].row.of = f /\ saving'[1].row.resp = obj[f].resp /\ saving'[1].id = obj[f].id
    BY <2>1 DEF RowOf
  <2>3. WritesAreOfFlows'
    BY <1>1, <1>4, <2>1, <2>2 DEF WritesAreOfFlows
  <2>4. ASSUME NEW i \in Nat, NEW g \in Flows, Posted(i, "response", g), saving'[1].row.of = g
        PROVE  saving'[1].row.resp
    BY <2>2, <2>4 DEF IndexInv, PostingsAreOfRows
  <2>5. PostingsAreOfRows'
    BY <1>1, <2>4 DEF IndexInv, PostingsAreOfRows, Posted
  <2> QED BY <2>3, <2>5 DEF IndexInv
<1>6. CASE dbq[1].kind # "put"
  <2>1. saving' = <<dbq[1]>>
    BY <1>2, <1>6 DEF DbExecute
  <2>2. ~Putting'
    BY <1>6, <2>1 DEF Putting
  <2>3. WritesAreOfFlows'
    BY <1>4, <2>2 DEF WritesAreOfFlows
  <2>4. PostingsAreOfRows'
    BY <1>1, <2>2 DEF IndexInv, PostingsAreOfRows, Posted
  <2> QED BY <2>3, <2>4 DEF IndexInv
<1> QED BY <1>5, <1>6

\* A row that is committed is posted, beside what its id had before.
LEMMA PutKeepsIndex ==
    ASSUME TypeOK, IndexInv, Commit, saving[1].kind = "put"
    PROVE  IndexInv'
<1> DEFINE i == saving[1].id
           row == saving[1].row
           f == row.of
<1>1. Putting /\ i \in Nat /\ row \in Row /\ f \in Flows
  BY PuttingType DEF Putting, Commit, DbCommit
<1>2. /\ stage[f] # "idle" /\ obj[f].id = i
      /\ row.resp => obj[f].resp
  BY <1>1 DEF IndexInv, WritesAreOfFlows
<1>3. \A j, t : <<j, t>> \in postings' <=> <<j, t>> \in postings \/ (j = i /\ t \in Terms(row))
  <2>1. postings' = IndexPut(i, row)
    BY DEF Commit
  <2> HIDE DEF i, row
  <2> QED BY <2>1, PutPostings
<1>4. disk' = With(disk, i, row) /\ saving' = <<>> /\ UNCHANGED <<stage, obj, dbq>>
  BY DEF Commit, DbCommit, memVars
<1>5. DOMAIN disk' = DOMAIN disk \cup {i} /\ disk'[i] = row /\ \A j \in DOMAIN disk : j # i => disk'[j] = disk[j]
  BY <1>4 DEF With
<1> HIDE DEF i, row, f
<1>6. /\ \A j : Posted(j, "host", "all")' <=> Posted(j, "host", "all") \/ j = i
      /\ \A j, g : Posted(j, "request", g)' <=> Posted(j, "request", g) \/ (j = i /\ g = f)
      /\ \A j, g : Posted(j, "response", g)' <=> Posted(j, "response", g) \/ (j = i /\ g = f /\ row.resp)
  BY <1>3, TermsOf DEF Posted, f
<1>7. ~Putting'
  BY <1>4 DEF Putting
<1>8. \A j \in Nat : Posted(j, "host", "all")' => j \in DOMAIN disk'
  BY <1>5, <1>6 DEF IndexInv, PostingsAreOfRows
<1>9. \A j \in Nat, g \in Flows : Posted(j, "request", g)' => stage'[g] # "idle" /\ obj'[g].id = j
  BY <1>2, <1>4, <1>6 DEF IndexInv, PostingsAreOfRows
<1>10. ASSUME NEW j \in Nat, NEW g \in Flows, Posted(j, "response", g)'
       PROVE  /\ Posted(j, "request", g)' /\ obj'[g].resp
              /\ j \in DOMAIN disk' /\ disk'[j].of = g => disk'[j].resp
  <2>1. Posted(j, "request", g)' /\ obj'[g].resp
    <3>1. CASE Posted(j, "response", g)
      BY <1>4, <1>6, <3>1 DEF IndexInv, PostingsAreOfRows
    <3>2. CASE j = i /\ g = f /\ row.resp
      BY <1>2, <1>4, <1>6, <3>2
    <3> QED BY <1>6, <1>10, <3>1, <3>2
  <2>2. CASE j = i
    <3>1. ASSUME f = g PROVE row.resp
      <4>1. CASE Posted(j, "response", g)
        BY <1>1, <3>1, <4>1 DEF IndexInv, PostingsAreOfRows, f, row
      <4> QED BY <1>6, <1>10, <4>1
    <3> QED BY <1>5, <2>1, <2>2, <3>1 DEF f
  <2>3. CASE j # i
    <3>1. Posted(j, "response", g)
      BY <1>6, <1>10, <2>3
    <3> QED BY <1>5, <2>1, <2>3, <3>1 DEF IndexInv, PostingsAreOfRows
  <2> QED BY <2>2, <2>3
<1>11. PostingsAreOfRows'
  BY <1>7, <1>8, <1>9, <1>10 DEF PostingsAreOfRows
<1>12. WritesAreOfFlows'
  BY <1>4, <1>7 DEF IndexInv, WritesAreOfFlows
<1> QED BY <1>11, <1>12 DEF IndexInv

\* When the table is emptied, what is left is posted under no row's id.
LEMMA ClearKeepsIndex ==
    ASSUME TypeOK, IndexInv, Commit, saving[1].kind # "put"
    PROVE  IndexInv'
<1>1. postings' = IndexClear /\ disk' = Empty /\ saving' = <<>> /\ UNCHANGED <<stage, obj, dbq>>
  BY DEF Commit, DbCommit, memVars
<1>2. \A j, t : <<j, t>> \in postings' <=>
                  /\ <<j, t>> \in postings
                  /\ ~(j \in DOMAIN disk /\ t \in Terms(disk[j]))
  BY <1>1, ClearPostings
<1>3. /\ \A j : Posted(j, "host", "all")' <=> Posted(j, "host", "all") /\ j \notin DOMAIN disk
      /\ \A j, g : Posted(j, "request", g)' <=>
                     Posted(j, "request", g) /\ ~(j \in DOMAIN disk /\ g = disk[j].of)
      /\ \A j, g : Posted(j, "response", g)' <=>
                     Posted(j, "response", g) /\ ~(j \in DOMAIN disk /\ g = disk[j].of /\ disk[j].resp)
  BY <1>2, TermsOf DEF Posted
<1>4. ~Putting' /\ DOMAIN disk' = {}
  BY <1>1 DEF Putting, Empty
<1>5. \A j \in Nat : ~Posted(j, "host", "all")'
  BY <1>3 DEF IndexInv, PostingsAreOfRows
<1>6. \A j \in Nat, g \in Flows : Posted(j, "request", g)' => stage'[g] # "idle" /\ obj'[g].id = j
  BY <1>1, <1>3 DEF IndexInv, PostingsAreOfRows
<1>7. \A j \in Nat, g \in Flows : Posted(j, "response", g)' => Posted(j, "request", g)' /\ obj'[g].resp
  <2> SUFFICES ASSUME NEW j \in Nat, NEW g \in Flows, Posted(j, "response", g)'
               PROVE  Posted(j, "request", g)' /\ obj'[g].resp
    OBVIOUS
  <2>1. Posted(j, "response", g) /\ ~(j \in DOMAIN disk /\ g = disk[j].of /\ disk[j].resp)
    BY <1>3
  <2>2. /\ Posted(j, "request", g) /\ obj[g].resp
        /\ j \in DOMAIN disk /\ disk[j].of = g => disk[j].resp
    BY <2>1 DEF IndexInv, PostingsAreOfRows
  <2> QED BY <1>1, <1>3, <2>1, <2>2
<1>8. PostingsAreOfRows'
  BY <1>4, <1>5, <1>6, <1>7 DEF PostingsAreOfRows
<1>9. WritesAreOfFlows'
  BY <1>1, <1>4 DEF IndexInv, WritesAreOfFlows
<1> QED BY <1>8, <1>9 DEF IndexInv

LEMMA IndexStep == TerminalTypeOK /\ IndexInv /\ [TerminalNext]_termVars => IndexInv'
<1> SUFFICES ASSUME TerminalTypeOK, IndexInv, [TerminalNext]_termVars PROVE IndexInv'
  OBVIOUS
<1> DEFINE AllStarted(q) == \A k \in DOMAIN q : q[k].kind = "put" => stage'[q[k].of] # "idle"
<1>0. /\ TypeOK /\ dbq \in Seq(Ops) /\ Clearing \in Ops
      /\ stage \in [Flows -> {"idle", "open", "bare", "done"}]
      /\ obj \in [Flows -> [id : Nat, resp : BOOLEAN, color : Colors]]
  BY DEF TerminalTypeOK, TypeOK, Ops
<1>00. \A k \in DOMAIN dbq : dbq[k].kind = "put" => dbq[k].of \in Flows /\ stage[dbq[k].of] # "idle"
  BY <1>0, PuttingType DEF IndexInv, WritesAreOfFlows
<1>1. CASE UNCHANGED <<stage, obj, dbq, saving, disk, postings>>
  BY <1>0, <1>00, <1>1, StartedKeepIds
<1>2. CASE UNCHANGED termVars
  BY <1>1, <1>2 DEF termVars, searchVars, vars, memVars, dbVars
<1>3. CASE Start
  <2>1. /\ dbq' = <<>> /\ saving' = <<>> /\ UNCHANGED <<disk, postings>>
        /\ obj' = [f \in Flows |-> obj[f]]
        /\ stage' = [f \in Flows |-> IF stage[f] = "idle" THEN "idle" ELSE "done"]
    BY <1>3, NothingLoaded DEF Start, Restart
  <2> QED BY <1>0, <2>1, StartedKeepIds
<1>4. CASE Subscribe \/ UpdateScreen \/ KeyQuit \/ (Deliver(screen) /\ UNCHANGED <<postings, list>>)
  BY <1>1, <1>4 DEF Subscribe, UpdateScreen, KeyQuit, Deliver, memVars, dbVars
<1>5. ASSUME Clear, UNCHANGED postings PROVE IndexInv'
  <2>1. dbq' = dbq \/ dbq' = Append(dbq, Clearing)
    BY <1>5 DEF Clear
  <2>2. UNCHANGED <<stage, obj, saving, disk, postings>>
    BY <1>5 DEF Clear
  <2>3. AllStarted(dbq')
    <3>1. CASE dbq' = dbq
      BY <1>00, <2>2, <3>1
    <3>2. CASE dbq' = Append(dbq, Clearing)
      <4>1. \A k \in DOMAIN dbq' : (k \in DOMAIN dbq /\ dbq'[k] = dbq[k]) \/ dbq'[k] = Clearing
        BY <1>0, <3>2
      <4> QED BY <1>00, <2>2, <4>1 DEF Clearing
    <3> QED BY <2>1, <3>1, <3>2
  <2> QED BY <1>0, <2>2, <2>3, StartedKeepIds
<1>6. CASE KeyClear \/ (ClearByApi /\ UNCHANGED postings)
  BY <1>5, <1>6 DEF KeyClear, ClearByApi
<1>7. CASE Commit
  BY <1>0, <1>7, PutKeepsIndex, ClearKeepsIndex
<1>8. CASE DbExecute /\ UNCHANGED postings
  BY <1>0, <1>8, ExecuteKeepsIndex
<1>9. ASSUME NEW items \in Files, Import(items), UNCHANGED postings PROVE IndexInv'
  <2>1. PICK puts \in Seq(Flows) : AddAll(puts)
    BY <1>9, ImportAdds
  <2> DEFINE new == {puts[k] : k \in DOMAIN puts}
  <2>2. /\ \A f \in new : stage[f] = "idle"
        /\ stage' = [f \in Flows |-> IF f \in new THEN "done" ELSE stage[f]]
        /\ \A f \in Flows \ new : obj'[f] = obj[f]
        /\ dbq' = dbq \/ dbq' = dbq \o [k \in DOMAIN puts |-> Put(puts[k])]
        /\ UNCHANGED <<saving, disk>>
    BY <2>1 DEF AddAll
  <2>3. \A f \in Flows : stage[f] # "idle" => stage'[f] # "idle" /\ obj'[f] = obj[f]
    BY <2>2
  <2>4. AllStarted(dbq')
    <3>1. CASE dbq' = dbq
      BY <1>00, <2>3, <3>1
    <3>2. CASE dbq' = dbq \o [k \in DOMAIN puts |-> Put(puts[k])]
      <4>0. DOMAIN puts = 1..Len(puts) /\ Len(puts) \in Nat /\ \A k \in 1..Len(puts) : puts[k] \in Flows /\ Put(puts[k]) \in Ops
        BY DEF Put, Ops
      <4>1. [k \in DOMAIN puts |-> Put(puts[k])] \in Seq(Ops) /\ Len([k \in DOMAIN puts |-> Put(puts[k])]) = Len(puts)
        BY <4>0
      <4>2. \A k \in DOMAIN dbq' : \/ k \in DOMAIN dbq /\ dbq'[k] = dbq[k]
                                   \/ \E j \in 1..Len(puts) : dbq'[k] = Put(puts[j])
        BY <1>0, <3>2, <4>0, <4>1
      <4>3. \A j \in 1..Len(puts) : puts[j] \in new /\ stage'[puts[j]] # "idle"
        BY <2>2, <4>0
      <4> QED BY <1>00, <2>3, <4>2, <4>3 DEF Put
    <3> QED BY <2>2, <3>1, <3>2
  <2> QED BY <1>0, <1>9, <2>2, <2>3, <2>4, StartedKeepIds
<1>10. ASSUME NEW f \in Flows, Add(f) \/ Respond(f), UNCHANGED postings PROVE IndexInv'
  <2>1. UNCHANGED <<saving, disk>> /\ DbPut(f)
    BY <1>10 DEF Add, Respond, Update
  <2>2. \A g \in Flows : stage[g] # "idle" =>
          stage'[g] # "idle" /\ obj'[g].id = obj[g].id /\ (obj[g].resp => obj'[g].resp)
    BY <1>0, <1>10 DEF Add, Respond
  <2>3. stage'[f] # "idle"
    BY <1>0, <1>10 DEF Add, Respond
  <2>4. AllStarted(dbq')
    <3>1. CASE dbq' = dbq
      BY <1>00, <2>2, <3>1
    <3>2. CASE dbq' = Append(dbq, Put(f))
      <4>1. Put(f) \in Ops
        BY DEF Put, Ops
      <4>2. \A k \in DOMAIN dbq' : (k \in DOMAIN dbq /\ dbq'[k] = dbq[k]) \/ dbq'[k] = Put(f)
        BY <1>0, <3>2, <4>1
      <4> QED BY <1>00, <2>2, <2>3, <4>2 DEF Put
    <3> QED BY <2>1, <3>1, <3>2 DEF DbPut
  <2> QED BY <1>0, <1>10, <2>1, <2>2, <2>4, StartedKeepIds
<1>11. ASSUME NEW f \in Flows, PassUnrecorded(f) \/ RespondRaises(f) \/ Fail(f), UNCHANGED postings
       PROVE  IndexInv'
  <2>1. /\ stage' = [stage EXCEPT ![f] = "bare"] \/ stage' = [stage EXCEPT ![f] = "done"]
        /\ obj' = obj \/ obj' = [obj EXCEPT ![f].resp = TRUE]
        /\ UNCHANGED <<dbq, saving, disk>>
    BY <1>11 DEF PassUnrecorded, RespondRaises, Fail, dbVars
  <2>2. \A g \in Flows : stage[g] # "idle" =>
          stage'[g] # "idle" /\ obj'[g].id = obj[g].id /\ (obj[g].resp => obj'[g].resp)
    BY <1>0, <2>1
  <2>3. AllStarted(dbq')
    BY <1>00, <2>1, <2>2
  <2> QED BY <1>0, <1>11, <2>1, <2>2, <2>3, StartedKeepIds
<1> QED BY <1>2, <1>3, <1>4, <1>6, <1>7, <1>8, <1>9, <1>10, <1>11 DEF TerminalNext, SearchNext, KeyClear

-------------------------------------------------------------------------------
(* The rows and their terms *)

\* What no step but Commit does: it changes the table or its index.
LEMMA IndexUntouched ==
  ASSUME IndexCoversTable, UNCHANGED <<disk, postings>>
  PROVE  IndexCoversTable'
BY DEF IndexCoversTable, Postings, Terms

\* A row comes with its terms, whatever the id had before; a row that goes
\* takes no other row's terms with it, for all rows go together.
LEMMA CommitCovers == ASSUME IndexCoversTable, Commit PROVE IndexCoversTable'
<1>1. CASE saving[1].kind = "put"
  <2> DEFINE i == saving[1].id
             row == saving[1].row
  <2>1. disk' = With(disk, i, row) /\ postings' = postings \cup Postings(i, row)
    BY <1>1 DEF Commit, DbCommit, IndexPut
  <2>2. DOMAIN disk' = DOMAIN disk \cup {i}
    BY <2>1 DEF With
  <2>3. ASSUME NEW j \in DOMAIN disk' PROVE Postings(j, disk'[j]) \subseteq postings'
    <3>1. CASE j = i
      <4>1. disk'[j] = row
        BY <2>1, <2>2, <3>1 DEF With
      <4> QED
        BY <2>1, <3>1, <4>1
    <3>2. CASE j # i
      <4>1. j \in DOMAIN disk /\ disk'[j] = disk[j]
        BY <2>1, <2>2, <3>2 DEF With
      <4>2. Postings(j, disk[j]) \subseteq postings
        BY <4>1 DEF IndexCoversTable
      <4> QED
        BY <2>1, <4>1, <4>2
    <3> QED
      BY <3>1, <3>2
  <2>4. \A j \in DOMAIN disk' : Postings(j, disk'[j]) \subseteq postings'
    BY <2>3
  <2> QED
    BY <2>4 DEF IndexCoversTable, Postings, Terms
<1>2. CASE saving[1].kind # "put"
  <2>1. disk' = Empty
    BY <1>2 DEF Commit, DbCommit
  <2> QED
    BY <2>1 DEF Empty, IndexCoversTable
<1> QED
  BY <1>1, <1>2

\* Whatever is proxied, imported and cleared, over ends and starts of the
\* program: every term of every row of the table is in the index.
THEOREM SearchMissesNothing == TerminalSpec => []IndexCoversTable
<1>1. TerminalInit => IndexCoversTable
  BY DEF TerminalInit, SearchInit, Init, Empty, IndexCoversTable
<1>2. IndexCoversTable /\ [TerminalNext]_termVars => IndexCoversTable'
  <2> SUFFICES ASSUME IndexCoversTable, [TerminalNext]_termVars PROVE IndexCoversTable'
    OBVIOUS
  <2>1. CASE UNCHANGED <<disk, postings>>
    BY <2>1, IndexUntouched
  <2>2. CASE UNCHANGED termVars
    BY <2>1, <2>2 DEF termVars, searchVars, vars, dbVars
  <2>3. CASE Start
    BY <2>1, <2>3 DEF Start, Restart
  <2>4. CASE Subscribe \/ UpdateScreen \/ KeyQuit
    BY <2>1, <2>4 DEF Subscribe, UpdateScreen, KeyQuit, dbVars
  <2>5. CASE KeyClear
    BY <2>1, <2>5 DEF KeyClear, Clear
  <2>6. CASE Deliver(screen) /\ UNCHANGED <<postings, list>>
    BY <2>1, <2>6 DEF Deliver, dbVars
  <2>7. CASE Commit
    BY <2>7, CommitCovers
  <2>8. ASSUME NEW items \in Files, Import(items), UNCHANGED postings PROVE IndexCoversTable'
    <3>1. UNCHANGED disk
      BY <2>8, ImportAdds DEF AddAll
    <3> QED
      BY <2>1, <2>8, <3>1
  <2>9. CASE (DbExecute \/ ClearByApi) /\ UNCHANGED postings
    BY <2>1, <2>9 DEF DbExecute, ClearByApi, Clear
  <2>10. ASSUME NEW f \in Flows, Add(f) \/ PassUnrecorded(f) \/ Respond(f) \/ RespondRaises(f) \/ Fail(f), UNCHANGED postings
         PROVE  IndexCoversTable'
    BY <2>1, <2>10 DEF Add, PassUnrecorded, Respond, RespondRaises, Fail, dbVars
  <2> QED
    BY <2>2, <2>3, <2>4, <2>5, <2>6, <2>7, <2>8, <2>9, <2>10 DEF TerminalNext, SearchNext
<1> QED
  BY <1>1, <1>2, PTL DEF TerminalSpec

LEMMA OneTerm ==
    ASSUME TerminalTypeOK, IndexInv, IndexCoversTable, HasDb, IdsAreOwn, NEW f \in Flows,
           NEW kind \in {"request", "response"}
    PROVE  Match(<<kind, f>>) = Having(<<kind, f>>)
<1> DEFINE t == <<kind, f>>
           ids == {i \in {p[1] : p \in postings} : <<i, t>> \in postings}
<1>1. TypeOK /\ postings \subseteq Nat \X AllTerms
  BY DEF TerminalTypeOK
<1>2. \A i \in DOMAIN disk : /\ i \in Nat /\ disk[i].of \in Flows
                             /\ Posted(i, "request", disk[i].of)
                             /\ disk[i].resp => Posted(i, "response", disk[i].of)
                             /\ t \in Terms(disk[i]) <=> disk[i].of = f /\ (kind = "request" \/ disk[i].resp)
  <2>1. \A i \in DOMAIN disk : Postings(i, disk[i]) \subseteq postings
    BY DEF IndexCoversTable
  <2> QED BY <1>1, <2>1, PuttingType, TermsOf DEF Postings, Posted
<1>3. \A i \in ids : i \in Nat /\ Posted(i, kind, f) /\ Posted(i, "request", f)
  BY <1>1 DEF IndexInv, PostingsAreOfRows, Posted
<1>4. \A i \in ids : i = obj[f].id
  BY <1>3 DEF IndexInv, PostingsAreOfRows
<1>5. \A i : Posted(i, kind, f) => i \in ids
  BY DEF Posted
<1>6. Having(t) \subseteq ids
  BY <1>2, <1>5 DEF Having
<1>7. ASSUME NEW i \in ids, i \in DOMAIN disk PROVE i \in Having(t)
  <2>1. disk[i].of = f
    <3>1. disk[i].of \in FlowsOf(i) /\ f \in FlowsOf(i)
      BY <1>2, <1>3, <1>7 DEF FlowsOf, Posted
    <3>2. \E p \in postings : p[1] = i
      BY <1>7
    <3> QED BY <3>1, <3>2 DEF IdsAreOwn
  <2>2. kind = "response" => disk[i].resp
    BY <1>3, <1>7, <2>1 DEF IndexInv, PostingsAreOfRows
  <2> QED BY <1>2, <1>7, <2>1, <2>2 DEF Having
<1>8. Match(t) = IF ids \subseteq DOMAIN disk THEN ids ELSE {}
  BY DEF Match
<1> SUFFICES Match(t) = Having(t)
  OBVIOUS
<1> HIDE DEF ids, t
<1>9. CASE ids \subseteq DOMAIN disk
  BY <1>6, <1>7, <1>8, <1>9
<1>10. CASE ~(ids \subseteq DOMAIN disk)
  <2>1. Having(t) \subseteq DOMAIN disk
    BY DEF Having
  <2> QED BY <1>4, <1>6, <1>8, <1>10, <2>1
<1> QED BY <1>9, <1>10

LEMMA HostTerm ==
    ASSUME TerminalTypeOK, IndexInv, IndexCoversTable
    PROVE  Match(<<"host", "all">>) = Having(<<"host", "all">>)
<1> DEFINE t == <<"host", "all">>
           ids == {i \in {p[1] : p \in postings} : <<i, t>> \in postings}
<1>1. \A i \in ids : i \in DOMAIN disk
  BY DEF TerminalTypeOK, IndexInv, PostingsAreOfRows, Posted
<1>2. \A i \in DOMAIN disk : t \in Terms(disk[i]) /\ <<i, t>> \in postings
  BY TermsOf DEF IndexCoversTable, Postings
<1>3. \A i \in DOMAIN disk : i \in ids
  <2>1. \A i : <<i, t>> \in postings => <<i, t>>[1] \in {p[1] : p \in postings}
    OBVIOUS
  <2>2. \A i : <<i, t>>[1] = i
    OBVIOUS
  <2> QED BY <1>2, <2>1, <2>2
<1>4. ids = DOMAIN disk
  BY <1>1, <1>3
<1> QED BY <1>2, <1>4 DEF Match, Having

\* A search returns the rows that have the term, all of them and no others,
\* while no id was given to two flows.
THEOREM SearchFindsTheRows == TerminalSpec => []SearchIsExact
<1>1. TerminalInit => IndexInv
  <2> SUFFICES ASSUME TerminalInit PROVE IndexInv
    OBVIOUS
  <2>1. postings = {} /\ saving = <<>> /\ dbq = <<>>
    BY DEF TerminalInit, SearchInit, Init
  <2>2. PostingsAreOfRows
    BY <2>1 DEF PostingsAreOfRows, Posted
  <2>3. WritesAreOfFlows
    BY <2>1 DEF WritesAreOfFlows, Putting
  <2> QED BY <2>2, <2>3 DEF IndexInv
<1>2. TerminalTypeOK /\ IndexInv /\ IndexCoversTable => SearchIsExact
  <2> SUFFICES ASSUME TerminalTypeOK, IndexInv, IndexCoversTable, HasDb, IdsAreOwn, NEW t \in AllTerms
               PROVE  Match(t) = Having(t)
    BY DEF SearchIsExact, Found
  <2>1. CASE t = <<"host", "all">>
    BY <2>1, HostTerm
  <2>2. CASE \E kind \in {"request", "response"}, f \in Flows : t = <<kind, f>>
    BY <2>2, OneTerm
  <2> QED BY <2>1, <2>2 DEF AllTerms
<1> QED BY <1>1, <1>2, IndexStep, TerminalTypeCorrect, SearchMissesNothing, PTL DEF TerminalSpec
===============================================================================

------------------------------- MODULE Search -------------------------------
(* Full-text search over the table of TrafficStore (store/fts.py, the search *)
(* of db.py, GET /api/search and the search page), and the importers, which  *)
(* add a whole file of entries in one step (exporter/importer.py).           *)
(*                                                                           *)
(* The index is an FTS5 table whose content is the table entries, kept up by *)
(* triggers.  A row is always written with INSERT OR REPLACE, and SQLite     *)
(* fires no delete trigger for the row that gives way: its postings stay.    *)
EXTENDS TrafficStore

CONSTANT Files   \* what may be imported: sequences of items

\* An item of a file: whole, without some of its fields, or not an object.
Items == [of : Flows, kind : {"whole", "partial", "other"}]
Item(f, kind) == [of |-> f, kind |-> kind]

ASSUME FilesAssumption == Files \subseteq Seq(Items)

VARIABLE postings    \* entries_fts: pairs of an id and a term
searchVars == <<vars, postings>>

\* The terms of a row: one that all hosts share, one of its request and one of
\* its response.
Terms(row) ==
  {<<"host", "all">>, <<"request", row.of>>} \cup (IF row.resp THEN {<<"response", row.of>>} ELSE {})
AllTerms == {<<"host", "all">>} \cup ({"request", "response"} \X Flows)

Postings(i, row) == {<<i, t>> : t \in Terms(row)}

-----------------------------------------------------------------------------
(* The triggers, in the transaction of the statement that is committed.    *)

\* Mutated: an id that has postings keeps them.
IndexPutOnce(i, row) ==
  IF \E p \in postings : p[1] = i THEN postings ELSE postings \cup Postings(i, row)

\* entries_fts_insert: the new row is added, what the id had before stays.
IndexPut(i, row) == postings \cup Postings(i, row)

\* Mutated: there is no delete trigger.
IndexClearNothing == postings

\* entries_fts_delete: for every row, the terms it has now.
IndexClear == postings \ UNION {Postings(i, disk[i]) : i \in DOMAIN disk}

Commit ==
  /\ DbCommit
  /\ postings' = IF saving[1].kind = "put" THEN IndexPut(saving[1].id, saving[1].row) ELSE IndexClear

-----------------------------------------------------------------------------
(* Importers                                                               *)

\* _har_entry_to_entry() raises for a header without a name, say.
HarItems(items) == {k \in DOMAIN items : items[k].kind = "whole"}

\* _json_to_entry() has a default for every field.
JsonItems(items) == {k \in DOMAIN items : items[k].kind \in {"whole", "partial"}}

\* Every item that can be read becomes an entry with its response and is added.
AddAll(puts) ==
  LET new   == {puts[k] : k \in DOMAIN puts}
      id(f) == counter + (CHOOSE k \in DOMAIN puts : puts[k] = f)
      ids   == {id(f) : f \in new}
  IN /\ \A f \in new : stage[f] = "idle"
     /\ Idle(dbq)
     /\ stage' = [f \in Flows |-> IF f \in new THEN "done" ELSE stage[f]]
     /\ counter' = counter + Len(puts)
     /\ obj' = [f \in Flows |-> IF f \in new THEN [obj[f] EXCEPT !.id = id(f), !.resp = TRUE] ELSE obj[f]]
     /\ entries' = entries \o puts
     /\ byId' = [i \in DOMAIN byId \cup ids |-> IF i \in ids THEN puts[i - counter] ELSE byId[i]]
     /\ callbacks' = [s \in Pages |-> IF s \in subs THEN callbacks[s] \o puts ELSE callbacks[s]]
     /\ dbq' = IF HasDb THEN dbq \o [k \in DOMAIN puts |-> Put(puts[k])] ELSE dbq
     /\ UNCHANGED <<half, session, saving, disk, subs, away, subq, rows, lost>>

\* An item that cannot be read is skipped; the others are added in their order.
AddRead(items, read) ==
  \E e \in [1 .. Cardinality(read) -> read] :
    /\ \A m, n \in 1 .. Cardinality(read) : m < n => e[m] < e[n]
    /\ AddAll([n \in 1 .. Cardinality(read) |-> items[e[n]].of])
ImportHar(items)  == AddRead(items, HarItems(items))
ImportJson(items) == AddRead(items, JsonItems(items))

\* The upload and the text field of the import page, and two endpoints; the
\* form of what they are given decides which importer reads it.
Import(items) == ImportHar(items) \/ ImportJson(items)

SearchInit == Init /\ postings = {}

\* What happens while the program runs, whatever shows it.
SearchNext ==
  \/ Commit
  \/ (\E items \in Files : Import(items)) /\ UNCHANGED postings
  \/ /\ DbExecute \/ ClearByApi \/ \E f \in Flows :
        Add(f) \/ PassUnrecorded(f) \/ Respond(f) \/ RespondRaises(f) \/ Fail(f)
     /\ UNCHANGED postings

-----------------------------------------------------------------------------
(* Queries                                                                 *)

\* MATCH reads the postings and takes the snippets from the rows: with the
\* posting of a row that is gone SQLite reports a malformed database, and
\* search() returns nothing.
Match(t) ==
  LET ids == {i \in {p[1] : p \in postings} : <<i, t>> \in postings}
  IN IF ids \subseteq DOMAIN disk THEN ids ELSE {}

\* Filter(search): host and path of the entries in memory.
MatchInMemory(t) ==
  {obj[entries[k]].id : k \in {k \in DOMAIN entries : t[1] # "response" /\ t \in Terms(RowOf(entries[k]))}}

\* GET /api/search and the search page (their limit of 50 rows is left out).
Found(t) == IF HasDb THEN Match(t) ELSE MatchInMemory(t)

Having(t) == {i \in DOMAIN disk : t \in Terms(disk[i])}

(* Every term of every row in the table is in the index, whatever replaced *)
(* and cleared the rows, and over restarts.                                *)
IndexCoversTable == \A i \in DOMAIN disk : Postings(i, disk[i]) \subseteq postings

(* A search returns the rows of the table that have the term, all of them  *)
(* and no others, unless an id was given to two flows: 0 to the requests   *)
(* out of scope, and after a restart, when ids start at 1 again, those of  *)
(* the rows that are overwritten.                                          *)
FlowsOf(i) == {f \in Flows : <<i, <<"request", f>>>> \in postings}
IdsAreOwn  == \A p \in postings : \A f, g \in FlowsOf(p[1]) : f = g
SearchIsExact == (HasDb /\ IdsAreOwn) => \A t \in AllTerms : Found(t) = Having(t)
=============================================================================

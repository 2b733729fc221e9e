------------------------------ MODULE Terminal ------------------------------
(* The program in a terminal (main.py run_cui, ui/cui.py): the store with its  *)
(* table and index (Search), and one subscriber, the screen.  Two loops run    *)
(* beside the proxy and the REST interface: one takes a notification off the   *)
(* queue every quarter of a second, one waits for keys.                        *)
EXTENDS Search

CONSTANT screen    \* the subscriber

ASSUME TerminalAssumption == screen \in Pages

VARIABLE list      \* the rows of the screen, the newest first (200 are drawn)
termVars == <<searchVars, list>>

TerminalInit == SearchInit /\ list = <<>>

\* The start: _init_db(), then the screen subscribes, before the proxy takes
\* its first connection.
Started == screen \in subs

Start ==
  /\ Restart
  /\ list' = <<>>
  /\ UNCHANGED postings

\* run_cui() up to its loops.
Subscribe ==
  /\ ~Started
  /\ away = {}
  /\ subs' = {screen}
  /\ UNCHANGED <<memVars, session, dbVars, away, callbacks, subq, rows, lost, postings, list>>

\* _updater(): every notification is a row of its own, an entry's response too.
UpdateScreen ==
  /\ Started
  /\ subq[screen] # <<>>
  /\ list' = <<Head(subq[screen])>> \o list
  /\ subq' = [subq EXCEPT ![screen] = Tail(@)]
  /\ UNCHANGED <<memVars, session, dbVars, subs, away, callbacks, rows, lost, postings>>

\* Mutated: the key c empties the screen only.
KeyClearScreen ==
  /\ Started /\ Idle(dbq)
  /\ list' = <<>>
  /\ UNCHANGED searchVars

\* The key c: the store and the rows, not the queue.
KeyClear ==
  /\ Started /\ Idle(dbq)
  /\ Clear
  /\ list' = <<>>
  /\ UNCHANGED <<rows, lost, postings>>

\* q, Q and Ctrl-C end both loops; the proxy and the REST interface go on, for
\* gather() waits for all three.  The queue is given back; away notes the end.
KeyQuit ==
  /\ Started
  /\ subs' = {} /\ away' = {screen}
  /\ list' = <<>>
  /\ callbacks' = [callbacks EXCEPT ![screen] = <<>>]
  /\ subq' = [subq EXCEPT ![screen] = <<>>]
  /\ UNCHANGED <<memVars, session, dbVars, rows, lost, postings>>

TerminalNext ==
  \/ Start \/ Subscribe \/ UpdateScreen \/ KeyClear \/ KeyQuit
  \/ (Started \/ away # {}) /\ SearchNext /\ UNCHANGED list
  \/ Deliver(screen) /\ UNCHANGED <<postings, list>>

\* The loop runs what is scheduled on it, and the database answers.
TerminalSpec ==
  /\ TerminalInit /\ [][TerminalNext]_termVars
  /\ WF_termVars(DbExecute /\ UNCHANGED <<postings, list>>)
  /\ WF_termVars(Commit /\ UNCHANGED list)

-----------------------------------------------------------------------------
(* Every entry of the list is a row of the screen, unless its notification *)
(* is under way or was lost to a full queue: whatever was added, imported  *)
(* and cleared, by keys or over REST.                                      *)
Elements(s) == {s[k] : k \in DOMAIN s}
TerminalShowsListed ==
  Started =>
    Elements(entries) \subseteq
      Elements(list) \cup Elements(subq[screen]) \cup Elements(callbacks[screen]) \cup lost[screen]
=============================================================================

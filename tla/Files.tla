------------------------------- MODULE Files --------------------------------
(* What the program keeps in files it writes itself: the sessions            *)
(* (session/manager.py, edited on ui/session_tab.py and from the traffic     *)
(* page) and the certificate and key of the CA (cert/ca.py).  Both are       *)
(* written in place: the file is emptied before the new content is there,    *)
(* and the program may be killed in between, or between two files.           *)
EXTENDS Integers

CONSTANTS
  Pages,     \* browser tabs
  Flows,     \* ids of entries
  Hosts,     \* hosts that clients connect to over TLS
  MaxEdits   \* bound: steps taken in a run of the model

VARIABLES
  up,         \* the program runs
  loaded,     \* get_session_manager() has made its manager
  sessions,   \* SessionManager._sessions: the entries of each session
  active,     \* SessionManager._active_id, 0 for None
  lastId,     \* the id given last (they are random, and distinct)
  disk,       \* the sessions directory: the entries in each file, or Torn
  rows,       \* rows[p]: the sessions that tab p lists, {} while it does not
  onPage,     \* the tabs that show the sessions page
  caFile,     \* the two files of the CA: the key pair each belongs to
  ca,         \* the CA in use
  serial,     \* the key pair generated last
  mixed,      \* history: killed after the new certificate, before the new key
  leaf,       \* CA._cache: the CA that signed the certificate of each host
  edits
sessionVars == <<loaded, sessions, active, lastId, disk, rows, onPage>>
caVars      == <<caFile, ca, serial, mixed, leaf>>
filesVars   == <<up, sessionVars, caVars, edits>>

Torn   == {-1}      \* a file that is not JSON
Empty  == [i \in {} |-> i]
Absent == 0
Cut    == -1        \* a file that is not PEM

\* f with v at i, and f without i.
Put(f, i, v) == [k \in DOMAIN f \cup {i} |-> IF k = i THEN v ELSE f[k]]
Without(f, i) == [k \in DOMAIN f \ {i} |-> f[k]]

Edit == edits < MaxEdits /\ edits' = edits + 1

Init ==
  /\ up = FALSE /\ edits = 0
  /\ loaded = FALSE /\ sessions = Empty /\ active = 0 /\ lastId = 0 /\ disk = Empty
  /\ rows = [p \in Pages |-> {}] /\ onPage = {}
  /\ caFile = [cert |-> Absent, key |-> Absent] /\ ca = caFile
  /\ serial = 0 /\ mixed = FALSE /\ leaf = Empty

-----------------------------------------------------------------------------
(* Start and end of the program                                            *)

\* The manager and the tabs of the last run are gone.
Forget ==
  /\ loaded' = FALSE /\ sessions' = Empty /\ active' = 0
  /\ rows' = [p \in Pages |-> {}] /\ onPage' = {}
  /\ leaf' = Empty
  /\ UNCHANGED <<lastId, disk>>

BothThere == caFile.cert # Absent /\ caFile.key # Absent

\* load_or_create() with both files there: no check that they belong together.
LoadCA ==
  /\ BothThere /\ caFile.cert # Cut /\ caFile.key # Cut
  /\ ca' = caFile /\ up' = TRUE
  /\ UNCHANGED <<caFile, serial, mixed>>

\* _load() raises: there is no program, now and until the files are removed.
LoadFails ==
  /\ BothThere /\ (caFile.cert = Cut \/ caFile.key = Cut)
  /\ up' = FALSE
  /\ UNCHANGED <<caFile, ca, serial, mixed>>

\* Mutated: a certificate that is there is kept.
GenerateCAKeeping ==
  /\ ~BothThere
  /\ serial' = serial + 1
  /\ caFile' = [cert |-> IF caFile.cert = Absent THEN serial' ELSE caFile.cert, key |-> serial']
  /\ ca' = caFile' /\ up' = TRUE /\ mixed' = FALSE

\* _generate(): the certificate is written, then the key.
GenerateCA ==
  /\ ~BothThere
  /\ serial' = serial + 1
  /\ \/ /\ caFile' = [cert |-> serial', key |-> serial']
        /\ ca' = caFile' /\ up' = TRUE /\ mixed' = FALSE
     \/ /\ caFile' \in {[caFile EXCEPT !.cert = Cut], [caFile EXCEPT !.cert = serial'],
                        [cert |-> serial', key |-> Cut]}
        /\ mixed' = (caFile'.cert = serial' /\ caFile'.key \notin {Absent, Cut})
        /\ up' = FALSE /\ UNCHANGED ca

Start ==
  /\ Edit /\ ~up
  /\ Forget
  /\ LoadCA \/ GenerateCA \/ LoadFails

\* The program ends while it writes no file.
Stop ==
  /\ Edit /\ up
  /\ up' = FALSE
  /\ UNCHANGED <<sessionVars, caVars>>

\* A user removes one of the two files, to have a new CA made.
RemoveFile ==
  /\ Edit /\ ~up
  /\ \E f \in {"cert", "key"} : caFile[f] # Absent /\ caFile' = [caFile EXCEPT ![f] = Absent]
  /\ UNCHANGED <<up, sessionVars, ca, serial, mixed, leaf>>

\* ssl_context_for(): a certificate for the host, or the one made before, which
\* is never dropped.
Serve(h) ==
  /\ Edit /\ up
  /\ h \notin DOMAIN leaf
  /\ leaf' = Put(leaf, h, ca)
  /\ UNCHANGED <<up, sessionVars, caFile, ca, serial, mixed>>

-----------------------------------------------------------------------------
(* Sessions                                                                *)

\* get_session_manager(): a new manager loads every file it can read.
Readable == {i \in DOMAIN disk : disk[i] # Torn}
Manager  == IF loaded THEN sessions ELSE [i \in Readable |-> disk[i]]

\* Mutated: the session is saved before it is changed.
SaveBefore(i, whole) ==
  /\ up' = whole
  /\ disk' = Put(disk, i, IF ~whole THEN Torn ELSE IF i \in DOMAIN sessions THEN sessions[i] ELSE {})

\* _save(): the program may be killed while the file is empty.
Save(i, whole) ==
  /\ up' = whole
  /\ disk' = Put(disk, i, IF whole THEN sessions'[i] ELSE Torn)

Refresh(p, now) == rows' = [rows EXCEPT ![p] = DOMAIN now]

OpenSessions(p) ==
  /\ Edit /\ up /\ p \notin onPage
  /\ loaded' = TRUE /\ sessions' = Manager
  /\ onPage' = onPage \cup {p} /\ Refresh(p, Manager)
  /\ UNCHANGED <<up, active, lastId, disk, caVars>>

CreateSession(p, whole) ==
  /\ Edit /\ up /\ p \in onPage
  /\ lastId' = lastId + 1
  /\ sessions' = Put(sessions, lastId', {})
  /\ Save(lastId', whole) /\ Refresh(p, sessions')
  /\ UNCHANGED <<loaded, active, onPage, caVars>>

\* The button in the row of i, which another tab may have deleted already: the
\* session goes, then its file.
DeleteSession(p, i, whole) ==
  /\ Edit /\ up /\ i \in rows[p]
  /\ sessions' = Without(sessions, i)
  /\ active' = IF active = i THEN 0 ELSE active
  /\ up' = whole
  /\ disk' = IF whole THEN Without(disk, i) ELSE disk
  /\ Refresh(p, sessions')
  /\ UNCHANGED <<loaded, lastId, onPage, caVars>>

\* The other button of the row: nobody looks whether the session still exists.
SetActive(p, i) ==
  /\ Edit /\ up /\ i \in rows[p]
  /\ active' = IF active = i THEN 0 ELSE i
  /\ Refresh(p, sessions)
  /\ UNCHANGED <<up, loaded, sessions, lastId, disk, onPage, caVars>>

\* "Add to Session" in the menu of a traffic row: the active session, if there
\* is one and it does not have the entry, gets it and is saved.
AddToSession(f, whole) ==
  /\ Edit /\ up
  /\ loaded' = TRUE
  /\ IF active \in DOMAIN Manager /\ f \notin Manager[active]
     THEN /\ sessions' = [Manager EXCEPT ![active] = @ \cup {f}]
          /\ Save(active, whole)
     ELSE whole /\ sessions' = Manager /\ UNCHANGED <<up, disk>>
  /\ UNCHANGED <<active, lastId, rows, onPage, caVars>>

-----------------------------------------------------------------------------
Change ==
  \/ Stop \/ RemoveFile
  \/ \E h \in Hosts : Serve(h)
  \/ \E p \in Pages : OpenSessions(p)
  \/ \E p \in Pages, whole \in BOOLEAN : CreateSession(p, whole)
  \/ \E p \in Pages : \E i \in rows[p] : SetActive(p, i) \/ \E whole \in BOOLEAN : DeleteSession(p, i, whole)
  \/ \E f \in Flows, whole \in BOOLEAN : AddToSession(f, whole)

Next == Start \/ Change

Spec == Init /\ [][Next]_filesVars

-----------------------------------------------------------------------------
(* While the program runs every session it has is in its file as it is in  *)
(* memory, and no file brings back another one at the next start: whatever *)
(* stale rows were clicked, and whichever save the program was killed in.  *)
SessionsAreSaved ==
  (up /\ loaded) =>
    /\ \A i \in DOMAIN sessions : i \in DOMAIN disk /\ disk[i] = sessions[i]
    /\ \A i \in Readable : i \in DOMAIN sessions

(* A host's certificate is signed with the key of the CA certificate that  *)
(* clients were given, unless the program was killed after it had written  *)
(* a new certificate next to the key of the one a user had removed.        *)
LeavesVerify == \A h \in DOMAIN leaf : mixed \/ leaf[h].key = leaf[h].cert
=============================================================================

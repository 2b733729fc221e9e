--------------------------- MODULE Program_proofs ---------------------------
(* What the program keeps, over ends, kills and starts, and what the        *)
(* settings may do, for any number of tabs, sessions, hosts and patterns.   *)
EXTENDS Program, Integers, TLAPS, WellFoundedInduction

(***************************************************************************)
(* Sessions                                                                *)
(***************************************************************************)

\* Files that Settings does not touch, and steps that leave the sessions alone.
LEMMA SessionsUntouched ==
  ASSUME SessionsAreSaved, UNCHANGED <<up, loaded, sessions, disk>>
  PROVE  SessionsAreSaved'
BY DEF SessionsAreSaved, F!SessionsAreSaved, F!Readable

\* A session that is put into memory and into its file.
LEMMA SavedTogether ==
  ASSUME NEW m, NEW i, NEW whole \in BOOLEAN, NEW v,
         \A k \in DOMAIN m : k \in DOMAIN disk /\ disk[k] = m[k],
         \A k \in F!Readable : k \in DOMAIN m,
         sessions' = F!Put(m, i, v), F!Save(i, whole)
  PROVE  SessionsAreSaved'
<1>1. CASE ~whole
  BY <1>1 DEF F!Save, SessionsAreSaved, F!SessionsAreSaved
<1>2. CASE whole
  <2>1. sessions'[i] = v /\ DOMAIN sessions' = DOMAIN m \cup {i}
    BY DEF F!Put
  <2>2. disk' = F!Put(disk, i, v)
    BY <1>2, <2>1 DEF F!Save
  <2>3. \A k \in DOMAIN sessions' : k \in DOMAIN disk' /\ disk'[k] = sessions'[k]
    BY <2>2 DEF F!Put
  <2>4. \A k \in DOMAIN disk' : disk'[k] # F!Torn => k \in DOMAIN sessions'
    BY <2>1, <2>2 DEF F!Put, F!Readable
  <2> QED
    BY <2>3, <2>4 DEF SessionsAreSaved, F!SessionsAreSaved, F!Readable
<1> QED
  BY <1>1, <1>2

\* What get_session_manager() answers agrees with the files.
LEMMA ManagerIsSaved ==
  ASSUME SessionsAreSaved, up
  PROVE  /\ \A k \in DOMAIN F!Manager : k \in DOMAIN disk /\ disk[k] = F!Manager[k]
         /\ \A k \in F!Readable : k \in DOMAIN F!Manager
BY DEF SessionsAreSaved, F!SessionsAreSaved, F!Manager, F!Readable

\* While the program runs every session is in its file as it is in memory,
\* whatever stale rows were clicked and whichever save it was killed in.
THEOREM SessionsStaySaved == Spec => []SessionsAreSaved
<1>1. Init => SessionsAreSaved
  BY DEF Init, F!Init, SessionsAreSaved, F!SessionsAreSaved
<1>2. SessionsAreSaved /\ [Next]_vars => SessionsAreSaved'
  <2> SUFFICES ASSUME SessionsAreSaved, [Next]_vars PROVE SessionsAreSaved'
    OBVIOUS
  <2>1. CASE UNCHANGED vars
    BY <2>1, SessionsUntouched DEF vars, filesVars
  <2>2. CASE Start
    BY <2>2 DEF Start, F!Start, F!Forget, SessionsAreSaved, F!SessionsAreSaved
  <2>3. CASE ChangeSettings
    BY <2>3, SessionsUntouched DEF ChangeSettings, filesVars
  <2>4. CASE F!Stop \/ F!RemoveFile \/ \E h \in Hosts : F!Serve(h)
    <3>1. CASE F!Stop
      BY <3>1 DEF F!Stop, SessionsAreSaved, F!SessionsAreSaved
    <3>2. CASE F!RemoveFile
      BY <3>2, SessionsUntouched DEF F!RemoveFile, F!sessionVars
    <3>3. CASE \E h \in Hosts : F!Serve(h)
      BY <3>3, SessionsUntouched DEF F!Serve, F!sessionVars
    <3> QED
      BY <2>4, <3>1, <3>2, <3>3
  <2>5. ASSUME NEW p \in Pages, F!OpenSessions(p) PROVE SessionsAreSaved'
    BY <2>5, ManagerIsSaved DEF F!OpenSessions, SessionsAreSaved, F!SessionsAreSaved, F!Readable
  <2>6. ASSUME NEW p \in Pages, NEW whole \in BOOLEAN, F!CreateSession(p, whole)
        PROVE  SessionsAreSaved'
    <3>1. CASE loaded
      <4>1. /\ \A k \in DOMAIN sessions : k \in DOMAIN disk /\ disk[k] = sessions[k]
            /\ \A k \in F!Readable : k \in DOMAIN sessions
        BY <2>6, <3>1 DEF F!CreateSession, SessionsAreSaved, F!SessionsAreSaved
      <4> QED
        BY <2>6, <4>1, SavedTogether DEF F!CreateSession
    <3>2. CASE ~loaded
      BY <2>6, <3>2 DEF F!CreateSession, SessionsAreSaved, F!SessionsAreSaved
    <3> QED
      BY <3>1, <3>2
  <2>7. ASSUME NEW p \in Pages, NEW i \in rows[p], F!SetActive(p, i) PROVE SessionsAreSaved'
    BY <2>7, SessionsUntouched DEF F!SetActive
  <2>8. ASSUME NEW p \in Pages, NEW i \in rows[p], NEW whole \in BOOLEAN, F!DeleteSession(p, i, whole)
        PROVE  SessionsAreSaved'
    <3>1. CASE ~whole
      BY <2>8, <3>1 DEF F!DeleteSession, SessionsAreSaved, F!SessionsAreSaved
    <3>2. CASE whole
      BY <2>8, <3>2 DEF F!DeleteSession, F!Without, SessionsAreSaved, F!SessionsAreSaved, F!Readable
    <3> QED
      BY <3>1, <3>2
  <2>9. ASSUME NEW f \in Flows, NEW whole \in BOOLEAN, F!AddToSession(f, whole)
        PROVE  SessionsAreSaved'
    <3> DEFINE m == F!Manager
    <3>1. up
      BY <2>9 DEF F!AddToSession
    <3>2. /\ \A k \in DOMAIN m : k \in DOMAIN disk /\ disk[k] = m[k]
          /\ \A k \in F!Readable : k \in DOMAIN m
      BY <3>1, ManagerIsSaved
    <3>3. CASE active \in DOMAIN m /\ f \notin m[active]
      <4>1. sessions' = [m EXCEPT ![active] = @ \cup {f}] /\ F!Save(active, whole)
        BY <2>9, <3>3 DEF F!AddToSession
      <4> HIDE DEF m
      <4>2. DOMAIN m \cup {active} = DOMAIN m
        BY <3>3
      <4>3. sessions' = F!Put(m, active, m[active] \cup {f})
        BY <4>1, <4>2 DEF F!Put
      <4> QED
        BY <3>2, <4>1, <4>3, SavedTogether
    <3>4. CASE ~(active \in DOMAIN m /\ f \notin m[active])
      <4>1. sessions' = m /\ UNCHANGED <<up, disk>>
        BY <2>9, <3>4 DEF F!AddToSession
      <4> HIDE DEF m
      <4> QED
        BY <3>2, <4>1 DEF SessionsAreSaved, F!SessionsAreSaved, F!Readable
    <3> QED
      BY <3>3, <3>4
  <2> QED
    BY <2>1, <2>2, <2>3, <2>4, <2>5, <2>6, <2>7, <2>8, <2>9 DEF Next, ChangeFiles, F!Change
<1> QED
  BY <1>1, <1>2, PTL DEF Spec

(***************************************************************************)
(* The CA                                                                  *)
(***************************************************************************)

CAType == /\ serial \in Nat
          /\ caFile \in [cert : Int, key : Int]

\* Certificate and key of a pair that can be loaded belong together, and so
\* do those in use, unless the program was killed between the two writes.
Readable(c) == c.cert \notin {F!Absent, F!Cut} /\ c.key \notin {F!Absent, F!Cut}
PairsMatch ==
  /\ Readable(caFile) => mixed \/ caFile.key = caFile.cert
  /\ up => mixed \/ ca.key = ca.cert

CAInv == CAType /\ PairsMatch /\ LeavesVerify

LEMMA CAUntouched ==
  ASSUME CAInv, UNCHANGED <<caFile, ca, serial, mixed, leaf>>, up' => up
  PROVE  CAInv'
BY DEF CAInv, CAType, PairsMatch, Readable, LeavesVerify, F!LeavesVerify

LEMMA CAStart == ASSUME CAInv, F!Start PROVE CAInv'
<1>1. leaf' = F!Empty
  BY DEF F!Start, F!Forget
<1>2. LeavesVerify'
  BY <1>1 DEF LeavesVerify, F!LeavesVerify, F!Empty
<1>3. CASE F!LoadCA
  <2>1. ca' = caFile /\ caFile' = caFile /\ mixed' = mixed /\ serial' = serial /\ Readable(caFile)
    BY <1>3 DEF F!LoadCA, F!BothThere, Readable
  <2> QED
    BY <1>2, <2>1 DEF CAInv, CAType, PairsMatch, Readable
<1>4. CASE F!LoadFails
  BY <1>2, <1>4 DEF F!LoadFails, CAInv, CAType, PairsMatch, Readable
<1>5. CASE F!GenerateCA
  <2>1. serial' = serial + 1 /\ serial \in Nat /\ serial' \in Nat /\ serial' # F!Cut
    BY <1>5 DEF F!GenerateCA, CAInv, CAType, F!Cut
  <2>2. CASE /\ caFile' = [cert |-> serial', key |-> serial']
             /\ ca' = caFile' /\ up' = TRUE /\ mixed' = FALSE
    BY <1>2, <2>1, <2>2 DEF CAInv, CAType, PairsMatch
  <2>3. CASE /\ caFile' \in {[caFile EXCEPT !.cert = F!Cut], [caFile EXCEPT !.cert = serial'],
                            [cert |-> serial', key |-> F!Cut]}
             /\ mixed' = (caFile'.cert = serial' /\ caFile'.key \notin {F!Absent, F!Cut})
             /\ up' = FALSE
    <3>1. caFile' \in [cert : Int, key : Int]
      BY <2>1, <2>3 DEF CAInv, CAType, F!Cut
    <3>2. Readable(caFile') => caFile'.cert = serial'
      BY <2>1, <2>3 DEF CAInv, CAType, Readable, F!Cut
    <3>3. Readable(caFile') => mixed'
      BY <2>3, <3>2 DEF Readable
    <3> QED
      BY <1>2, <2>1, <2>3, <3>1, <3>3 DEF CAInv, CAType, PairsMatch, Readable
  <2> QED
    BY <1>5, <2>2, <2>3 DEF F!GenerateCA
<1> QED
  BY <1>3, <1>4, <1>5 DEF F!Start

\* A host's certificate is signed with the key of the certificate that clients
\* were given, unless the program was killed between writing the two.
THEOREM CertificatesVerify == Spec => []LeavesVerify
<1>1. Init => CAInv
  BY DEF Init, F!Init, CAInv, CAType, PairsMatch, Readable, LeavesVerify, F!LeavesVerify,
         F!Absent, F!Cut, F!Empty
<1>2. CAInv /\ [Next]_vars => CAInv'
  <2> SUFFICES ASSUME CAInv, [Next]_vars PROVE CAInv'
    OBVIOUS
  <2>1. CASE UNCHANGED vars
    BY <2>1, CAUntouched DEF vars, filesVars
  <2>2. CASE Start
    BY <2>2, CAStart DEF Start
  <2>3. CASE ChangeSettings
    BY <2>3, CAUntouched DEF ChangeSettings, filesVars
  <2>4. CASE F!Stop
    BY <2>4, CAUntouched DEF F!Stop, F!caVars
  <2>5. CASE F!RemoveFile
    <3>1. PICK w \in {"cert", "key"} : caFile' = [caFile EXCEPT ![w] = F!Absent]
      BY <2>5 DEF F!RemoveFile
    <3>2. UNCHANGED <<up, ca, serial, mixed, leaf>> /\ ~up
      BY <2>5 DEF F!RemoveFile
    <3>3. caFile' \in [cert : Int, key : Int] /\ ~Readable(caFile')
      BY <3>1 DEF CAInv, CAType, Readable, F!Absent
    <3> QED
      BY <3>2, <3>3 DEF CAInv, CAType, PairsMatch, Readable, LeavesVerify, F!LeavesVerify
  <2>6. ASSUME NEW h \in Hosts, F!Serve(h) PROVE CAInv'
    <3>1. leaf' = F!Put(leaf, h, ca) /\ up /\ UNCHANGED <<up, caFile, ca, serial, mixed>>
      BY <2>6 DEF F!Serve
    <3>2. \A k \in DOMAIN leaf' : mixed \/ leaf'[k].key = leaf'[k].cert
      BY <3>1 DEF F!Put, CAInv, PairsMatch, LeavesVerify, F!LeavesVerify
    <3> QED
      BY <3>1, <3>2 DEF CAInv, CAType, PairsMatch, Readable, LeavesVerify, F!LeavesVerify
  <2>7. ASSUME UNCHANGED <<caFile, ca, serial, mixed, leaf>>, up PROVE CAInv'
    BY <2>7, CAUntouched
  <2>8. ASSUME NEW p \in Pages, F!OpenSessions(p) \/ \E whole \in BOOLEAN : F!CreateSession(p, whole)
        PROVE  CAInv'
    BY <2>7, <2>8 DEF F!OpenSessions, F!CreateSession, F!caVars
  <2>9. ASSUME NEW p \in Pages, NEW i \in rows[p],
               F!SetActive(p, i) \/ \E whole \in BOOLEAN : F!DeleteSession(p, i, whole)
        PROVE  CAInv'
    BY <2>7, <2>9 DEF F!SetActive, F!DeleteSession, F!caVars
  <2>10. ASSUME NEW f \in Flows, NEW whole \in BOOLEAN, F!AddToSession(f, whole) PROVE CAInv'
    BY <2>7, <2>10 DEF F!AddToSession, F!caVars
  <2> QED
    BY <2>1, <2>2, <2>3, <2>4, <2>5, <2>6, <2>8, <2>9, <2>10 DEF Next, ChangeFiles, F!Change
<1>3. CAInv => LeavesVerify
  BY DEF CAInv
<1> QED
  BY <1>1, <1>2, <1>3, PTL DEF Spec

(***************************************************************************)
(* The DNS server                                                          *)
(***************************************************************************)

\* The server's dictionary and its protocol's are the same from the moment the
\* protocol is made of it, unless one was set while the socket was awaited.
DnsInv ==
  /\ dns = [own |-> dns.own, proto |-> dns.proto, state |-> dns.state]
  /\ raced \in BOOLEAN
  /\ dns.state \in {"running", "starting"} /\ ~raced => dns.proto = dns.own

LEMMA DnsUntouched == ASSUME DnsInv, UNCHANGED <<dns, raced>> PROVE DnsInv'
BY DEF DnsInv

\* Setting the overrides keeps the two together, or is a race.
LEMMA OverridesAreShared == ASSUME DnsInv, NEW os, S!SetOverrides(os) PROVE DnsInv'
<1>1. dns' = [own |-> os, proto |-> IF dns.state = "running" THEN os ELSE dns.proto, state |-> dns.state]
  BY DEF DnsInv, S!SetOverrides
<1>2. raced' = (raced \/ dns.state = "starting")
  BY DEF S!SetOverrides
<1>3. CASE dns.state = "running"
  BY <1>1, <1>2, <1>3 DEF DnsInv
<1>4. CASE dns.state = "starting"
  <2>1. raced' = TRUE
    BY <1>2, <1>4
  <2> QED
    BY <1>1, <1>4, <2>1 DEF DnsInv
<1>5. CASE dns.state \notin {"running", "starting"}
  <2>1. raced' \in BOOLEAN
    BY <1>2 DEF DnsInv
  <2> QED
    BY <1>1, <1>5, <2>1 DEF DnsInv
<1> QED
  BY <1>3, <1>4, <1>5

\* A running DNS server answers from what was set last, by whichever tab, unless
\* it was set while the server was starting.
THEOREM DnsAnswersAsSet == Spec => []OverridesInForce
<1>1. Init => DnsInv
  <2> SUFFICES ASSUME Init PROVE DnsInv
    OBVIOUS
  <2>1. dns = [own |-> S!None, proto |-> S!None, state |-> "stopped"]
    BY DEF Init, S!Init, S!FreshDns
  <2>2. raced \in BOOLEAN
    BY DEF Init, S!Init
  <2>3. dns = [own |-> dns.own, proto |-> dns.proto, state |-> dns.state] /\ dns.proto = dns.own
    BY <2>1
  <2> QED
    BY <2>2, <2>3 DEF DnsInv
<1>2. DnsInv /\ [Next]_vars => DnsInv'
  <2> SUFFICES ASSUME DnsInv, [Next]_vars PROVE DnsInv'
    OBVIOUS
  <2>1. CASE UNCHANGED vars \/ ChangeFiles
    BY <2>1, DnsUntouched DEF vars, settingsVars, ChangeFiles
  <2>2. CASE Start
    BY <2>2 DEF Start, S!Restart, S!FreshDns, DnsInv
  <2>3. ASSUME NEW p \in Pages, S!OnPage(p) PROVE DnsInv'
    <3>1. CASE UNCHANGED <<dns, raced>>
      BY <3>1, DnsUntouched
    <3>2. ASSUME NEW d \in Domains, S!RemoveOverride(p, d) \/ \E a \in Addresses : S!AddOverride(p, d, a)
          PROVE  DnsInv'
      <4>1. S!SetOverrides(shown'[p].overrides)
        BY <3>2 DEF S!RemoveOverride, S!AddOverride
      <4> QED
        BY <4>1, OverridesAreShared
    <3>3. CASE S!StartDns(p)
      <4>1. CASE dns.state = "stopped"
        <5>1. dns' = [own |-> shown[p].overrides, proto |-> shown[p].overrides, state |-> "starting"]
          BY <3>3, <4>1 DEF S!StartDns
        <5>2. raced' \in BOOLEAN
          BY <3>3, <4>1 DEF S!StartDns
        <5>3. dns' = [own |-> dns'.own, proto |-> dns'.proto, state |-> dns'.state] /\ dns'.proto = dns'.own
          BY <5>1
        <5> QED
          BY <5>2, <5>3 DEF DnsInv
      <4>2. CASE dns.state # "stopped"
        <5>1. S!SetOverrides(shown[p].overrides)
          BY <3>3, <4>2 DEF S!StartDns
        <5> QED
          BY <5>1, OverridesAreShared
      <4> QED
        BY <4>1, <4>2
    <3> QED
      BY <2>3, <3>1, <3>2, <3>3 DEF S!OnPage, S!OpenSettings, S!SwitchScope, S!AddScope,
         S!RemoveScope, S!AddIgnore, S!RemoveIgnore, S!SavePorts, S!AddCert, S!RemoveCert
  <2>4. ASSUME NEW on, NEW add, NEW remove, S!RestScope(on, add, remove) PROVE DnsInv'
    BY <2>4, DnsUntouched DEF S!RestScope
  <2>5. CASE S!DnsStarted
    <3>1. dns' = [own |-> dns.own, proto |-> dns.proto, state |-> "running"] /\ raced' = raced
      BY <2>5 DEF S!DnsStarted, DnsInv
    <3> QED
      BY <2>5, <3>1 DEF S!DnsStarted, DnsInv
  <2> QED
    BY <2>1, <2>2, <2>3, <2>4, <2>5 DEF Next, ChangeSettings, S!Change
<1>3. DnsInv => OverridesInForce
  BY DEF DnsInv, OverridesInForce, S!OverridesInForce, S!Reply
<1> QED
  BY <1>1, <1>2, <1>3, PTL DEF Spec

(***************************************************************************)
(* Lists                                                                   *)
(***************************************************************************)

\* Induction, stated of a set.
LEMMA SetInduction ==
  ASSUME NEW Q, 0 \in Q, \A n \in Nat : n \in Q => n + 1 \in Q
  PROVE  Nat \subseteq Q
<1> DEFINE T == Nat \ Q
<1> SUFFICES ASSUME T # {} PROVE FALSE
  OBVIOUS
<1>1. PICK n \in T : \A m \in T : ~(<<m, n>> \in OpToRel(<, Nat))
  BY WFMin, NatLessThanWellFounded
<1>2. \A m \in T : ~(m < n)
  BY <1>1 DEF OpToRel
<1>3. n # 0 /\ n - 1 \in Nat /\ n - 1 < n /\ (n - 1) + 1 = n
  OBVIOUS
<1> QED
  BY <1>2, <1>3

LEMMA AppendAdds ==
  ASSUME NEW T, NEW s \in Seq(T), NEW x \in T
  PROVE  S!InSeq(Append(s, x)) = S!InSeq(s) \cup {x}
<1>1. /\ DOMAIN Append(s, x) = DOMAIN s \cup {Len(s) + 1} /\ Append(s, x)[Len(s) + 1] = x
      /\ \A k \in DOMAIN s : Append(s, x)[k] = s[k]
  OBVIOUS
<1> HIDE DEF S!InSeq
<1>2. \A y \in S!InSeq(Append(s, x)) : y \in S!InSeq(s) \cup {x}
  BY <1>1 DEF S!InSeq
<1>3. \A y \in S!InSeq(s) \cup {x} : y \in S!InSeq(Append(s, x))
  BY <1>1 DEF S!InSeq
<1> QED
  BY <1>2, <1>3

\* [y for y in s if y in keep] is a list of those elements of s that are in keep.
LEMMA ThoseAre ==
  ASSUME NEW T, NEW s \in Seq(T), NEW keep
  PROVE  /\ S!Those(s, keep) \in Seq(T)
         /\ S!InSeq(S!Those(s, keep)) = S!InSeq(s) \cap keep
<1> DEFINE Grow(old, n) == IF s[n] \in keep THEN Append(old, s[n]) ELSE old
           Is(f, n) == \A m \in 0 .. n : f[m] = IF m = 0 THEN <<>> ELSE Grow(f[m - 1], m)
           Q == {n \in Nat : n <= Len(s) => \E f \in [0 .. n -> Seq(T)] : Is(f, n)}
<1>1. Len(s) \in Nat /\ \A n \in 1 .. Len(s) : s[n] \in T
  OBVIOUS
<1>2. 0 \in Q
  <2>1. [m \in 0 .. 0 |-> <<>>] \in [0 .. 0 -> Seq(T)]
    OBVIOUS
  <2>2. Is([m \in 0 .. 0 |-> <<>>], 0)
    OBVIOUS
  <2> QED
    BY <2>1, <2>2
<1>3. ASSUME NEW n \in Nat, n \in Q PROVE n + 1 \in Q
  <2> SUFFICES ASSUME n + 1 <= Len(s)
               PROVE  \E f \in [0 .. n + 1 -> Seq(T)] : Is(f, n + 1)
    OBVIOUS
  <2>0. n <= Len(s)
    BY <1>1
  <2>1. PICK f \in [0 .. n -> Seq(T)] : Is(f, n)
    <3> HIDE DEF Is
    <3> QED BY <1>3, <2>0
  <2> DEFINE g == [m \in 0 .. n + 1 |-> IF m = n + 1 THEN Grow(f[n], n + 1) ELSE f[m]]
  <2>2. f[n] \in Seq(T) /\ s[n + 1] \in T
    BY <1>1
  <2>3. Grow(f[n], n + 1) \in Seq(T)
    BY <2>2
  <2> HIDE DEF Grow
  <2>4. g \in [0 .. n + 1 -> Seq(T)]
    BY <2>3
  <2>5. \A m \in 0 .. n : g[m] = f[m]
    OBVIOUS
  <2>6. g[n + 1] = Grow(g[n], n + 1)
    OBVIOUS
  <2>7. Is(g, n + 1)
    <3> SUFFICES ASSUME NEW m \in 0 .. n + 1 
                 PROVE g[m] = IF m = 0 THEN <<>> ELSE Grow(g[m - 1], m)
      OBVIOUS
    <3> HIDE DEF g
    <3>1. CASE m = n + 1
      BY <2>6, <3>1
    <3>2. CASE m = 0
      BY <2>1, <2>5, <3>2
    <3>3. CASE m \in 1 .. n
      <4>1. m - 1 \in 0 .. n /\ m \in 0 .. n /\ m # 0
        BY <3>3
      <4> QED BY <2>1, <2>5, <4>1
    <3> QED BY <3>1, <3>2, <3>3
  <2> HIDE DEF g, Is
  <2> QED
    BY <2>4, <2>7
<1>4. Len(s) \in Q
  <2> HIDE DEF Q
  <2> QED
    BY <1>1, <1>2, <1>3, SetInduction
<1> DEFINE f == CHOOSE f : f = [n \in 0 .. Len(s) |-> IF n = 0 THEN <<>> ELSE Grow(f[n - 1], n)]
<1>5. S!Those(s, keep) = f[Len(s)]
  BY DEF S!Those
<1>6. f \in [0 .. Len(s) -> Seq(T)] /\ Is(f, Len(s))
  <2>1. PICK g \in [0 .. Len(s) -> Seq(T)] : Is(g, Len(s))
    BY <1>1, <1>4
  <2> HIDE DEF Grow
  <2>2. g = [n \in 0 .. Len(s) |-> IF n = 0 THEN <<>> ELSE Grow(g[n - 1], n)]
    BY <2>1
  <2>3. f = [n \in 0 .. Len(s) |-> IF n = 0 THEN <<>> ELSE Grow(f[n - 1], n)]
    BY <2>2
  <2> HIDE DEF f
  <2>4. Is(f, Len(s))
    BY <2>3
  <2>5. \A n \in 0 .. Len(s) : f[n] = g[n]
    <3> DEFINE R == {n \in Nat : n <= Len(s) => f[n] = g[n]}
    <3>1. 0 \in R
      BY <1>1, <2>1, <2>4
    <3>2. ASSUME NEW n \in Nat, n \in R PROVE n + 1 \in R
      <4>1. CASE n + 1 <= Len(s)
        <5>1. f[n] = g[n] /\ n + 1 \in 0 .. Len(s) /\ n + 1 # 0 /\ (n + 1) - 1 = n
          BY <1>1, <3>2, <4>1
        <5>2. f[n + 1] = Grow(f[n], n + 1) /\ g[n + 1] = Grow(g[n], n + 1)
          BY <2>1, <2>4, <5>1
        <5> QED BY <5>1, <5>2
      <4> QED BY <1>1, <4>1
    <3> HIDE DEF R
    <3>3. Nat \subseteq R
      BY <3>1, <3>2, SetInduction
    <3> USE DEF R
    <3> QED BY <1>1, <3>3
  <2>6. f = g
    BY <2>1, <2>3, <2>5
  <2> QED
    BY <2>1, <2>6
<1> HIDE DEF f
<1>7. ASSUME NEW n \in 1 .. Len(s) PROVE f[n] = Grow(f[n - 1], n) /\ f[n - 1] \in Seq(T)
  <2> HIDE DEF Grow
  <2>1. n \in 0 .. Len(s) /\ n - 1 \in 0 .. Len(s) /\ n # 0
    BY <1>1
  <2> QED BY <1>6, <2>1
<1> DEFINE P == {n \in Nat : n <= Len(s) => S!InSeq(f[n]) = {s[k] : k \in 1 .. n} \cap keep}
<1>8. 0 \in P
  <2>1. f[0] = <<>>
    BY <1>1, <1>6
  <2>2. S!InSeq(<<>>) = {} /\ {s[k] : k \in 1 .. 0} = {}
    BY DEF S!InSeq
  <2> QED
    BY <2>1, <2>2
<1>9. ASSUME NEW n \in Nat, n \in P PROVE n + 1 \in P
  <2> SUFFICES ASSUME n + 1 <= Len(s) PROVE S!InSeq(f[n + 1]) = {s[k] : k \in 1 .. n + 1} \cap keep
    OBVIOUS
  <2>1. S!InSeq(f[n]) = {s[k] : k \in 1 .. n} \cap keep
    BY <1>1, <1>9
  <2>2. f[n + 1] = Grow(f[n], n + 1) /\ f[n] \in Seq(T) /\ s[n + 1] \in T
    BY <1>1, <1>7
  <2>3. {s[k] : k \in 1 .. n + 1} = {s[k] : k \in 1 .. n} \cup {s[n + 1]}
    OBVIOUS
  <2>4. S!InSeq(Append(f[n], s[n + 1])) = S!InSeq(f[n]) \cup {s[n + 1]}
    BY <2>2, AppendAdds
  <2> QED
    BY <2>1, <2>2, <2>3, <2>4
<1> HIDE DEF P
<1>10. Nat \subseteq P
  BY <1>8, <1>9, SetInduction
<1>11. S!InSeq(s) = {s[k] : k \in 1 .. Len(s)}
  BY <1>1 DEF S!InSeq
<1>12. S!InSeq(f[Len(s)]) = {s[k] : k \in 1 .. Len(s)} \cap keep
  <2>1. Len(s) \in P
    BY <1>1, <1>10
  <2>2. Len(s) \in P => S!InSeq(f[Len(s)]) = {s[k] : k \in 1 .. Len(s)} \cap keep
    <3> HIDE DEF S!InSeq
    <3> QED BY <1>1 DEF P
  <2> QED BY <2>1, <2>2
<1>13. f[Len(s)] \in Seq(T)
  BY <1>1, <1>6
<1> QED
  BY <1>5, <1>11, <1>12, <1>13

\* list.remove(h) leaves all but h.
LEMMA FirstGoes ==
  ASSUME NEW T, NEW s \in Seq(T), NEW h \in S!InSeq(s)
  PROVE  /\ S!RemoveFirst(s, h) \in Seq(T)
         /\ S!InSeq(S!RemoveFirst(s, h)) \subseteq S!InSeq(s)
         /\ S!InSeq(s) \ {h} \subseteq S!InSeq(S!RemoveFirst(s, h))
<1> DEFINE At == {i \in 1 .. Len(s) : s[i] = h}
<1>1. At # {} /\ At \subseteq 1 .. Len(s) /\ Len(s) \in Nat
  BY DEF S!InSeq
<1>2. PICK k \in At : \A l \in At : ~(<<l, k>> \in OpToRel(<, Nat))
  <2>1. At \subseteq Nat
    BY <1>1
  <2> HIDE DEF At
  <2> QED BY <1>1, <2>1, WFMin, NatLessThanWellFounded
<1>3. \A l \in At : k <= l /\ l \in Nat
  <2>1. \A l \in At : ~(l < k) /\ l \in Nat /\ k \in Nat
    <3>1. At \subseteq Nat
      BY <1>1
    <3> HIDE DEF At
    <3> QED
      BY <1>2, <3>1 DEF OpToRel
  <2> HIDE DEF At
  <2> QED
    BY <2>1
<1>4. k \in 1 .. Len(s) /\ s[k] = h
  BY <1>1
<1>5. S!RemoveFirst(s, h) = S!RemoveAt(s, S!Min(At))
  BY <1>1 DEF S!RemoveFirst, S!SelectInSeq
<1>6. S!Min(At) = k
  <2> HIDE DEF At
  <2>1. S!Min(At) \in At /\ \A l \in At : S!Min(At) <= l
    BY <1>3 DEF S!Min
  <2> QED BY <1>3, <2>1
<1>7. S!RemoveFirst(s, h) = SubSeq(s, 1, k - 1) \o SubSeq(s, k + 1, Len(s))
  BY <1>5, <1>6 DEF S!RemoveAt
<1> DEFINE r == SubSeq(s, 1, k - 1) \o SubSeq(s, k + 1, Len(s))
<1>8. /\ r \in Seq(T) /\ Len(r) = Len(s) - 1
      /\ \A l \in 1 .. k - 1 : r[l] = s[l]
      /\ \A l \in k .. Len(s) - 1 : r[l] = s[l + 1]
  <2>1. SubSeq(s, 1, k - 1) \in Seq(T) /\ SubSeq(s, k + 1, Len(s)) \in Seq(T)
    BY <1>1, <1>4
  <2>2. Len(SubSeq(s, 1, k - 1)) = k - 1 /\ Len(SubSeq(s, k + 1, Len(s))) = Len(s) - k
    BY <1>1, <1>4
  <2>3. /\ \A l \in 1 .. k - 1 : SubSeq(s, 1, k - 1)[l] = s[l]
        /\ \A l \in 1 .. Len(s) - k : SubSeq(s, k + 1, Len(s))[l] = s[l + k]
    BY <1>1, <1>4
  <2> DEFINE a == SubSeq(s, 1, k - 1)
             b == SubSeq(s, k + 1, Len(s))
  <2> HIDE DEF a, b
  <2>4. /\ a \in Seq(T) /\ b \in Seq(T) /\ Len(a) = k - 1 /\ Len(b) = Len(s) - k
        /\ \A l \in 1 .. k - 1 : a[l] = s[l]
        /\ \A l \in 1 .. Len(s) - k : b[l] = s[l + k]
    BY <2>1, <2>2, <2>3 DEF a, b
  <2>5. a \o b \in Seq(T) /\ Len(a \o b) = Len(s) - 1 /\ \A l \in 1 .. k - 1 : (a \o b)[l] = s[l]
    <3>0. a \in Seq(T) /\ b \in Seq(T)
      BY <2>4
    <3>1. a \o b \in Seq(T) /\ Len(a \o b) = Len(a) + Len(b)
      BY <3>0
    <3>2. Len(a) + Len(b) = Len(s) - 1
      BY <1>1, <1>4, <2>4
    <3>3. ASSUME NEW l \in 1 .. k - 1 PROVE (a \o b)[l] = s[l]
      <4>1. l \in 1 .. Len(a) /\ (a \o b)[l] = a[l]
        BY <2>4
      <4> QED BY <2>4, <4>1
    <3> QED BY <3>1, <3>2, <3>3
  <2>6. ASSUME NEW l \in k .. Len(s) - 1 PROVE (a \o b)[l] = s[l + 1]
    <3>1. l - (k - 1) \in 1 .. Len(s) - k /\ (l - (k - 1)) + k = l + 1
      BY <1>1, <1>4
    <3>2. (a \o b)[l] = b[l - (k - 1)]
      BY <1>1, <1>4, <2>4
    <3> QED
      BY <2>4, <3>1, <3>2
  <2> QED
    BY <2>5, <2>6 DEF a, b
<1> HIDE DEF r
<1>9. DOMAIN r = 1 .. Len(s) - 1
  BY <1>8
<1>10. ASSUME NEW y \in S!InSeq(r) PROVE y \in S!InSeq(s)
  <2>1. PICK l \in 1 .. Len(s) - 1 : r[l] = y
    BY <1>9 DEF S!InSeq
  <2>2. l \in 1 .. k - 1 \/ l \in k .. Len(s) - 1
    BY <1>1, <1>4, <2>1
  <2>3. y = s[l] \/ y = s[l + 1]
    BY <1>8, <2>1, <2>2
  <2>4. l \in DOMAIN s /\ l + 1 \in DOMAIN s
    BY <1>1, <2>1
  <2> QED
    BY <2>3, <2>4 DEF S!InSeq
<1>11. ASSUME NEW y \in S!InSeq(s), y # h PROVE y \in S!InSeq(r)
  <2>1. PICK l \in 1 .. Len(s) : s[l] = y
    BY DEF S!InSeq
  <2>2. CASE l < k
    <3>1. l \in 1 .. k - 1 /\ l \in 1 .. Len(s) - 1
      BY <1>1, <1>4, <2>1, <2>2
    <3>2. r[l] = y
      BY <1>8, <2>1, <3>1
    <3> QED
      BY <1>9, <3>1, <3>2 DEF S!InSeq
  <2>3. CASE l > k
    <3>1. l - 1 \in 1 .. Len(s) - 1 /\ l - 1 \in k .. Len(s) - 1 /\ (l - 1) + 1 = l
      BY <1>1, <1>4, <2>1, <2>3
    <3>2. r[l - 1] = y
      BY <1>8, <2>1, <3>1
    <3> QED
      BY <1>9, <3>1, <3>2 DEF S!InSeq
  <2> QED
    BY <1>4, <1>11, <2>1, <2>2, <2>3
<1> QED
  BY <1>7, <1>8, <1>10, <1>11 DEF r

(***************************************************************************)
(* What the settings keep                                                  *)
(***************************************************************************)

Overrides == UNION {[D -> Addresses] : D \in SUBSET Domains}
Tab == [open : BOOLEAN, scope : Seq(Patterns), ignore : Seq(Hosts), certs : Seq(S!Cert),
        overrides : Overrides]

\* Type correctness of the managers, of the proxy's copies and of the rows.
SettingsType ==
  /\ scope \in Seq(Patterns) /\ scopeOn \in BOOLEAN
  /\ cfg \in [ignore : Seq(Hosts), port : Ports]
  /\ proxy \in [ignore : SUBSET Hosts, port : Ports]
  /\ certs \in Seq(S!Cert)
  /\ shown \in [Pages -> Tab]
  /\ dns \in [own : Overrides, proto : Overrides, state : {"stopped", "starting", "running"}]
  /\ raced \in BOOLEAN

LEMMA NoOverrides == S!None \in Overrides
<1>1. S!None \in [{} -> Addresses]
  BY DEF S!None
<1> QED
  BY <1>1 DEF Overrides

\* One more override, and one less.
LEMMA OverridesChange ==
  ASSUME NEW os \in Overrides, NEW d \in Domains, NEW a \in Addresses
  PROVE  /\ [e \in DOMAIN os \cup {d} |-> IF e = d THEN a ELSE os[e]] \in Overrides
         /\ [e \in DOMAIN os \ {d} |-> os[e]] \in Overrides
<1>1. PICK D \in SUBSET Domains : os \in [D -> Addresses]
  BY DEF Overrides
<1>2. [e \in D \cup {d} |-> IF e = d THEN a ELSE os[e]] \in [D \cup {d} -> Addresses]
  BY <1>1
<1>3. [e \in D \ {d} |-> os[e]] \in [D \ {d} -> Addresses]
  BY <1>1
<1>4. D \cup {d} \in SUBSET Domains /\ D \ {d} \in SUBSET Domains /\ DOMAIN os = D
  BY <1>1
<1> HIDE DEF Overrides
<1>5. [e \in D \cup {d} |-> IF e = d THEN a ELSE os[e]] \in Overrides
  BY <1>2, <1>4 DEF Overrides
<1>6. [e \in D \ {d} |-> os[e]] \in Overrides
  BY <1>3, <1>4 DEF Overrides
<1> QED
  BY <1>4, <1>5, <1>6

\* What the program starts with.
LEMMA FreshSettings ==
  ASSUME ConfigFile \in [ignore : Seq(Hosts), port : Ports]
  PROVE  /\ ConfigFile \in [ignore : Seq(Hosts), port : Ports]
         /\ S!FreshProxy \in [ignore : SUBSET Hosts, port : Ports]
         /\ S!Closed \in Tab
         /\ S!FreshDns \in [own : Overrides, proto : Overrides, state : {"stopped", "starting", "running"}]
         /\ <<>> \in Seq(Patterns) /\ <<>> \in Seq(S!Cert)
<1>1. \A k \in DOMAIN ConfigFile.ignore : ConfigFile.ignore[k] \in Hosts
  OBVIOUS
<1>2. S!FreshProxy \in [ignore : SUBSET Hosts, port : Ports]
  BY <1>1 DEF S!FreshProxy, S!InSeq
<1>3. <<>> \in Seq(Patterns) /\ <<>> \in Seq(S!Cert) /\ <<>> \in Seq(Hosts)
  OBVIOUS
<1>4. S!Closed \in Tab
  BY <1>3, NoOverrides DEF S!Closed, Tab
<1>5. S!FreshDns \in [own : Overrides, proto : Overrides, state : {"stopped", "starting", "running"}]
  BY NoOverrides DEF S!FreshDns
<1> QED
  BY <1>2, <1>3, <1>4, <1>5

LEMMA RestartType == ASSUME S!Restart PROVE SettingsType'
BY FreshSettings, ProgramAssumption DEF S!Restart, SettingsType

LEMMA OverridesType ==
  ASSUME SettingsType, NEW os \in Overrides, S!SetOverrides(os)
  PROVE  /\ dns' \in [own : Overrides, proto : Overrides, state : {"stopped", "starting", "running"}]
         /\ raced' \in BOOLEAN
BY DEF SettingsType, S!SetOverrides

\* A step of the settings: one case per operation.
LEMMA PageType ==
  ASSUME SettingsType, NEW p \in Pages, S!OnPage(p)
  PROVE  SettingsType'
<1>0. /\ scope \in Seq(Patterns) /\ scopeOn \in BOOLEAN
      /\ cfg \in [ignore : Seq(Hosts), port : Ports]
      /\ certs \in Seq(S!Cert)
      /\ shown \in [Pages -> Tab] /\ shown[p] \in Tab
  BY DEF SettingsType
<1>1. ASSUME shown' \in [Pages -> Tab], UNCHANGED <<scope, scopeOn, cfg, proxy, certs, dns, raced>>
      PROVE  SettingsType'
  BY <1>1 DEF SettingsType
<1>2. CASE S!OpenSettings(p)
  <2> DEFINE tab == [open |-> TRUE, scope |-> scope, ignore |-> cfg.ignore, certs |-> certs,
                     overrides |-> S!None]
  <2>1. tab \in Tab
    BY <1>0, NoOverrides DEF Tab
  <2>2. shown' = [shown EXCEPT ![p] = tab]
    BY <1>2 DEF S!OpenSettings
  <2> HIDE DEF tab
  <2>3. shown' \in [Pages -> Tab]
    BY <1>0, <2>1, <2>2
  <2> QED
    BY <1>1, <1>2, <2>3 DEF S!OpenSettings
<1>3. ASSUME NEW on \in BOOLEAN, S!SwitchScope(p, on) PROVE SettingsType'
  BY <1>3 DEF S!SwitchScope, SettingsType
<1>4. ASSUME NEW x \in Patterns, S!AddScope(p, x) \/ S!RemoveScope(p, x) PROVE SettingsType'
  <2>1. scope' \in Seq(Patterns)
    <3>1. CASE S!AddScope(p, x)
      BY <1>0, <3>1 DEF S!AddScope, S!AddRule
    <3>2. CASE S!RemoveScope(p, x)
      BY <1>0, <3>2, ThoseAre DEF S!RemoveScope, S!RemoveRule
    <3> QED
      BY <1>4, <3>1, <3>2
  <2>2. shown' = [shown EXCEPT ![p] = [shown[p] EXCEPT !.scope = scope']]
    BY <1>4 DEF S!AddScope, S!RemoveScope, S!DrawScope
  <2>3. [shown[p] EXCEPT !.scope = scope'] \in Tab
    BY <1>0, <2>1 DEF Tab
  <2>4. shown' \in [Pages -> Tab]
    BY <1>0, <2>2, <2>3
  <2>5. UNCHANGED <<scopeOn, cfg, proxy, certs, dns, raced>>
    BY <1>4 DEF S!AddScope, S!RemoveScope
  <2> QED
    BY <2>1, <2>4, <2>5 DEF SettingsType
<1>5. ASSUME NEW h \in Hosts, S!AddIgnore(p, h) \/ S!RemoveIgnore(p, h) PROVE SettingsType'
  <2> DEFINE now == IF h \in S!InSeq(cfg.ignore) THEN S!RemoveFirst(cfg.ignore, h) ELSE Append(cfg.ignore, h)
  <2>1. now \in Seq(Hosts)
    BY <1>0, FirstGoes
  <2>2. cfg' = [cfg EXCEPT !.ignore = now]
    BY <1>5 DEF S!AddIgnore, S!RemoveIgnore
  <2> HIDE DEF now
  <2>3. cfg' \in [ignore : Seq(Hosts), port : Ports] /\ cfg'.ignore = now
    BY <1>0, <2>1, <2>2
  <2>4. shown' = [shown EXCEPT ![p] = [shown[p] EXCEPT !.ignore = now]]
    BY <1>5, <2>3 DEF S!AddIgnore, S!RemoveIgnore, S!DrawIgnore
  <2>5. [shown[p] EXCEPT !.ignore = now] \in Tab
    BY <1>0, <2>1 DEF Tab
  <2>6. shown' \in [Pages -> Tab]
    BY <1>0, <2>4, <2>5
  <2>7. UNCHANGED <<scope, scopeOn, proxy, certs, dns, raced>>
    BY <1>5 DEF S!AddIgnore, S!RemoveIgnore
  <2> QED
    BY <2>3, <2>6, <2>7 DEF SettingsType
<1>6. ASSUME NEW n \in Ports, S!SavePorts(p, n) PROVE SettingsType'
  BY <1>6 DEF S!SavePorts, SettingsType
<1>7. ASSUME NEW now, now \in Seq(S!Cert), certs' = now, S!DrawCerts(p),
             UNCHANGED <<scope, scopeOn, cfg, proxy, dns, raced>>
      PROVE  SettingsType'
  <2>1. shown' = [shown EXCEPT ![p] = [shown[p] EXCEPT !.certs = now]]
    BY <1>7 DEF S!DrawCerts
  <2>2. [shown[p] EXCEPT !.certs = now] \in Tab
    BY <1>0, <1>7 DEF Tab
  <2>3. shown' \in [Pages -> Tab]
    BY <1>0, <2>1, <2>2
  <2> QED
    BY <1>7, <2>3 DEF SettingsType
<1>8. ASSUME NEW c \in S!Cert, S!AddCert(p, c) PROVE SettingsType'
  <2>1. certs' = Append(certs, c) /\ Append(certs, c) \in Seq(S!Cert)
    BY <1>0, <1>8 DEF S!AddCert
  <2> QED
    BY <1>7, <1>8, <2>1 DEF S!AddCert
<1>9. ASSUME NEW k \in DOMAIN shown[p].certs, S!RemoveCert(p, k) PROVE SettingsType'
  <2>1. certs' \in Seq(S!Cert)
    BY <1>0, <1>9, ThoseAre DEF S!RemoveCert
  <2> QED
    BY <1>7, <1>9, <2>1 DEF S!RemoveCert
<1>10. ASSUME NEW os \in Overrides, shown' = [shown EXCEPT ![p].overrides = os],
              S!SetOverrides(shown'[p].overrides), UNCHANGED <<scope, scopeOn, cfg, proxy, certs>>
       PROVE  SettingsType'
  <2>1. [shown[p] EXCEPT !.overrides = os] \in Tab /\ [shown[p] EXCEPT !.overrides = os].overrides = os
    BY <1>0 DEF Tab
  <2>2. shown' = [shown EXCEPT ![p] = [shown[p] EXCEPT !.overrides = os]]
    BY <1>10
  <2>3. shown' \in [Pages -> Tab] /\ shown'[p].overrides = os
    BY <1>0, <2>1, <2>2
  <2>4. S!SetOverrides(os)
    BY <1>10, <2>3
  <2> QED
    BY <1>10, <2>3, <2>4, OverridesType DEF SettingsType
<1>11. shown[p].overrides \in Overrides
  BY <1>0 DEF Tab
<1>12. ASSUME NEW d \in Domains, NEW a \in Addresses, S!AddOverride(p, d, a) PROVE SettingsType'
  BY <1>10, <1>11, <1>12, OverridesChange DEF S!AddOverride
<1>13. ASSUME NEW d \in Domains, S!RemoveOverride(p, d) PROVE SettingsType'
  <2>1. [e \in DOMAIN shown[p].overrides \ {d} |-> shown[p].overrides[e]] \in Overrides
    <3> DEFINE os == shown[p].overrides
    <3> HIDE DEF os
    <3>1. PICK D \in SUBSET Domains : os \in [D -> Addresses]
      BY <1>11 DEF Overrides, os
    <3>2. [e \in D \ {d} |-> os[e]] \in [D \ {d} -> Addresses] /\ D \ {d} \in SUBSET Domains
      BY <3>1
    <3>3. [e \in D \ {d} |-> os[e]] \in Overrides
      BY <3>2 DEF Overrides
    <3> QED
      BY <3>1, <3>3 DEF os
  <2> QED
    BY <1>10, <1>13, <2>1 DEF S!RemoveOverride
<1>14. CASE S!StartDns(p)
  <2>1. CASE dns.state = "stopped"
    <3>1. dns' = [own |-> shown[p].overrides, proto |-> shown[p].overrides, state |-> "starting"]
      BY <1>14, <2>1 DEF S!StartDns
    <3>2. dns' \in [own : Overrides, proto : Overrides, state : {"stopped", "starting", "running"}]
      BY <1>11, <3>1
    <3>3. raced' = FALSE /\ UNCHANGED <<scope, scopeOn, cfg, proxy, certs, shown>>
      BY <1>14, <2>1 DEF S!StartDns
    <3> QED
      BY <3>2, <3>3 DEF SettingsType
  <2>2. CASE dns.state # "stopped"
    <3>1. S!SetOverrides(shown[p].overrides) /\ UNCHANGED <<scope, scopeOn, cfg, proxy, certs, shown>>
      BY <1>14, <2>2 DEF S!StartDns
    <3> QED
      BY <1>11, <3>1, OverridesType DEF SettingsType
  <2> QED
    BY <2>1, <2>2
<1> QED
  BY <1>2, <1>3, <1>4, <1>5, <1>6, <1>8, <1>9, <1>12, <1>13, <1>14 DEF S!OnPage

LEMMA RestType ==
  ASSUME SettingsType, NEW on \in S!AtMostOne(BOOLEAN), NEW add \in S!AtMostOne(Patterns),
         NEW remove \in S!AtMostOne(Patterns), S!RestScope(on, add, remove)
  PROVE  SettingsType'
<1> DEFINE added == IF add = {} THEN scope ELSE S!AddRule(scope, CHOOSE x \in add : TRUE)
<1>1. added \in Seq(Patterns)
  <2>1. add # {} => (CHOOSE x \in add : TRUE) \in Patterns
    BY DEF S!AtMostOne
  <2> QED
    BY <2>1 DEF SettingsType, S!AddRule
<1>2. scope' = IF remove = {} THEN added ELSE S!RemoveRule(added, CHOOSE x \in remove : TRUE)
  BY DEF S!RestScope
<1> HIDE DEF added
<1>3. scope' \in Seq(Patterns)
  BY <1>1, <1>2, ThoseAre DEF S!RemoveRule
<1>4. scopeOn' \in BOOLEAN
  BY DEF S!RestScope, S!AtMostOne, SettingsType
<1> QED
  BY <1>3, <1>4 DEF S!RestScope, SettingsType

LEMMA SettingsStep == SettingsType /\ [Next]_vars => SettingsType'
<1> SUFFICES ASSUME SettingsType, [Next]_vars PROVE SettingsType'
  OBVIOUS
<1>1. CASE UNCHANGED vars \/ ChangeFiles
  <2>1. UNCHANGED settingsVars
    BY <1>1 DEF vars, ChangeFiles
  <2> QED
    BY <2>1 DEF settingsVars, SettingsType
<1>2. CASE Start
  BY <1>2, RestartType DEF Start
<1>3. ASSUME NEW p \in Pages, S!OnPage(p) PROVE SettingsType'
  BY <1>3, PageType
<1>4. ASSUME NEW on \in S!AtMostOne(BOOLEAN), NEW add \in S!AtMostOne(Patterns),
             NEW remove \in S!AtMostOne(Patterns), S!RestScope(on, add, remove)
      PROVE  SettingsType'
  BY <1>4, RestType
<1>5. CASE S!DnsStarted
  BY <1>5 DEF S!DnsStarted, SettingsType
<1> QED
  BY <1>1, <1>2, <1>3, <1>4, <1>5 DEF Next, ChangeSettings, S!Change

\* Type correctness of the settings, whatever the tabs still show.
THEOREM SettingsTypeCorrect == Spec => []SettingsType
<1>1. Init => SettingsType
  BY FreshSettings, ProgramAssumption DEF Init, S!Init, SettingsType
<1> QED
  BY <1>1, SettingsStep, PTL DEF Spec

(***************************************************************************)
(* The scope and the rows                                                  *)
(***************************************************************************)

\* What a step may do to the scope.
Shrinks ==
  \A h \in Hosts :
    S!InScope(h, scopeOn, scope) /\ ~S!InScope(h, scopeOn', scope') =>
      \/ ~scopeOn /\ scopeOn'
      \/ scope = <<>>
      \/ \E x \in S!InSeq(scope) : h \in Matches[x] /\ S!Removes(x)

LEMMA SameScope == ASSUME UNCHANGED scope, UNCHANGED scopeOn PROVE Shrinks
BY DEF Shrinks

\* A list of rules that has all the rules it had matches what it matched.
LEMMA MoreRules ==
  ASSUME scopeOn \in BOOLEAN, scopeOn' \in BOOLEAN, S!InSeq(scope) \subseteq S!InSeq(scope')
  PROVE  Shrinks
BY DEF Shrinks, S!InScope, S!InSeq

\* One that has lost x at most lost only the hosts of x.
LEMMA OneRuleGoes ==
  ASSUME scopeOn \in BOOLEAN, scopeOn' \in BOOLEAN, NEW x, S!Removes(x),
         S!InSeq(scope) \ {x} \subseteq S!InSeq(scope')
  PROVE  Shrinks
<1> SUFFICES ASSUME NEW h \in Hosts, S!InScope(h, scopeOn, scope), ~S!InScope(h, scopeOn', scope'),
                    scopeOn, scope # <<>>
             PROVE  \E y \in S!InSeq(scope) : h \in Matches[y] /\ S!Removes(y)
  BY DEF Shrinks, S!InScope
<1>1. PICK k \in DOMAIN scope : h \in Matches[scope[k]]
  BY DEF S!InScope
<1>2. \A y \in S!InSeq(scope') : h \notin Matches[y]
  BY DEF S!InScope, S!InSeq
<1>3. scope[k] \in S!InSeq(scope)
  BY <1>1 DEF S!InSeq
<1>4. scope[k] = x
  BY <1>1, <1>2, <1>3
<1> QED
  BY <1>1, <1>3, <1>4

LEMMA AddRuleKeeps ==
  ASSUME NEW rules \in Seq(Patterns), NEW x \in Patterns
  PROVE  /\ S!AddRule(rules, x) \in Seq(Patterns)
         /\ S!InSeq(rules) \subseteq S!InSeq(S!AddRule(rules, x))
BY AppendAdds DEF S!AddRule

LEMMA RemoveRuleKeeps ==
  ASSUME NEW rules \in Seq(Patterns), NEW x \in Patterns
  PROVE  S!InSeq(rules) \ {x} \subseteq S!InSeq(S!RemoveRule(rules, x))
<1>1. S!InSeq(rules) \subseteq Patterns
  BY DEF S!InSeq
<1>2. S!InSeq(S!RemoveRule(rules, x)) = S!InSeq(rules) \cap (Patterns \ {x})
  BY ThoseAre DEF S!RemoveRule
<1> QED
  BY <1>1, <1>2

LEMMA PageShrinks == ASSUME SettingsType, SettingsType', NEW p \in Pages, S!OnPage(p) PROVE Shrinks
<1>0. scope \in Seq(Patterns) /\ scopeOn \in BOOLEAN /\ scopeOn' \in BOOLEAN
  BY DEF SettingsType
<1>1. CASE UNCHANGED scope
  BY <1>0, <1>1, MoreRules
<1>2. ASSUME NEW x \in Patterns, S!AddScope(p, x) PROVE Shrinks
  BY <1>0, <1>2, AddRuleKeeps, MoreRules DEF S!AddScope
<1>3. ASSUME NEW x \in Patterns, S!RemoveScope(p, x) PROVE Shrinks
  BY <1>0, <1>3, RemoveRuleKeeps, OneRuleGoes DEF S!RemoveScope, S!Removes
<1> QED
  BY <1>1, <1>2, <1>3 DEF S!OnPage, S!OpenSettings, S!SwitchScope, S!AddIgnore, S!RemoveIgnore,
     S!SavePorts, S!AddCert, S!RemoveCert, S!AddOverride, S!RemoveOverride, S!StartDns

LEMMA RestShrinks ==
  ASSUME SettingsType, SettingsType',
         NEW on \in S!AtMostOne(BOOLEAN), NEW add \in S!AtMostOne(Patterns),
         NEW remove \in S!AtMostOne(Patterns), S!RestScope(on, add, remove)
  PROVE  Shrinks
<1> DEFINE added == IF add = {} THEN scope ELSE S!AddRule(scope, CHOOSE x \in add : TRUE)
<1>0. scope \in Seq(Patterns) /\ scopeOn \in BOOLEAN /\ scopeOn' \in BOOLEAN
  BY DEF SettingsType
<1>1. added \in Seq(Patterns) /\ S!InSeq(scope) \subseteq S!InSeq(added)
  <2>1. add # {} => (CHOOSE x \in add : TRUE) \in Patterns
    BY DEF S!AtMostOne
  <2> QED
    BY <1>0, <2>1, AddRuleKeeps
<1>2. scope' = IF remove = {} THEN added ELSE S!RemoveRule(added, CHOOSE x \in remove : TRUE)
  BY DEF S!RestScope
<1> HIDE DEF added
<1>3. CASE remove = {}
  BY <1>0, <1>1, <1>2, <1>3, MoreRules
<1>4. CASE remove # {}
  <2>1. PICK x \in Patterns : remove = {x}
    BY <1>4 DEF S!AtMostOne
  <2>2. S!Removes(x)
    BY <2>1 DEF S!Removes
  <2>3. scope' = S!RemoveRule(added, x)
    BY <1>2, <2>1
  <2>4. S!InSeq(scope) \ {x} \subseteq S!InSeq(scope')
    BY <1>1, <2>3, RemoveRuleKeeps
  <2> QED
    BY <1>0, <2>2, <2>4, OneRuleGoes
<1> QED
  BY <1>3, <1>4

\* A host leaves the scope only by the switch, by the first rule, or by the
\* removal, from a row however old or over REST, of a pattern that matches it.
THEOREM ScopeNarrowsByRule == Spec => ScopeShrinksByRule
<1>1. SettingsType /\ SettingsType' /\ [Next]_vars => [Shrinks]_(S!vars)
  <2> SUFFICES ASSUME SettingsType, SettingsType', [Next]_vars PROVE Shrinks
    OBVIOUS
  <2>1. CASE UNCHANGED vars \/ ChangeFiles
    <3>1. UNCHANGED settingsVars
      BY <2>1 DEF vars, ChangeFiles
    <3> QED
      BY <3>1, SameScope DEF settingsVars
  <2>2. CASE Start
    BY <2>2 DEF Start, S!Restart, Shrinks, S!InScope
  <2>3. ASSUME NEW p \in Pages, S!OnPage(p) PROVE Shrinks
    BY <2>3, PageShrinks
  <2>4. ASSUME NEW on \in S!AtMostOne(BOOLEAN), NEW add \in S!AtMostOne(Patterns),
               NEW remove \in S!AtMostOne(Patterns), S!RestScope(on, add, remove)
        PROVE  Shrinks
    BY <2>4, RestShrinks
  <2>5. CASE S!DnsStarted
    BY <2>5, SameScope DEF S!DnsStarted
  <2> QED
    BY <2>1, <2>2, <2>3, <2>4, <2>5 DEF Next, ChangeSettings, S!Change
<1>2. Spec => [][Shrinks]_(S!vars)
  BY <1>1, SettingsTypeCorrect, PTL DEF Spec
<1> QED
  BY <1>2 DEF ScopeShrinksByRule, S!ScopeShrinksByRule, Shrinks

LEMMA NoneRemoved ==
  ASSUME S!InSeq(certs) \subseteq S!InSeq(certs'), S!InSeq(cfg.ignore) \subseteq S!InSeq(cfg'.ignore)
  PROVE  S!NamesItsRow
BY DEF S!NamesItsRow, S!GoneCerts, S!GoneIgnored

LEMMA RemoveIgnoreNames ==
  ASSUME SettingsType, NEW p \in Pages, NEW h \in Hosts, S!RemoveIgnore(p, h)
  PROVE  S!NamesItsRow
<1>0. cfg \in [ignore : Seq(Hosts), port : Ports] /\ shown \in [Pages -> Tab]
  BY DEF SettingsType
<1>1. cfg'.ignore = S!RemoveFirst(cfg.ignore, h) /\ h \in S!InSeq(cfg.ignore)
  BY <1>0 DEF S!RemoveIgnore
<1>2. S!InSeq(cfg.ignore) \ {h} \subseteq S!InSeq(cfg'.ignore)
  BY <1>0, <1>1, FirstGoes
<1>3. shown'[p].ignore = cfg'.ignore
  <2>1. shown' = [shown EXCEPT ![p] = [shown[p] EXCEPT !.ignore = cfg'.ignore]]
    BY DEF S!RemoveIgnore, S!DrawIgnore
  <2>2. [shown[p] EXCEPT !.ignore = cfg'.ignore].ignore = cfg'.ignore
    BY <1>0 DEF Tab
  <2> QED
    BY <1>0, <2>1, <2>2
<1>4. h \in S!InSeq(shown[p].ignore) /\ certs' = certs
  BY DEF S!RemoveIgnore
<1> DEFINE ignored == S!InSeq(cfg.ignore) \ S!InSeq(cfg'.ignore)
<1>5. ignored # {} => ignored = {h} /\ h \in S!InSeq(shown[p].ignore) \ S!InSeq(shown'[p].ignore)
  BY <1>2, <1>3, <1>4
<1> QED
  BY <1>4, <1>5 DEF S!NamesItsRow, S!GoneCerts, S!GoneIgnored

LEMMA RemoveCertNames ==
  ASSUME SettingsType, NEW p \in Pages, NEW k \in DOMAIN shown[p].certs, S!RemoveCert(p, k)
  PROVE  S!NamesItsRow
<1>0. /\ certs \in Seq(S!Cert) /\ shown \in [Pages -> Tab]
      /\ shown[p] \in Tab /\ shown[p].certs \in Seq(S!Cert)
  BY DEF SettingsType, Tab
<1> DEFINE r == shown[p].certs[k]
           keep == {c \in S!Cert : c.name # r.name}
<1>1. r \in S!Cert /\ r \in S!InSeq(shown[p].certs)
  BY <1>0 DEF S!InSeq
<1>2. certs' = S!Those(certs, keep)
  BY DEF S!RemoveCert
<1> HIDE DEF r
<1>3. S!InSeq(certs') = S!InSeq(certs) \cap keep /\ S!InSeq(certs) \subseteq S!Cert
  <2>1. S!InSeq(certs) \subseteq S!Cert
    BY <1>0 DEF S!InSeq
  <2> HIDE DEF keep
  <2> QED
    BY <1>0, <1>2, <2>1, ThoseAre
<1>4. shown'[p].certs = certs'
  <2>1. shown' = [shown EXCEPT ![p] = [shown[p] EXCEPT !.certs = certs']]
    BY DEF S!RemoveCert, S!DrawCerts
  <2>2. [shown[p] EXCEPT !.certs = certs'].certs = certs'
    BY <1>0 DEF Tab
  <2> QED
    BY <1>0, <2>1, <2>2
<1>5. r \in S!InSeq(shown[p].certs) \ S!InSeq(shown'[p].certs)
  BY <1>1, <1>3, <1>4
<1>6. \A c \in S!InSeq(certs) \ S!InSeq(certs') : c.name = r.name
  BY <1>3
<1>7. cfg' = cfg
  BY DEF S!RemoveCert
<1> QED
  BY <1>1, <1>5, <1>6, <1>7 DEF S!NamesItsRow, S!GoneCerts, S!GoneIgnored

\* A click removes the certificates of the name its row has, or the host of
\* its row, and nothing else, however old the row is; and the row goes.
THEOREM ClicksRemoveTheirRow == Spec => RemovalNamesItsRow
<1>1. SettingsType /\ [Next]_vars => [S!Restart \/ S!NamesItsRow]_(S!vars)
  <2> SUFFICES ASSUME SettingsType, [Next]_vars PROVE S!Restart \/ S!NamesItsRow
    OBVIOUS
  <2>0. certs \in Seq(S!Cert) /\ cfg \in [ignore : Seq(Hosts), port : Ports]
    BY DEF SettingsType
  <2>1. CASE UNCHANGED vars \/ ChangeFiles
    <3>1. UNCHANGED settingsVars
      BY <2>1 DEF vars, ChangeFiles
    <3> QED
      BY <3>1, NoneRemoved DEF settingsVars
  <2>2. CASE Start
    BY <2>2 DEF Start
  <2>3. ASSUME NEW p \in Pages, S!OnPage(p) PROVE S!NamesItsRow
    <3>1. CASE UNCHANGED certs /\ cfg'.ignore = cfg.ignore
      BY <3>1, NoneRemoved
    <3>2. ASSUME NEW h \in Hosts, S!AddIgnore(p, h) PROVE S!NamesItsRow
      <4>1. cfg'.ignore = Append(cfg.ignore, h) /\ certs' = certs
        BY <2>0, <3>2 DEF S!AddIgnore
      <4> QED
        BY <2>0, <4>1, AppendAdds, NoneRemoved
    <3>3. ASSUME NEW h \in Hosts, S!RemoveIgnore(p, h) PROVE S!NamesItsRow
      BY <3>3, RemoveIgnoreNames
    <3>4. ASSUME NEW n \in Ports, S!SavePorts(p, n) PROVE S!NamesItsRow
      <4>1. cfg'.ignore = cfg.ignore /\ certs' = certs
        BY <2>0, <3>4 DEF S!SavePorts
      <4> QED
        BY <4>1, NoneRemoved
    <3>5. ASSUME NEW c \in S!Cert, S!AddCert(p, c) PROVE S!NamesItsRow
      <4>1. certs' = Append(certs, c) /\ cfg' = cfg
        BY <3>5 DEF S!AddCert
      <4> QED
        BY <2>0, <4>1, AppendAdds, NoneRemoved
    <3>6. ASSUME NEW k \in DOMAIN shown[p].certs, S!RemoveCert(p, k) PROVE S!NamesItsRow
      BY <3>6, RemoveCertNames
    <3> QED
      BY <2>3, <3>1, <3>2, <3>3, <3>4, <3>5, <3>6 DEF S!OnPage, S!OpenSettings, S!SwitchScope,
         S!AddScope, S!RemoveScope, S!AddOverride, S!RemoveOverride, S!StartDns
  <2>4. ASSUME NEW on, NEW add, NEW remove, S!RestScope(on, add, remove) PROVE S!NamesItsRow
    BY <2>4, NoneRemoved DEF S!RestScope
  <2>5. CASE S!DnsStarted
    BY <2>5, NoneRemoved DEF S!DnsStarted
  <2> QED
    BY <2>1, <2>2, <2>3, <2>4, <2>5 DEF Next, ChangeSettings, S!Change
<1>2. Spec => [][S!Restart \/ S!NamesItsRow]_(S!vars)
  BY <1>1, SettingsTypeCorrect, PTL DEF Spec
<1> QED
  BY <1>2 DEF RemovalNamesItsRow, S!RemovalNamesItsRow
=============================================================================

------------------------------ MODULE Settings ------------------------------
(* pypproxy/ui/settings.py and what its panels edit: the scope (also over    *)
(* REST), the passthrough list and the ports of the Config, the client       *)
(* certificates and the DNS overrides.  Every tab has rows of its own,       *)
(* drawn when the page was opened and after each of its own edits, so that   *)
(* a click may name what is long gone.  The proxy has copied the passthrough *)
(* list and the ports when it started; the file they came from is never      *)
(* written.  (The rules panel is in RuleManager.)                            *)
EXTENDS Naturals, Sequences, SequencesExt

CONSTANTS
  Pages,       \* tabs that show /settings
  Hosts,       \* hosts that clients connect to
  Patterns,    \* patterns of scope rules and client certificates
  Matches,     \* Matches[p]: the hosts that pattern p matches, {} if it does not compile
  Names,       \* names of client certificates
  Ports,       \* listen ports
  Domains, Addresses,  \* of DNS overrides
  ConfigFile,  \* what Config.load() finds: the hosts to ignore and the port
  MaxEdits     \* bound: edits made in a run of the model

VARIABLES
  scope, scopeOn,   \* ScopeManager: the patterns of its rules, the switch
  cfg,              \* Config: the ignored hosts and the port
  proxy,            \* what the proxy was started with
  certs,            \* ClientCertManager
  shown,            \* shown[p]: the rows of tab p
  dns,              \* DNSServer: its overrides, those of its protocol, its state
  raced,            \* history: overrides were set while the server was starting
  edits
vars == <<scope, scopeOn, cfg, proxy, certs, shown, dns, raced, edits>>

Cert      == [name : Names, pattern : Patterns]
None      == [d \in {} |-> d]
Closed    == [open |-> FALSE, scope |-> <<>>, ignore |-> <<>>, certs |-> <<>>, overrides |-> None]
InSeq(s)  == {s[k] : k \in DOMAIN s}

\* [y for y in s if y in keep]
Those(s, keep) ==
  LET upTo[n \in 0 .. Len(s)] ==
        IF n = 0 THEN <<>>
        ELSE IF s[n] \in keep THEN Append(upTo[n - 1], s[n]) ELSE upTo[n - 1]
  IN  upTo[Len(s)]

-----------------------------------------------------------------------------
(* What the managers answer.                                               *)

\* is_in_scope(): everything is, while the switch is off or there are no rules.
InScope(h, on, rules) ==
  ~on \/ rules = <<>> \/ \E k \in DOMAIN rules : h \in Matches[rules[k]]

\* _handle(): an A query for a domain with an override gets its address, any
\* other the answer of the upstream server.
Reply(d) == IF d \in DOMAIN dns.proto THEN dns.proto[d] ELSE "upstream"

\* _handle_connect(): a host of the copied list is tunnelled.
Tunnelled(h) == h \in proxy.ignore

-----------------------------------------------------------------------------
\* _build_core(): the managers are empty, the Config is read from its file,
\* and the proxy gets a set made of the list.
FreshProxy == [ignore |-> InSeq(ConfigFile.ignore), port |-> ConfigFile.port]
FreshDns   == [own |-> None, proto |-> None, state |-> "stopped"]

Init ==
  /\ scope = <<>> /\ scopeOn = FALSE
  /\ cfg = ConfigFile /\ proxy = FreshProxy
  /\ certs = <<>>
  /\ shown = [p \in Pages |-> Closed]
  /\ dns = FreshDns /\ raced = FALSE
  /\ edits = 0

Open(p) == shown[p].open
Edit == edits < MaxEdits /\ edits' = edits + 1

\* The program is started again: the file is read, all the rest is new.
Restart ==
  /\ Edit
  /\ scope' = <<>> /\ scopeOn' = FALSE
  /\ cfg' = ConfigFile /\ proxy' = FreshProxy
  /\ certs' = <<>>
  /\ shown' = [p \in Pages |-> Closed]
  /\ dns' = FreshDns /\ raced' = FALSE

OpenSettings(p) ==
  /\ Edit /\ ~Open(p)
  /\ shown' = [shown EXCEPT ![p] =
       [open |-> TRUE, scope |-> scope, ignore |-> cfg.ignore, certs |-> certs, overrides |-> None]]
  /\ UNCHANGED <<scope, scopeOn, cfg, proxy, certs, dns, raced>>

-----------------------------------------------------------------------------
(* Scope: the panel and POST /api/scope.  add() does not look whether the  *)
(* pattern is there; remove() removes every rule that has it.              *)

\* Mutated: add() forgets the rules before it.
AddRuleAlone(rules, x) == <<x>>

AddRule(rules, x)    == Append(rules, x)
RemoveRule(rules, x) == Those(rules, Patterns \ {x})

DrawScope(p) == shown' = [shown EXCEPT ![p].scope = scope']

SwitchScope(p, on) ==
  /\ Edit /\ Open(p)
  /\ scopeOn' = on
  /\ UNCHANGED <<scope, cfg, proxy, certs, shown, dns, raced>>

AddScope(p, x) ==
  /\ Edit /\ Open(p)
  /\ scope' = AddRule(scope, x) /\ DrawScope(p)
  /\ UNCHANGED <<scopeOn, cfg, proxy, certs, dns, raced>>

RemoveScope(p, x) ==
  /\ Edit /\ x \in InSeq(shown[p].scope)
  /\ scope' = RemoveRule(scope, x) /\ DrawScope(p)
  /\ UNCHANGED <<scopeOn, cfg, proxy, certs, dns, raced>>

\* update_scope(): the switch, then an addition, then a removal, those given.
RestScope(on, add, remove) ==
  /\ Edit
  /\ scopeOn' \in (IF on = {} THEN {scopeOn} ELSE on)
  /\ LET added == IF add = {} THEN scope ELSE AddRule(scope, CHOOSE x \in add : TRUE)
     IN scope' = IF remove = {} THEN added ELSE RemoveRule(added, CHOOSE x \in remove : TRUE)
  /\ UNCHANGED <<cfg, proxy, certs, shown, dns, raced>>

-----------------------------------------------------------------------------
(* Passthrough, ports, certificates.                                       *)

DrawIgnore(p) == shown' = [shown EXCEPT ![p].ignore = cfg'.ignore]

AddIgnore(p, h) ==
  /\ Edit /\ Open(p)
  /\ h \notin InSeq(cfg.ignore)
  /\ cfg' = [cfg EXCEPT !.ignore = Append(@, h)] /\ DrawIgnore(p)
  /\ UNCHANGED <<scope, scopeOn, proxy, certs, dns, raced>>

\* list.remove() raises when the host of the row has gone, before the rows are
\* drawn again: the click does nothing and the row stays.
RemoveIgnore(p, h) ==
  /\ Edit /\ h \in InSeq(shown[p].ignore)
  /\ h \in InSeq(cfg.ignore)
  /\ cfg' = [cfg EXCEPT !.ignore = RemoveFirst(@, h)]
  /\ DrawIgnore(p)
  /\ UNCHANGED <<scope, scopeOn, proxy, certs, dns, raced>>

\* Save in the ports panel: the Config in memory, and nothing else.
SavePorts(p, n) ==
  /\ Edit /\ Open(p)
  /\ cfg' = [cfg EXCEPT !.port = n]
  /\ UNCHANGED <<scope, scopeOn, proxy, certs, shown, dns, raced>>

DrawCerts(p) == shown' = [shown EXCEPT ![p].certs = certs']

AddCert(p, c) ==
  /\ Edit /\ Open(p)
  /\ certs' = Append(certs, c) /\ DrawCerts(p)
  /\ UNCHANGED <<scope, scopeOn, cfg, proxy, dns, raced>>

\* Mutated: a certificate is removed by the number of the row.
RemoveCertAt(p, k) ==
  /\ Edit /\ k \in DOMAIN shown[p].certs /\ k \in DOMAIN certs
  /\ certs' = SubSeq(certs, 1, k - 1) \o SubSeq(certs, k + 1, Len(certs)) /\ DrawCerts(p)
  /\ UNCHANGED <<scope, scopeOn, cfg, proxy, dns, raced>>

\* The row at k is clicked: every certificate of its name goes.
RemoveCert(p, k) ==
  /\ Edit /\ k \in DOMAIN shown[p].certs
  /\ certs' = Those(certs, {c \in Cert : c.name # shown[p].certs[k].name}) /\ DrawCerts(p)
  /\ UNCHANGED <<scope, scopeOn, cfg, proxy, dns, raced>>

-----------------------------------------------------------------------------
(* DNS: every tab has overrides of its own and sets all of them at once.   *)

\* Mutated: set_overrides() forgets the protocol.
SetOverridesOwn(os) ==
  /\ dns' = [dns EXCEPT !.own = os]
  /\ raced' = (raced \/ dns.state = "starting")

\* set_overrides(): the server's own dictionary and, once start() has got its
\* transport, that of the protocol that answers.
SetOverrides(os) ==
  /\ dns' = [dns EXCEPT !.own = os, !.proto = IF dns.state = "running" THEN os ELSE @]
  /\ raced' = (raced \/ dns.state = "starting")

AddOverride(p, d, a) ==
  /\ Edit /\ Open(p)
  /\ shown' = [shown EXCEPT ![p].overrides = [e \in DOMAIN @ \cup {d} |-> IF e = d THEN a ELSE @[e]]]
  /\ SetOverrides(shown'[p].overrides)
  /\ UNCHANGED <<scope, scopeOn, cfg, proxy, certs>>

RemoveOverride(p, d) ==
  /\ Edit /\ d \in DOMAIN shown[p].overrides
  /\ shown' = [shown EXCEPT ![p].overrides = [e \in DOMAIN @ \ {d} |-> @[e]]]
  /\ SetOverrides(shown'[p].overrides)
  /\ UNCHANGED <<scope, scopeOn, cfg, proxy, certs>>

\* _start_dns(): sets the overrides of this tab; then start() makes a protocol
\* of them and waits for its socket.  A second start() finds the port taken.
StartDns(p) ==
  /\ Edit /\ Open(p)
  /\ IF dns.state = "stopped"
     THEN /\ dns' = [own |-> shown[p].overrides, proto |-> shown[p].overrides, state |-> "starting"]
          /\ raced' = FALSE
     ELSE SetOverrides(shown[p].overrides)
  /\ UNCHANGED <<scope, scopeOn, cfg, proxy, certs, shown>>

DnsStarted ==
  /\ dns.state = "starting"
  /\ dns' = [dns EXCEPT !.state = "running"]
  /\ UNCHANGED <<scope, scopeOn, cfg, proxy, certs, shown, raced, edits>>

-----------------------------------------------------------------------------
AtMostOne(S) == {{}} \cup {{x} : x \in S}

OnPage(p) ==
  \/ OpenSettings(p)
  \/ \E on \in BOOLEAN : SwitchScope(p, on)
  \/ \E x \in Patterns : AddScope(p, x) \/ RemoveScope(p, x)
  \/ \E h \in Hosts : AddIgnore(p, h) \/ RemoveIgnore(p, h)
  \/ \E n \in Ports : SavePorts(p, n)
  \/ \E c \in Cert : AddCert(p, c)
  \/ \E k \in DOMAIN shown[p].certs : RemoveCert(p, k)
  \/ \E d \in Domains : RemoveOverride(p, d) \/ \E a \in Addresses : AddOverride(p, d, a)
  \/ StartDns(p)

Change ==
  \/ \E p \in Pages : OnPage(p)
  \/ \E on \in AtMostOne(BOOLEAN), add, remove \in AtMostOne(Patterns) : RestScope(on, add, remove)
  \/ DnsStarted

Next == Restart \/ Change

Spec == Init /\ [][Next]_vars

-----------------------------------------------------------------------------
(* A host drops out of the scope only when filtering is switched on, when  *)
(* the first rule is added, or when a removal, by a row however old or over *)
(* REST, names a pattern that it matches: no addition narrows the scope    *)
(* that rules define, and no removal takes a rule it does not name.        *)
Removes(x) ==
  \/ \E p \in Pages : RemoveScope(p, x)
  \/ \E on \in AtMostOne(BOOLEAN), add \in AtMostOne(Patterns) : RestScope(on, add, {x})
ScopeShrinksByRule ==
  [][\A h \in Hosts :
       InScope(h, scopeOn, scope) /\ ~InScope(h, scopeOn', scope') =>
         \/ ~scopeOn /\ scopeOn'
         \/ scope = <<>>
         \/ \E x \in InSeq(scope) : h \in Matches[x] /\ Removes(x)]_vars

(* What a step takes out of the certificates and of the ignored hosts.     *)
GoneCerts   == InSeq(certs) \ InSeq(certs')
GoneIgnored == InSeq(cfg.ignore) \ InSeq(cfg'.ignore)

(* What a click removes is what its row names, however old the rows are:   *)
(* only certificates of one name go, or one host, and a tab that had a row *)
(* of that name has none of it any more; unless the program was started.   *)
NamesItsRow ==
  /\ GoneCerts # {} => \E p \in Pages, r \in Cert :
       /\ r \in InSeq(shown[p].certs) \ InSeq(shown'[p].certs)
       /\ \A c \in GoneCerts : c.name = r.name
  /\ GoneIgnored # {} => \E p \in Pages, h \in Hosts :
       h \in InSeq(shown[p].ignore) \ InSeq(shown'[p].ignore) /\ GoneIgnored = {h}
RemovalNamesItsRow == [][Restart \/ NamesItsRow]_vars

(* A running DNS server answers from the overrides that were set last,     *)
(* except when they were set while it was starting.                        *)
OverridesInForce ==
  (dns.state = "running" /\ ~raced) =>
    \A d \in Domains : Reply(d) = IF d \in DOMAIN dns.own THEN dns.own[d] ELSE "upstream"
=============================================================================

---------------------------- MODULE Senders_proofs ----------------------------
(* Proofs about the sending tools, for any calls, requests and payloads.      *)
EXTENDS Senders, TLAPS, FiniteSetTheorems, NaturalsInduction

-----------------------------------------------------------------------------
(* Sequences                                                               *)

\* Induction over the naturals, for a set in the place of a predicate.
LEMMA SetInduction ==
  ASSUME NEW Q, 0 \in Q, \A n \in Nat : n \in Q => n + 1 \in Q
  PROVE  Nat \subseteq Q
<1> DEFINE T == Nat \ Q
<1> SUFFICES ASSUME T # {} PROVE FALSE
  OBVIOUS
<1>1. PICK n \in T : \A m \in T : ~(<<m, n>> \in OpToRel(<, Nat))
  BY WFMin, NatLessThanWellFounded
<1>2. \A m \in T : ~(m < n)
  BY <1>1 DEF OpToRel
<1>3. n # 0 /\ n - 1 \in Nat /\ n - 1 < n /\ (n - 1) + 1 = n
  OBVIOUS
<1> QED
  BY <1>2, <1>3

LEMMA SequenceHas ==
  ASSUME NEW s, IsSequence(s)
  PROVE  Len(s) \in Nat /\ DOMAIN s = 1 .. Len(s) /\ s \in Seq(Range(s))
<1> DEFINE T == Range(s)
<1>1. s \in Seq(T)
  BY DEF IsSequence
<1> HIDE DEF T
<1>2. Len(s) \in Nat /\ DOMAIN s = 1 .. Len(s)
  BY <1>1
<1> QED
  BY <1>1, <1>2 DEF T

LEMMA SequenceIs ==
  ASSUME NEW T, NEW s \in Seq(T)
  PROVE  IsSequence(s)
<1>1. Len(s) \in Nat /\ DOMAIN s = 1 .. Len(s) /\ s = [k \in 1 .. Len(s) |-> s[k]]
  OBVIOUS
<1> DEFINE R == Range(s)
<1>2. \A k \in 1 .. Len(s) : s[k] \in R
  BY <1>1 DEF Range
<1> HIDE DEF R
<1>3. s \in Seq(R)
  BY <1>1, <1>2
<1> QED
  BY <1>3 DEF R, IsSequence

LEMMA AppendIs ==
  ASSUME NEW s, IsSequence(s), NEW x
  PROVE  /\ IsSequence(Append(s, x)) /\ Len(Append(s, x)) = Len(s) + 1
         /\ \A k \in 1 .. Len(s) : Append(s, x)[k] = s[k]
         /\ Append(s, x)[Len(s) + 1] = x
<1> DEFINE T == Range(s) \cup {x}
<1>1. Len(s) \in Nat /\ DOMAIN s = 1 .. Len(s) /\ s = [k \in 1 .. Len(s) |-> s[k]]
  <2> DEFINE R == Range(s)
  <2>1. s \in Seq(R)
    BY SequenceHas
  <2> HIDE DEF R
  <2> QED
    BY <2>1
<1>2. \A k \in 1 .. Len(s) : s[k] \in T
  BY <1>1 DEF Range
<1>3. x \in T
  OBVIOUS
<1> HIDE DEF T
<1>4. s \in Seq(T)
  BY <1>1, <1>2
<1>5. Append(s, x) \in Seq(T)
  BY <1>3, <1>4
<1>6. IsSequence(Append(s, x))
  BY <1>5, SequenceIs
<1> QED
  BY <1>3, <1>4, <1>6

LEMMA ConcatHas ==
  ASSUME NEW T, NEW s \in Seq(T), NEW t \in Seq(T)
  PROVE  s \o t \in Seq(T) /\ Range(s) \subseteq Range(s \o t) /\ Range(t) \subseteq Range(s \o t)
<1> DEFINE m == Len(s)
           n == Len(t)
           c == s \o t
<1>1. /\ m \in Nat /\ n \in Nat /\ DOMAIN s = 1 .. m /\ DOMAIN t = 1 .. n /\ DOMAIN c = 1 .. m + n
      /\ \A k \in 1 .. m : c[k] = s[k]
      /\ \A k \in 1 .. n : c[m + k] = t[k]
      /\ c \in Seq(T)
  OBVIOUS
<1> HIDE DEF m, n, c
<1>2. \A k \in 1 .. m : k \in 1 .. m + n
  BY <1>1
<1>3. \A k \in 1 .. n : m + k \in 1 .. m + n
  BY <1>1
<1>4. Range(s) \subseteq Range(c)
  BY <1>1, <1>2 DEF Range
<1>5. Range(t) \subseteq Range(c)
  BY <1>1, <1>3 DEF Range
<1> QED
  BY <1>1, <1>4, <1>5 DEF c

\* A list of lists made one holds the items of all of them.
LEMMA FlattenIs ==
  ASSUME NEW T, NEW ss \in Seq(Seq(T))
  PROVE  /\ FlattenSeq(ss) \in Seq(T)
         /\ \A k \in 1 .. Len(ss) : Range(ss[k]) \subseteq Range(FlattenSeq(ss))
<1> DEFINE D == Seq(T)
           n == Len(ss)
<1>1. /\ n \in Nat /\ \A k \in 1 .. n : ss[k] \in D
      /\ n = 0 => ss = <<>>
  <2>1. ss \in Seq(D)
    OBVIOUS
  <2> HIDE DEF D
  <2> QED
    BY <2>1
<1>2. <<>> \in D
  OBVIOUS
<1>3. \A s, t \in D : s \o t \in D /\ Range(s) \subseteq Range(s \o t) /\ Range(t) \subseteq Range(s \o t)
  BY ConcatHas
<1> HIDE DEF D, n
<1>4. CASE n = 0
  <2>1. FlattenSeq(ss) = ss
    BY <1>4 DEF FlattenSeq, n
  <2> QED
    BY <1>1, <1>2, <1>4, <2>1 DEF D, n
<1>5. CASE n # 0
  <2> DEFINE Is(f, m) == \A i \in 1 .. m : f[i] = IF i = 1 THEN ss[i] ELSE f[i - 1] \o ss[i]
             Q == {m \in Nat : m <= n => \E f \in [1 .. m -> D] : Is(f, m)}
             flat == CHOOSE f : f = [i \in 1 .. n |-> IF i = 1 THEN ss[i] ELSE f[i - 1] \o ss[i]]
  <2>1. FlattenSeq(ss) = flat[n]
    BY <1>5 DEF FlattenSeq, n
  <2>2. 0 \in Q
    <3>1. [i \in 1 .. 0 |-> <<>>] \in [1 .. 0 -> D] /\ Is([i \in 1 .. 0 |-> <<>>], 0)
      OBVIOUS
    <3> HIDE DEF Is
    <3> QED
      BY <3>1
  <2>3. ASSUME NEW m \in Nat, m \in Q PROVE m + 1 \in Q
    <3> SUFFICES ASSUME m + 1 <= n PROVE \E f \in [1 .. m + 1 -> D] : Is(f, m + 1)
      OBVIOUS
    <3>0. m <= n /\ m + 1 \in 1 .. n
      BY <1>1
    <3>1. PICK f \in [1 .. m -> D] : Is(f, m)
      <4> HIDE DEF Is
      <4> QED
        BY <2>3, <3>0
    <3> DEFINE next == IF m = 0 THEN ss[1] ELSE f[m] \o ss[m + 1]
               g == [i \in 1 .. m + 1 |-> IF i = m + 1 THEN next ELSE f[i]]
    <3>2. next \in D
      <4>1. CASE m = 0
        BY <1>1, <3>0, <4>1
      <4>2. CASE m # 0
        <5>1. m \in 1 .. m /\ f[m] \in D /\ ss[m + 1] \in D
          BY <1>1, <3>0, <4>2
        <5> QED
          BY <1>3, <4>2, <5>1
      <4> QED
        BY <4>1, <4>2
    <3>3. \A i \in 1 .. m : g[i] = f[i]
      <4>1. \A i \in 1 .. m : i \in 1 .. m + 1 /\ i # m + 1
        OBVIOUS
      <4> HIDE DEF next
      <4> QED
        BY <4>1
    <3>4. g[m + 1] = next
      OBVIOUS
    <3>5. g \in [1 .. m + 1 -> D]
      <4> HIDE DEF next
      <4> QED
        BY <3>2
    <3> HIDE DEF g
    <3>6. ASSUME NEW i \in 1 .. m + 1 PROVE g[i] = IF i = 1 THEN ss[i] ELSE g[i - 1] \o ss[i]
      <4>1. CASE i = m + 1
        <5>1. CASE m = 0
          BY <3>4, <4>1, <5>1
        <5>2. CASE m # 0
          <6>1. m \in 1 .. m /\ g[m] = f[m] /\ i # 1 /\ i - 1 = m
            BY <3>3, <4>1, <5>2
          <6> QED
            BY <3>4, <4>1, <5>2, <6>1
        <5> QED
          BY <5>1, <5>2
      <4>2. CASE i # m + 1
        <5>1. i \in 1 .. m /\ g[i] = f[i] /\ (i # 1 => i - 1 \in 1 .. m)
          BY <3>3, <4>2
        <5> QED
          BY <3>1, <3>3, <5>1
      <4> QED
        BY <4>1, <4>2
    <3>7. Is(g, m + 1)
      BY <3>6
    <3> HIDE DEF Is
    <3> QED
      BY <3>5, <3>7
  <2>4. n \in Q
    <3> HIDE DEF Q
    <3> QED
      BY <1>1, <2>2, <2>3, SetInduction
  <2>5. PICK g \in [1 .. n -> D] : Is(g, n)
    <3> HIDE DEF Is
    <3> QED
      BY <1>1, <2>4
  <2>6. g = [i \in 1 .. n |-> IF i = 1 THEN ss[i] ELSE g[i - 1] \o ss[i]]
    BY <2>5
  <2>7. flat = [i \in 1 .. n |-> IF i = 1 THEN ss[i] ELSE flat[i - 1] \o ss[i]]
    BY <2>6
  <2> HIDE DEF flat
  <2>8. Is(flat, n)
    BY <2>7
  <2> DEFINE P == {m \in Nat : m \in 1 .. n =>
                      flat[m] \in D /\ \A k \in 1 .. m : Range(ss[k]) \subseteq Range(flat[m])}
  <2>9. 0 \in P
    OBVIOUS
  <2>10. ASSUME NEW m \in Nat, m \in P PROVE m + 1 \in P
    <3> SUFFICES ASSUME m + 1 \in 1 .. n
                 PROVE  /\ flat[m + 1] \in D
                        /\ \A k \in 1 .. m + 1 : Range(ss[k]) \subseteq Range(flat[m + 1])
      OBVIOUS
    <3>1. CASE m = 0
      <4>1. flat[m + 1] = ss[m + 1] /\ ss[m + 1] \in D /\ \A k \in 1 .. m + 1 : k = m + 1
        BY <1>1, <2>8, <3>1
      <4> QED
        BY <4>1
    <3>2. CASE m # 0
      <4>0. m \in 1 .. n /\ m + 1 # 1 /\ (m + 1) - 1 = m
        BY <1>1, <3>2
      <4>1. flat[m] \in D /\ \A k \in 1 .. m : Range(ss[k]) \subseteq Range(flat[m])
        BY <2>10, <4>0
      <4>2. flat[m + 1] = flat[m] \o ss[m + 1] /\ ss[m + 1] \in D
        BY <1>1, <2>8, <4>0
      <4>3. \A k \in 1 .. m + 1 : k \in 1 .. m \/ k = m + 1
        OBVIOUS
      <4> QED
        BY <1>3, <4>1, <4>2, <4>3
    <3> QED
      BY <3>1, <3>2
  <2> HIDE DEF P
  <2>11. n \in P
    BY <1>1, <2>9, <2>10, SetInduction
  <2>12. n \in 1 .. n
    BY <1>1, <1>5
  <2>13. flat[n] \in D /\ \A k \in 1 .. n : Range(ss[k]) \subseteq Range(flat[n])
    BY <2>11, <2>12 DEF P
  <2> QED
    BY <2>1, <2>13 DEF D, n
<1> QED
  BY <1>4, <1>5

-----------------------------------------------------------------------------
(* The plans                                                               *)

\* A scan has an item for every parameter and every payload of every known
\* category that it is asked for.
LEMMA ScanPlanIs ==
  ASSUME NEW params, IsSequence(params), NEW cats, IsSequence(cats)
  PROVE  /\ IsSequence(ScanPlan(params, cats))
         /\ \A p \in Range(params) : \A cat \in Range(cats) \cap DOMAIN Payloads : \A x \in Range(Payloads[cat]) :
              [param |-> p, cat |-> cat, payload |-> x] \in Range(ScanPlan(params, cats))
<1> DEFINE T == [param : Range(params), cat : DOMAIN Payloads,
                 payload : UNION {Range(Payloads[cat]) : cat \in DOMAIN Payloads}]
           tests(p, cat) == IF cat \notin DOMAIN Payloads THEN <<>>
                            ELSE [n \in 1 .. Len(Payloads[cat]) |->
                                   [param |-> p, cat |-> cat, payload |-> Payloads[cat][n]]]
           of(p) == FlattenSeq([k \in 1 .. Len(cats) |-> tests(p, cats[k])])
           D == Seq(T)
<1>1. /\ Len(params) \in Nat /\ DOMAIN params = 1 .. Len(params)
      /\ Len(cats) \in Nat /\ DOMAIN cats = 1 .. Len(cats)
      /\ \A cat \in DOMAIN Payloads :
           Len(Payloads[cat]) \in Nat /\ DOMAIN Payloads[cat] = 1 .. Len(Payloads[cat])
  BY SequenceHas, RequestsAssumption
<1>2. ASSUME NEW p \in Range(params), NEW cat
      PROVE  /\ tests(p, cat) \in D
             /\ cat \in DOMAIN Payloads =>
                  \A x \in Range(Payloads[cat]) : [param |-> p, cat |-> cat, payload |-> x] \in Range(tests(p, cat))
  <2>1. CASE cat \notin DOMAIN Payloads
    BY <2>1
  <2>2. CASE cat \in DOMAIN Payloads
    <3> DEFINE s == Payloads[cat]
               item(n) == [param |-> p, cat |-> cat, payload |-> s[n]]
    <3>1. tests(p, cat) = [n \in 1 .. Len(s) |-> item(n)]
      BY <2>2
    <3>2. \A n \in 1 .. Len(s) : item(n) \in T
      <4>1. \A n \in 1 .. Len(s) : s[n] \in Range(s)
        BY <1>1, <2>2 DEF Range
      <4> QED
        BY <2>2, <4>1
    <3>3. \A x \in Range(s) : \E n \in 1 .. Len(s) : x = s[n]
      BY <1>1, <2>2 DEF Range
    <3>4. Len(s) \in Nat
      BY <1>1, <2>2
    <3>5. [n \in 1 .. Len(s) |-> item(n)] \in D
      <4> HIDE DEF T, item, s
      <4> QED
        BY <3>2, <3>4
    <3>6. ASSUME NEW x \in Range(s)
          PROVE  [param |-> p, cat |-> cat, payload |-> x] \in Range([n \in 1 .. Len(s) |-> item(n)])
      <4>1. PICK n \in 1 .. Len(s) : x = s[n]
        BY <3>3
      <4>2. item(n) = [param |-> p, cat |-> cat, payload |-> x]
        BY <4>1
      <4> HIDE DEF item, s
      <4> QED
        BY <4>2 DEF Range
    <3> HIDE DEF D, item
    <3> QED
      BY <2>2, <3>1, <3>5, <3>6
  <2> HIDE DEF tests, D
  <2> QED
    BY <2>1, <2>2
<1> HIDE DEF tests, T
<1>3. ASSUME NEW p \in Range(params)
      PROVE  /\ of(p) \in Seq(T)
             /\ \A k \in 1 .. Len(cats) : Range(tests(p, cats[k])) \subseteq Range(of(p))
  <2> DEFINE ss == [k \in 1 .. Len(cats) |-> tests(p, cats[k])]
  <2>1. ss \in Seq(D) /\ Len(ss) = Len(cats)
    <3>1. \A k \in 1 .. Len(cats) : tests(p, cats[k]) \in D
      BY <1>2
    <3> HIDE DEF D
    <3> QED
      BY <1>1, <3>1
  <2>2. \A k \in 1 .. Len(cats) : ss[k] = tests(p, cats[k])
    OBVIOUS
  <2> HIDE DEF ss
  <2>3. ss \in Seq(Seq(T))
    BY <2>1
  <2>4. FlattenSeq(ss) \in Seq(T) /\ \A k \in 1 .. Len(ss) : Range(ss[k]) \subseteq Range(FlattenSeq(ss))
    BY <2>3, FlattenIs
  <2> QED
    BY <2>1, <2>2, <2>4 DEF ss
<1> HIDE DEF of
<1> DEFINE ps == [k \in 1 .. Len(params) |-> of(params[k])]
<1>4. ScanPlan(params, cats) = FlattenSeq(ps)
  BY DEF ScanPlan, of, tests
<1>5. \A k \in 1 .. Len(params) : params[k] \in Range(params)
  BY <1>1 DEF Range
<1>6. ps \in Seq(D) /\ Len(ps) = Len(params) /\ \A k \in 1 .. Len(params) : ps[k] = of(params[k])
  <2>1. \A k \in 1 .. Len(params) : of(params[k]) \in D
    BY <1>3, <1>5
  <2> HIDE DEF D
  <2> QED
    BY <1>1, <2>1
<1> HIDE DEF ps
<1>7. FlattenSeq(ps) \in Seq(T) /\ \A k \in 1 .. Len(ps) : Range(ps[k]) \subseteq Range(FlattenSeq(ps))
  <2>1. ps \in Seq(Seq(T))
    BY <1>6
  <2> QED
    BY <2>1, FlattenIs
<1>8. IsSequence(ScanPlan(params, cats))
  BY <1>4, <1>7, SequenceIs
<1>9. ASSUME NEW p \in Range(params), NEW cat \in Range(cats) \cap DOMAIN Payloads, NEW x \in Range(Payloads[cat])
      PROVE  [param |-> p, cat |-> cat, payload |-> x] \in Range(ScanPlan(params, cats))
  <2>1. PICK j \in 1 .. Len(params) : params[j] = p
    BY <1>1 DEF Range
  <2>2. PICK k \in 1 .. Len(cats) : cats[k] = cat
    BY <1>1 DEF Range
  <2>3. [param |-> p, cat |-> cat, payload |-> x] \in Range(tests(p, cat))
    BY <1>2
  <2>4. Range(tests(p, cat)) \subseteq Range(of(p))
    BY <1>3, <2>2
  <2>5. Range(of(p)) \subseteq Range(FlattenSeq(ps))
    BY <1>6, <1>7, <2>1
  <2> QED
    BY <1>4, <2>3, <2>4, <2>5
<1> QED
  BY <1>8, <1>9

LEMMA TestIdsIs == ASSUME NEW n \in Nat PROVE TestIds(n) \in Seq(Int)
<1> DEFINE deltas == <<1, -1, 2, -2, 0, 99, 100, 1000>>
           tests == [k \in 1 .. 8 |-> LET x == n + deltas[k] IN IF x # n /\ x > 0 THEN <<x>> ELSE <<>>]
           all == FlattenSeq(tests) \o <<1, 2>>
           D == Seq(Int)
<1>1. TestIds(n) = SubSeq(all, 1, IF Len(all) < 6 THEN Len(all) ELSE 6)
  BY DEF TestIds
<1>2. \A k \in 1 .. 8 : deltas[k] \in Int
  OBVIOUS
<1> HIDE DEF deltas
<1>3. \A k \in 1 .. 8 : (LET x == n + deltas[k] IN IF x # n /\ x > 0 THEN <<x>> ELSE <<>>) \in D
  BY <1>2
<1>4. tests \in Seq(D)
  <2> HIDE DEF D
  <2> QED
    BY <1>3
<1> HIDE DEF tests
<1>5. FlattenSeq(tests) \in Seq(Int)
  BY <1>4, FlattenIs
<1>6. all \in Seq(Int)
  BY <1>5
<1> HIDE DEF all
<1> QED
  BY <1>1, <1>6

LEMMA IdorPlanIs ==
  ASSUME NEW ids \in Seq(Nat)
  PROVE  IsSequence(IdorPlan(ids))
<1> DEFINE T == [original : Nat, test : Int]
           D == Seq(T)
           of(id) == [n \in 1 .. Len(TestIds(id)) |-> [original |-> id, test |-> TestIds(id)[n]]]
           ss == [k \in 1 .. Len(ids) |-> of(ids[k])]
<1>1. Len(ids) \in Nat /\ \A k \in 1 .. Len(ids) : ids[k] \in Nat
  OBVIOUS
<1>2. ASSUME NEW id \in Nat PROVE of(id) \in D
  <2>1. TestIds(id) \in Seq(Int)
    BY TestIdsIs
  <2>2. Len(TestIds(id)) \in Nat /\ \A n \in 1 .. Len(TestIds(id)) : TestIds(id)[n] \in Int
    BY <2>1
  <2>3. \A n \in 1 .. Len(TestIds(id)) : [original |-> id, test |-> TestIds(id)[n]] \in T
    BY <2>2
  <2> HIDE DEF T
  <2> QED
    BY <2>2, <2>3
<1>3. IdorPlan(ids) = FlattenSeq(ss)
  BY DEF IdorPlan
<1>4. ss \in Seq(D)
  <2> HIDE DEF of, D
  <2> QED
    BY <1>1, <1>2
<1> HIDE DEF ss
<1>5. FlattenSeq(ss) \in Seq(T)
  <2> HIDE DEF T
  <2> QED
    BY <1>4, FlattenIs
<1> QED
  BY <1>3, <1>5, SequenceIs

LEMMA PlanIs ==
  ASSUME NEW r, WellFormed(r)
  PROVE  IsSequence(Tool(r).plan)
<1>1. CASE r.tool = "bulk"
  BY <1>1 DEF WellFormed, Tool, Bulk, Sends
<1>2. \A n \in Nat : Times(n) \in Seq(Int)
  BY DEF Times
<1>3. \A n \in Int : AtLeast(0, n) \in Nat /\ AtLeast(1, n) \in Nat
  BY DEF AtLeast
<1>4. CASE r.tool = "race"
  <2>1. Times(AtLeast(0, r.count)) \in Seq(Int)
    <3>1. r.count \in Int
      BY <1>4 DEF WellFormed
    <3> QED
      BY <1>2, <1>3, <3>1
  <2> QED
    BY <1>4, <2>1, SequenceIs DEF Tool, Race, Sends
<1>5. CASE r.tool = "replay"
  <2>1. Times(AtLeast(1, r.count)) \in Seq(Int)
    <3>1. r.count \in Int
      BY <1>5 DEF WellFormed
    <3> QED
      BY <1>2, <1>3, <3>1
  <2> QED
    BY <1>5, <2>1, SequenceIs DEF Tool, Replay, Sends
<1>6. CASE r.tool = "scan"
  BY <1>6, ScanPlanIs DEF WellFormed, Tool, Scan, Sends
<1>7. CASE r.tool = "ab"
  <2>1. <<"a", "b">> \in Seq({"a", "b"})
    OBVIOUS
  <2>2. IsSequence(<<"a", "b">>)
    BY <2>1, SequenceIs
  <2> QED
    BY <1>7, <2>2 DEF Tool, AB, Sends
<1>8. CASE r.tool = "idor"
  BY <1>8, IdorPlanIs DEF WellFormed, Tool, Idor, Sends
<1>9. CASE r.tool = "macro"
  BY <1>9 DEF WellFormed, Tool, Macro, Sends
<1>10. IsSequence(<<"query">>) /\ IsSequence(<<"introspection">>)
  <2>1. <<"query">> \in Seq({"query"}) /\ <<"introspection">> \in Seq({"introspection"})
    OBVIOUS
  <2> QED
    BY <2>1, SequenceIs
<1>11. CASE r.tool = "graphql"
  BY <1>10, <1>11 DEF Tool, GraphQL, Sends
<1>12. CASE r.tool = "introspect"
  BY <1>10, <1>12 DEF Tool, FetchSchema
<1> QED
  BY <1>1, <1>4, <1>5, <1>6, <1>7, <1>8, <1>9, <1>11, <1>12 DEF WellFormed

-----------------------------------------------------------------------------
(* Results                                                                 *)

LEMMA LastOne ==
  ASSUME NEW n \in Nat, NEW S \in SUBSET (1 .. n), S # {}
  PROVE  \E m \in S : \A x \in S : x <= m
<1> DEFINE HasLast(T) == T # {} => \E m \in T : \A x \in T : x <= m
           Q == {k \in Nat : \A T \in SUBSET (1 .. k) : HasLast(T)}
<1>1. 0 \in Q
  <2>1. 1 .. 0 = {}
    OBVIOUS
  <2> QED
    BY <2>1
<1>2. ASSUME NEW k \in Nat, k \in Q PROVE k + 1 \in Q
  <2> SUFFICES ASSUME NEW T \in SUBSET (1 .. k + 1) PROVE HasLast(T)
    OBVIOUS
  <2>1. CASE k + 1 \in T
    BY <2>1
  <2>2. CASE k + 1 \notin T
    <3>1. T \in SUBSET (1 .. k)
      BY <2>2
    <3> HIDE DEF HasLast
    <3> QED
      BY <1>2, <3>1
  <2> QED
    BY <2>1, <2>2
<1> HIDE DEF Q
<1>3. n \in Q
  BY <1>1, <1>2, SetInduction
<1> QED
  BY <1>3 DEF Q

\* As many results as places, all in different places: every place has its
\* result, and gather() puts it there.
LEMMA GatherIs ==
  ASSUME NEW rs, IsSequence(rs),
         \A k \in 1 .. Len(rs) : rs[k].at \in 1 .. Len(rs),
         \A j, k \in 1 .. Len(rs) : rs[j].at = rs[k].at => j = k
  PROVE  /\ Len(Gather(rs)) = Len(rs)
         /\ \A i \in 1 .. Len(rs) : \E k \in 1 .. Len(rs) : Gather(rs)[i] = rs[k] /\ rs[k].at = i
<1> DEFINE n == Len(rs)
           f == [k \in 1 .. n |-> rs[k].at]
           of(i) == CHOOSE k \in 1 .. n : rs[k].at = i
<1>1. n \in Nat
  BY SequenceHas
<1>2. Gather(rs) = [i \in 1 .. n |-> rs[of(i)]]
  BY DEF Gather
<1>3. f \in Injection(1 .. n, 1 .. n)
  BY DEF Injection, IsInjective
<1>4. f \in Surjection(1 .. n, 1 .. n)
  <2>1. IsFiniteSet(1 .. n)
    BY <1>1, FS_Interval
  <2> HIDE DEF f
  <2> QED
    BY <1>3, <2>1, FS_Injection
<1>5. \A i \in 1 .. n : \E k \in 1 .. n : rs[k].at = i
  BY <1>4 DEF Surjection
<1>6. \A i \in 1 .. n : of(i) \in 1 .. n /\ rs[of(i)].at = i
  BY <1>5
<1> HIDE DEF of
<1>7. Len(Gather(rs)) = n
  BY <1>1, <1>2
<1> QED
  BY <1>2, <1>6, <1>7

-----------------------------------------------------------------------------
(* The invariant, call by call.                                            *)

\* A call that has not been made has done nothing.
Fresh(c) ==
  req[c] = NoRequest =>
    sent[c] = 0 /\ done[c] = <<>> /\ used[c] = <<>> /\ reply[c] = NotYet /\ job[c] = NoJob

\* A call that has been made does what its tool makes of it.
Asked(c) == req[c] # NoRequest => WellFormed(req[c]) /\ job[c] = Tool(req[c])

Sending(c) ==
  /\ sent[c] \in 0 .. Len(Plan(c))
  /\ IsSequence(used[c]) /\ Len(used[c]) = sent[c]
  /\ req[c].tool # "macro" => \A i \in 1 .. Len(used[c]) : used[c][i] = <<>>

\* A result belongs to an item that was sent, and no item has two; the answer
\* to the identifier itself is no finding.
Finding(c, rs) ==
  req[c].tool = "idor" =>
    \A k \in 1 .. Len(rs) : rs[k].suspect => Plan(c)[rs[k].at].test # Plan(c)[rs[k].at].original
Answers(c) ==
  /\ IsSequence(done[c])
  /\ \A k \in 1 .. Len(done[c]) : done[c][k].at \in 1 .. sent[c]
  /\ \A j, k \in 1 .. Len(done[c]) : done[c][j].at = done[c][k].at => j = k
  /\ Finding(c, done[c])

Replied(c) == Returned(c) => Len(done[c]) = Len(Plan(c)) /\ Results(c) = Gather(done[c])

\* A macro sends a step when the one before it was answered.
StepByStep(c) ==
  req[c].tool = "macro" =>
    /\ sent[c] <= Len(done[c]) + 1
    /\ \A k \in 1 .. Len(done[c]) : done[c][k].at = k

\* StepsUseLatestValue, of one call.
UsesLatest(c) ==
  \A i \in 1 .. Len(used[c]) : \A v \in DOMAIN used[c][i] :
    LET before == {done[c][k].at : k \in FoundBefore(c, i, v)}
    IN /\ used[c][i][v] \in before \cup {0}
       /\ \A j \in before : used[c][i][v] >= j

CallInv(c) ==
  Fresh(c) /\ Asked(c) /\ Sending(c) /\ Answers(c) /\ Replied(c) /\ StepByStep(c) /\ UsesLatest(c)

\* What is kept for each call, and the macro page.
StateOK ==
  /\ DOMAIN req = Calls /\ DOMAIN job = Calls /\ DOMAIN sent = Calls
  /\ DOMAIN done = Calls /\ DOMAIN used = Calls /\ DOMAIN reply = Calls
  /\ page \in [text : Texts \cup {NoText}, rows : Calls \cup {0}, vars : Calls \cup {0}]

SendersInv == StateOK /\ \A c \in Calls : CallInv(c)

-----------------------------------------------------------------------------
(* Steps                                                                   *)

LEMMA NoRequestIs == ~WellFormed(NoRequest) /\ NoRequest.tool = "none"
BY DEF WellFormed, NoRequest

LEMMA EmptyIs == IsSequence(<<>>) /\ Len(<<>>) = 0
<1>1. <<>> \in Seq({})
  OBVIOUS
<1> QED
  BY <1>1, SequenceIs

LEMMA PlansAre ==
  ASSUME NEW c, Asked(c), Fresh(c)
  PROVE  Len(Plan(c)) \in Nat
<1>1. CASE req[c] = NoRequest
  BY <1>1, EmptyIs DEF Fresh, Plan, NoJob
<1>2. CASE req[c] # NoRequest
  BY <1>2, PlanIs, SequenceHas DEF Asked, Plan
<1> QED
  BY <1>1, <1>2

\* What another call does leaves a call as it is.
LEMMA OtherCall ==
  ASSUME NEW c, CallInv(c),
         req'[c] = req[c], job'[c] = job[c], sent'[c] = sent[c],
         done'[c] = done[c], used'[c] = used[c], reply'[c] = reply[c]
  PROVE  CallInv(c)'
<1>1. Plan(c)' = Plan(c)
  BY DEF Plan
<1>2. Fresh(c)' /\ Asked(c)'
  BY DEF CallInv, Fresh, Asked
<1>3. Sending(c)'
  BY <1>1 DEF CallInv, Sending
<1>4. Answers(c)'
  BY <1>1 DEF CallInv, Answers, Finding
<1>5. Replied(c)'
  BY <1>1 DEF CallInv, Replied, Returned, Results
<1>6. StepByStep(c)' /\ UsesLatest(c)'
  BY DEF CallInv, StepByStep, UsesLatest, FoundBefore
<1> QED
  BY <1>2, <1>3, <1>4, <1>5, <1>6 DEF CallInv

\* A call is made: its plan is there, and nothing else.
LEMMA CallMade ==
  ASSUME NEW c, CallInv(c), NEW r, WellFormed(r), req[c] = NoRequest, req'[c] = r, job'[c] = Tool(r),
         sent'[c] = sent[c], done'[c] = done[c], used'[c] = used[c],
         reply'[c] \in {NotYet, Failed(404), Failed(500)}
  PROVE  CallInv(c)'
<1>1. r # NoRequest
  BY NoRequestIs
<1>2. sent[c] = 0 /\ done[c] = <<>> /\ used[c] = <<>>
  BY DEF CallInv, Fresh
<1>3. Fresh(c)' /\ Asked(c)'
  BY <1>1 DEF Fresh, Asked
<1>4. Len(Plan(c)') \in Nat
  BY PlanIs, SequenceHas DEF Plan
<1>5. Sending(c)'
  BY <1>2, <1>4, EmptyIs DEF Sending
<1>6. Answers(c)'
  BY <1>2, EmptyIs DEF Answers, Finding
<1>7. Replied(c)'
  BY DEF Replied, Returned, NotYet, Failed
<1>8. StepByStep(c)' /\ UsesLatest(c)'
  BY <1>2, EmptyIs DEF StepByStep, UsesLatest
<1> QED
  BY <1>3, <1>5, <1>6, <1>7, <1>8 DEF CallInv

\* The value that is put in the place of a variable is the last that was
\* found in the answers of a macro.
LEMMA ValueIsLatest ==
  ASSUME NEW rs, IsSequence(rs), \A k \in 1 .. Len(rs) : rs[k].at = k, NEW v
  PROVE  LET before == {rs[k].at : k \in {k \in DOMAIN rs : v \in rs[k].found}}
         IN  Value(rs, v) \in before \cup {0} /\ \A j \in before : Value(rs, v) >= j
<1> DEFINE with == {k \in DOMAIN rs : v \in rs[k].found}
           before == {rs[k].at : k \in with}
<1>1. DOMAIN rs = 1 .. Len(rs) /\ Len(rs) \in Nat
  BY SequenceHas
<1>2. \A k \in with : rs[k].at = k /\ k \in 1 .. Len(rs)
  BY <1>1
<1>3. Value(rs, v) = IF with = {} THEN 0 ELSE rs[CHOOSE k \in with : \A l \in with : l <= k].at
  BY DEF Value
<1> HIDE DEF with
<1>4. CASE with = {}
  BY <1>3, <1>4 DEF with
<1>5. CASE with # {}
  <2> DEFINE last == CHOOSE k \in with : \A l \in with : l <= k
  <2>1. with \in SUBSET (1 .. Len(rs))
    BY <1>2
  <2>2. last \in with /\ \A l \in with : l <= last
    BY <1>1, <1>5, <2>1, LastOne
  <2> HIDE DEF last
  <2>3. Value(rs, v) = rs[last].at /\ rs[last].at = last /\ last \in Nat
    BY <1>2, <1>3, <1>5, <2>2 DEF last
  <2>4. Value(rs, v) \in before
    BY <2>2, <2>3
  <2>5. \A j \in before : Value(rs, v) >= j
    <3>1. \A k \in with : last >= rs[k].at
      BY <1>2, <2>2, <2>3
    <3> QED
      BY <2>3, <3>1
  <2> QED
    BY <2>4, <2>5 DEF with
<1> QED
  BY <1>4, <1>5

LEMMA SendKeeps ==
  ASSUME StateOK, NEW c \in Calls, CallInv(c), Send(c)
  PROVE  CallInv(c)'
<1>1. /\ req'[c] = req[c] /\ job'[c] = job[c] /\ done'[c] = done[c] /\ reply'[c] = reply[c]
      /\ sent'[c] = sent[c] + 1 /\ used'[c] = Append(used[c], Substitute(c, sent[c] + 1))
      /\ Running(c) /\ sent[c] < Len(Plan(c)) /\ InFlight(c) < job[c].limit
  BY DEF Send, StateOK
<1>2. /\ Len(Plan(c)) \in Nat /\ sent[c] \in Nat /\ Plan(c)' = Plan(c)
      /\ IsSequence(done[c]) /\ Len(done[c]) \in Nat
  BY <1>1, PlansAre, SequenceHas DEF CallInv, Sending, Answers, Plan
<1>3. Fresh(c)' /\ Asked(c)'
  BY <1>1 DEF CallInv, Fresh, Asked, Running
<1>4. /\ IsSequence(used'[c]) /\ Len(used'[c]) = sent[c] + 1
      /\ \A i \in 1 .. sent[c] : used'[c][i] = used[c][i]
      /\ used'[c][sent[c] + 1] = Substitute(c, sent[c] + 1)
  BY <1>1, AppendIs DEF CallInv, Sending
<1>5. Sending(c)'
  <2>1. ASSUME req[c].tool # "macro", NEW i \in 1 .. sent[c] + 1 PROVE used'[c][i] = <<>>
    <3>1. CASE i \in 1 .. sent[c]
      BY <1>4, <2>1, <3>1 DEF CallInv, Sending
    <3>2. CASE i \notin 1 .. sent[c]
      <4>1. i = sent[c] + 1
        BY <1>2, <3>2
      <4> QED
        BY <1>4, <2>1, <4>1 DEF Substitute
    <3> QED
      BY <3>1, <3>2
  <2> QED
    BY <1>1, <1>2, <1>4, <2>1 DEF Sending
<1>6. Answers(c)'
  <2>1. \A k \in 1 .. Len(done[c]) : done[c][k].at \in 1 .. sent[c] + 1
    BY <1>2 DEF CallInv, Answers
  <2> QED
    BY <1>1, <1>2, <2>1 DEF CallInv, Answers, Finding
<1>7. Replied(c)'
  BY <1>1, <1>2 DEF CallInv, Replied, Returned, Results
<1>8. ASSUME req[c].tool = "macro"
      PROVE  sent[c] = Len(done[c]) /\ \A k \in 1 .. Len(done[c]) : done[c][k].at = k
  <2>1. job[c].limit = 1
    BY <1>8, NoRequestIs DEF CallInv, Asked, Tool, Macro, Sends
  <2>2. sent[c] <= Len(done[c])
    BY <1>1, <1>2, <2>1 DEF InFlight
  <2>3. \A k \in 1 .. Len(done[c]) : done[c][k].at = k
    BY <1>8 DEF CallInv, StepByStep
  <2>4. Len(done[c]) <= sent[c]
    <3>1. CASE Len(done[c]) = 0
      BY <1>2, <3>1
    <3>2. CASE Len(done[c]) # 0
      <4>1. Len(done[c]) \in 1 .. Len(done[c])
        BY <1>2, <3>2
      <4>2. Len(done[c]) \in 1 .. sent[c]
        BY <2>3, <4>1 DEF CallInv, Answers
      <4> QED
        BY <4>2
    <3> QED
      BY <3>1, <3>2
  <2> QED
    BY <1>2, <2>2, <2>3, <2>4
<1>9. StepByStep(c)'
  BY <1>1, <1>2, <1>8 DEF StepByStep
<1>10. UsesLatest(c)'
  <2> DEFINE before(i, v) == {done[c][k].at : k \in FoundBefore(c, i, v)}
  <2>0. \A i, v : FoundBefore(c, i, v)' = FoundBefore(c, i, v)
    BY <1>1 DEF FoundBefore
  <2> SUFFICES ASSUME NEW i \in 1 .. sent[c] + 1, NEW v \in DOMAIN used'[c][i]
               PROVE  /\ used'[c][i][v] \in before(i, v) \cup {0}
                      /\ \A j \in before(i, v) : used'[c][i][v] >= j
    BY <1>1, <1>4, <2>0 DEF UsesLatest
  <2>1. CASE i \in 1 .. sent[c]
    BY <1>4, <2>1 DEF CallInv, UsesLatest, Sending
  <2>2. CASE i \notin 1 .. sent[c]
    <3>1. i = sent[c] + 1 /\ used'[c][i] = Substitute(c, i)
      BY <1>2, <1>4, <2>2
    <3>2. req[c].tool = "macro"
      <4>1. DOMAIN <<>> = {}
        OBVIOUS
      <4> QED
        BY <3>1, <4>1 DEF Substitute
    <3>3. used'[c][i][v] = Value(done[c], v)
      BY <3>1, <3>2 DEF Substitute
    <3>4. FoundBefore(c, i, v) = {k \in DOMAIN done[c] : v \in done[c][k].found}
      <4>1. DOMAIN done[c] = 1 .. Len(done[c])
        BY <1>2, SequenceHas
      <4>2. \A k \in 1 .. Len(done[c]) : done[c][k].at < i
        BY <1>2, <1>8, <3>1, <3>2
      <4> QED
        BY <4>1, <4>2 DEF FoundBefore
    <3> QED
      BY <1>2, <1>8, <3>2, <3>3, <3>4, ValueIsLatest
  <2> QED
    BY <2>1, <2>2
<1> QED
  BY <1>3, <1>5, <1>6, <1>7, <1>9, <1>10 DEF CallInv

\* The result is that of an item under way.
LEMMA AnswerKeeps ==
  ASSUME StateOK, NEW c \in Calls, CallInv(c), NEW i, Answer(c, i)
  PROVE  CallInv(c)'
<1>1. /\ req'[c] = req[c] /\ job'[c] = job[c] /\ used'[c] = used[c] /\ reply'[c] = reply[c] /\ sent'[c] = sent[c]
      /\ Running(c) /\ i \in 1 .. sent[c]
  BY DEF Answer
<1>2. /\ Len(Plan(c)) \in Nat /\ sent[c] \in Nat /\ Plan(c)' = Plan(c)
      /\ IsSequence(done[c]) /\ Len(done[c]) \in Nat /\ DOMAIN done[c] = 1 .. Len(done[c])
      /\ IsSequence(used[c])
  BY <1>1, PlansAre, SequenceHas DEF CallInv, Sending, Answers, Plan
<1>3. PICK x : done'[c] = Append(done[c], x) /\ x.at = i /\ \E outcome : x.suspect = Suspect(req[c], Plan(c)[i], outcome)
  <2>1. PICK outcome \in job[c].outcomes :
          \E found \in SUBSET (IF Steps(c) # <<>> /\ outcome = "ok" THEN Steps(c)[i].extracts ELSE {}) :
            done' = [done EXCEPT ![c] = Append(@,
              [at |-> i, outcome |-> outcome, found |-> found,
               suspect |-> Suspect(req[c], Plan(c)[i], outcome)])]
    BY DEF Answer
  <2> DEFINE sus == Suspect(req[c], Plan(c)[i], outcome)
  <2>2. PICK found : done' = [done EXCEPT ![c] = Append(@, [at |-> i, outcome |-> outcome, found |-> found, suspect |-> sus])]
    BY <2>1
  <2> HIDE DEF sus
  <2> DEFINE x == [at |-> i, outcome |-> outcome, found |-> found, suspect |-> sus]
  <2>3. x.at = i /\ x.suspect = sus
    OBVIOUS
  <2>4. done'[c] = Append(done[c], x)
    BY <2>2 DEF StateOK
  <2> HIDE DEF x
  <2> QED
    BY <2>3, <2>4 DEF sus
<1> DEFINE n == Len(done[c]) + 1
<1>4. /\ IsSequence(done'[c]) /\ Len(done'[c]) = n /\ done'[c][n] = x
      /\ \A k \in 1 .. Len(done[c]) : done'[c][k] = done[c][k]
  BY <1>2, <1>3, AppendIs
<1>5. \A k \in 1 .. n : k \in 1 .. Len(done[c]) \/ k = n
  BY <1>2
<1>6. \A k \in 1 .. Len(done[c]) : done[c][k].at # i
  BY <1>2 DEF Answer
<1>7. Fresh(c)' /\ Asked(c)'
  BY <1>1 DEF CallInv, Fresh, Asked, Running
<1>8. Sending(c)'
  BY <1>1, <1>2 DEF CallInv, Sending
<1>9. Answers(c)'
  <2>1. \A k \in 1 .. n : done'[c][k].at \in 1 .. sent[c]
    BY <1>1, <1>3, <1>4, <1>5 DEF CallInv, Answers
  <2>2. \A j, k \in 1 .. n : done'[c][j].at = done'[c][k].at => j = k
    <3> HIDE DEF n
    <3> SUFFICES ASSUME NEW j \in 1 .. n, NEW k \in 1 .. n, done'[c][j].at = done'[c][k].at PROVE j = k
      OBVIOUS
    <3>1. CASE j \in 1 .. Len(done[c]) /\ k \in 1 .. Len(done[c])
      BY <1>4, <3>1 DEF CallInv, Answers
    <3>2. CASE j = n /\ k = n
      BY <3>2
    <3>3. CASE j \in 1 .. Len(done[c]) /\ k = n
      BY <1>3, <1>4, <1>6, <3>3
    <3>4. CASE j = n /\ k \in 1 .. Len(done[c])
      BY <1>3, <1>4, <1>6, <3>4
    <3> QED
      BY <1>5, <3>1, <3>2, <3>3, <3>4
  <2>3. ASSUME req[c].tool = "idor", NEW k \in 1 .. n, done'[c][k].suspect
        PROVE  Plan(c)[done'[c][k].at].test # Plan(c)[done'[c][k].at].original
    <3>1. CASE k \in 1 .. Len(done[c])
      BY <1>4, <2>3, <3>1 DEF CallInv, Answers, Finding
    <3>2. CASE k = n
      <4>1. x.suspect /\ x.at = i
        BY <1>3, <1>4, <2>3, <3>2
      <4>2. Plan(c)[i].test # Plan(c)[i].original
        BY <1>3, <4>1 DEF Suspect
      <4> QED
        BY <1>4, <3>2, <4>1, <4>2
    <3> QED
      BY <1>5, <3>1, <3>2
  <2>4. Finding(c, done[c])'
    <3> HIDE DEF n
    <3> QED
      BY <1>1, <1>2, <1>4, <2>3 DEF Finding
  <2> QED
    BY <1>1, <1>4, <2>1, <2>2, <2>4 DEF Answers
<1>10. Replied(c)'
  BY <1>1 DEF Replied, Returned, Running, NotYet
<1>11. ASSUME req[c].tool = "macro" PROVE i = n /\ \A k \in 1 .. Len(done[c]) : done[c][k].at = k
  <2>1. sent[c] <= n /\ \A k \in 1 .. Len(done[c]) : done[c][k].at = k
    BY <1>11 DEF CallInv, StepByStep
  <2>2. i \notin 1 .. Len(done[c])
    BY <1>6, <2>1
  <2> QED
    BY <1>1, <1>2, <2>1, <2>2
<1>12. StepByStep(c)'
  <2> SUFFICES ASSUME req[c].tool = "macro"
               PROVE  sent[c] <= n + 1 /\ \A k \in 1 .. n : done'[c][k].at = k
    BY <1>1, <1>4 DEF StepByStep
  <2>1. sent[c] <= n
    BY DEF CallInv, StepByStep
  <2>2. n \in Nat
    BY <1>2
  <2>3. \A k \in 1 .. n : done'[c][k].at = k
    BY <1>3, <1>4, <1>5, <1>11
  <2> HIDE DEF n
  <2> QED
    BY <1>2, <2>1, <2>2, <2>3
<1>13. UsesLatest(c)'
  <2> DEFINE before(j, v) == {done[c][k].at : k \in FoundBefore(c, j, v)}
  <2>0. \A j \in 1 .. Len(used[c]) : \A v \in DOMAIN used[c][j] :
          used[c][j][v] \in before(j, v) \cup {0} /\ \A m \in before(j, v) : used[c][j][v] >= m
    BY DEF CallInv, UsesLatest
  <2> SUFFICES ASSUME NEW j \in 1 .. Len(used[c]), NEW v \in DOMAIN used[c][j]
               PROVE  before(j, v)' = before(j, v)
    <3>1. \A j \in 1 .. Len(used'[c]) : \A v \in DOMAIN used'[c][j] :
            used'[c][j][v] \in before(j, v)' \cup {0} /\ \A m \in before(j, v)' : used'[c][j][v] >= m
      <4> HIDE DEF before
      <4> QED
        BY <1>1, <2>0
    <3> QED
      BY <3>1 DEF UsesLatest
  <2>1. CASE req[c].tool = "macro"
    <3>1. j <= n
      BY <1>2, <2>1 DEF CallInv, Sending, StepByStep
    <3>2. ~(done'[c][n].at < j)
      BY <1>2, <1>3, <1>4, <1>11, <2>1, <3>1
    <3>3. DOMAIN done'[c] = 1 .. n
      BY <1>4, SequenceHas
    <3>4. \A k \in FoundBefore(c, j, v) : k \in 1 .. Len(done[c]) /\ done'[c][k] = done[c][k]
      BY <1>2, <1>4 DEF FoundBefore
    <3>5. \A k : k \in FoundBefore(c, j, v)' <=> k \in FoundBefore(c, j, v)
      <4>1. \A k \in 1 .. Len(done[c]) : k \in 1 .. n
        BY <1>2
      <4> HIDE DEF n
      <4> QED
        BY <1>2, <1>4, <1>5, <3>2, <3>3, <4>1 DEF FoundBefore
    <3> QED
      BY <3>4, <3>5
  <2>2. CASE req[c].tool # "macro"
    <3>1. DOMAIN used[c][j] = {}
      <4>1. used[c][j] = <<>> /\ DOMAIN <<>> = {}
        BY <2>2 DEF CallInv, Sending
      <4> QED
        BY <4>1
    <3> QED
      BY <3>1
  <2> QED
    BY <2>1, <2>2
<1> QED
  BY <1>7, <1>8, <1>9, <1>10, <1>12, <1>13 DEF CallInv

LEMMA ReturnKeeps ==
  ASSUME StateOK, NEW c \in Calls, CallInv(c), Return(c)
  PROVE  CallInv(c)'
<1>1. /\ req'[c] = req[c] /\ job'[c] = job[c] /\ used'[c] = used[c] /\ done'[c] = done[c] /\ sent'[c] = sent[c]
      /\ Running(c) /\ Len(done[c]) = Len(Plan(c)) /\ reply'[c] = Result(c) /\ Plan(c)' = Plan(c)
  BY DEF Return, StateOK, Plan
<1>2. Fresh(c)' /\ Asked(c)'
  BY <1>1 DEF CallInv, Fresh, Asked, Running
<1>3. Sending(c)' /\ Answers(c)' /\ StepByStep(c)' /\ UsesLatest(c)'
  BY <1>1 DEF CallInv, Sending, Answers, Finding, StepByStep, UsesLatest, FoundBefore
<1>4. Result(c).code = 200 => Result(c).results = Gather(done[c])
  BY DEF Result, Failed
<1>5. Replied(c)'
  BY <1>1, <1>4 DEF Replied, Returned, Results
<1> QED
  BY <1>2, <1>3, <1>5 DEF CallInv

\* A call over REST, or of a page, becomes what its tool makes of it.
LEMMA CallKeeps ==
  ASSUME StateOK, NEW c \in Calls, CallInv(c), NEW tools, Call(c, tools)
  PROVE  CallInv(c)'
<1>1. PICK r \in Requests[c] :
        /\ req' = [req EXCEPT ![c] = r] /\ job' = [job EXCEPT ![c] = Tool(r)]
        /\ reply' = [reply EXCEPT ![c] = IF Refusal(r) = 0 THEN NotYet ELSE Failed(Refusal(r))]
  BY DEF Call
<1>2. WellFormed(r)
  BY RequestsAssumption
<1>3. Refusal(r) \in {0, 404, 500}
  BY DEF Refusal
<1>4. /\ req'[c] = r /\ job'[c] = Tool(r) /\ req[c] = NoRequest
      /\ reply'[c] = IF Refusal(r) = 0 THEN NotYet ELSE Failed(Refusal(r))
      /\ UNCHANGED <<sent, done, used>>
  BY <1>1 DEF Call, StateOK
<1>5. reply'[c] \in {NotYet, Failed(404), Failed(500)}
  BY <1>3, <1>4
<1> QED
  BY <1>2, <1>4, <1>5, CallMade

LEMMA PageCallKeeps ==
  ASSUME StateOK, NEW c \in Calls, CallInv(c), RunMacro(c) \/ Introspect(c)
  PROVE  CallInv(c)'
<1>1. PICK r : /\ WellFormed(r) /\ req[c] = NoRequest /\ req' = [req EXCEPT ![c] = r]
               /\ job' = [job EXCEPT ![c] = Tool(r)] /\ UNCHANGED <<sent, done, used, reply>>
  <2>1. CASE RunMacro(c)
    <3> DEFINE r == [tool |-> "macro", steps |-> page.text.steps, from |-> "page"]
    <3>1. req[c] = NoRequest /\ req' = [req EXCEPT ![c] = r] /\ job' = [job EXCEPT ![c] = Tool(req'[c])]
          /\ UNCHANGED <<sent, done, used, reply>>
      BY <2>1 DEF RunMacro
    <3>2. WellFormed(r)
      <4>1. page.text \in Texts \cup {NoText}
        BY DEF StateOK
      <4>2. IsSequence(page.text.steps)
        BY <4>1, RequestsAssumption, EmptyIs DEF NoText
      <4> QED
        BY <4>2 DEF WellFormed
    <3> HIDE DEF r
    <3>3. req'[c] = r
      BY <3>1 DEF StateOK
    <3> QED
      BY <3>1, <3>2, <3>3
  <2>2. CASE Introspect(c)
    <3>1. PICK h \in Hosts : req' = [req EXCEPT ![c] = [tool |-> "introspect", host |-> h, from |-> "page"]]
      BY <2>2 DEF Introspect
    <3> DEFINE r == [tool |-> "introspect", host |-> h, from |-> "page"]
    <3>2. WellFormed(r)
      BY DEF WellFormed
    <3>3. req[c] = NoRequest /\ req' = [req EXCEPT ![c] = r] /\ job' = [job EXCEPT ![c] = Tool(req'[c])]
          /\ UNCHANGED <<sent, done, used, reply>>
      BY <2>2, <3>1 DEF Introspect, pages
    <3> HIDE DEF r
    <3>4. req'[c] = r
      BY <3>3 DEF StateOK
    <3> QED
      BY <3>2, <3>3, <3>4
  <2> QED
    BY <2>1, <2>2
<1>2. req'[c] = r /\ job'[c] = Tool(r)
  BY <1>1 DEF StateOK
<1>3. reply'[c] = NotYet
  BY <1>1 DEF CallInv, Fresh
<1> QED
  BY <1>1, <1>2, <1>3, CallMade

\* The step of one call, for every call.
LEMMA OneOfMany ==
  ASSUME SendersInv, NEW c \in Calls, CallInv(c)', StateOK',
         \A d \in Calls \ {c} : /\ req'[d] = req[d] /\ job'[d] = job[d] /\ sent'[d] = sent[d]
                                /\ done'[d] = done[d] /\ used'[d] = used[d] /\ reply'[d] = reply[d]
  PROVE  SendersInv'
<1>1. ASSUME NEW d \in Calls PROVE CallInv(d)'
  <2>1. CASE d = c
    BY <2>1
  <2>2. CASE d # c
    <3>1. CallInv(d)
      BY DEF SendersInv
    <3> QED
      BY <2>2, <3>1, OtherCall
  <2> QED
    BY <2>1, <2>2
<1> QED
  BY <1>1 DEF SendersInv

LEMMA StateStep ==
  ASSUME StateOK, [Next]_vars
  PROVE  StateOK'
<1> DEFINE Six == /\ DOMAIN req' = Calls /\ DOMAIN job' = Calls /\ DOMAIN sent' = Calls
                  /\ DOMAIN done' = Calls /\ DOMAIN used' = Calls /\ DOMAIN reply' = Calls
           Page == page' \in [text : Texts \cup {NoText}, rows : Calls \cup {0}, vars : Calls \cup {0}]
<1>1. page \in [text : Texts \cup {NoText}, rows : Calls \cup {0}, vars : Calls \cup {0}]
  BY DEF StateOK
<1>2. ASSUME UNCHANGED page, Six PROVE StateOK'
  BY <1>1, <1>2 DEF StateOK
<1>3. ASSUME Page, UNCHANGED <<req, job, sent, done, used, reply>> PROVE StateOK'
  BY <1>3 DEF StateOK
<1>4. CASE UNCHANGED vars
  BY <1>4 DEF StateOK, vars
<1>5. ASSUME NEW c \in Calls, NEW tools, Call(c, tools) PROVE StateOK'
  <2>1. UNCHANGED page /\ Six
    BY <1>5 DEF Call, StateOK, pages
  <2> QED
    BY <1>2, <2>1
<1>6. ASSUME NEW c \in Calls, Send(c) \/ Introspect(c) PROVE StateOK'
  <2>1. UNCHANGED page /\ Six
    BY <1>6 DEF Send, Introspect, StateOK, pages
  <2> QED
    BY <1>2, <2>1
<1>7. ASSUME NEW c \in Calls, NEW i, Answer(c, i) PROVE StateOK'
  <2>1. UNCHANGED page /\ Six
    BY <1>7 DEF Answer, StateOK, pages
  <2> QED
    BY <1>2, <2>1
<1>8. ASSUME NEW c \in Calls, Return(c) PROVE StateOK'
  <2>1. Six
    BY <1>8 DEF Return, StateOK
  <2>2. Page
    BY <1>1, <1>8 DEF Return
  <2> QED
    BY <2>1, <2>2 DEF StateOK
<1>9. ASSUME NEW c \in Calls, RunMacro(c) PROVE StateOK'
  <2>1. Six
    BY <1>9 DEF RunMacro, StateOK
  <2>2. Page
    BY <1>1, <1>9 DEF RunMacro
  <2> QED
    BY <2>1, <2>2 DEF StateOK
<1>10. CASE TypeSteps
  <2>1. Page /\ UNCHANGED <<req, job, sent, done, used, reply>>
    BY <1>1, <1>10 DEF TypeSteps
  <2> QED
    BY <1>3, <2>1
<1>11. CASE ClearSteps
  <2>1. Page /\ UNCHANGED <<req, job, sent, done, used, reply>>
    BY <1>11 DEF ClearSteps
  <2> QED
    BY <1>3, <2>1
<1>12. ASSUME NEW h, DeleteSchema(h) PROVE StateOK'
  BY <1>12 DEF DeleteSchema, StateOK
<1> QED
  BY <1>4, <1>5, <1>6, <1>7, <1>8, <1>9, <1>10, <1>11, <1>12
     DEF Next, PostReplayOrBulk, PostScan, PostMacro, PostIdorOrAB, PostIntrospect, PostGraphQL

LEMMA SendersStep == SendersInv /\ [Next]_vars => SendersInv'
<1> SUFFICES ASSUME SendersInv, [Next]_vars PROVE SendersInv'
  OBVIOUS
<1>0. StateOK /\ StateOK' /\ \A c \in Calls : CallInv(c)
  BY StateStep DEF SendersInv
<1>1. CASE UNCHANGED <<req, job, sent, done, used, reply>>
  <2>1. \A c \in Calls : CallInv(c)'
    BY <1>0, <1>1, OtherCall
  <2> QED
    BY <1>0, <2>1 DEF SendersInv
<1>2. ASSUME NEW c \in Calls, NEW tools, Call(c, tools) PROVE SendersInv'
  <2>1. CallInv(c)'
    BY <1>0, <1>2, CallKeeps
  <2>2. \A d \in Calls \ {c} : /\ req'[d] = req[d] /\ job'[d] = job[d] /\ sent'[d] = sent[d]
                               /\ done'[d] = done[d] /\ used'[d] = used[d] /\ reply'[d] = reply[d]
    BY <1>0, <1>2 DEF Call, StateOK
  <2> QED
    BY <1>0, <2>1, <2>2, OneOfMany
<1>3. ASSUME NEW c \in Calls, RunMacro(c) \/ Introspect(c) PROVE SendersInv'
  <2>1. CallInv(c)'
    BY <1>0, <1>3, PageCallKeeps
  <2>2. \A d \in Calls \ {c} : /\ req'[d] = req[d] /\ job'[d] = job[d] /\ sent'[d] = sent[d]
                               /\ done'[d] = done[d] /\ used'[d] = used[d] /\ reply'[d] = reply[d]
    BY <1>0, <1>3 DEF RunMacro, Introspect, StateOK
  <2> QED
    BY <1>0, <2>1, <2>2, OneOfMany
<1>4. ASSUME NEW c \in Calls, Send(c) PROVE SendersInv'
  <2>1. CallInv(c)'
    BY <1>0, <1>4, SendKeeps
  <2>2. \A d \in Calls \ {c} : /\ req'[d] = req[d] /\ job'[d] = job[d] /\ sent'[d] = sent[d]
                               /\ done'[d] = done[d] /\ used'[d] = used[d] /\ reply'[d] = reply[d]
    BY <1>0, <1>4 DEF Send, StateOK
  <2> QED
    BY <1>0, <2>1, <2>2, OneOfMany
<1>5. ASSUME NEW c \in Calls, NEW i, Answer(c, i) PROVE SendersInv'
  <2>1. CallInv(c)'
    BY <1>0, <1>5, AnswerKeeps
  <2>2. \A d \in Calls \ {c} : /\ req'[d] = req[d] /\ job'[d] = job[d] /\ sent'[d] = sent[d]
                               /\ done'[d] = done[d] /\ used'[d] = used[d] /\ reply'[d] = reply[d]
    BY <1>0, <1>5 DEF Answer, StateOK
  <2> QED
    BY <1>0, <2>1, <2>2, OneOfMany
<1>6. ASSUME NEW c \in Calls, Return(c) PROVE SendersInv'
  <2>1. CallInv(c)'
    BY <1>0, <1>6, ReturnKeeps
  <2>2. \A d \in Calls \ {c} : /\ req'[d] = req[d] /\ job'[d] = job[d] /\ sent'[d] = sent[d]
                               /\ done'[d] = done[d] /\ used'[d] = used[d] /\ reply'[d] = reply[d]
    BY <1>0, <1>6 DEF Return, StateOK
  <2> QED
    BY <1>0, <2>1, <2>2, OneOfMany
<1>7. ASSUME NEW h, TypeSteps \/ ClearSteps \/ DeleteSchema(h) PROVE SendersInv'
  BY <1>1, <1>7 DEF TypeSteps, ClearSteps, DeleteSchema
<1>8. CASE UNCHANGED vars
  BY <1>1, <1>8 DEF vars
<1> QED
  BY <1>2, <1>3, <1>4, <1>5, <1>6, <1>7, <1>8
     DEF Next, PostReplayOrBulk, PostScan, PostMacro, PostIdorOrAB, PostIntrospect, PostGraphQL

LEMMA SendersInit == Init => SendersInv
<1> SUFFICES ASSUME Init PROVE SendersInv
  OBVIOUS
<1>1. StateOK
  BY DEF Init, StateOK, NoText
<1>2. ASSUME NEW c \in Calls PROVE CallInv(c)
  <2>1. /\ req[c] = NoRequest /\ job[c] = NoJob /\ sent[c] = 0 /\ done[c] = <<>> /\ used[c] = <<>>
        /\ reply[c] = NotYet
    BY DEF Init
  <2>2. Fresh(c) /\ Asked(c)
    BY <2>1 DEF Fresh, Asked
  <2>3. Plan(c) = <<>> /\ Sending(c)
    BY <2>1, EmptyIs DEF Plan, NoJob, Sending
  <2>4. Answers(c)
    BY <2>1, EmptyIs DEF Answers, Finding
  <2>5. Replied(c)
    BY <2>1 DEF Replied, Returned, NotYet
  <2>6. StepByStep(c) /\ UsesLatest(c)
    BY <2>1, EmptyIs DEF StepByStep, UsesLatest
  <2> QED
    BY <2>2, <2>3, <2>4, <2>5, <2>6 DEF CallInv
<1> QED
  BY <1>1, <1>2 DEF SendersInv

LEMMA SendersInvariant == Spec => []SendersInv
BY SendersInit, SendersStep, PTL DEF Spec

\* What the caller of a returned call gets.
LEMMA RepliesAre ==
  ASSUME NEW c, CallInv(c), Returned(c)
  PROVE  InOrder(c) /\ ScanIsComplete(c) /\ OriginalIsNoFinding(c)
<1> DEFINE rs == done[c]
           n == Len(rs)
<1>1. req[c] # NoRequest /\ WellFormed(req[c]) /\ Plan(c) = Tool(req[c]).plan
  BY DEF CallInv, Fresh, Asked, Returned, NotYet, Plan
<1>2. IsSequence(rs) /\ n \in Nat /\ n = Len(Plan(c)) /\ Results(c) = Gather(rs)
  BY SequenceHas DEF CallInv, Answers, Replied
<1>3. /\ \A k \in 1 .. n : rs[k].at \in 1 .. n
      /\ \A j, k \in 1 .. n : rs[j].at = rs[k].at => j = k
  <2>1. sent[c] \in 0 .. n
    BY <1>2 DEF CallInv, Sending
  <2>2. \A k \in 1 .. n : rs[k].at \in 1 .. sent[c]
    BY DEF CallInv, Answers
  <2>3. \A j, k \in 1 .. n : rs[j].at = rs[k].at => j = k
    BY DEF CallInv, Answers
  <2>4. 1 .. sent[c] \subseteq 1 .. n
    BY <1>2, <2>1
  <2> QED
    BY <2>2, <2>3, <2>4
<1>4. Finding(c, rs)
  BY DEF CallInv, Answers
<1> HIDE DEF rs
<1>5. /\ Len(Results(c)) = n
      /\ \A i \in 1 .. n : \E k \in 1 .. n : Results(c)[i] = rs[k] /\ rs[k].at = i
  BY <1>2, <1>3, GatherIs
<1>6. InOrder(c)
  BY <1>2, <1>5 DEF InOrder
<1>7. ScanIsComplete(c)
  <2> SUFFICES ASSUME req[c].tool = "scan", NEW p \in Range(req[c].params),
                      NEW cat \in Range(req[c].cats) \cap DOMAIN Payloads, NEW x \in Range(Payloads[cat])
               PROVE  \E i \in 1 .. Len(Results(c)) :
                        Plan(c)[Results(c)[i].at] = [param |-> p, cat |-> cat, payload |-> x]
    BY DEF ScanIsComplete
  <2>1. Plan(c) = ScanPlan(req[c].params, req[c].cats)
    BY <1>1 DEF Tool, Scan, Sends
  <2>2. [param |-> p, cat |-> cat, payload |-> x] \in Range(Plan(c))
    BY <1>1, <2>1, ScanPlanIs DEF WellFormed
  <2>3. DOMAIN Plan(c) = 1 .. n
    BY <1>1, <1>2, PlanIs, SequenceHas
  <2>4. PICK i \in 1 .. n : Plan(c)[i] = [param |-> p, cat |-> cat, payload |-> x]
    BY <2>2, <2>3 DEF Range
  <2> QED
    BY <1>5, <2>4
<1>8. OriginalIsNoFinding(c)
  BY <1>4, <1>5 DEF OriginalIsNoFinding, Finding
<1> QED
  BY <1>6, <1>7, <1>8

\* What a caller gets is complete and in the order in which it asked, whatever
\* was under way at the same time, in whatever order the answers came in.
THEOREM ResultsComeInOrder == Spec => []RepliesInOrder
<1>1. SendersInv => RepliesInOrder
  BY RepliesAre DEF SendersInv, RepliesInOrder
<1> QED
  BY <1>1, SendersInvariant, PTL

\* A step of a macro is sent with the latest value of each variable.
THEOREM MacroUsesLatest == Spec => []StepsUseLatestValue
<1>1. SendersInv => StepsUseLatestValue
  BY DEF SendersInv, CallInv, UsesLatest, StepsUseLatestValue
<1> QED
  BY <1>1, SendersInvariant, PTL
=============================================================================

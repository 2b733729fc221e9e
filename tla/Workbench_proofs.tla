-------------------------- MODULE Workbench_proofs --------------------------
(* The resender and Frida, for any number of tabs, cards, requests and       *)
(* injections.                                                               *)
EXTENDS Workbench, TLAPS

(***************************************************************************)
(* The resender                                                            *)
(***************************************************************************)

CardSet  == [text : Texts \cup {Blank}, result : Nat]
BlankSet == [text : Texts \cup {Blank}, result : {NoSend}]
SendSet  == [by : Pages, card : Nat, drawing : Nat, text : Texts \cup {Blank}, answered : BOOLEAN]

SendType ==
  /\ drawn \in [Pages -> Nat]
  /\ cards \in [Pages -> Seq(CardSet)]
  /\ sends \in Seq(SendSet)

\* The numbers on the cards are those of requests that there have been.
ResultsAreSends ==
  \A p \in Pages : \A k \in DOMAIN cards[p] :
    cards[p][k].result # NoSend => cards[p][k].result \in DOMAIN sends

SendInv == SendType /\ ResultsAreSends /\ ResultIsOfItsCard

LEMMA SendsUntouched == ASSUME SendInv, UNCHANGED sendVars PROVE SendInv'
<1>1. cards' = cards /\ drawn' = drawn /\ sends' = sends
  BY DEF sendVars
<1>2. SendType'
  BY <1>1 DEF SendInv, SendType
<1>3. ResultsAreSends' /\ ResultIsOfItsCard'
  BY <1>1 DEF SendInv, ResultsAreSends, ResultIsOfItsCard
<1> QED
  BY <1>2, <1>3 DEF SendInv

\* New cards on one page, drawn again, show no answers; other pages stay.
LEMMA DrawnAgain ==
  ASSUME SendInv, NEW p \in Pages, NEW new \in Seq(BlankSet),
         cards' = [cards EXCEPT ![p] = new],
         drawn' = [drawn EXCEPT ![p] = @ + 1],
         UNCHANGED sends
  PROVE  SendInv'
<1>1. new \in Seq(CardSet)
  <2>1. BlankSet \subseteq CardSet
    BY DEF CardSet, BlankSet, NoSend
  <2> QED
    BY <2>1
<1>2. SendType'
  BY <1>1 DEF SendInv, SendType
<1>3. \A k \in DOMAIN new : new[k].result = NoSend
  <2>1. \A k \in DOMAIN new : new[k] \in BlankSet
    OBVIOUS
  <2> QED
    BY <2>1 DEF BlankSet
<1>4. \A q \in Pages : IF q = p THEN cards'[q] = new ELSE cards'[q] = cards[q] /\ drawn'[q] = drawn[q]
  BY DEF SendInv, SendType
<1>5. ResultsAreSends' /\ ResultIsOfItsCard'
  BY <1>3, <1>4 DEF SendInv, ResultsAreSends, ResultIsOfItsCard
<1> QED
  BY <1>2, <1>5 DEF SendInv

LEMMA TypeKeeps ==
  ASSUME SendInv, NEW p \in Pages, NEW k, NEW t \in Texts, Type(p, k, t)
  PROVE  SendInv'
<1>1. /\ k \in DOMAIN cards[p]
      /\ cards' = [cards EXCEPT ![p] = [cards[p] EXCEPT ![k] = [cards[p][k] EXCEPT !.text = t]]]
      /\ UNCHANGED <<drawn, sends>>
  BY DEF Type
<1>2. cards[p] \in Seq(CardSet) /\ cards[p][k] \in CardSet
  BY <1>1 DEF SendInv, SendType
<1> DEFINE card == [cards[p][k] EXCEPT !.text = t]
           new  == [cards[p] EXCEPT ![k] = card]
<1>3. card \in CardSet /\ card.result = cards[p][k].result
  BY <1>2 DEF CardSet
<1>4. cards' = [cards EXCEPT ![p] = new]
  BY <1>1
<1> HIDE DEF card
<1>5. /\ new \in Seq(CardSet) /\ DOMAIN new = DOMAIN cards[p]
      /\ \A l \in DOMAIN new : new[l].result = cards[p][l].result
  BY <1>1, <1>2, <1>3
<1> HIDE DEF new
<1>6. SendType'
  BY <1>1, <1>4, <1>5 DEF SendInv, SendType
<1>7. \A q \in Pages : /\ DOMAIN cards'[q] = DOMAIN cards[q]
                       /\ \A l \in DOMAIN cards[q] : cards'[q][l].result = cards[q][l].result
  BY <1>4, <1>5 DEF SendInv, SendType
<1>8. ResultsAreSends' /\ ResultIsOfItsCard'
  BY <1>1, <1>7 DEF SendInv, ResultsAreSends, ResultIsOfItsCard
<1> QED
  BY <1>6, <1>8 DEF SendInv

LEMMA SendKeeps ==
  ASSUME SendInv, NEW p \in Pages, NEW k, Send(p, k)
  PROVE  SendInv'
<1> DEFINE s == [by |-> p, card |-> k, drawing |-> drawn[p], text |-> cards[p][k].text, answered |-> FALSE]
<1>1. k \in DOMAIN cards[p] /\ sends' = Append(sends, s) /\ UNCHANGED <<cards, drawn>>
  BY DEF Send
<1>2. s \in SendSet
  <2>1. cards[p] \in Seq(CardSet) /\ drawn[p] \in Nat
    BY DEF SendInv, SendType
  <2>2. k \in Nat /\ cards[p][k].text \in Texts \cup {Blank}
    <3>1. k \in Nat /\ cards[p][k] \in CardSet
      BY <1>1, <2>1
    <3> QED
      BY <3>1 DEF CardSet
  <2> QED
    BY <2>1, <2>2 DEF SendSet
<1> HIDE DEF s
<1>3. sends' \in Seq(SendSet)
  BY <1>1, <1>2 DEF SendInv, SendType
<1>4. SendType'
  BY <1>1, <1>3 DEF SendInv, SendType
<1>5. \A n \in DOMAIN sends : n \in DOMAIN sends' /\ sends'[n] = sends[n]
  BY <1>1, <1>2 DEF SendInv, SendType
<1>6. ResultsAreSends' /\ ResultIsOfItsCard'
  BY <1>1, <1>5 DEF SendInv, ResultsAreSends, ResultIsOfItsCard
<1> QED
  BY <1>4, <1>6 DEF SendInv

LEMMA AnswerKeeps ==
  ASSUME SendInv, NEW n \in DOMAIN sends, Answer(n)
  PROVE  SendInv'
<1> DEFINE s == [sends[n] EXCEPT !.answered = TRUE]
           p == sends[n].by
           k == sends[n].card
<1>1. sends[n] \in SendSet /\ n \in Nat
  BY DEF SendInv, SendType
<1>0. p \in Pages /\ k \in Nat
  BY <1>1 DEF SendSet
<1>2. s \in SendSet /\ s.by = p /\ s.card = k /\ s.drawing = sends[n].drawing
  BY <1>1 DEF SendSet
<1>3. sends' = [sends EXCEPT ![n] = s] /\ UNCHANGED drawn
  BY DEF Answer
<1> HIDE DEF s
<1>4. sends' \in Seq(SendSet) /\ DOMAIN sends' = DOMAIN sends
  BY <1>2, <1>3 DEF SendInv, SendType
<1>5. \A m \in DOMAIN sends : /\ sends'[m].by = sends[m].by /\ sends'[m].card = sends[m].card
                              /\ sends'[m].drawing = sends[m].drawing
  BY <1>2, <1>3
<1>6. CASE cards' = cards
  <2>1. SendType'
    BY <1>3, <1>4, <1>6 DEF SendInv, SendType
  <2>2. ResultsAreSends' /\ ResultIsOfItsCard'
    BY <1>3, <1>4, <1>5, <1>6 DEF SendInv, ResultsAreSends, ResultIsOfItsCard
  <2> QED
    BY <2>1, <2>2 DEF SendInv
<1>7. CASE cards' # cards
  <2>1. OnShow(n) /\ cards' = [cards EXCEPT ![p] = [cards[p] EXCEPT ![k] = [cards[p][k] EXCEPT !.result = n]]]
    BY <1>7 DEF Answer
  <2>2. cards[p] \in Seq(CardSet)
    BY <1>0 DEF SendInv, SendType
  <2> DEFINE card == [cards[p][k] EXCEPT !.result = n]
             new  == [cards[p] EXCEPT ![k] = card]
  <2>3. k \in DOMAIN cards[p] => card \in CardSet /\ card.result = n
    <3> SUFFICES ASSUME k \in DOMAIN cards[p]
                 PROVE  card \in CardSet /\ card.result = n
      OBVIOUS
    <3>1. cards[p][k] \in CardSet
      BY <2>2
    <3> QED
      BY <1>1, <3>1 DEF CardSet
  <2>4. cards' = [cards EXCEPT ![p] = new]
    BY <2>1
  <2> HIDE DEF card
  <2>5. /\ new \in Seq(CardSet) /\ DOMAIN new = DOMAIN cards[p]
        /\ \A l \in DOMAIN new : IF l = k THEN new[l].result = n ELSE new[l] = cards[p][l]
    <3>1. DOMAIN new = DOMAIN cards[p] /\ \A l \in DOMAIN new : IF l = k THEN new[l] = card ELSE new[l] = cards[p][l]
      BY <2>2
    <3>2. CASE k \in DOMAIN cards[p]
      <4>1. card \in CardSet
        BY <2>3, <3>2
      <4>2. new \in Seq(CardSet)
        BY <2>2, <3>2, <4>1
      <4> QED
        BY <2>3, <3>1, <3>2, <4>2
    <3>3. CASE k \notin DOMAIN cards[p]
      <4>1. new = cards[p]
        BY <2>2, <3>1, <3>3
      <4> QED
        BY <2>2, <3>3, <4>1
    <3> QED
      BY <3>2, <3>3
  <2> HIDE DEF new
  <2>6. SendType'
    BY <1>0, <1>1, <1>3, <1>4, <2>4, <2>5 DEF SendInv, SendType
  <2>7. /\ DOMAIN cards'[p] = DOMAIN cards[p]
        /\ \A l \in DOMAIN cards[p] : IF l = k THEN cards'[p][l].result = n ELSE cards'[p][l] = cards[p][l]
        /\ \A q \in Pages \ {p} : cards'[q] = cards[q]
    BY <1>0, <1>1, <2>4, <2>5 DEF SendInv, SendType
  <2>8. sends[n].drawing = drawn[p]
    BY <2>1 DEF OnShow
  <2>9. ASSUME NEW q \in Pages, NEW l \in DOMAIN cards'[q], cards'[q][l].result # NoSend
        PROVE  /\ cards'[q][l].result \in DOMAIN sends'
               /\ sends'[cards'[q][l].result].by = q /\ sends'[cards'[q][l].result].card = l
               /\ sends'[cards'[q][l].result].drawing = drawn'[q]
    <3>1. CASE q = p /\ l = k
      BY <1>0, <1>1, <1>3, <1>4, <1>5, <2>7, <2>8, <3>1
    <3>2. CASE ~(q = p /\ l = k)
      <4>1. l \in DOMAIN cards[q] /\ cards'[q][l] = cards[q][l]
        BY <2>7, <2>9, <3>2
      <4> QED
        BY <1>3, <1>4, <1>5, <2>9, <4>1 DEF SendInv, ResultsAreSends, ResultIsOfItsCard
    <3> QED
      BY <3>1, <3>2
  <2> QED
    BY <2>6, <2>9 DEF SendInv, ResultsAreSends, ResultIsOfItsCard
<1> QED
  BY <1>6, <1>7

\* An answer on a card of the resender is that of a request which this card has
\* sent since it was drawn, however late it comes and whatever was drawn since.
THEOREM AnswersStayOnTheirCard == Spec => []ResultIsOfItsCard
<1>1. Init => SendInv
  BY DEF Init, SendInv, SendType, ResultsAreSends, ResultIsOfItsCard
<1>2. SendInv /\ [Next]_vars => SendInv'
  <2> SUFFICES ASSUME SendInv, [Next]_vars PROVE SendInv'
    OBVIOUS
  <2>1. CASE UNCHANGED sendVars
    BY <2>1, SendsUntouched
  <2>2. ASSUME NEW p \in Pages, NEW to, Nav(p, to) PROVE SendInv'
    <3>1. CASE to = "resender"
      <4>1. <<>> \in Seq(BlankSet)
        OBVIOUS
      <4> QED
        BY <2>2, <3>1, <4>1, DrawnAgain DEF Nav, BuildResender
    <3>2. CASE to # "resender"
      BY <2>1, <2>2, <3>2 DEF Nav
    <3> QED
      BY <3>1, <3>2
  <2>3. ASSUME NEW p \in Pages, NewCard(p) PROVE SendInv'
    <3> DEFINE new == [k \in 1 .. Len(cards[p]) + 1 |-> Card(Blank)]
    <3>1. Len(cards[p]) \in Nat
      BY DEF SendInv, SendType
    <3>2. Card(Blank) \in BlankSet
      BY DEF Card, BlankSet
    <3>3. new \in Seq(BlankSet)
      <4> HIDE DEF NoSend
      <4> QED
        BY <3>1, <3>2
    <3>4. /\ cards' = [cards EXCEPT ![p] = new]
          /\ drawn' = [drawn EXCEPT ![p] = @ + 1] /\ UNCHANGED sends
      BY <2>3 DEF NewCard
    <3> QED
      BY <3>3, <3>4, DrawnAgain
  <2>4. ASSUME NEW p \in Pages, NEW k \in DOMAIN cards[p], Send(p, k) \/ \E t \in Texts : Type(p, k, t)
        PROVE  SendInv'
    BY <2>4, SendKeeps, TypeKeeps
  <2>5. ASSUME NEW n \in DOMAIN sends, Answer(n) PROVE SendInv'
    BY <2>5, AnswerKeeps
  <2>6. CASE UseFrida
    BY <2>1, <2>6 DEF UseFrida
  <2>7. ASSUME NEW p \in Pages, NEW e \in Entries,
               SetDiffLeft(p, e) \/ CompareDiff(p, e) \/ \E to \in Tools : SendTo(p, to, e)
        PROVE  SendInv'
    BY <2>1, <2>7 DEF SetDiffLeft, CompareDiff, SendTo
  <2> QED
    BY <2>1, <2>2, <2>3, <2>4, <2>5, <2>6, <2>7 DEF Next, vars
<1>3. SendInv => ResultIsOfItsCard
  BY DEF SendInv
<1> QED
  BY <1>1, <1>2, <1>3, PTL DEF Spec

(***************************************************************************)
(* Frida                                                                   *)
(***************************************************************************)

TabSet == [open : BOOLEAN, visit : Nat, device : BOOLEAN, last : Targets \cup {F!NoTarget},
           generated : BOOLEAN, console : [F!Panels -> SUBSET Nat]]
InjSet == [by : Pages, visit : Nat, panel : F!Panels, target : Targets,
           pc : {"attach", "script", "load", "ended", "returned"}, live : BOOLEAN, script : BOOLEAN,
           lost : {"no", "resume", "detach"}]

FridaType ==
  /\ tab \in [Pages -> TabSet]
  /\ inj \in Seq(InjSet)
  /\ stored \in Seq(Nat)

\* What was put into the table are injections, and those that have returned were.
StoredAreReturned ==
  /\ \A i \in DOMAIN stored : stored[i] \in DOMAIN inj
  /\ \A t \in DOMAIN table : table[t] \in DOMAIN inj
  /\ \A n \in DOMAIN inj : inj[n].pc = "returned" => \E i \in DOMAIN stored : stored[i] = n

FridaInv == FridaType /\ StoredAreReturned /\ LiveIsListed

LEMMA FridaUntouched == ASSUME FridaInv, UNCHANGED fridaVars PROVE FridaInv'
<1>1. tab' = tab /\ inj' = inj /\ stored' = stored /\ table' = table
  BY DEF fridaVars
<1>2. FridaType' /\ StoredAreReturned'
  BY <1>1 DEF FridaInv, FridaType, StoredAreReturned
<1>3. LiveIsListed'
  BY <1>1 DEF FridaInv, LiveIsListed, F!LiveIsListed, F!Injections
<1> QED
  BY <1>2, <1>3 DEF FridaInv

\* No step but Return and Detach touches the table, and none of these others
\* makes a session live that has returned, or one that was lost found.
LEMMA NoneRevived ==
  ASSUME FridaInv, FridaType', UNCHANGED <<stored, table>>,
         DOMAIN inj \subseteq DOMAIN inj',
         \A n \in DOMAIN inj : inj'[n].target = inj[n].target,
         \A n \in DOMAIN inj' : inj'[n].pc = "returned" =>
           /\ n \in DOMAIN inj /\ inj[n].pc = "returned" /\ (inj'[n].live => inj[n].live)
           /\ inj[n].lost # "no" => inj'[n].lost # "no"
  PROVE  FridaInv'
<1>1. StoredAreReturned'
  BY DEF FridaInv, StoredAreReturned
<1>2. ASSUME NEW n \in DOMAIN inj', inj'[n].live, inj'[n].pc = "returned"
      PROVE  \/ inj'[n].target \in DOMAIN table' /\ table'[inj'[n].target] = n
             \/ \E i, j \in DOMAIN stored' : i < j /\ stored'[i] = n /\ inj'[stored'[j]].target = inj'[n].target
             \/ inj'[n].lost # "no"
  <2>1. n \in DOMAIN inj /\ inj[n].pc = "returned" /\ inj[n].live /\ inj'[n].target = inj[n].target
    BY <1>2
  <2>2. \/ inj[n].target \in DOMAIN table /\ table[inj[n].target] = n
        \/ \E i, j \in DOMAIN stored : i < j /\ stored[i] = n /\ inj[stored[j]].target = inj[n].target
        \/ inj[n].lost # "no"
    BY <2>1 DEF FridaInv, LiveIsListed, F!LiveIsListed, F!Injections
  <2>3. CASE inj[n].target \in DOMAIN table /\ table[inj[n].target] = n
    BY <2>1, <2>3
  <2>4. ASSUME NEW i \in DOMAIN stored, NEW j \in DOMAIN stored,
               i < j, stored[i] = n, inj[stored[j]].target = inj[n].target
        PROVE  \E k, l \in DOMAIN stored' : k < l /\ stored'[k] = n /\ inj'[stored'[l]].target = inj'[n].target
    <3>1. stored[j] \in DOMAIN inj
      BY DEF FridaInv, StoredAreReturned
    <3>2. inj'[stored[j]].target = inj[stored[j]].target
      BY <3>1
    <3> QED
      BY <2>1, <2>4, <3>2
  <2>5. CASE inj[n].lost # "no"
    BY <1>2, <2>5
  <2> QED
    BY <2>2, <2>3, <2>4, <2>5
<1>3. LiveIsListed'
  BY <1>2 DEF LiveIsListed, F!LiveIsListed, F!Injections
<1> QED
  BY <1>1, <1>3 DEF FridaInv

\* A step that changes one injection, which does not return in it.
LEMMA OneChanged ==
  ASSUME FridaInv, tab' \in [Pages -> TabSet], UNCHANGED <<stored, table>>,
         NEW n \in DOMAIN inj, NEW e \in InjSet, inj' = [inj EXCEPT ![n] = e],
         e.target = inj[n].target,
         e.pc = "returned" => inj[n].pc = "returned" /\ (e.live => inj[n].live),
         inj[n].lost # "no" => e.lost # "no"
  PROVE  FridaInv'
<1>1. inj' \in Seq(InjSet) /\ DOMAIN inj' = DOMAIN inj
  BY DEF FridaInv, FridaType
<1>2. \A m \in DOMAIN inj : inj'[m] = IF m = n THEN e ELSE inj[m]
  OBVIOUS
<1>3. FridaType'
  BY <1>1 DEF FridaInv, FridaType
<1> QED
  BY <1>1, <1>2, <1>3, NoneRevived

LEMMA InjFacts ==
  ASSUME FridaInv, NEW n \in DOMAIN inj
  PROVE  n \in Nat /\ inj[n] \in InjSet
BY DEF FridaInv, FridaType

LEMMA StartKeeps ==
  ASSUME FridaInv, NEW p \in Pages, NEW panel \in F!Panels, NEW t \in Targets,
         F!StartInjection(p, panel, t)
  PROVE  FridaInv'
<1> DEFINE e == [by |-> p, visit |-> tab[p].visit, panel |-> panel, target |-> t,
                 pc |-> "attach", live |-> FALSE, script |-> FALSE, lost |-> "no"]
           page == [tab[p] EXCEPT !.last = t, !.console = [tab[p].console EXCEPT ![panel] = {}]]
<1>1. tab[p] \in TabSet
  BY DEF FridaInv, FridaType
<1>2. e \in InjSet /\ e.pc = "attach"
  BY <1>1 DEF TabSet, InjSet
<1>3. page \in TabSet
  <2>1. tab[p].console \in [F!Panels -> SUBSET Nat]
    BY <1>1 DEF TabSet
  <2> DEFINE c == [tab[p].console EXCEPT ![panel] = {}]
  <2>2. c \in [F!Panels -> SUBSET Nat]
    BY <2>1
  <2> HIDE DEF c
  <2>3. [tab[p] EXCEPT !.last = t, !.console = c] \in TabSet
    BY <1>1, <2>2 DEF TabSet
  <2> QED
    BY <2>3 DEF c
<1>4. inj' = Append(inj, e) /\ tab' = [tab EXCEPT ![p] = page] /\ UNCHANGED <<stored, table>>
  BY DEF F!StartInjection
<1> HIDE DEF e, page
<1>5. /\ inj' \in Seq(InjSet) /\ Len(inj) \in Nat /\ DOMAIN inj = 1 .. Len(inj)
      /\ DOMAIN inj' = 1 .. Len(inj) + 1 /\ inj'[Len(inj) + 1] = e
      /\ \A n \in DOMAIN inj : inj'[n] = inj[n]
  BY <1>2, <1>4 DEF FridaInv, FridaType
<1>6. FridaType'
  BY <1>3, <1>4, <1>5 DEF FridaInv, FridaType
<1>7. DOMAIN inj \subseteq DOMAIN inj'
  BY <1>5
<1>8. \A n \in DOMAIN inj' : n \in DOMAIN inj \/ inj'[n] = e
  BY <1>5
<1> QED
  BY <1>2, <1>4, <1>5, <1>6, <1>7, <1>8, NoneRevived

LEMMA ThreadKeeps ==
  ASSUME FridaInv, NEW n, F!Attach(n) \/ F!CreateScript(n) \/ F!LoadScript(n)
  PROVE  FridaInv'
<1>1. n \in DOMAIN inj /\ inj[n].pc # "returned" /\ UNCHANGED <<tab, stored, table>>
  BY DEF F!Attach, F!CreateScript, F!LoadScript, F!At, F!Injections
<1>2. inj[n] \in InjSet /\ tab' \in [Pages -> TabSet]
  BY <1>1 DEF FridaInv, FridaType
<1>3. PICK e : /\ inj' = [inj EXCEPT ![n] = e]
               /\ \/ e = [inj[n] EXCEPT !.pc = "script", !.live = TRUE]
                  \/ e = [inj[n] EXCEPT !.pc = "load", !.script = TRUE]
                  \/ e = [inj[n] EXCEPT !.pc = "ended"]
                  \/ e = [inj[n] EXCEPT !.pc = "ended", !.live = TRUE, !.lost = "resume"]
  <2>1. \/ inj' = [inj EXCEPT ![n].pc = "script", ![n].live = TRUE]
        \/ inj' = [inj EXCEPT ![n].pc = "load", ![n].script = TRUE]
        \/ inj' = [inj EXCEPT ![n].pc = "ended"]
        \/ inj' = [inj EXCEPT ![n].pc = "ended", ![n].live = TRUE, ![n].lost = "resume"]
    BY Zenon DEF F!Attach, F!CreateScript, F!LoadScript
  <2>2. CASE inj' = [inj EXCEPT ![n].pc = "script", ![n].live = TRUE]
    <3>1. inj' = [inj EXCEPT ![n] = [inj[n] EXCEPT !.pc = "script", !.live = TRUE]]
      BY <1>1, <2>2
    <3> QED BY <3>1
  <2>3. CASE inj' = [inj EXCEPT ![n].pc = "load", ![n].script = TRUE]
    <3>1. inj' = [inj EXCEPT ![n] = [inj[n] EXCEPT !.pc = "load", !.script = TRUE]]
      BY <1>1, <2>3
    <3> QED BY <3>1
  <2>4. CASE inj' = [inj EXCEPT ![n].pc = "ended"]
    <3>1. inj' = [inj EXCEPT ![n] = [inj[n] EXCEPT !.pc = "ended"]]
      BY <1>1, <2>4
    <3> QED BY <3>1
  <2>5. CASE inj' = [inj EXCEPT ![n].pc = "ended", ![n].live = TRUE, ![n].lost = "resume"]
    <3>1. inj' = [inj EXCEPT ![n] = [inj[n] EXCEPT !.pc = "ended", !.live = TRUE, !.lost = "resume"]]
      BY <1>1, <2>5
    <3> QED BY <3>1
  <2> QED
    BY <2>1, <2>2, <2>3, <2>4, <2>5
<1>4. e \in InjSet /\ e.target = inj[n].target /\ e.pc # "returned" /\ (inj[n].lost # "no" => e.lost # "no")
  BY <1>2, <1>3 DEF InjSet
<1> QED
  BY <1>1, <1>2, <1>3, <1>4, OneChanged

LEMMA ReturnKeeps == ASSUME FridaInv, NEW n, F!Return(n) PROVE FridaInv'
<1> DEFINE t == inj[n].target
           e == [inj[n] EXCEPT !.pc = "returned"]
<1>1. /\ n \in DOMAIN inj /\ tab' = tab /\ stored' = Append(stored, n)
      /\ table' = [u \in DOMAIN table \cup {t} |-> IF u = t THEN n ELSE table[u]]
      /\ inj' = [inj EXCEPT ![n] = e]
  BY DEF F!Return, F!At, F!Injections
<1>2. n \in Nat /\ inj[n] \in InjSet
  BY <1>1, InjFacts
<1>3. e \in InjSet /\ e.target = t
  BY <1>2 DEF InjSet
<1> HIDE DEF e
<1>4. inj' \in Seq(InjSet) /\ DOMAIN inj' = DOMAIN inj
  BY <1>1, <1>3 DEF FridaInv, FridaType
<1>5. \A m \in DOMAIN inj : inj'[m] = (IF m = n THEN e ELSE inj[m]) /\ inj'[m].target = inj[m].target
  BY <1>1, <1>3
<1>6. /\ stored' \in Seq(Nat) /\ Len(stored) \in Nat /\ DOMAIN stored = 1 .. Len(stored)
      /\ DOMAIN stored' = 1 .. Len(stored) + 1 /\ stored'[Len(stored) + 1] = n
      /\ \A i \in DOMAIN stored : stored'[i] = stored[i]
  BY <1>1, <1>2 DEF FridaInv, FridaType
<1>7. FridaType'
  BY <1>1, <1>4, <1>6 DEF FridaInv, FridaType
<1>8. StoredAreReturned'
  <2>1. \A i \in DOMAIN stored' : stored'[i] \in DOMAIN inj'
    BY <1>1, <1>4, <1>6 DEF FridaInv, StoredAreReturned
  <2>2. \A u \in DOMAIN table' : table'[u] \in DOMAIN inj'
    BY <1>1, <1>4 DEF FridaInv, StoredAreReturned
  <2>3. ASSUME NEW m \in DOMAIN inj', inj'[m].pc = "returned"
        PROVE  \E i \in DOMAIN stored' : stored'[i] = m
    <3>1. CASE m = n
      <4>1. Len(stored) + 1 \in DOMAIN stored'
        BY <1>6
      <4> QED
        BY <1>6, <3>1, <4>1
    <3>2. CASE m # n
      <4>1. m \in DOMAIN inj /\ inj[m].pc = "returned"
        BY <1>4, <1>5, <2>3, <3>2
      <4>2. PICK i \in DOMAIN stored : stored[i] = m
        BY <4>1 DEF FridaInv, StoredAreReturned
      <4>3. i \in DOMAIN stored' /\ stored'[i] = m
        BY <1>6, <4>2
      <4> QED
        BY <4>3
    <3> QED
      BY <3>1, <3>2
  <2> QED
    BY <2>1, <2>2, <2>3 DEF StoredAreReturned
<1>9. ASSUME NEW m \in DOMAIN inj', inj'[m].live, inj'[m].pc = "returned"
      PROVE  \/ inj'[m].target \in DOMAIN table' /\ table'[inj'[m].target] = m
             \/ \E i, j \in DOMAIN stored' : i < j /\ stored'[i] = m /\ inj'[stored'[j]].target = inj'[m].target
             \/ inj'[m].lost # "no"
  <2>1. CASE m = n
    BY <1>1, <1>5, <2>1
  <2>2. CASE m # n
    <3>1. m \in DOMAIN inj /\ inj'[m] = inj[m]
      BY <1>4, <1>5, <2>2
    <3>2. \/ inj[m].target \in DOMAIN table /\ table[inj[m].target] = m
          \/ \E i, j \in DOMAIN stored : i < j /\ stored[i] = m /\ inj[stored[j]].target = inj[m].target
          \/ inj[m].lost # "no"
      BY <1>9, <3>1 DEF FridaInv, LiveIsListed, F!LiveIsListed, F!Injections
    <3>3. CASE inj[m].target = t
      <4>1. PICK i \in DOMAIN stored : stored[i] = m
        BY <1>9, <3>1 DEF FridaInv, StoredAreReturned
      <4> DEFINE j == Len(stored) + 1
      <4>2. i \in DOMAIN stored' /\ j \in DOMAIN stored' /\ i < j
        BY <1>6
      <4>3. stored'[i] = m /\ stored'[j] = n
        BY <1>6, <4>1
      <4>4. inj'[n].target = inj'[m].target
        BY <1>1, <1>5, <3>1, <3>3
      <4> QED
        BY <4>2, <4>3, <4>4
    <3>4. CASE inj[m].target # t /\ inj[m].target \in DOMAIN table /\ table[inj[m].target] = m
      BY <1>1, <3>1, <3>4
    <3>5. ASSUME NEW i \in DOMAIN stored, NEW j \in DOMAIN stored,
                 i < j, stored[i] = m, inj[stored[j]].target = inj[m].target
          PROVE  \E k, l \in DOMAIN stored' : k < l /\ stored'[k] = m /\ inj'[stored'[l]].target = inj'[m].target
      <4>1. stored[j] \in DOMAIN inj
        BY DEF FridaInv, StoredAreReturned
      <4>2. inj'[stored[j]].target = inj[stored[j]].target
        BY <1>5, <4>1
      <4>3. i \in DOMAIN stored' /\ j \in DOMAIN stored' /\ stored'[i] = stored[i] /\ stored'[j] = stored[j]
        BY <1>6
      <4> QED
        BY <3>1, <3>5, <4>2, <4>3
    <3>6. CASE inj[m].lost # "no"
      BY <3>1, <3>6
    <3> QED
      BY <3>2, <3>3, <3>4, <3>5, <3>6
  <2> QED
    BY <2>1, <2>2
<1>10. LiveIsListed'
  BY <1>9 DEF LiveIsListed, F!LiveIsListed, F!Injections
<1> QED
  BY <1>7, <1>8, <1>10 DEF FridaInv

LEMMA TargetEndsKeeps == ASSUME FridaInv, NEW t, F!TargetEnds(t) PROVE FridaInv'
<1> DEFINE e(n) == [inj[n] EXCEPT !.live = inj[n].live /\ inj[n].target # t]
<1>1. inj' = [n \in DOMAIN inj |-> e(n)] /\ UNCHANGED <<tab, stored, table>>
  BY DEF F!TargetEnds, F!Injections
<1>2. ASSUME NEW n \in DOMAIN inj
      PROVE  /\ e(n) \in InjSet /\ e(n).target = inj[n].target /\ e(n).pc = inj[n].pc
             /\ e(n).live => inj[n].live
             /\ e(n).lost = inj[n].lost
  <2>1. inj[n] \in InjSet
    BY InjFacts
  <2>2. (inj[n].live /\ inj[n].target # t) \in BOOLEAN
    OBVIOUS
  <2> QED
    BY <2>1, <2>2 DEF InjSet
<1> HIDE DEF e
<1>3. inj' \in Seq(InjSet) /\ DOMAIN inj' = DOMAIN inj
  <2>1. Len(inj) \in Nat /\ DOMAIN inj = 1 .. Len(inj)
    BY DEF FridaInv, FridaType
  <2> QED
    BY <1>1, <1>2, <2>1
<1>4. FridaType'
  BY <1>1, <1>3 DEF FridaInv, FridaType
<1>5. \A n \in DOMAIN inj : inj'[n] = e(n)
  BY <1>1
<1> QED
  BY <1>1, <1>2, <1>3, <1>4, <1>5, NoneRevived

LEMMA DetachKeeps == ASSUME FridaInv, NEW p \in Pages, F!Detach(p) PROVE FridaInv'
<1> DEFINE t == tab[p].last
           n == table[t]
<1>1. /\ t \in DOMAIN table /\ UNCHANGED <<tab, stored>>
      /\ F!EndSession(n)
      /\ table' = [u \in DOMAIN table \ {t} |-> table[u]]
  BY DEF F!Detach
<1>2. n \in DOMAIN inj
  BY <1>1 DEF FridaInv, StoredAreReturned
<1>3. inj[n] \in InjSet
  BY <1>2, InjFacts
<1>4. PICK e \in InjSet : /\ inj' = [inj EXCEPT ![n] = e]
                          /\ e.target = inj[n].target /\ e.pc = inj[n].pc
                          /\ ~e.live \/ e.lost # "no"
  <2>1. CASE inj' = [inj EXCEPT ![n].live = FALSE]
    <3> DEFINE e == [inj[n] EXCEPT !.live = FALSE]
    <3>1. e \in InjSet /\ e.target = inj[n].target /\ e.pc = inj[n].pc /\ ~e.live
      BY <1>3 DEF InjSet
    <3> QED
      BY <2>1, <3>1
  <2>2. ASSUME NEW kept \in {FALSE, inj[n].script},
               inj' = [inj EXCEPT ![n].lost = "detach", ![n].script = kept]
        PROVE  \E e \in InjSet : /\ inj' = [inj EXCEPT ![n] = e]
                                 /\ e.target = inj[n].target /\ e.pc = inj[n].pc
                                 /\ ~e.live \/ e.lost # "no"
    <3> DEFINE e == [inj[n] EXCEPT !.lost = "detach", !.script = kept]
    <3>1. e \in InjSet /\ e.target = inj[n].target /\ e.pc = inj[n].pc /\ e.lost # "no"
      BY <1>3 DEF InjSet
    <3>2. inj' = [inj EXCEPT ![n] = e]
      BY <1>2, <2>2
    <3> QED
      BY <3>1, <3>2
  <2>3. CASE inj' = inj /\ inj[n].lost = "resume"
    <3>1. inj' = [inj EXCEPT ![n] = inj[n]] /\ inj[n].lost # "no"
      BY <1>2, <2>3 DEF FridaInv, FridaType
    <3> QED
      BY <1>3, <3>1
  <2> QED
    BY <1>1, <2>1, <2>2, <2>3 DEF F!EndSession
<1>5. inj' \in Seq(InjSet) /\ DOMAIN inj' = DOMAIN inj
  BY <1>2, <1>4 DEF FridaInv, FridaType
<1>6. FridaType'
  BY <1>1, <1>5 DEF FridaInv, FridaType
<1>7. \A m \in DOMAIN inj : /\ inj'[m] = (IF m = n THEN e ELSE inj[m])
                            /\ inj'[m].target = inj[m].target /\ inj'[m].pc = inj[m].pc
  BY <1>1, <1>4
<1>8. StoredAreReturned'
  BY <1>1, <1>5, <1>7 DEF FridaInv, StoredAreReturned
<1>9. ASSUME NEW m \in DOMAIN inj', inj'[m].live, inj'[m].pc = "returned"
      PROVE  \/ inj'[m].target \in DOMAIN table' /\ table'[inj'[m].target] = m
             \/ \E i, j \in DOMAIN stored' : i < j /\ stored'[i] = m /\ inj'[stored'[j]].target = inj'[m].target
             \/ inj'[m].lost # "no"
  <2> SUFFICES ASSUME m # n
               PROVE  \/ inj'[m].target \in DOMAIN table' /\ table'[inj'[m].target] = m
                      \/ \E i, j \in DOMAIN stored' :
                           i < j /\ stored'[i] = m /\ inj'[stored'[j]].target = inj'[m].target
                      \/ inj'[m].lost # "no"
    BY <1>2, <1>4, <1>7, <1>9
  <2>1. m \in DOMAIN inj /\ m # n /\ inj'[m] = inj[m]
    BY <1>5, <1>7
  <2>2. \/ inj[m].target \in DOMAIN table /\ table[inj[m].target] = m
        \/ \E i, j \in DOMAIN stored : i < j /\ stored[i] = m /\ inj[stored[j]].target = inj[m].target
        \/ inj[m].lost # "no"
    BY <1>9, <2>1 DEF FridaInv, LiveIsListed, F!LiveIsListed, F!Injections
  <2>3. CASE inj[m].target \in DOMAIN table /\ table[inj[m].target] = m
    <3>1. inj[m].target # t
      BY <2>1, <2>3
    <3> QED
      BY <1>1, <2>1, <2>3, <3>1
  <2>4. ASSUME NEW i \in DOMAIN stored, NEW j \in DOMAIN stored,
               i < j, stored[i] = m, inj[stored[j]].target = inj[m].target
        PROVE  \E k, l \in DOMAIN stored' : k < l /\ stored'[k] = m /\ inj'[stored'[l]].target = inj'[m].target
    <3>1. stored[j] \in DOMAIN inj
      BY DEF FridaInv, StoredAreReturned
    <3>2. inj'[stored[j]].target = inj[stored[j]].target /\ stored' = stored
      BY <1>1, <1>7, <3>1
    <3> QED
      BY <2>1, <2>4, <3>2
  <2> QED
    BY <2>1, <2>2, <2>3, <2>4
<1>10. LiveIsListed'
  BY <1>9 DEF LiveIsListed, F!LiveIsListed, F!Injections
<1> QED
  BY <1>6, <1>8, <1>10 DEF FridaInv

\* Steps that change no more than the page of a tab.
LEMMA PageKeeps ==
  ASSUME FridaInv, tab' \in [Pages -> TabSet], UNCHANGED <<inj, stored, table>>
  PROVE  FridaInv'
BY NoneRevived DEF FridaInv, FridaType

LEMMA BuildKeeps == ASSUME FridaInv, NEW p \in Pages, F!Build(p) PROVE FridaInv'
<1>1. PICK device \in BOOLEAN : tab' = [tab EXCEPT ![p] = F!Fresh(tab[p].visit + 1, device)]
  BY DEF F!Build
<1>2. tab[p] \in TabSet
  BY DEF FridaInv, FridaType
<1>3. tab[p].visit + 1 \in Nat
  BY <1>2 DEF TabSet
<1>4. F!Fresh(tab[p].visit + 1, device) \in TabSet
  BY <1>3 DEF TabSet, F!Fresh
<1>5. tab' \in [Pages -> TabSet]
  BY <1>1, <1>4 DEF FridaInv, FridaType
<1> QED
  BY <1>5, PageKeeps DEF F!Build

LEMMA ButtonKeeps ==
  ASSUME FridaInv, NEW p \in Pages, F!Leave(p) \/ F!RefreshDevices(p) \/ F!GenerateTraffic(p)
  PROVE  FridaInv'
<1>1. PICK page : /\ tab' = [tab EXCEPT ![p] = page]
                  /\ \/ page = [tab[p] EXCEPT !.open = FALSE]
                     \/ page = [tab[p] EXCEPT !.device = TRUE]
                     \/ page = [tab[p] EXCEPT !.generated = TRUE]
  BY DEF F!Leave, F!RefreshDevices, F!GenerateTraffic
<1>2. tab[p] \in TabSet
  BY DEF FridaInv, FridaType
<1>3. page \in TabSet
  BY <1>1, <1>2 DEF TabSet
<1>4. tab' \in [Pages -> TabSet]
  BY <1>1, <1>3 DEF FridaInv, FridaType
<1> QED
  BY <1>4, PageKeeps DEF F!Leave, F!RefreshDevices, F!GenerateTraffic

LEMMA LogKeeps == ASSUME FridaInv, NEW n, F!Log(n) PROVE FridaInv'
<1> DEFINE p == inj[n].by
           panel == inj[n].panel
           c == [tab[p].console EXCEPT ![panel] = tab[p].console[panel] \cup {n}]
           page == [tab[p] EXCEPT !.console = c]
<1>1. n \in DOMAIN inj /\ tab' = [tab EXCEPT ![p] = page] /\ UNCHANGED <<inj, stored, table>>
  BY DEF F!Log, F!Injections
<1>2. n \in Nat /\ inj[n] \in InjSet
  BY <1>1, InjFacts
<1>3. p \in Pages /\ panel \in F!Panels
  BY <1>2 DEF InjSet
<1>4. tab[p] \in TabSet
  BY <1>3 DEF FridaInv, FridaType
<1>5. c \in [F!Panels -> SUBSET Nat]
  <2>1. tab[p].console \in [F!Panels -> SUBSET Nat]
    BY <1>4 DEF TabSet
  <2> QED
    BY <1>2, <1>3, <2>1
<1> HIDE DEF c
<1>6. page \in TabSet
  BY <1>4, <1>5 DEF TabSet
<1>7. tab' \in [Pages -> TabSet]
  BY <1>1, <1>3, <1>6 DEF FridaInv, FridaType
<1> QED
  BY <1>1, <1>7, PageKeeps

\* Whatever pages are visited in whatever tabs: a session that is attached and
\* whose inject() has returned is the one Detach finds for its target, or
\* another one took its place.
THEOREM SessionsCanBeFound == Spec => []LiveIsListed
<1>1. Init => FridaInv
  <2> SUFFICES ASSUME Init PROVE FridaInv
    OBVIOUS
  <2>1. inj = <<>> /\ stored = <<>> /\ table = [t \in {} |-> 0] /\ tab = [p \in Pages |-> F!Unbuilt]
    BY DEF Init, F!Init
  <2>2. F!Fresh(0, FALSE) \in TabSet
    BY DEF F!Fresh, TabSet
  <2>3. F!Unbuilt \in TabSet
    BY <2>2 DEF F!Unbuilt, TabSet
  <2>4. tab \in [Pages -> TabSet]
    BY <2>1, <2>3
  <2>5. FridaType
    BY <2>1, <2>4 DEF FridaType
  <2>6. DOMAIN inj = {} /\ DOMAIN stored = {} /\ DOMAIN table = {}
    BY <2>1
  <2>7. StoredAreReturned
    BY <2>6 DEF StoredAreReturned
  <2>8. LiveIsListed
    BY <2>6 DEF LiveIsListed, F!LiveIsListed, F!Injections
  <2> QED
    BY <2>5, <2>7, <2>8 DEF FridaInv
<1>2. FridaInv /\ [Next]_vars => FridaInv'
  <2> SUFFICES ASSUME FridaInv, [Next]_vars PROVE FridaInv'
    OBVIOUS
  <2>1. CASE UNCHANGED fridaVars
    BY <2>1, FridaUntouched
  <2>2. ASSUME NEW p \in Pages, NEW to, Nav(p, to) PROVE FridaInv'
    <3>1. CASE to = "frida"
      BY <2>2, <3>1, BuildKeeps DEF Nav
    <3>2. CASE to # "frida" /\ at[p] = "frida"
      BY <2>2, <3>2, ButtonKeeps DEF Nav
    <3>3. CASE to # "frida" /\ at[p] # "frida"
      BY <2>1, <2>2, <3>3 DEF Nav
    <3> QED
      BY <3>1, <3>2, <3>3
  <2>3. CASE F!Click
    <3>1. ASSUME NEW p \in Pages, F!RefreshDevices(p) \/ F!GenerateTraffic(p) \/ F!Detach(p)
          PROVE  FridaInv'
      BY <3>1, ButtonKeeps, DetachKeeps
    <3>2. ASSUME NEW p \in Pages, NEW t \in Targets,
                 F!InjectBypass(p, t) \/ F!InjectScript(p, t) \/ F!InjectTraffic(p, t)
          PROVE  FridaInv'
      BY <3>2, StartKeeps DEF F!InjectBypass, F!InjectScript, F!InjectTraffic, F!Panels
    <3> QED
      BY <2>3, <3>1, <3>2 DEF F!Click
  <2>4. CASE F!Work
    BY <2>4, ThreadKeeps, ReturnKeeps, LogKeeps, TargetEndsKeeps DEF F!Work
  <2>5. ASSUME NEW p \in Pages, NEW e \in Entries,
               SetDiffLeft(p, e) \/ CompareDiff(p, e) \/ \E to \in Tools : SendTo(p, to, e)
        PROVE  FridaInv'
    BY <2>1, <2>5 DEF SetDiffLeft, CompareDiff, SendTo
  <2>6. ASSUME NEW p \in Pages,
               NewCard(p) \/ \E k \in DOMAIN cards[p] : Send(p, k) \/ \E t \in Texts : Type(p, k, t)
        PROVE  FridaInv'
    BY <2>1, <2>6 DEF NewCard, Send, Type
  <2>7. ASSUME NEW n \in DOMAIN sends, Answer(n) PROVE FridaInv'
    BY <2>1, <2>7 DEF Answer
  <2> QED
    BY <2>1, <2>2, <2>3, <2>4, <2>5, <2>6, <2>7 DEF Next, UseFrida, vars
<1>3. FridaInv => LiveIsListed
  BY DEF FridaInv
<1> QED
  BY <1>1, <1>2, <1>3, PTL DEF Spec
=============================================================================

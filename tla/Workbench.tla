----------------------------- MODULE Workbench ------------------------------
(* The window of the GUI (ui/app.py): a click in the sidebar empties the     *)
(* main area and builds the page asked for; what the page before it knew is  *)
(* lost, except what other objects hold.  Pages modelled here: the traffic   *)
(* page with its menu, the resender (ui/resender.py), the diff               *)
(* (ui/diff_view.py) and, from Frida, that of the injections.                *)
EXTENDS Naturals, Sequences

CONSTANTS
  Pages,      \* browser tabs
  Targets, MaxInjections,   \* of Frida
  Entries,    \* rows of the traffic page
  Tools,      \* pages an entry may be sent to
  Texts,      \* what a user types into a request of the resender
  MaxCards, MaxSends, MaxClicks   \* bounds: cards, requests and what the user does

ASSUME WorkbenchAssumption ==
  /\ {MaxInjections, MaxCards, MaxSends, MaxClicks} \subseteq Nat
  /\ "none" \notin Entries

VARIABLES
  at,         \* at[p]: the page tab p shows
  visits,     \* how many pages it has built
  clicks,     \* what the user did, in all tabs
  pending,    \* state["pending_entry"] and the page it was meant for
  left,       \* state["compare_left"]
  diff,       \* state["diff_state"]: the visit it belongs to, 0 for none
  compared,   \* compared[p]: the pair that the diff page of that visit shows
  cards,      \* cards[p]: the requests of the resender page, as drawn
  drawn,      \* how often they have been drawn
  sends,      \* requests of the resender under way or answered
  tab, inj, stored, table      \* of Frida

pageVars == <<at, visits>>
menuVars == <<pending, left, diff, compared>>
sendVars == <<cards, drawn, sends>>
fridaVars == <<tab, inj, stored, table>>
vars == <<pageVars, menuVars, sendVars, fridaVars, clicks>>

F == INSTANCE Frida

Nobody  == "none"
NoSend  == 0
Blank   == "https://"
Card(t) == [text |-> t, result |-> NoSend]

Init ==
  /\ at = [p \in Pages |-> "traffic"] /\ visits = [p \in Pages |-> 1]
  /\ pending = [p \in Pages |-> <<>>] /\ left = [p \in Pages |-> Nobody]
  /\ diff = [p \in Pages |-> 0] /\ compared = [p \in Pages |-> <<>>]
  /\ cards = [p \in Pages |-> <<>>] /\ drawn = [p \in Pages |-> 0]
  /\ sends = <<>> /\ clicks = 0
  /\ F!Init

Click == clicks < MaxClicks /\ clicks' = clicks + 1

-----------------------------------------------------------------------------
(* Navigation                                                              *)

\* build_diff_view(): a new page, with nothing to compare.
BuildDiff(p) ==
  /\ diff' = [diff EXCEPT ![p] = visits'[p]]
  /\ compared' = [compared EXCEPT ![p] = <<>>]
  /\ UNCHANGED <<pending, left>>

\* build_resender_tab(): no requests.
BuildResender(p) ==
  /\ cards' = [cards EXCEPT ![p] = <<>>]
  /\ drawn' = [drawn EXCEPT ![p] = @ + 1]
  /\ UNCHANGED sends

\* _nav() and _render_page(): the container is cleared, the page is built.
Nav(p, to) ==
  /\ Click
  /\ at' = [at EXCEPT ![p] = to]
  /\ visits' = [visits EXCEPT ![p] = @ + 1]
  /\ IF to = "diff" THEN BuildDiff(p) ELSE UNCHANGED menuVars
  /\ IF to = "resender" THEN BuildResender(p) ELSE UNCHANGED sendVars
  /\ CASE to = "frida" -> F!Build(p)
       [] to # "frida" /\ at[p] = "frida" -> F!Leave(p)
       [] OTHER -> UNCHANGED fridaVars

-----------------------------------------------------------------------------
(* The menu of a traffic row                                               *)

\* _send_to(): the entry is noted for the page; no page looks for the note.
SendTo(p, to, e) ==
  /\ Click
  /\ at[p] = "traffic"
  /\ pending' = [pending EXCEPT ![p] = <<to, e>>]
  /\ UNCHANGED <<pageVars, left, diff, compared, sendVars, fridaVars>>

SetDiffLeft(p, e) ==
  /\ Click
  /\ at[p] = "traffic"
  /\ left' = [left EXCEPT ![p] = e]
  /\ UNCHANGED <<pageVars, pending, diff, compared, sendVars, fridaVars>>

\* _compare_diff(): offered once there is a left side, does something once the
\* diff page has been built: it fills the page of that visit, which is gone.
CompareDiff(p, e) ==
  /\ Click
  /\ at[p] = "traffic" /\ left[p] # Nobody /\ diff[p] # 0
  /\ compared' = [compared EXCEPT ![p] = <<left[p], e>>]
  /\ UNCHANGED <<pageVars, pending, left, diff, sendVars, fridaVars>>

-----------------------------------------------------------------------------
(* The resender                                                            *)

\* "+ New": all cards are drawn again from what they were first drawn with;
\* what was typed into them and the responses they showed are lost.
NewCard(p) ==
  /\ Click
  /\ at[p] = "resender" /\ Len(cards[p]) < MaxCards
  /\ cards' = [cards EXCEPT ![p] = [k \in 1 .. Len(@) + 1 |-> Card(Blank)]]
  /\ drawn' = [drawn EXCEPT ![p] = @ + 1]
  /\ UNCHANGED <<pageVars, menuVars, sends, fridaVars>>

Type(p, k, t) ==
  /\ Click
  /\ at[p] = "resender" /\ k \in DOMAIN cards[p] /\ cards[p][k].text # t
  /\ cards' = [cards EXCEPT ![p][k].text = t]
  /\ UNCHANGED <<pageVars, menuVars, drawn, sends, fridaVars>>

\* _send() reads the fields of its card, and the button stays active.
Send(p, k) ==
  /\ Click
  /\ at[p] = "resender" /\ k \in DOMAIN cards[p] /\ Len(sends) < MaxSends
  /\ sends' = Append(sends, [by |-> p, card |-> k, drawing |-> drawn[p], text |-> cards[p][k].text,
                             answered |-> FALSE])
  /\ UNCHANGED <<pageVars, menuVars, cards, drawn, fridaVars>>

\* Mutated: the card with the number that the request's card had.
OnShowByNumber(n) == at[sends[n].by] = "resender"

\* The text area an answer goes to is that of the card as it was drawn then.
OnShow(n) == /\ at[sends[n].by] = "resender"
             /\ drawn[sends[n].by] = sends[n].drawing

\* A response, an error or the timeout of 30 s: it is written to its card.
Answer(n) ==
  /\ n \in DOMAIN sends /\ ~sends[n].answered
  /\ sends' = [sends EXCEPT ![n].answered = TRUE]
  /\ cards' = IF OnShow(n) THEN [cards EXCEPT ![sends[n].by][sends[n].card].result = n] ELSE cards
  /\ UNCHANGED <<pageVars, menuVars, drawn, fridaVars, clicks>>

\* What a user does with Frida, and what its threads do.
UseFrida ==
  /\ \/ F!Click /\ Click
     \/ F!Work /\ UNCHANGED clicks
  /\ UNCHANGED <<pageVars, menuVars, sendVars>>

-----------------------------------------------------------------------------
Next ==
  \/ \E p \in Pages, to \in {"traffic", "resender", "diff", "frida"} : Nav(p, to)
  \/ \E p \in Pages, e \in Entries :
       SetDiffLeft(p, e) \/ CompareDiff(p, e) \/ \E to \in Tools : SendTo(p, to, e)
  \/ \E p \in Pages : NewCard(p) \/ \E k \in DOMAIN cards[p] : Send(p, k) \/ \E t \in Texts : Type(p, k, t)
  \/ \E n \in DOMAIN sends : Answer(n)
  \/ UseFrida

Spec == Init /\ [][Next]_vars

-----------------------------------------------------------------------------
(* A response on a card of the resender is that of a request this card has *)
(* sent since it was drawn: no answer turns up in a card drawn later.      *)
ResultIsOfItsCard ==
  \A p \in Pages : \A k \in DOMAIN cards[p] :
    LET n == cards[p][k].result
    IN n # NoSend => /\ sends[n].by = p /\ sends[n].card = k
                     /\ sends[n].drawing = drawn[p]

(* Sessions of Frida, over visits to its page in any tab.                  *)
LiveIsListed == F!LiveIsListed
=============================================================================

----------------------------- MODULE MCSenders -----------------------------
(* Values for Senders: one request of each tool at its interesting sizes.  *)
EXTENDS Senders

MCPayloads == "xss" :> <<"x1", "x2">> @@ "sqli" :> <<"s1">>

StepA == [uses |-> {}, extracts |-> {"token"}]
StepB == [uses |-> {"token"}, extracts |-> {"token"}]
StepC == [uses |-> {"token"}, extracts |-> {}]

MCTexts == {NoText, [json |-> TRUE, steps |-> <<>>], [json |-> TRUE, steps |-> <<StepA, StepC>>]}

AllRequests ==
  {[tool |-> "bulk", entry |-> e, payloads |-> <<"p", "q", "r">>, concurrency |-> n] :
     e \in BOOLEAN, n \in {-1, 0, 2}}
  \cup {[tool |-> "bulk", entry |-> TRUE, payloads |-> <<>>, concurrency |-> 0]}
  \cup {[tool |-> "race", entry |-> TRUE, count |-> n] : n \in {-1, 0, 3}}
  \cup {[tool |-> "replay", entry |-> TRUE, count |-> n] : n \in {0, 2}}
  \cup {[tool |-> "scan", entry |-> TRUE, params |-> ps, cats |-> <<"xss", "none", "sqli">>, concurrency |-> 2] :
          ps \in {<<>>, <<"query:a">>}}
  \cup {[tool |-> "scan", entry |-> TRUE, params |-> <<"query:a", "body:b">>, cats |-> <<"sqli">>, concurrency |-> 1]}
  \cup {[tool |-> "ab", entry |-> TRUE]}
  \cup {[tool |-> "idor", entry |-> TRUE, ids |-> <<1>>, baseline |-> b] : b \in {0, 500}}
  \cup {[tool |-> "macro", steps |-> <<StepA, StepB, StepC>>, from |-> "rest"]}
  \cup {[tool |-> "graphql", entry |-> TRUE], [tool |-> "introspect", host |-> "g", from |-> "rest"]}

\* A limit of 2 and of 3 with one hanging request, and of 2 with two.
MCEndless == {<<"bulk", 2>>, <<"race", 1>>, <<"replay", 1>>, <<"scan", 1>>, <<"scan", 2>>}

\* One call of any tool, next to a second that only runs macros.
MCRequests == 1 :> AllRequests @@ 2 :> {[tool |-> "macro", steps |-> <<StepA, StepC>>, from |-> "rest"], [tool |-> "introspect", host |-> "g", from |-> "rest"]}
=============================================================================

-------------------------- MODULE MCInterceptManager --------------------------
(* Requests and tabs for TLC: a request with a text body and one with a      *)
(* binary body.  In the queue of one tab one waits behind the other, for the *)
(* queue of the other tab two are too many.                                  *)
EXTENDS InterceptManager

CONSTANTS text, binary, p1, p2

MCRequests == {text, binary}
MCPages == {p1, p2}
MCBinary == {binary}
MCQueueCap == [p \in MCPages |-> IF p = p1 THEN 2 ELSE 1]
===============================================================================

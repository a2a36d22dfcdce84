---------------------------- MODULE MCTransfer ----------------------------
(* Transfer on small workspaces. *)
EXTENDS Transfer

CONSTANTS x, y, a, b, c

\* A document whose first tasks are ts, in order of their ids.
Doc(ts) == [at   |-> [i \in Ids |-> IF i \in DOMAIN ts THEN ts[i] ELSE Nil],
            next |-> IF DOMAIN ts = {} THEN 1 ELSE 1 + CHOOSE n \in DOMAIN ts : n + 1 \notin DOMAIN ts]

\* x holds a, y holds b.
TwoDocs == [d \in {x, y} |-> IF d = x THEN Doc(<<a>>) ELSE Doc(<<b>>)]
===========================================================================

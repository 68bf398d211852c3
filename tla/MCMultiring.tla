----------------------------- MODULE MCMultiring -----------------------------
(***************************************************************************)
(* Two calls from one telephone number, the first to two clients, the      *)
(* second to one of them; or one call to all.                              *)
(***************************************************************************)
EXTENDS Multiring

CONSTANTS g1, g2, t1, t2

RingsOverlap == [g \in Groups |-> IF g = g1 THEN {t1, t2} ELSE {t1}]

\* Every call rings every client.
RingsAll == [g \in Groups |-> Targets]
==============================================================================

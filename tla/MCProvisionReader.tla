--------------------------- MODULE MCProvisionReader ---------------------------
(***************************************************************************)
(* Three revisions: a route to one client, one to a group, and a route that*)
(* names a client and a malformed target.                                  *)
(***************************************************************************)
EXTENDS ProvisionReader, TLC

CONSTANTS r1, r2, k1, k2

Revisions ==
  {[revision |-> 1, type |-> "DIRECT", valid |-> 1, spare |-> 0, ours |-> TRUE],
   [revision |-> 2, type |-> "MULTI_RING", valid |-> 2, spare |-> 1, ours |-> TRUE],
   [revision |-> 3, type |-> "DIRECT", valid |-> 1, spare |-> 1, ours |-> TRUE]}

\* Reads are alike, and so are the keys.
Alike == Permutations({r1, r2}) \cup Permutations({k1, k2})
================================================================================

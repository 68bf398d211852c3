---------------------------- MODULE MCMinuteCounter ----------------------------
(***************************************************************************)
(* One identity with one line and a custom cap below the low balance, one  *)
(* with two lines whose first call of a month is not capped; or one        *)
(* identity with two lines whose every call should be.                     *)
(***************************************************************************)
EXTENDS MinuteCounter

CONSTANTS l1, l2, l3, i1, i2

SoleAndShared == [l \in Lines |-> IF l = l1 THEN i1 ELSE i2]
SoleIsCapped == [i \in Identities |-> IF i = i1 THEN 1 ELSE 0]
NoCaps == [i \in Identities |-> 0]
================================================================================

--------------------------------- MODULE Ledger ---------------------------------
(***************************************************************************)
(* What the prepaid minute counter promises: one account per identity,     *)
(* which every month starts at nothing; a call is let through while its    *)
(* account is below its limit, and when it ends the account is charged     *)
(* with its length, once.                                                  *)
(*                                                                         *)
(* What it does not promise is stated too.  A reading that fails finds no  *)
(* account: it lets everybody through, and a charge made on it forgets     *)
(* every other account and every custom cap.  A restart of the process     *)
(* forgets the calls that are running.                                     *)
(***************************************************************************)
EXTENDS Naturals

CONSTANTS
  Lines,       \* caller sessions, one call at a time each
  Identities,  \* whose minutes they spend
  IdentityOf,  \* [Lines -> Identities]
  Limit,       \* seconds a month
  MonthLength, \* seconds in a month
  None

VARIABLES
  clock,    \* seconds
  spent,    \* [Identities -> seconds charged this month]
  caps,     \* [Identities -> custom cap, 0 if there is none]
  admitted, \* lines whose call was let through and is not over
  since,    \* [Lines -> second in which the call was answered, or None]
  readable  \* the accounts can be read

vars == <<clock, spent, caps, admitted, since, readable>>

Nobody == [i \in Identities |-> 0]

Init ==
  /\ clock = 0 /\ readable = TRUE
  /\ spent = Nobody
  /\ caps \in [Identities -> Nat]
  /\ admitted = {}
  /\ since = [l \in Lines |-> None]

\* The limit an account has when it is looked at.
LimitOf(i) == IF readable /\ caps[i] # 0 THEN caps[i] ELSE Limit

Admit(l) ==
  /\ readable => spent[IdentityOf[l]] < LimitOf(IdentityOf[l])
  /\ admitted' = admitted \cup {l}
  /\ UNCHANGED <<clock, spent, caps, since, readable>>

Begin(l) ==
  /\ l \in admitted
  /\ since' = [since EXCEPT ![l] = clock]
  /\ UNCHANGED <<clock, spent, caps, admitted, readable>>

\* A second begun may or may not be counted; a call within one instant is free.
Charge(l) ==
  LET kept == IF readable THEN spent ELSE Nobody
      i == IdentityOf[l]
  IN \E n \in {clock - since[l], clock - since[l] + 1} :
       IF n = 0 THEN UNCHANGED <<spent, caps>>
       ELSE /\ spent' = [kept EXCEPT ![i] = @ + n]
            /\ caps' = IF readable THEN caps ELSE Nobody

End(l) ==
  /\ since[l] # None
  /\ Charge(l)
  /\ since' = [since EXCEPT ![l] = None]
  /\ admitted' = admitted \ {l}
  /\ UNCHANGED <<clock, readable>>

GiveUp(l) ==
  /\ since[l] = None
  /\ admitted' = admitted \ {l}
  /\ UNCHANGED <<clock, spent, caps, since, readable>>

Tick ==
  /\ clock' = clock + 1
  /\ spent' = IF clock' % MonthLength = 0 THEN Nobody ELSE spent
  /\ UNCHANGED <<caps, admitted, since, readable>>

Fault ==
  /\ readable' = ~ readable
  /\ UNCHANGED <<clock, spent, caps, admitted, since>>

Restart ==
  /\ admitted' = {}
  /\ since' = [l \in Lines |-> None]
  /\ UNCHANGED <<clock, spent, caps, readable>>

Next ==
  \/ \E l \in Lines : Admit(l) \/ Begin(l) \/ End(l) \/ GiveUp(l)
  \/ Tick \/ Fault \/ Restart

Spec == Init /\ [][Next]_vars
================================================================================

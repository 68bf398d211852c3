----------------------------- MODULE MinuteCounter -----------------------------
(***************************************************************************)
(* MinuteCounter.js, the prepaid gate and the billing hooks webRTCmanager  *)
(* puts around it: the file of totals with its monthly reset on access, the*)
(* gate at the ring, the counter each session carries, and the timer that  *)
(* cuts off the call of a caller who is low on balance.                    *)
(*                                                                         *)
(* A line is a caller's session; several lines may spend the minutes of    *)
(* one identity.  The PolySession of a line is reduced to what reaches the *)
(* counter: the ring, the edge into a call and out of it, and its disposal.*)
(* Each of these reads and writes the file synchronously and is one step.  *)
(***************************************************************************)
EXTENDS Naturals

CONSTANTS
  Lines, Identities, IdentityOf,
  Cap,         \* [Identities -> customSecondCap in the file at the start, 0 = none]
  Limit,       \* settings.limitSeconds
  LowBalance,  \* 300: what is left at the answer below which the call is capped
  MonthLength, \* seconds in a month
  Horizon,     \* bound on the clock
  MaxFaults,   \* bound on changes of the file's readability
  MaxRestarts, \* bound on restarts
  None

ASSUME LinesAssumption == IdentityOf \in [Lines -> Identities]
ASSUME CapAssumption == Cap \in [Identities -> Nat]
ASSUME LimitAssumption == Limit \in Nat \ {0} /\ MonthLength \in Nat \ {0}
ASSUME LowBalanceAssumption == LowBalance \in Nat
ASSUME BoundAssumption == {Horizon, MaxFaults, MaxRestarts} \subseteq Nat
ASSUME NoneAssumption == None \notin Nat \cup [total : Nat, month : Nat, cap : Nat]

VARIABLES
  clock,    \* Date.now() in whole seconds
  month,    \* getLocalDateParts().month
  file,     \* [Identities -> entry, or None]; an entry is [total, month, cap]
  readable, \* readTotals succeeds
  faults, restarts,
  call,     \* idle, ringing, talking, ending (the cap has ended the SIP leg)
  limit,    \* settings.limitSeconds of the hooks attached to the line's call
  meter,    \* startedAt of session.minuteCounter, None if there is none or it is finished
  cutoff    \* session._minuteCutoffTimer: when it fires, or None

vars == <<clock, month, file, readable, faults, restarts, call, limit, meter, cutoff>>
callVars == <<call, limit, meter, cutoff>>

Entry(t, m, c) == [total |-> t, month |-> m, cap |-> c]

Init ==
  /\ clock = 0 /\ month = 0 /\ readable = TRUE /\ faults = 0 /\ restarts = 0
  /\ file = [i \in Identities |-> IF Cap[i] = 0 THEN None ELSE Entry(0, 0, Cap[i])]
  /\ call = [l \in Lines |-> "idle"]
  /\ limit = [l \in Lines |-> Limit]
  /\ meter = [l \in Lines |-> None]
  /\ cutoff = [l \in Lines |-> None]

-----------------------------------------------------------------------------
\* readTotals: a file that cannot be read counts as an empty one.
readTotals == IF readable THEN file ELSE [i \in Identities |-> None]

\* Mutant of Monthly: the date is stamped, the total stays.
StampOnly(e) == [e EXCEPT !.month = month]

\* getMonthlyEntry, for an entry that is there: it starts anew every month.
Monthly(e) == IF e.month = month THEN e ELSE Entry(0, month, e.cap)

\* getMonthlyEntry with `create'.
MonthlyOrNew(e) == IF e = None THEN Entry(0, month, 0) ELSE Monthly(e)

\* getUsedSeconds; a reading that resets the entry writes the file.
UsedSeconds(i) ==
  IF readTotals[i] = None THEN 0 ELSE Monthly(readTotals[i]).total

AfterReading(i) ==
  IF readTotals[i] = None THEN file
  ELSE [readTotals EXCEPT ![i] = Monthly(@)]

\* getEffectiveLimitSeconds: a custom cap in the file replaces the limit.
EffectiveLimit(i) ==
  IF readTotals[i] = None \/ readTotals[i].cap = 0 THEN Limit ELSE readTotals[i].cap

\* assertCanStart.
CanStart(i) == UsedSeconds(i) < EffectiveLimit(i)

-----------------------------------------------------------------------------
\* The entry with the seconds added and the date stamped.
Charged(e, n) ==
  Entry(MonthlyOrNew(e).total + n, month, MonthlyOrNew(e).cap)

\* Mutant of finish: `finished' is not set.
finishAgain(l) ==
  /\ UNCHANGED meter
  /\ IF meter[l] = None THEN UNCHANGED file
     ELSE file' = [readTotals EXCEPT ![IdentityOf[l]] = Charged(@, clock - meter[l])]

\* finish: once per counter, the seconds rounded up are added to the entry of
\* the month in which the call ends.  With the clock in whole seconds a second
\* begun counts or not.
finish(l) ==
  /\ meter' = [meter EXCEPT ![l] = None]
  /\ IF meter[l] = None THEN UNCHANGED file
     ELSE \E n \in {clock - meter[l], clock - meter[l] + 1} :
            IF n = 0 THEN UNCHANGED file
            ELSE file' = [readTotals EXCEPT ![IdentityOf[l]] = Charged(@, n)]

\* checkSbcMinuteBudget at the ring, and the hooks that carry the limit found.
Ring(l) ==
  LET i == IdentityOf[l]
  IN /\ call[l] = "idle"
     /\ file' = AfterReading(i)
     /\ IF CanStart(i)
          THEN /\ call' = [call EXCEPT ![l] = "ringing"]
               /\ limit' = [limit EXCEPT ![l] = EffectiveLimit(i)]
          ELSE UNCHANGED <<call, limit>>
     /\ UNCHANGED <<clock, month, readable, faults, restarts, meter, cutoff>>

\* Mutant of CapAfter: the balance is measured against the service's limit.
CapAfterLimit(l, used) ==
  IF used < Limit /\ Limit - used < LowBalance THEN clock + (Limit - used) ELSE None

\* The call is capped only if something, and little, is left.
CapAfter(l, used) ==
  IF used < limit[l] /\ limit[l] - used < LowBalance
    THEN clock + (limit[l] - used) ELSE None

\* onCallStart.
Answer(l) ==
  LET i == IdentityOf[l]
  IN /\ call[l] = "ringing"
     /\ call' = [call EXCEPT ![l] = "talking"]
     /\ meter' = [meter EXCEPT ![l] = clock]
     /\ cutoff' = [cutoff EXCEPT ![l] = CapAfter(l, UsedSeconds(i))]
     /\ file' = AfterReading(i)
     /\ UNCHANGED <<clock, month, readable, faults, restarts, limit>>

\* The call is not answered: no hook runs.
NoAnswer(l) ==
  /\ call[l] = "ringing"
  /\ call' = [call EXCEPT ![l] = "idle"]
  /\ UNCHANGED <<clock, month, file, readable, faults, restarts, limit, meter, cutoff>>

\* onCallEnd, on the edge out of the call.
HangUp(l) ==
  /\ call[l] \in {"talking", "ending"}
  /\ call' = [call EXCEPT ![l] = "idle"]
  /\ cutoff' = [cutoff EXCEPT ![l] = None]
  /\ finish(l)
  /\ UNCHANGED <<clock, month, readable, faults, restarts, limit>>

\* The PolySession is destroyed: makeTeardownHooks runs finish, whatever the
\* call has become, and leaves the timer alone.
Dispose(l) ==
  /\ call' = [call EXCEPT ![l] = "idle"]
  /\ finish(l)
  /\ UNCHANGED <<clock, month, readable, faults, restarts, limit, cutoff>>

\* The cap is reached: the SIP leg is ended, or nothing is left to end.
CutOff(l) ==
  /\ cutoff[l] # None /\ clock >= cutoff[l]
  /\ cutoff' = [cutoff EXCEPT ![l] = None]
  /\ call' = [call EXCEPT ![l] = IF @ = "talking" THEN "ending" ELSE @]
  /\ UNCHANGED <<clock, month, file, readable, faults, restarts, limit, meter>>

\* Timers fire in their second, and a call the cap has ended settles in it.
Tick ==
  /\ clock < Horizon
  /\ \A l \in Lines : call[l] # "ending" /\ (cutoff[l] # None => clock < cutoff[l])
  /\ clock' = clock + 1
  /\ month' = IF clock' % MonthLength = 0 THEN month + 1 ELSE month
  /\ UNCHANGED <<file, readable, faults, restarts, callVars>>

\* The file becomes unreadable (a broken edit, a lost permission) or readable.
Fault ==
  /\ faults < MaxFaults
  /\ faults' = faults + 1
  /\ readable' = ~ readable
  /\ UNCHANGED <<clock, month, file, restarts, callVars>>

\* The process ends and starts again.  Written to a second file and renamed,
\* the totals are those of the last finish.
Restart ==
  /\ restarts < MaxRestarts
  /\ restarts' = restarts + 1
  /\ call' = [l \in Lines |-> "idle"]
  /\ meter' = [l \in Lines |-> None]
  /\ cutoff' = [l \in Lines |-> None]
  /\ UNCHANGED <<clock, month, file, readable, faults, limit>>

Next ==
  \/ \E l \in Lines :
       \/ Ring(l) \/ Answer(l) \/ NoAnswer(l) \/ HangUp(l) \/ Dispose(l) \/ CutOff(l)
  \/ Tick \/ Fault \/ Restart

Spec == Init /\ [][Next]_vars

-----------------------------------------------------------------------------
Entries == [total : Nat, month : Nat, cap : Nat]

\* Every variable has its type.
TypeOK ==
  /\ {clock, month, faults, restarts} \subseteq Nat
  /\ file \in [Identities -> Entries \cup {None}]
  /\ readable \in BOOLEAN
  /\ call \in [Lines -> {"idle", "ringing", "talking", "ending"}]
  /\ limit \in [Lines -> Nat]
  /\ meter \in [Lines -> Nat \cup {None}]
  /\ cutoff \in [Lines -> Nat \cup {None}]

\* The counter of a session runs from the answer to the end of its call and at
\* no other time, whichever hook stopped it, and no entry is of a later month.
CounterRunsInCall ==
  /\ TypeOK
  /\ \A l \in Lines : meter[l] # None <=> call[l] \in {"talking", "ending"}
  /\ \A l \in Lines : meter[l] # None => meter[l] <= clock
  /\ \A i \in Identities : file[i] # None => file[i].month <= month

LinesOf(i) == {l \in Lines : IdentityOf[l] = i}
LimitOf(i) == IF Cap[i] = 0 THEN Limit ELSE Cap[i]

\* An identity with one line, and a limit low enough for each of its calls to be
\* capped, spends no more than its limit in a month, a started second aside:
\* whatever month its calls began in, after restarts, and with calls disposed of
\* under the counter.
SoleLineWithinLimit ==
  \A l \in Lines :
    LET i == IdentityOf[l]
    IN faults = 0 /\ LinesOf(i) = {l} /\ LimitOf(i) < LowBalance
         => (file[i] # None => file[i].total <= LimitOf(i) + 1)

\* "At answer we arm a timer that BYEs both legs when the caller's remaining
\* balance for THIS call runs out" (buildSbcMinuteHooks): a caller whose whole
\* limit is low is never in a call without the timer.
EveryTalkIsCapped ==
  \A l \in Lines :
    LimitOf(IdentityOf[l]) < LowBalance /\ call[l] = "talking" => cutoff[l] # None

\* What the file says of an identity, seen with the monthly reset done.
Account(i) ==
  IF file[i] = None \/ (file[i] # None /\ file[i].month # month) THEN 0
  ELSE file[i].total

\* The accounts the counter keeps lazily (entries made on demand, reset when
\* they are next read, charged by whichever hook runs first) are those of the
\* ledger, which is reset at once and charged once per call.
Books == INSTANCE Ledger WITH
  spent <- [i \in Identities |-> Account(i)],
  caps <- [i \in Identities |-> IF file[i] = None THEN 0 ELSE file[i].cap],
  admitted <- {l \in Lines : call[l] # "idle"},
  since <- meter

KeepsTheLedger == Books!Spec
================================================================================

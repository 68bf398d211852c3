------------------------- MODULE MinuteCounter_proofs -------------------------
(***************************************************************************)
(* The counter runs exactly during calls, and the lazily kept file         *)
(* implements the ledger, for all lines, identities, caps, limits, months. *)
(***************************************************************************)
EXTENDS MinuteCounter, Integers, TLAPS

USE LinesAssumption, CapAssumption, LimitAssumption, LowBalanceAssumption,
    BoundAssumption, NoneAssumption

\* What getMonthlyEntry returns is an entry of this month.
LEMMA MonthlyEntry ==
  ASSUME TypeOK
  PROVE  /\ \A e \in Entries : Monthly(e) \in Entries /\ Monthly(e).month = month
         /\ \A e \in Entries \cup {None} :
              MonthlyOrNew(e) \in Entries /\ MonthlyOrNew(e).month = month
         /\ \A e \in Entries \cup {None}, n \in Nat :
              Charged(e, n) \in Entries /\ Charged(e, n).month = month
BY DEF Charged, TypeOK, Entries, Monthly, MonthlyOrNew, Entry

\* Reading leaves a file of entries, none of a later month.
LEMMA ReadingKeepsFile ==
  ASSUME CounterRunsInCall, NEW i \in Identities
  PROVE  /\ AfterReading(i) \in [Identities -> Entries \cup {None}]
         /\ \A j \in Identities :
              AfterReading(i)[j] # None => AfterReading(i)[j].month <= month
<1>1. readTotals \in [Identities -> Entries \cup {None}]
  BY DEF CounterRunsInCall, TypeOK, readTotals
<1>2. \A j \in Identities : readTotals[j] # None => readTotals[j].month <= month
  BY DEF CounterRunsInCall, TypeOK, readTotals
<1>3. CASE readTotals[i] = None BY <1>3 DEF CounterRunsInCall, TypeOK, AfterReading
<1>4. CASE readTotals[i] # None
  <2>1. Monthly(readTotals[i]) \in Entries /\ Monthly(readTotals[i]).month = month
    BY <1>1, <1>4, MonthlyEntry DEF CounterRunsInCall
  <2>2. month <= month BY DEF CounterRunsInCall, TypeOK
  <2> QED BY <1>1, <1>2, <1>4, <2>1, <2>2 DEF AfterReading
<1> QED BY <1>3, <1>4

\* finish stops the counter, and leaves a file of entries, none of a later month.
LEMMA FinishKeepsFile ==
  ASSUME CounterRunsInCall, NEW l \in Lines, finish(l)
  PROVE  /\ meter' = [meter EXCEPT ![l] = None]
         /\ file' \in [Identities -> Entries \cup {None}]
         /\ \A j \in Identities : file'[j] # None => file'[j].month <= month
<1> DEFINE i == IdentityOf[l]
<1>1. i \in Identities OBVIOUS
<1>2. readTotals \in [Identities -> Entries \cup {None}]
  BY DEF CounterRunsInCall, TypeOK, readTotals
<1>3. CASE file' = file BY <1>3 DEF CounterRunsInCall, TypeOK, finish
<1>4. ASSUME meter[l] # None,
             NEW n \in {clock - meter[l], clock - meter[l] + 1}, n # 0,
             file' = [readTotals EXCEPT ![i] = Charged(@, n)]
      PROVE  /\ file' \in [Identities -> Entries \cup {None}]
             /\ \A j \in Identities : file'[j] # None => file'[j].month <= month
  <2>1. n \in Nat BY <1>4 DEF CounterRunsInCall, TypeOK
  <2>2. Charged(readTotals[i], n) \in Entries /\ Charged(readTotals[i], n).month = month
    BY <1>1, <1>2, <2>1, MonthlyEntry DEF CounterRunsInCall
  <2>3. file' \in [Identities -> Entries \cup {None}]
    BY <1>1, <1>2, <1>4, <2>2
  <2>4. \A j \in Identities : file'[j] # None => file'[j].month <= month
    BY <1>1, <1>2, <1>4, <2>2 DEF CounterRunsInCall, TypeOK, readTotals
  <2> QED BY <2>3, <2>4
<1> QED BY <1>3, <1>4 DEF finish

LEMMA InitSound == Init => CounterRunsInCall
BY DEF Init, CounterRunsInCall, TypeOK, Entries, Entry

LEMMA NextSound == CounterRunsInCall /\ [Next]_vars => CounterRunsInCall'
<1> SUFFICES ASSUME CounterRunsInCall, [Next]_vars PROVE CounterRunsInCall'
  OBVIOUS
<1>1. ASSUME NEW l \in Lines, Ring(l) PROVE CounterRunsInCall'
  <2>1. EffectiveLimit(IdentityOf[l]) \in Nat
    BY DEF CounterRunsInCall, TypeOK, EffectiveLimit, readTotals, Entries
  <2> QED BY <1>1, <2>1, ReadingKeepsFile DEF CounterRunsInCall, TypeOK, Ring
<1>2. ASSUME NEW l \in Lines, Answer(l) PROVE CounterRunsInCall'
  <2>1. UsedSeconds(IdentityOf[l]) \in Nat
    BY MonthlyEntry DEF CounterRunsInCall, TypeOK, UsedSeconds, readTotals, Entries
  <2>2. CapAfter(l, UsedSeconds(IdentityOf[l])) \in Nat \cup {None}
    BY <2>1 DEF CounterRunsInCall, TypeOK, CapAfter
  <2> QED BY <1>2, <2>2, ReadingKeepsFile DEF CounterRunsInCall, TypeOK, Answer
<1>3. ASSUME NEW l \in Lines, NoAnswer(l) PROVE CounterRunsInCall'
  BY <1>3 DEF CounterRunsInCall, TypeOK, NoAnswer
<1>4. ASSUME NEW l \in Lines, HangUp(l) PROVE CounterRunsInCall'
  <2>1. finish(l) BY <1>4 DEF HangUp
  <2> QED BY <1>4, <2>1, FinishKeepsFile DEF CounterRunsInCall, TypeOK, HangUp
<1>5. ASSUME NEW l \in Lines, Dispose(l) PROVE CounterRunsInCall'
  <2>1. finish(l) BY <1>5 DEF Dispose
  <2> QED BY <1>5, <2>1, FinishKeepsFile DEF CounterRunsInCall, TypeOK, Dispose
<1>6. ASSUME NEW l \in Lines, CutOff(l) PROVE CounterRunsInCall'
  BY <1>6 DEF CounterRunsInCall, TypeOK, CutOff
<1>7. CASE Tick
  <2>1. month' \in {month, month + 1} /\ clock' = clock + 1 /\ UNCHANGED <<file, meter>>
    BY <1>7 DEF Tick, callVars
  <2>2. \A i \in Identities : file[i] # None => file[i].month \in Nat
    BY DEF CounterRunsInCall, TypeOK, Entries
  <2>3. TypeOK' BY <1>7, <2>1 DEF CounterRunsInCall, TypeOK, Tick, callVars
  <2> QED BY <1>7, <2>1, <2>2, <2>3 DEF CounterRunsInCall, TypeOK, Tick, callVars
<1>8. CASE Fault BY <1>8 DEF CounterRunsInCall, TypeOK, Fault, callVars
<1>9. CASE Restart BY <1>9 DEF CounterRunsInCall, TypeOK, Restart
<1>10. CASE UNCHANGED vars BY <1>10 DEF CounterRunsInCall, TypeOK, vars
<1> QED BY <1>1, <1>2, <1>3, <1>4, <1>5, <1>6, <1>7, <1>8, <1>9, <1>10 DEF Next

\* Whichever of the two hooks stops it, and whatever is disposed of, restarted
\* or unreadable in between, the counter of a session runs exactly while its
\* call is being charged for.
THEOREM CounterIsSound == Spec => []CounterRunsInCall
BY InitSound, NextSound, PTL DEF Spec

-----------------------------------------------------------------------------
(***************************************************************************)
(* The refinement.                                                         *)
(***************************************************************************)
\* What a reading finds is what the ledger says of the account.
LEMMA ReadingSeesLedger ==
  ASSUME CounterRunsInCall, NEW i \in Identities
  PROVE  /\ readable => UsedSeconds(i) = Account(i)
         /\ ~ readable => UsedSeconds(i) = 0
         /\ EffectiveLimit(i) = Books!LimitOf(i)
BY DEF CounterRunsInCall, TypeOK, UsedSeconds, readTotals, Monthly, Entry, Account,
       EffectiveLimit, Books!LimitOf

\* Reading changes the file, and no account.
LEMMA ReadingIsInvisible ==
  ASSUME CounterRunsInCall, NEW i \in Identities,
         file' = AfterReading(i), month' = month
  PROVE  /\ [j \in Identities |-> Account(j)]' = [j \in Identities |-> Account(j)]
         /\ [j \in Identities |-> IF file[j] = None THEN 0 ELSE file[j].cap]'
              = [j \in Identities |-> IF file[j] = None THEN 0 ELSE file[j].cap]
<1>1. CASE file' = file BY <1>1 DEF Account
<1>2. CASE readable /\ file[i] # None
  <2>1. file' = [file EXCEPT ![i] = Monthly(file[i])]
    BY <1>2 DEF AfterReading, readTotals
  <2>2. file[i] \in Entries BY <1>2 DEF CounterRunsInCall, TypeOK
  <2>3. /\ Monthly(file[i]) # None
        /\ Monthly(file[i]).cap = file[i].cap
        /\ Monthly(file[i]).month = month
        /\ Monthly(file[i]).total = Account(i)
    BY <1>2, <2>2, MonthlyEntry DEF CounterRunsInCall, Monthly, Entry, Account, Entries
  <2>4. /\ file'[i] = Monthly(file[i])
        /\ \A j \in Identities \ {i} : file'[j] = file[j]
    BY <2>1 DEF CounterRunsInCall, TypeOK
  <2>5. Account(i)' = Account(i) BY <2>3, <2>4 DEF Account
  <2>6. \A j \in Identities \ {i} : Account(j)' = Account(j) BY <2>4 DEF Account
  <2> QED BY <1>2, <2>3, <2>4, <2>5, <2>6
<1> QED BY <1>1, <1>2 DEF AfterReading, readTotals

\* Stopping a counter that runs is the end of a call in the ledger.
LEMMA FinishCharges ==
  ASSUME CounterRunsInCall, NEW l \in Lines, finish(l), meter[l] # None,
         month' = month
  PROVE  Books!Charge(l)
<1> DEFINE i == IdentityOf[l]
           accounts == [j \in Identities |-> Account(j)]
           capsNow == [j \in Identities |-> IF file[j] = None THEN 0 ELSE file[j].cap]
<1>1. i \in Identities /\ readTotals \in [Identities -> Entries \cup {None}]
  BY DEF CounterRunsInCall, TypeOK, readTotals
<1>2. CASE file' = file /\ clock - meter[l] = 0
  <2>1. UNCHANGED <<accounts, capsNow>> BY <1>2 DEF Account
  <2> QED BY <1>2, <2>1 DEF Books!Charge
<1>3. CASE file' = file /\ clock - meter[l] + 1 = 0
  BY <1>3 DEF CounterRunsInCall, TypeOK
<1>4. ASSUME NEW n \in {clock - meter[l], clock - meter[l] + 1}, n # 0,
             file' = [readTotals EXCEPT ![i] = Charged(@, n)]
      PROVE  Books!Charge(l)
  <2> DEFINE kept == IF readable THEN accounts ELSE Books!Nobody
  <2>1. n \in Nat BY <1>4 DEF CounterRunsInCall, TypeOK
  <2>2. Charged(readTotals[i], n) \in Entries /\ Charged(readTotals[i], n).month = month
    BY <1>1, <2>1, MonthlyEntry DEF CounterRunsInCall
  <2>3. Charged(readTotals[i], n) # None
    BY <2>2, NoneAssumption DEF Entries
  <2>4. /\ file'[i] = Charged(readTotals[i], n)
        /\ \A j \in Identities \ {i} : file'[j] = readTotals[j]
    BY <1>1, <1>4
  <2>5. Account(i)' = Charged(readTotals[i], n).total
    BY <2>2, <2>3, <2>4 DEF Account
  <2>6. Charged(readTotals[i], n).total = kept[i] + n
    BY <1>1, <2>1 DEF CounterRunsInCall, TypeOK, Charged, MonthlyOrNew, Monthly, Entry,
                      readTotals, Account, Books!Nobody, Entries
  <2>7. \A j \in Identities \ {i} : Account(j)' = kept[j]
    BY <2>4 DEF readTotals, Account, Books!Nobody
  <2>8. accounts' = [kept EXCEPT ![i] = @ + n]
    BY <1>1, <2>5, <2>6, <2>7 DEF Books!Nobody
  <2>9. Charged(readTotals[i], n).cap = IF readTotals[i] = None THEN 0 ELSE readTotals[i].cap
    BY <1>1 DEF Charged, MonthlyOrNew, Monthly, Entry, Entries
  <2>10. capsNow' = IF readable THEN capsNow ELSE Books!Nobody
    BY <1>1, <2>3, <2>4, <2>9 DEF readTotals, Books!Nobody
  <2> QED BY <1>4, <2>8, <2>10 DEF Books!Charge
<1> QED BY <1>2, <1>3, <1>4 DEF finish

LEMMA InitRefines == Init => Books!Init
BY DEF Init, Books!Init, Books!Nobody, Account, Entry

LEMMA NextRefines == CounterRunsInCall /\ [Next]_vars => [Books!Next]_(Books!vars)
<1> SUFFICES ASSUME CounterRunsInCall, [Next]_vars PROVE [Books!Next]_(Books!vars)
  OBVIOUS
<1> DEFINE accounts == [j \in Identities |-> Account(j)]
           capsNow == [j \in Identities |-> IF file[j] = None THEN 0 ELSE file[j].cap]
           admitted == {l \in Lines : call[l] # "idle"}
<1>0. \A l \in Lines : IdentityOf[l] \in Identities OBVIOUS
<1>1. ASSUME NEW l \in Lines, Ring(l) PROVE [Books!Next]_(Books!vars)
  <2>1. UNCHANGED <<accounts, capsNow>>
    BY <1>0, <1>1, ReadingIsInvisible DEF Ring
  <2>2. CASE CanStart(IdentityOf[l])
    <3>1. readable => accounts[IdentityOf[l]] < Books!LimitOf(IdentityOf[l])
      BY <1>0, <2>2, ReadingSeesLedger DEF CanStart
    <3>2. admitted' = admitted \cup {l}
      BY <1>1, <2>2 DEF Ring, CounterRunsInCall, TypeOK
    <3>3. Books!Admit(l) BY <1>1, <2>1, <3>1, <3>2 DEF Books!Admit, Ring
    <3> QED BY <3>3 DEF Books!Next
  <2>3. CASE ~ CanStart(IdentityOf[l])
    BY <1>1, <2>1, <2>3 DEF Ring, Books!vars
  <2> QED BY <2>2, <2>3
<1>2. ASSUME NEW l \in Lines, Answer(l) PROVE [Books!Next]_(Books!vars)
  <2>1. UNCHANGED <<accounts, capsNow>>
    BY <1>0, <1>2, ReadingIsInvisible DEF Answer
  <2>2. l \in admitted /\ UNCHANGED admitted
    BY <1>2 DEF Answer, CounterRunsInCall, TypeOK
  <2>3. Books!Begin(l) BY <1>2, <2>1, <2>2 DEF Books!Begin, Answer
  <2> QED BY <2>3 DEF Books!Next
<1>3. ASSUME NEW l \in Lines, NoAnswer(l) PROVE [Books!Next]_(Books!vars)
  <2>1. UNCHANGED <<accounts, capsNow>> BY <1>3 DEF NoAnswer, Account
  <2>2. admitted' = admitted \ {l} BY <1>3 DEF NoAnswer, CounterRunsInCall, TypeOK
  <2>3. meter[l] = None BY <1>3 DEF NoAnswer, CounterRunsInCall
  <2>4. Books!GiveUp(l) BY <1>3, <2>1, <2>2, <2>3 DEF Books!GiveUp, NoAnswer
  <2> QED BY <2>4 DEF Books!Next
<1>4. ASSUME NEW l \in Lines, call' = [call EXCEPT ![l] = "idle"], finish(l),
             UNCHANGED <<clock, month, readable>>
      PROVE  [Books!Next]_(Books!vars)
  <2>1. admitted' = admitted \ {l} BY <1>4 DEF CounterRunsInCall, TypeOK
  <2>2. meter' = [meter EXCEPT ![l] = None] BY <1>4 DEF finish
  <2>3. CASE meter[l] # None
    <3>1. Books!Charge(l) BY <1>4, <2>3, FinishCharges
    <3>2. Books!End(l) BY <1>4, <2>1, <2>2, <2>3, <3>1 DEF Books!End
    <3> QED BY <3>2 DEF Books!Next
  <2>4. CASE meter[l] = None
    <3>1. file' = file /\ meter' = meter
      BY <1>4, <2>2, <2>4 DEF finish, CounterRunsInCall, TypeOK
    <3>2. UNCHANGED <<accounts, capsNow>> BY <1>4, <3>1 DEF Account
    <3>3. Books!GiveUp(l) BY <1>4, <2>1, <2>4, <3>1, <3>2 DEF Books!GiveUp
    <3> QED BY <3>3 DEF Books!Next
  <2> QED BY <2>3, <2>4
<1>5. ASSUME NEW l \in Lines, HangUp(l) PROVE [Books!Next]_(Books!vars)
  BY <1>4, <1>5 DEF HangUp
<1>6. ASSUME NEW l \in Lines, Dispose(l) PROVE [Books!Next]_(Books!vars)
  BY <1>4, <1>6 DEF Dispose
<1>7. ASSUME NEW l \in Lines, CutOff(l) PROVE [Books!Next]_(Books!vars)
  <2>1. UNCHANGED <<accounts, capsNow>> BY <1>7 DEF CutOff, Account
  <2>2. UNCHANGED admitted BY <1>7 DEF CutOff, CounterRunsInCall, TypeOK
  <2> QED BY <1>7, <2>1, <2>2 DEF CutOff, Books!vars
<1>8. CASE Tick
  <2>1. UNCHANGED <<file, readable, call, meter>> BY <1>8 DEF Tick, callVars
  <2>2. UNCHANGED <<capsNow, admitted>> BY <2>1
  <2>3. accounts' = IF clock' % MonthLength = 0 THEN Books!Nobody ELSE accounts
    <3>1. CASE clock' % MonthLength = 0
      <4>1. \A i \in Identities : file[i] # None => file[i].month # month'
        BY <1>8, <3>1 DEF Tick, CounterRunsInCall, TypeOK, Entries
      <4>2. \A i \in Identities : Account(i)' = 0 BY <2>1, <4>1 DEF Account
      <4> QED BY <3>1, <4>2 DEF Books!Nobody
    <3>2. CASE clock' % MonthLength # 0
      <4>1. month' = month BY <1>8, <3>2 DEF Tick
      <4> QED BY <2>1, <3>2, <4>1 DEF Account
    <3> QED BY <3>1, <3>2
  <2>4. Books!Tick BY <1>8, <2>1, <2>2, <2>3 DEF Books!Tick, Tick
  <2> QED BY <2>4 DEF Books!Next
<1>9. CASE Fault
  <2>1. UNCHANGED <<clock, accounts, capsNow, admitted, meter>>
    BY <1>9 DEF Fault, callVars, Account
  <2>2. Books!Fault BY <1>9, <2>1 DEF Books!Fault, Fault
  <2> QED BY <2>2 DEF Books!Next
<1>10. CASE Restart
  <2>1. UNCHANGED <<clock, readable, accounts, capsNow>>
    BY <1>10 DEF Restart, Account
  <2>2. admitted' = {} BY <1>10 DEF Restart
  <2>3. Books!Restart BY <1>10, <2>1, <2>2 DEF Books!Restart, Restart
  <2> QED BY <2>3 DEF Books!Next
<1>11. CASE UNCHANGED vars
  BY <1>11 DEF vars, Books!vars, Account
<1> QED BY <1>1, <1>2, <1>3, <1>5, <1>6, <1>7, <1>8, <1>9, <1>10, <1>11 DEF Next

\* The file with its lazy reset, its entries made on demand and its hooks that
\* may run twice implements the ledger, for any lines, limits, caps and months.
THEOREM LedgerIsKept == Spec => KeepsTheLedger
<1>1. Init /\ [][Next]_vars /\ []CounterRunsInCall
        => Books!Init /\ [][Books!Next]_(Books!vars)
  BY InitRefines, NextRefines, PTL
<1> QED BY <1>1, CounterIsSound, PTL DEF Spec, KeepsTheLedger, Books!Spec

-----------------------------------------------------------------------------
(***************************************************************************)
(* What a line that spends its minutes alone can spend.  The gate lets its *)
(* call through below the limit, the answer arms the cutoff for what is    *)
(* left, and until then nobody else can spend it; a new month only makes   *)
(* more of it.                                                             *)
(***************************************************************************)

CapOf(i) == IF file[i] = None THEN 0 ELSE file[i].cap

\* The line l alone spends the minutes of its identity, each call of it capped.
Alone(l) ==
  LinesOf(IdentityOf[l]) = {l} /\ LimitOf(IdentityOf[l]) < LowBalance

\* What is charged, and what the call under way can still be charged with.
Spends(l) ==
  LET i == IdentityOf[l]
  IN /\ file[i] # None => file[i].total <= LimitOf(i) + 1
     /\ call[l] = "ringing" => Account(i) < LimitOf(i) /\ limit[l] = LimitOf(i)
     /\ meter[l] # None => Account(i) + clock <= LimitOf(i) + meter[l]
     /\ call[l] = "talking" =>
          /\ cutoff[l] # None /\ clock <= cutoff[l]
          /\ Account(i) + cutoff[l] <= LimitOf(i) + meter[l]

SpendInv ==
  faults = 0 => /\ readable
                /\ \A i \in Identities : CapOf(i) = Cap[i]
                /\ \A l \in Lines : Alone(l) => Spends(l)

LEMMA AccountType ==
  ASSUME CounterRunsInCall, NEW i \in Identities
  PROVE  Account(i) \in Nat /\ CapOf(i) \in Nat /\ LimitOf(i) \in Nat \ {0}
         /\ (file[i] # None => file[i].total \in Nat)
BY DEF CounterRunsInCall, TypeOK, Entries, Account, CapOf, LimitOf

\* Reading changes no account and no cap, and raises no total.
LEMMA ReadingSpendsNothing ==
  ASSUME CounterRunsInCall, NEW i \in Identities,
         file' = AfterReading(i), month' = month, NEW j \in Identities
  PROVE  /\ Account(j)' = Account(j) /\ CapOf(j)' = CapOf(j)
         /\ file'[j] # None =>
              file[j] # None /\ file'[j].total \in Nat /\ file'[j].total <= file[j].total
<1>1. Account(j)' = Account(j) /\ CapOf(j)' = CapOf(j)
  <2> DEFINE accounts == [k \in Identities |-> Account(k)]
             caps == [k \in Identities |-> IF file[k] = None THEN 0 ELSE file[k].cap]
  <2>1. accounts' = accounts /\ caps' = caps  BY ReadingIsInvisible
  <2>2. accounts'[j] = accounts[j] /\ caps'[j] = caps[j]  BY <2>1
  <2> QED BY <2>2 DEF CapOf
<1>2. ASSUME file'[j] # None
      PROVE  file[j] # None /\ file'[j].total \in Nat /\ file'[j].total <= file[j].total
  <2>1. file[j] # None => file[j] \in Entries /\ file[j].total \in Nat
    BY DEF CounterRunsInCall, TypeOK, Entries
  <2>2. CASE file'[j] = file[j] BY <1>2, <2>1, <2>2
  <2>3. CASE file'[j] # file[j]
    <3>1. j = i /\ file[i] # None /\ file'[i] = Monthly(file[i])
      BY <2>3 DEF AfterReading, readTotals, CounterRunsInCall, TypeOK
    <3>2. Monthly(file[i]).total \in {0, file[i].total}
      BY DEF Monthly, Entry
    <3> QED BY <2>1, <3>1, <3>2 DEF Entries
  <2> QED BY <2>2, <2>3
<1> QED BY <1>1, <1>2

\* Stopping the counter of a line charges its own account, with what the call
\* took and a started second at most, and keeps every cap.
LEMMA FinishSpends ==
  ASSUME CounterRunsInCall, readable, NEW l \in Lines, finish(l), month' = month
  PROVE  /\ \A j \in Identities : CapOf(j)' = CapOf(j)
         /\ \A j \in Identities : j # IdentityOf[l] => file'[j] = file[j]
         /\ \/ file' = file
            \/ /\ meter[l] # None /\ file'[IdentityOf[l]] # None
               /\ file'[IdentityOf[l]].total
                    <= Account(IdentityOf[l]) + (clock - meter[l]) + 1
<1> DEFINE i == IdentityOf[l]
<1>1. i \in Identities /\ readTotals = file /\ file \in [Identities -> Entries \cup {None}]
  BY DEF CounterRunsInCall, TypeOK, readTotals
<1>2. CASE file' = file BY <1>2 DEF CapOf
<1>3. ASSUME meter[l] # None, NEW n \in {clock - meter[l], clock - meter[l] + 1},
             file' = [file EXCEPT ![i] = Charged(file[i], n)]
      PROVE  /\ \A j \in Identities : CapOf(j)' = CapOf(j)
             /\ \A j \in Identities : j # i => file'[j] = file[j]
             /\ file'[i] # None
             /\ file'[i].total <= Account(i) + (clock - meter[l]) + 1
  <2>1. n \in Nat /\ n <= (clock - meter[l]) + 1
    BY <1>3 DEF CounterRunsInCall, TypeOK
  <2>2. Charged(file[i], n) \in Entries
    BY <1>1, <2>1, MonthlyEntry DEF CounterRunsInCall
  <2>3. /\ file'[i] = Charged(file[i], n)
        /\ \A j \in Identities : j # i => file'[j] = file[j]
    BY <1>1, <1>3
  <2>4. Charged(file[i], n).total = Account(i) + n
    BY <1>1, <2>1 DEF Charged, MonthlyOrNew, Monthly, Entry, Account, Entries
  <2>5. Charged(file[i], n).cap = CapOf(i)
    BY <1>1 DEF Charged, MonthlyOrNew, Monthly, Entry, CapOf, Entries
  <2>6. file'[i] # None BY <2>2, <2>3 DEF Entries
  <2>7. \A j \in Identities : CapOf(j)' = CapOf(j)
    BY <2>3, <2>5, <2>6 DEF CapOf
  <2>8. Account(i) \in Nat /\ (clock - meter[l]) \in Int
    BY <1>1, <1>3, AccountType DEF CounterRunsInCall, TypeOK
  <2> QED BY <2>1, <2>3, <2>4, <2>6, <2>7, <2>8
<1> QED BY <1>1, <1>2, <1>3 DEF finish

\* A step that leaves the call of a line alone, and charges its account nothing.
LEMMA SpendsStill ==
  ASSUME CounterRunsInCall, NEW l \in Lines, Spends(l), UNCHANGED clock,
         call'[l] = call[l], limit'[l] = limit[l], meter'[l] = meter[l],
         cutoff'[l] = cutoff[l], Account(IdentityOf[l])' = Account(IdentityOf[l]),
         file'[IdentityOf[l]] # None =>
           /\ file[IdentityOf[l]] # None
           /\ file'[IdentityOf[l]].total \in Nat
           /\ file'[IdentityOf[l]].total <= file[IdentityOf[l]].total
         \/ file'[IdentityOf[l]] = file[IdentityOf[l]]
  PROVE  Spends(l)'
<1> DEFINE i == IdentityOf[l]
<1>1. i \in Identities OBVIOUS
<1>2. LimitOf(i) \in Nat /\ (file[i] # None => file[i].total \in Nat)
  BY <1>1, AccountType
<1>3. file'[i] # None => file'[i].total <= LimitOf(i) + 1
  BY <1>2 DEF Spends
<1> QED BY <1>1, <1>3 DEF Spends, LimitOf

\* With the file readable and every cap kept, what a ring admits is measured
\* against the limit of the identity.
LEMMA LimitInForce ==
  ASSUME CounterRunsInCall, readable, NEW i \in Identities, CapOf(i) = Cap[i]
  PROVE  EffectiveLimit(i) = LimitOf(i) /\ UsedSeconds(i) = Account(i)
<1>1. UsedSeconds(i) = Account(i) BY ReadingSeesLedger
<1>2. EffectiveLimit(i) = LimitOf(i)
  BY DEF EffectiveLimit, readTotals, CapOf, LimitOf
<1> QED BY <1>1, <1>2

\* No other line spends the minutes of a line that spends alone.
LEMMA OthersSpendElsewhere ==
  ASSUME NEW l \in Lines, Alone(l), NEW k \in Lines, k # l
  PROVE  IdentityOf[k] # IdentityOf[l]
BY DEF Alone, LinesOf

LEMMA InitSpends == Init => SpendInv
<1> SUFFICES ASSUME Init PROVE SpendInv OBVIOUS
<1>1. \A i \in Identities : Cap[i] \in Nat /\ LimitOf(i) \in Nat \ {0}
  BY DEF LimitOf
<1>2. \A i \in Identities : CapOf(i) = Cap[i]
  BY <1>1 DEF Init, CapOf, Entry
<1>3. ASSUME NEW l \in Lines PROVE Spends(l)
  BY <1>1 DEF Init, Spends, Entry
<1> QED BY <1>2, <1>3 DEF Init, SpendInv

\* A step that ends the call of a line and stops its counter.
LEMMA EndSpends ==
  ASSUME CounterRunsInCall, SpendInv, faults = 0, NEW k \in Lines, finish(k),
         call' = [call EXCEPT ![k] = "idle"],
         \A l \in Lines \ {k} : cutoff'[l] = cutoff[l],
         UNCHANGED <<clock, month, readable, faults, limit>>
  PROVE  SpendInv'
<1>1. readable /\ \A i \in Identities : CapOf(i) = Cap[i] BY DEF SpendInv
<1>2. /\ \A j \in Identities : CapOf(j)' = CapOf(j)
      /\ \A j \in Identities : j # IdentityOf[k] => file'[j] = file[j]
      /\ \/ file' = file
         \/ /\ meter[k] # None /\ file'[IdentityOf[k]] # None
            /\ file'[IdentityOf[k]].total
                 <= Account(IdentityOf[k]) + (clock - meter[k]) + 1
  BY <1>1, FinishSpends
<1>3. meter' = [meter EXCEPT ![k] = None] /\ meter \in [Lines -> Nat \cup {None}]
      /\ call \in [Lines -> {"idle", "ringing", "talking", "ending"}] /\ clock \in Nat
  BY DEF finish, CounterRunsInCall, TypeOK
<1>4. ASSUME NEW l \in Lines, Alone(l) PROVE Spends(l)'
  <2> DEFINE i == IdentityOf[l]
  <2>0. i \in Identities /\ Spends(l) BY <1>4 DEF SpendInv
  <2>1. CASE l = k
    <3>1. Account(i) \in Nat /\ LimitOf(i) \in Nat BY <2>0, AccountType
    <3>2. file'[i] # None => file'[i].total <= LimitOf(i) + 1
      <4>1. CASE file' = file BY <2>0, <4>1 DEF Spends
      <4>2. CASE file' # file
        <5>1. meter[l] \in Nat /\ file'[i].total <= Account(i) + (clock - meter[l]) + 1
          BY <1>2, <1>3, <2>1, <4>2
        <5>2. Account(i) + clock <= LimitOf(i) + meter[l]
          BY <2>0, <5>1 DEF Spends
        <5>3. file'[i].total \in Nat
          <6>1. month' = month /\ file' \in [Identities -> Entries \cup {None}]
            BY FinishKeepsFile
          <6>2. file'[i] # None BY <1>2, <2>1, <4>2
          <6> QED BY <2>0, <6>1, <6>2 DEF Entries
        <5> QED BY <1>3, <3>1, <5>1, <5>2, <5>3
      <4> QED BY <4>1, <4>2
    <3>3. call'[l] = "idle" /\ meter'[l] = None BY <1>3, <2>1
    <3> QED BY <3>2, <3>3 DEF Spends, LimitOf
  <2>2. CASE l # k
    <3>1. file'[i] = file[i]
      BY <1>2, <1>4, <2>0, <2>2, OthersSpendElsewhere
    <3>2. Account(i)' = Account(i) BY <3>1 DEF Account
    <3>3. file[i] # None => file[i].total \in Nat BY <2>0, AccountType
    <3>4. call'[l] = call[l] /\ meter'[l] = meter[l] /\ cutoff'[l] = cutoff[l]
      BY <1>3, <2>2
    <3>5. file'[i] # None =>
            file[i] # None /\ file'[i].total \in Nat /\ file'[i].total <= file[i].total
      BY <3>1, <3>3
    <3> QED BY <2>0, <3>2, <3>4, <3>5, SpendsStill
  <2> QED BY <2>1, <2>2
<1> QED BY <1>1, <1>2, <1>4 DEF SpendInv, Alone, LinesOf, LimitOf

LEMMA NextSpends == CounterRunsInCall /\ SpendInv /\ [Next]_vars => SpendInv'
<1> SUFFICES ASSUME CounterRunsInCall, SpendInv, [Next]_vars, faults' = 0
             PROVE  SpendInv'
  BY DEF SpendInv
<1> DEFINE Kept(l) == Alone(l) => Spends(l)'
<1>0. /\ TypeOK /\ \A l \in Lines : IdentityOf[l] \in Identities
      /\ \A i \in Identities : Account(i) \in Nat /\ LimitOf(i) \in Nat \ {0}
      /\ \A i \in Identities : file[i] # None => file[i].total \in Nat
  BY AccountType DEF CounterRunsInCall
<1>1. \A l \in Lines : Alone(l)' = Alone(l) BY DEF Alone, LinesOf, LimitOf
<1>2. faults = 0
  BY <1>0 DEF Next, Ring, Answer, NoAnswer, HangUp, Dispose, CutOff, Tick, Fault,
     Restart, vars, TypeOK
<1>3. /\ readable /\ \A i \in Identities : CapOf(i) = Cap[i]
      /\ \A l \in Lines : Alone(l) => Spends(l)
  BY <1>2 DEF SpendInv
<1>4. ASSUME NEW k \in Lines, file' = AfterReading(IdentityOf[k]),
             UNCHANGED <<clock, month, readable>>
      PROVE  /\ readable' /\ \A i \in Identities : CapOf(i)' = Cap[i]
             /\ \A l \in Lines :
                  /\ Account(IdentityOf[l])' = Account(IdentityOf[l])
                  /\ file'[IdentityOf[l]] # None =>
                       /\ file[IdentityOf[l]] # None
                       /\ file'[IdentityOf[l]].total \in Nat
                       /\ file'[IdentityOf[l]].total <= file[IdentityOf[l]].total
  BY <1>0, <1>3, <1>4, ReadingSpendsNothing
<1>5. ASSUME NEW k \in Lines, Ring(k)
      PROVE  /\ readable' /\ \A i \in Identities : CapOf(i)' = Cap[i]
             /\ \A l \in Lines : Kept(l)
  <2>1. file' = AfterReading(IdentityOf[k]) /\ UNCHANGED <<clock, month, readable, meter, cutoff>>
    BY <1>5 DEF Ring
  <2>2. ASSUME NEW l \in Lines, Alone(l) PROVE Spends(l)'
    <3>1. Spends(l) BY <1>3, <2>2
    <3>2. CASE call'[l] = call[l] /\ limit'[l] = limit[l]
      BY <1>4, <2>1, <3>1, <3>2, SpendsStill
    <3>3. CASE ~ (call'[l] = call[l] /\ limit'[l] = limit[l])
      <4>1. /\ l = k /\ CanStart(IdentityOf[l]) /\ call[l] = "idle"
            /\ call'[l] = "ringing" /\ limit'[l] = EffectiveLimit(IdentityOf[l])
        BY <1>0, <1>5, <3>3 DEF Ring, TypeOK
      <4>2. /\ EffectiveLimit(IdentityOf[l]) = LimitOf(IdentityOf[l])
            /\ UsedSeconds(IdentityOf[l]) = Account(IdentityOf[l])
        BY <1>0, <1>3, LimitInForce
      <4>3. meter'[l] = None BY <2>1, <4>1 DEF CounterRunsInCall
      <4>4. file'[IdentityOf[l]] # None =>
              file'[IdentityOf[l]].total <= LimitOf(IdentityOf[l]) + 1
        BY <1>0, <1>4, <2>1, <3>1 DEF Spends
      <4>5. Account(IdentityOf[l])' < LimitOf(IdentityOf[l])
        BY <1>4, <2>1, <4>1, <4>2 DEF CanStart
      <4> QED BY <4>1, <4>2, <4>3, <4>4, <4>5 DEF Spends, LimitOf
    <3> QED BY <3>2, <3>3
  <2> QED BY <1>4, <2>1, <2>2
<1>6. ASSUME NEW k \in Lines, Answer(k)
      PROVE  /\ readable' /\ \A i \in Identities : CapOf(i)' = Cap[i]
             /\ \A l \in Lines : Kept(l)
  <2>1. file' = AfterReading(IdentityOf[k]) /\ UNCHANGED <<clock, month, readable, limit>>
    BY <1>6 DEF Answer
  <2>2. ASSUME NEW l \in Lines, Alone(l) PROVE Spends(l)'
    <3>1. Spends(l) BY <1>3, <2>2
    <3>2. CASE l # k
      <4>1. call'[l] = call[l] /\ meter'[l] = meter[l] /\ cutoff'[l] = cutoff[l]
        BY <1>0, <1>6, <3>2 DEF Answer, TypeOK
      <4> QED BY <1>4, <2>1, <3>1, <4>1, SpendsStill
    <3>3. CASE l = k
      <4> DEFINE i == IdentityOf[l]
      <4>1. /\ call'[l] = "talking" /\ meter'[l] = clock
            /\ cutoff'[l] = CapAfter(l, UsedSeconds(i))
        BY <1>0, <1>6, <3>3 DEF Answer, TypeOK
      <4>2. Account(i) < LimitOf(i) /\ limit[l] = LimitOf(i)
        BY <1>6, <3>1, <3>3 DEF Answer, Spends
      <4>3. UsedSeconds(i) = Account(i) BY <1>0, <1>3, LimitInForce
      <4>4. /\ i \in Identities /\ Account(i) \in Nat /\ LimitOf(i) \in Nat
            /\ LimitOf(i) < LowBalance /\ clock \in Nat
        BY <1>0, <2>2 DEF Alone, TypeOK
      <4>5. cutoff'[l] = clock + (LimitOf(i) - Account(i))
        BY <4>1, <4>2, <4>3, <4>4 DEF CapAfter
      <4>6. file'[i] # None => file'[i].total <= LimitOf(i) + 1
        BY <1>0, <1>4, <2>1, <3>1, <4>4 DEF Spends
      <4>7. Account(i)' = Account(i) /\ clock' = clock BY <1>4, <2>1
      <4>8. cutoff'[l] \in Nat /\ clock <= cutoff'[l]
            /\ Account(i) + cutoff'[l] <= LimitOf(i) + meter'[l]
            /\ Account(i) + clock <= LimitOf(i) + meter'[l]
        BY <4>1, <4>2, <4>4, <4>5
      <4>9. cutoff'[l] # None BY <4>8
      <4> QED BY <4>1, <4>6, <4>7, <4>8, <4>9 DEF Spends, LimitOf
    <3> QED BY <3>2, <3>3
  <2> QED BY <1>4, <2>1, <2>2
<1>7. ASSUME NEW k \in Lines, NoAnswer(k)
      PROVE  /\ readable' /\ \A i \in Identities : CapOf(i)' = Cap[i]
             /\ \A l \in Lines : Kept(l)
  <2>1. UNCHANGED <<clock, month, file, readable, limit, meter, cutoff>>
    BY <1>7 DEF NoAnswer
  <2>2. \A l \in Lines : call'[l] = call[l] \/ call'[l] = "idle"
    BY <1>0, <1>7 DEF NoAnswer, TypeOK
  <2> QED BY <1>3, <2>1, <2>2 DEF Spends, CapOf, LimitOf, Account
<1>8. ASSUME NEW k \in Lines, HangUp(k) PROVE SpendInv'
  <2>1. cutoff' = [cutoff EXCEPT ![k] = None] /\ \A l \in Lines \ {k} : cutoff'[l] = cutoff[l]
    BY <1>0, <1>8 DEF HangUp, TypeOK
  <2> QED BY <1>2, <1>8, <2>1, EndSpends DEF HangUp
<1>9. ASSUME NEW k \in Lines, Dispose(k) PROVE SpendInv'
  BY <1>2, <1>9, EndSpends DEF Dispose
<1>10. ASSUME NEW k \in Lines, CutOff(k)
       PROVE  /\ readable' /\ \A i \in Identities : CapOf(i)' = Cap[i]
              /\ \A l \in Lines : Kept(l)
  <2>1. UNCHANGED <<clock, month, file, readable, limit, meter>>
    BY <1>10 DEF CutOff
  <2>2. ASSUME NEW l \in Lines
        PROVE  \/ call'[l] = call[l] /\ cutoff'[l] = cutoff[l]
               \/ call'[l] = call[l] /\ call[l] # "talking"
               \/ call'[l] = "ending"
    BY <1>0, <1>10 DEF CutOff, TypeOK
  <2> QED BY <1>3, <2>1, <2>2 DEF Spends, CapOf, LimitOf, Account
<1>11. CASE Tick
  <2>1. /\ UNCHANGED <<file, readable, faults, call, limit, meter, cutoff>>
        /\ clock' = clock + 1 /\ clock \in Nat
    BY <1>0, <1>11 DEF Tick, callVars, TypeOK
  <2>2. \A i \in Identities : Account(i)' \in {0, Account(i)}
    <3>1. \A i \in Identities : file[i] # None => file[i].month \in Nat /\ file[i].month <= month
      BY <1>0 DEF TypeOK, Entries, CounterRunsInCall
    <3>2. month \in Nat /\ month' \in {month, month + 1}
      BY <1>0, <1>11 DEF Tick, TypeOK
    <3>3. CASE month' = month BY <2>1, <3>3 DEF Account
    <3>4. CASE month' = month + 1
      <4>1. \A i \in Identities : file[i] # None => file[i].month # month'
        BY <3>1, <3>2, <3>4
      <4> QED BY <2>1, <4>1 DEF Account
    <3> QED BY <3>2, <3>3, <3>4
  <2>3. ASSUME NEW l \in Lines, Alone(l) PROVE Spends(l)'
    <3> DEFINE i == IdentityOf[l]
    <3>1. Spends(l) /\ i \in Identities BY <1>0, <1>3, <2>3
    <3>2. /\ Account(i)' \in Nat /\ Account(i) \in Nat /\ LimitOf(i) \in Nat \ {0}
          /\ Account(i)' <= Account(i)
      BY <1>0, <2>2, <3>1
    <3>3. meter[l] # None => meter[l] \in Nat /\ call[l] = "talking"
      BY <1>0, <1>11 DEF Tick, CounterRunsInCall, TypeOK
    <3>4. cutoff[l] # None => cutoff[l] \in Nat /\ clock < cutoff[l]
      BY <1>0, <1>11 DEF Tick, TypeOK
    <3>5. call[l] = "talking" => meter[l] # None
      BY DEF CounterRunsInCall
    <3>6. call[l] = "ringing" => Account(i)' < LimitOf(i) /\ limit[l] = LimitOf(i)
      BY <3>1, <3>2 DEF Spends
    <3>7. call[l] = "talking" =>
            /\ cutoff[l] # None /\ clock + 1 <= cutoff[l]
            /\ Account(i)' + cutoff[l] <= LimitOf(i) + meter[l]
            /\ Account(i)' + (clock + 1) <= LimitOf(i) + meter[l]
      BY <2>1, <3>1, <3>2, <3>3, <3>4, <3>5 DEF Spends
    <3>8. file[i] # None => file[i].total <= LimitOf(i) + 1 BY <3>1 DEF Spends
    <3> QED BY <2>1, <3>3, <3>6, <3>7, <3>8 DEF Spends, LimitOf
  <2> QED BY <1>1, <1>2, <1>3, <2>1, <2>3 DEF SpendInv, CapOf
<1>12. CASE Fault BY <1>2, <1>12 DEF Fault
<1>13. CASE Restart
  <2>1. UNCHANGED <<clock, month, file, readable, limit>> BY <1>13 DEF Restart
  <2>2. \A l \in Lines : call'[l] = "idle" /\ meter'[l] = None BY <1>13 DEF Restart
  <2> QED BY <1>1, <1>3, <2>1, <2>2 DEF SpendInv, Spends, CapOf, LimitOf, Account
<1>14. CASE UNCHANGED vars
  <2>1. UNCHANGED <<clock, month, file, readable, faults, call, limit, meter, cutoff>>
    BY <1>14 DEF vars
  <2> QED BY <1>1, <1>3, <2>1 DEF SpendInv, Spends, CapOf, LimitOf, Account
<1> QED
  BY <1>1, <1>5, <1>6, <1>7, <1>8, <1>9, <1>10, <1>11, <1>12, <1>13, <1>14
  DEF Next, SpendInv

\* What the balance check at the ring and the timer armed at the answer promise
\* a prepaid caller together: while the file stays readable, an identity whose
\* calls all come from one line never spends more in a month than its limit and
\* the second begun, for any lines, limits, caps, months, restarts and disposals.
THEOREM SoleLineSpendsItsLimit == Spec => []SoleLineWithinLimit
<1>1. SpendInv => SoleLineWithinLimit
  BY DEF SpendInv, SoleLineWithinLimit, Alone, Spends
<1>2. Init /\ [][Next]_vars /\ []CounterRunsInCall => []SpendInv
  BY InitSpends, NextSpends, PTL
<1> QED BY <1>1, <1>2, CounterIsSound, PTL DEF Spec
==============================================================================

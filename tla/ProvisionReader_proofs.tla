------------------------- MODULE ProvisionReader_proofs -------------------------
(***************************************************************************)
(* No caller is led back to an older revision, and every route a caller    *)
(* gets is well formed, for any readers, keys, provisions and times.       *)
(***************************************************************************)
EXTENDS ProvisionReader, TLAPS

\* The routes in the cache are sound provisions, what the reads hold is of the
\* chain, and what callers got is no newer than the highest revision seen.
Inv ==
  /\ record \in Keys \cup {None}
  /\ provision \in Published \cup {None}
  /\ \A k \in Keys : provisionCache[k] # None =>
       /\ provisionCache[k].route \in Published /\ Canonical(provisionCache[k].route)
       /\ highest # None /\ provisionCache[k].route.revision <= highest
  /\ DOMAIN provisionCache = Keys
  /\ highest \in Nat \cup {None} /\ top \in Nat \cup {None}
  /\ top # None => highest # None /\ top <= highest
  /\ DOMAIN reader = Readers
  /\ \A r \in Readers :
       /\ reader[r].at = "record" => reader[r].seen \in Keys \cup {None}
       /\ reader[r].at = "provision" =>
            reader[r].key \in Keys /\ reader[r].seen \in Published \cup {None}
  /\ served.what = "route" =>
       /\ served.route \in Published /\ Canonical(served.route)
       /\ served.route.revision = top

\* A route no older than the highest revision may be served.
LEMMA ServingKeepsOrder ==
  ASSUME Inv, NEW late, NEW p \in Published, Canonical(p), ~ RolledBack(p, TRUE),
         Serve(late, "route", p),
         highest' = highest \/ highest' = p.revision,
         highest' # None /\ p.revision <= highest'
  PROVE  /\ top' \in Nat \cup {None}
         /\ top' # None => highest' # None /\ top' <= highest'
         /\ served'.what = "route" =>
              /\ served'.route \in Published /\ Canonical(served'.route)
              /\ served'.route.revision = top'
<1>1. p.revision \in Nat BY ProvisionAssumption
<1>2. CASE late
  <2>1. served' = Nothing /\ top' = top BY <1>2 DEF Serve, ServeNobody
  <2>2. served'.what # "route" BY <2>1 DEF Nothing
  <2>3. top # None => highest # None /\ top <= highest /\ highest <= p.revision
    BY <1>1, NoneAssumption DEF Inv, RolledBack
  <2>4. top # None => highest' # None /\ top <= highest'
    BY <1>1, <2>3, NoneAssumption DEF Inv
  <2>5. top \in Nat \cup {None} BY DEF Inv
  <2> QED BY <2>1, <2>2, <2>4, <2>5, Zenon
<1>3. CASE ~ late
  <2>1. served' = [what |-> "route", route |-> p] BY <1>3 DEF Serve
  <2>2. top' = IF top = None \/ (top # None /\ p.revision > top) THEN p.revision ELSE top
    BY <1>3 DEF Serve
  <2>3. top # None => highest # None /\ top <= p.revision
    BY <1>1, NoneAssumption DEF Inv, RolledBack
  <2>4. top' = p.revision BY <1>1, <2>2, <2>3, NoneAssumption DEF Inv
  <2> QED BY <1>1, <2>1, <2>4
<1> QED BY <1>2, <1>3

\* Anything but a route leaves the order alone.
LEMMA OtherServingKeepsOrder ==
  ASSUME NEW late, NEW what \in {"miss", "error"}, Serve(late, what, None)
  PROVE  top' = top /\ served'.what # "route"
BY DEF Serve, ServeNobody, Nothing

LEMMA InitInv == Init => Inv
BY NoneAssumption DEF Init, Inv, Nothing, Idle

LEMMA NextInv == Inv /\ [Next]_vars => Inv'
<1> SUFFICES ASSUME Inv, [Next]_vars PROVE Inv' OBVIOUS
<1> USE DEF cacheVars, chainVars
<1>1. ASSUME NEW r \in Readers, Read(r) PROVE Inv'
  <2>1. UNCHANGED <<record, provision, provisionCache, highest>> BY <1>1 DEF Read
  <2>2. CASE FreshMiss
    <3>1. Serve(FALSE, "miss", None) /\ reader' = reader BY <1>1, <2>2 DEF Read
    <3>2. top' = top /\ served'.what # "route" BY <3>1, OtherServingKeepsOrder
    <3> QED BY <2>1, <3>1, <3>2 DEF Inv, Canonical
  <2>3. CASE ~ FreshMiss
    <3>1. /\ reader' = [reader EXCEPT ![r] = Call("record", None, record, now, FALSE)]
          /\ top' = top /\ served' = Nothing
      BY <1>1, <2>3 DEF Read, ServeNobody
    <3> QED BY <2>1, <3>1 DEF Inv, Canonical, Call, Nothing
  <2> QED BY <2>2, <2>3
<1>2. ASSUME NEW r \in Readers, RecordAnswer(r) PROVE Inv'
  <2> DEFINE c == reader[r]
  <2>1. UNCHANGED <<record, provision, provisionCache, highest>> /\ c.at = "record"
    BY <1>2 DEF RecordAnswer
  <2>2. PICK k \in {c.seen, record} :
          \/ /\ Serve(c.late, "miss", None)
             /\ reader' = [reader EXCEPT ![r] = Idle]
          \/ /\ k # None /\ FreshRoute(k)
             /\ IF RolledBack(provisionCache[k].route, TRUE)
                  THEN Serve(c.late, "error", None)
                  ELSE Serve(c.late, "route", provisionCache[k].route)
             /\ reader' = [reader EXCEPT ![r] = Idle]
          \/ /\ k # None
             /\ reader' = [reader EXCEPT ![r] =
                             Call("provision", k, provision, c.began, c.late)]
             /\ ServeNobody
    BY <1>2 DEF RecordAnswer
  <2>3. k \in Keys \cup {None} BY <2>1 DEF Inv
  <2>4. CASE Serve(c.late, "miss", None) /\ reader' = [reader EXCEPT ![r] = Idle]
    <3>1. top' = top /\ served'.what # "route" BY <2>4, OtherServingKeepsOrder
    <3> QED BY <2>1, <2>4, <3>1 DEF Inv, Canonical, Idle
  <2>5. CASE /\ k # None /\ FreshRoute(k) /\ reader' = [reader EXCEPT ![r] = Idle]
             /\ RolledBack(provisionCache[k].route, TRUE)
             /\ Serve(c.late, "error", None)
    <3>1. top' = top /\ served'.what # "route" BY <2>5, OtherServingKeepsOrder
    <3> QED BY <2>1, <2>5, <3>1 DEF Inv, Canonical, Idle
  <2>6. CASE /\ k # None /\ FreshRoute(k) /\ reader' = [reader EXCEPT ![r] = Idle]
             /\ ~ RolledBack(provisionCache[k].route, TRUE)
             /\ Serve(c.late, "route", provisionCache[k].route)
    <3>1. provisionCache[k].route \in Published /\ Canonical(provisionCache[k].route)
      BY <2>3, <2>6 DEF Inv, FreshRoute
    <3>2. highest # None /\ provisionCache[k].route.revision <= highest
      BY <2>3, <2>6 DEF Inv, FreshRoute
    <3>3. /\ top' \in Nat \cup {None}
          /\ top' # None => highest' # None /\ top' <= highest'
          /\ served'.what = "route" =>
               /\ served'.route \in Published /\ Canonical(served'.route)
               /\ served'.route.revision = top'
      BY <2>1, <2>6, <3>1, <3>2, ServingKeepsOrder
    <3> QED BY <2>1, <2>6, <3>3 DEF Inv, Canonical, Idle
  <2>7. CASE /\ k # None
             /\ reader' = [reader EXCEPT ![r] =
                             Call("provision", k, provision, c.began, c.late)]
             /\ ServeNobody
    BY <2>1, <2>3, <2>7 DEF Inv, Canonical, Call, ServeNobody, Nothing
  <2> QED BY <2>2, <2>4, <2>5, <2>6, <2>7
<1>3. ASSUME NEW r \in Readers, ProvisionAnswer(r) PROVE Inv'
  <2> DEFINE c == reader[r]
  <2>1. /\ UNCHANGED <<record, provision>> /\ c.at = "provision"
        /\ reader' = [reader EXCEPT ![r] = Idle]
    BY <1>3 DEF ProvisionAnswer
  <2>2. PICK p \in {c.seen, provision} :
          IF p = None \/ (p # None /\ (~ Canonical(p) \/ RolledBack(p, FALSE)))
            THEN /\ Serve(c.late, "error", None)
                 /\ UNCHANGED cacheVars
            ELSE /\ highest' = p.revision
                 /\ provisionCache' = [provisionCache EXCEPT ![c.key] =
                                         [route |-> p, expiresAt |-> now + RouteTtl]]
                 /\ Serve(c.late, "route", p)
                 /\ UNCHANGED missCache
    BY <1>3 DEF ProvisionAnswer
  <2>3. p \in Published \cup {None} /\ c.key \in Keys BY <2>1 DEF Inv
  <2>4. CASE p = None \/ ~ Canonical(p) \/ RolledBack(p, FALSE)
    <3>1. Serve(c.late, "error", None) /\ UNCHANGED cacheVars BY <2>2, <2>4
    <3>2. top' = top /\ served'.what # "route" BY <3>1, OtherServingKeepsOrder
    <3> QED BY <2>1, <3>1, <3>2 DEF Inv, Canonical, Idle
  <2>5. CASE p # None /\ Canonical(p) /\ ~ RolledBack(p, FALSE)
    <3>1. /\ highest' = p.revision
          /\ provisionCache' = [provisionCache EXCEPT ![c.key] =
                                  [route |-> p, expiresAt |-> now + RouteTtl]]
          /\ Serve(c.late, "route", p)
      BY <2>2, <2>5
    <3>2. p \in Published /\ p.revision \in Nat BY <2>3, <2>5, ProvisionAssumption
    <3>3. /\ highest' # None /\ p.revision <= highest' /\ ~ RolledBack(p, TRUE)
          /\ highest # None => highest <= p.revision
      BY <2>5, <3>1, <3>2, NoneAssumption DEF RolledBack, Inv
    <3>4. /\ top' \in Nat \cup {None}
          /\ top' # None => highest' # None /\ top' <= highest'
          /\ served'.what = "route" =>
               /\ served'.route \in Published /\ Canonical(served'.route)
               /\ served'.route.revision = top'
      BY <2>5, <3>1, <3>2, <3>3, ServingKeepsOrder
    <3>5. \A k \in Keys : provisionCache'[k] # None =>
            /\ provisionCache'[k].route \in Published
            /\ Canonical(provisionCache'[k].route)
            /\ provisionCache'[k].route.revision <= highest'
      <4>1. \A q \in Published : q.revision \in Nat BY ProvisionAssumption
      <4> QED BY <2>3, <2>5, <3>1, <3>2, <3>3, <4>1 DEF Inv
    <3> QED BY <2>1, <3>1, <3>2, <3>3, <3>4, <3>5 DEF Inv, Canonical, Idle
  <2> QED BY <2>4, <2>5
<1>4. ASSUME NEW r \in Readers, CallFails(r) PROVE Inv'
  <2>1. top' = top /\ served'.what # "route" BY <1>4, OtherServingKeepsOrder DEF CallFails
  <2> QED BY <1>4, <2>1 DEF CallFails, Inv, Canonical, Idle
<1>5. ASSUME NEW r \in Readers, GiveUp(r) PROVE Inv'
  <2>1. top' = top /\ served'.what # "route" BY <1>5, OtherServingKeepsOrder DEF GiveUp
  <2> QED BY <1>5, <2>1 DEF GiveUp, Inv, Canonical
<1>6. CASE Write
  <2>1. top' = top /\ served'.what # "route" BY <1>6 DEF Write, ServeNobody, Nothing
  <2> QED BY <1>6, <2>1 DEF Write, Inv, Canonical
<1>7. CASE Tick
  <2>1. top' = top /\ served'.what # "route" BY <1>7 DEF Tick, ServeNobody, Nothing
  <2> QED BY <1>7, <2>1 DEF Tick, Inv, Canonical
<1>8. CASE UNCHANGED vars BY <1>8 DEF vars, Inv, Canonical
<1> QED BY <1>1, <1>2, <1>3, <1>4, <1>5, <1>6, <1>7, <1>8 DEF Next

LEMMA Invariance == Spec => []Inv
BY InitInv, NextInv, PTL DEF Spec

\* The revision check holds over overlapping, late and cached reads.
THEOREM RevisionsNeverGoBack == Spec => []NeverGoesBack
<1>1. Inv => NeverGoesBack BY DEF Inv, NeverGoesBack
<1> QED BY <1>1, Invariance, PTL

\* Whatever is put on the chain, no malformed route is served.
THEOREM ServedRoutesAreSound == Spec => []RoutesAreSound
<1>1. Inv => RoutesAreSound
  <2> SUFFICES ASSUME Inv, served.what = "route"
      PROVE /\ served.route.type \in {"DIRECT", "IVR"} =>
                 served.route.valid = 1 /\ served.route.spare = 0
            /\ served.route.valid \in 1 .. 5
    BY DEF RoutesAreSound
  <2>1. Canonical(served.route) BY DEF Inv
  <2>2. served.route.valid \in Nat /\ served.route.spare \in Nat
    BY ProvisionAssumption DEF Inv
  <2> QED BY <2>1, <2>2 DEF Canonical
<1> QED BY <1>1, Invariance, PTL

-------------------------------------------------------------------------------
(*****************************************************************************)
(* How old what a caller is told can be.  Every answer of the chain is true  *)
(* of a moment of the call that brought it; a call ends within RpcLife, a    *)
(* caller waits no longer than Timeout; and what is cached is given an end   *)
(* when it arrives, whoever still waits for it.                              *)
(*****************************************************************************)

\* The times of the chain are past, and those of what it holds are the present.
ChainTimes ==
  /\ now \in Nat
  /\ absentAt \in Nat \cup {None} /\ lastOn \in [Published -> Nat \cup {None}]
  /\ absentAt # None => absentAt <= now
  /\ \A p \in Published : lastOn[p] # None => lastOn[p] <= now
  /\ record = None => absentAt = now
  /\ provision # None => lastOn[provision] = now

\* A read is no older than its calls may be, and saw the chain during its call.
ReadTimes(c) ==
  /\ c.began \in Nat /\ c.called \in Nat
  /\ now <= c.called + RpcLife
  /\ ~ c.late => now <= c.began + Timeout
  /\ c.at = "record" /\ c.seen = None => absentAt # None /\ c.began <= absentAt
  /\ c.at = "provision" /\ c.seen # None =>
       lastOn[c.seen] # None /\ c.called <= lastOn[c.seen]

ReaderTimes == \A r \in Readers : reader[r].at # "idle" => ReadTimes(reader[r])

\* What is cached ends before it would be too old.
CacheTimes ==
  /\ missCache # None =>
       /\ missCache \in Nat /\ absentAt # None
       /\ missCache <= absentAt + MissTtl + Timeout
  /\ \A k \in Keys : provisionCache[k] # None =>
       LET on == lastOn[provisionCache[k].route]
       IN /\ provisionCache[k].expiresAt \in Nat /\ on # None
          /\ provisionCache[k].expiresAt <= on + RouteTtl + RpcLife

TimeInv ==
  ChainTimes /\ ReaderTimes /\ CacheTimes /\ MissIsRecent /\ RouteIsRecent

\* A caller gets what was read, or nothing.
LEMMA ServeWhat ==
  ASSUME NEW late, NEW what, NEW route, Serve(late, what, route)
  PROVE  served' = Nothing \/ (~ late /\ served' = [what |-> what, route |-> route])
BY DEF Serve, ServeNobody

LEMMA TimesAreNat ==
  /\ Timeout \in Nat /\ RpcLife \in Nat /\ RouteTtl \in Nat /\ MissTtl \in Nat
  /\ None \notin Nat /\ None \notin Published /\ None \notin Keys
BY TimeAssumption, NoneAssumption

\* The chain's times only grow.
LEMMA ChainMoves ==
  ASSUME Inv, ChainTimes, Write \/ Tick
  PROVE  /\ ChainTimes'
         /\ absentAt # None => absentAt' # None /\ absentAt <= absentAt'
         /\ \A p \in Published :
              lastOn[p] # None => lastOn'[p] # None /\ lastOn[p] <= lastOn'[p]
<1>1. /\ now \in Nat /\ now' \in Nat /\ now <= now'
      /\ provision' \in Published \cup {None} /\ record' \in Keys \cup {None}
      /\ lastOn' = [p \in Published |->
           IF p = provision' \/ (p = provision /\ now' = now) THEN now' ELSE lastOn[p]]
      /\ absentAt' = IF record' = None \/ (record = None /\ now' = now) THEN now'
                     ELSE absentAt
  <2>1. CASE Write  BY <2>1 DEF Write, ChainTimes, Inv
  <2>2. CASE Tick
    <3>1. now' = now + 1 /\ UNCHANGED <<record, provision>> /\ now \in Nat
      BY <2>2 DEF Tick, ChainTimes
    <3>2. now' # now  BY <3>1
    <3>3. /\ lastOn' = [p \in Published |-> IF p = provision THEN now' ELSE lastOn[p]]
          /\ absentAt' = IF record = None THEN now' ELSE absentAt
      BY <2>2 DEF Tick
    <3>4. QED  BY <3>1, <3>2, <3>3 DEF Inv
  <2>3. QED  BY <2>1, <2>2
<1>2. \A p \in Published :
        /\ lastOn'[p] \in {now', lastOn[p]}
        /\ lastOn[p] \in Nat \cup {None}
        /\ lastOn[p] # None => lastOn[p] <= now
  BY <1>1 DEF ChainTimes
<1>3. /\ absentAt' \in {now', absentAt} /\ absentAt \in Nat \cup {None}
      /\ absentAt # None => absentAt <= now
  BY <1>1 DEF ChainTimes
<1>4. lastOn' \in [Published -> Nat \cup {None}]  BY <1>1 DEF ChainTimes
<1>5. /\ absentAt # None => absentAt' # None /\ absentAt <= absentAt'
      /\ absentAt' # None => absentAt' <= now'
  BY <1>1, <1>3, TimesAreNat
<1>6. \A p \in Published :
        /\ lastOn[p] # None => lastOn'[p] # None /\ lastOn[p] <= lastOn'[p]
        /\ lastOn'[p] # None => lastOn'[p] <= now'
  BY <1>1, <1>2, TimesAreNat
<1>7. /\ record' = None => absentAt' = now'
      /\ provision' # None => lastOn'[provision'] = now'
  BY <1>1
<1>8. absentAt' \in Nat \cup {None}  BY <1>1, <1>3
<1>9. QED  BY <1>1, <1>4, <1>5, <1>6, <1>7, <1>8 DEF ChainTimes

\* A write or a tick disturbs nothing that was read.
LEMMA ChainKeepsTimes ==
  ASSUME Inv, TimeInv, Write \/ Tick
  PROVE  TimeInv'
<1>1. /\ ChainTimes'
      /\ absentAt # None => absentAt' # None /\ absentAt <= absentAt'
      /\ \A p \in Published :
           lastOn[p] # None => lastOn'[p] # None /\ lastOn[p] <= lastOn'[p]
  BY ChainMoves DEF TimeInv
<1>2. UNCHANGED <<provisionCache, missCache, reader>> /\ served' = Nothing
  BY DEF Write, Tick, cacheVars, ServeNobody
<1>3. ChainTimes  BY DEF TimeInv
<1>4. /\ absentAt' \in Nat \cup {None} /\ absentAt \in Nat \cup {None}
      /\ \A p \in Published :
           lastOn'[p] \in Nat \cup {None} /\ lastOn[p] \in Nat \cup {None}
  BY <1>1, <1>3 DEF ChainTimes
<1>5. ReaderTimes'
  <2>1. SUFFICES ASSUME NEW r \in Readers, reader[r].at # "idle"
                 PROVE  ReadTimes(reader[r])'
    BY <1>2 DEF ReaderTimes
  <2> DEFINE c == reader[r]
  <2>2. ReadTimes(c)  BY <2>1 DEF TimeInv, ReaderTimes
  <2>3. c.at = "provision" => c.seen \in Published \cup {None}  BY DEF Inv
  <2>4. now' <= c.called + RpcLife /\ (~ c.late => now' <= c.began + Timeout)
    <3>1. CASE Write  BY <2>2, <3>1 DEF Write, ReadTimes
    <3>2. CASE Tick
      <4>1. /\ now' = now + 1 /\ now < c.called + RpcLife
            /\ ~ c.late => now < c.began + Timeout
        BY <2>1, <3>2 DEF Tick
      <4>2. c.began \in Nat /\ c.called \in Nat /\ now \in Nat
        BY <1>3, <2>2 DEF ReadTimes, ChainTimes
      <4> HIDE DEF c
      <4>3. QED  BY <4>1, <4>2, TimesAreNat
    <3>3. QED  BY <3>1, <3>2
  <2>5. UNCHANGED c  BY <1>2
  <2> HIDE DEF c
  <2>6. c.began \in Nat /\ c.called \in Nat  BY <2>2 DEF ReadTimes
  <2>7. c.at = "record" /\ c.seen = None => absentAt' # None /\ c.began <= absentAt'
    BY <1>1, <1>4, <2>2, <2>6, TimesAreNat DEF ReadTimes
  <2>8. c.at = "provision" /\ c.seen # None =>
          lastOn'[c.seen] # None /\ c.called <= lastOn'[c.seen]
    BY <1>1, <1>4, <2>2, <2>3, <2>6, TimesAreNat DEF ReadTimes
  <2>9. ReadTimes(c)'  BY <2>4, <2>5, <2>6, <2>7, <2>8 DEF ReadTimes
  <2>10. QED  BY <2>9 DEF c
<1>6. CacheTimes'
  <2>1. missCache # None =>
          /\ missCache \in Nat /\ absentAt' # None
          /\ missCache <= absentAt' + MissTtl + Timeout
    BY <1>1, <1>4, TimesAreNat DEF TimeInv, CacheTimes
  <2>2. ASSUME NEW k \in Keys, provisionCache[k] # None
        PROVE  LET on == lastOn'[provisionCache[k].route]
               IN /\ provisionCache[k].expiresAt \in Nat /\ on # None
                  /\ provisionCache[k].expiresAt <= on + RouteTtl + RpcLife
    <3> DEFINE p == provisionCache[k].route
               e == provisionCache[k].expiresAt
    <3>1. p \in Published  BY <2>2 DEF Inv
    <3>2. e \in Nat /\ lastOn[p] # None /\ e <= lastOn[p] + RouteTtl + RpcLife
      BY <2>2 DEF TimeInv, CacheTimes
    <3> HIDE DEF p, e
    <3>3. lastOn'[p] # None /\ e <= lastOn'[p] + RouteTtl + RpcLife
      BY <1>1, <1>4, <3>1, <3>2, TimesAreNat
    <3>4. QED  BY <3>2, <3>3 DEF p, e
  <2>3. QED  BY <1>2, <2>1, <2>2 DEF CacheTimes
<1>7. MissIsRecent' /\ RouteIsRecent'
  BY <1>2 DEF MissIsRecent, RouteIsRecent, Nothing
<1>8. QED  BY <1>1, <1>5, <1>6, <1>7 DEF TimeInv

\* A step of one read that leaves the chain alone.
LEMMA ReadKeepsTimes ==
  ASSUME TimeInv, NEW r \in Readers, NEW c, UNCHANGED <<now, chainVars>>,
         reader' = [reader EXCEPT ![r] = c] \/ UNCHANGED reader,
         DOMAIN reader = Readers,
         c.at = "idle" \/ ReadTimes(c),
         CacheTimes', MissIsRecent', RouteIsRecent'
  PROVE  TimeInv'
<1>1. UNCHANGED <<now, record, provision, lastOn, absentAt>>  BY DEF chainVars
<1>2. ChainTimes'  BY <1>1 DEF TimeInv, ChainTimes
<1>3. ReaderTimes'
  <2>1. ASSUME NEW q \in Readers, reader'[q].at # "idle"
        PROVE  ReadTimes(reader'[q])
    BY <2>1 DEF TimeInv, ReaderTimes
  <2>2. ASSUME NEW q \in Readers, ReadTimes(reader'[q])
        PROVE  ReadTimes(reader[q])'
    BY <1>1, <2>2 DEF ReadTimes
  <2>3. QED  BY <2>1, <2>2 DEF ReaderTimes
<1>4. QED  BY <1>2, <1>3 DEF TimeInv

\* A provision that a call brings was on the chain while the call lasted.
LEMMA AnswerIsRecent ==
  ASSUME Inv, TimeInv, NEW r \in Readers, reader[r].at = "provision",
         NEW p \in {reader[r].seen, provision}, p # None
  PROVE  lastOn[p] \in Nat /\ now <= lastOn[p] + RpcLife
<1> DEFINE c == reader[r]
<1>1. ReadTimes(c) /\ ChainTimes  BY DEF TimeInv, ReaderTimes
<1>2. p \in Published  BY DEF Inv
<1>3. c.called \in Nat /\ now <= c.called + RpcLife  BY <1>1 DEF ReadTimes
<1>4. now \in Nat /\ lastOn[p] \in Nat \cup {None}  BY <1>1, <1>2 DEF ChainTimes
<1>5. CASE p = provision
  BY <1>1, <1>4, <1>5, TimesAreNat DEF ChainTimes
<1>6. CASE p = c.seen
  <2>1. lastOn[p] # None /\ c.called <= lastOn[p]
    BY <1>1, <1>6 DEF ReadTimes
  <2> HIDE DEF c
  <2>2. QED  BY <1>3, <1>4, <2>1, TimesAreNat
<1>7. QED  BY <1>5, <1>6

LEMMA NextTimes == Inv /\ TimeInv /\ [Next]_vars => TimeInv'
<1> SUFFICES ASSUME Inv, TimeInv, [Next]_vars PROVE TimeInv'
  OBVIOUS
<1>1. DOMAIN reader = Readers  BY DEF Inv
<1>2. ChainTimes /\ CacheTimes /\ now \in Nat  BY DEF TimeInv, ChainTimes
<1>3. Idle.at = "idle"  BY DEF Idle
\* A step that serves no miss and no route and leaves the caches alone.
<1>4. ASSUME UNCHANGED <<now, chainVars, provisionCache>>,
             missCache' = missCache \/ missCache' = None,
             served' = Nothing \/ served'.what = "error"
      PROVE  CacheTimes' /\ MissIsRecent' /\ RouteIsRecent'
  BY <1>2, <1>4 DEF CacheTimes, chainVars, MissIsRecent, RouteIsRecent, Nothing
<1>5. ASSUME NEW r \in Readers, Read(r)  PROVE TimeInv'
  <2>1. UNCHANGED <<now, chainVars, provisionCache>>  BY <1>5 DEF Read
  <2>2. CASE FreshMiss
    <3>1. Serve(FALSE, "miss", None) /\ UNCHANGED <<missCache, reader>>
      BY <1>5, <2>2 DEF Read
    <3>2. now <= absentAt + MissTtl + Timeout /\ absentAt # None
      <4>1. /\ missCache \in Nat /\ missCache > now /\ absentAt # None
            /\ missCache <= absentAt + MissTtl + Timeout
        BY <1>2, <2>2 DEF FreshMiss, CacheTimes
      <4>2. absentAt \in Nat  BY <1>2, <4>1 DEF ChainTimes
      <4>3. QED  BY <1>2, <4>1, <4>2, TimesAreNat
    <3>3. MissIsRecent' /\ RouteIsRecent'
      <4>1. served'.what = "miss"  BY <3>1 DEF Serve
      <4>2. QED
        BY <2>1, <3>2, <4>1 DEF MissIsRecent, RouteIsRecent, chainVars, Nothing
    <3>4. CacheTimes'  BY <1>2, <2>1, <3>1 DEF CacheTimes, chainVars
    <3>5. QED  BY <1>1, <1>3, <2>1, <3>1, <3>3, <3>4, ReadKeepsTimes
  <2>3. CASE ~ FreshMiss
    <3> DEFINE c == Call("record", None, record, now, FALSE)
    <3>1. missCache' = None /\ reader' = [reader EXCEPT ![r] = c] /\ served' = Nothing
      BY <1>5, <2>3 DEF Read, ServeNobody
    <3>2. ReadTimes(c)
      <4>1. /\ c.at = "record" /\ c.began = now /\ c.called = now /\ c.seen = record
            /\ ~ c.late
        BY DEF Call
      <4>2. now <= now + RpcLife /\ now <= now + Timeout  BY <1>2, TimesAreNat
      <4>3. record = None => absentAt # None /\ now <= absentAt
        BY <1>2, TimesAreNat DEF ChainTimes
      <4> HIDE DEF c
      <4>4. QED  BY <1>2, <4>1, <4>2, <4>3 DEF ReadTimes
    <3> HIDE DEF c
    <3>3. QED  BY <1>1, <1>4, <2>1, <3>1, <3>2, ReadKeepsTimes
  <2>4. QED  BY <2>2, <2>3
<1>6. ASSUME NEW r \in Readers, RecordAnswer(r)  PROVE TimeInv'
  <2> DEFINE c == reader[r]
  <2>1. UNCHANGED <<now, chainVars, provisionCache>> /\ c.at = "record"
    BY <1>6 DEF RecordAnswer
  <2>2. PICK k \in {c.seen, record} :
          \/ /\ k = None
             /\ missCache' = IF c.late THEN missCache ELSE now + MissTtl
             /\ Serve(c.late, "miss", None)
             /\ reader' = [reader EXCEPT ![r] = Idle]
          \/ /\ k # None /\ FreshRoute(k)
             /\ \/ Serve(c.late, "error", None)
                \/ Serve(c.late, "route", provisionCache[k].route)
             /\ reader' = [reader EXCEPT ![r] = Idle]
             /\ UNCHANGED missCache
          \/ /\ k # None
             /\ reader' = [reader EXCEPT ![r] =
                             Call("provision", k, provision, c.began, c.late)]
             /\ UNCHANGED missCache /\ ServeNobody
    BY <1>6 DEF RecordAnswer
  <2>3. ReadTimes(c)  BY <2>1 DEF TimeInv, ReaderTimes
  <2>4. k \in Keys \cup {None}  BY <2>1 DEF Inv
  <2>5. CASE /\ k = None
             /\ missCache' = IF c.late THEN missCache ELSE now + MissTtl
             /\ Serve(c.late, "miss", None)
             /\ reader' = [reader EXCEPT ![r] = Idle]
    <3>1. absentAt \in Nat /\ (~ c.late => now <= absentAt + Timeout)
      <4>1. c.began \in Nat /\ (~ c.late => now <= c.began + Timeout)
        BY <2>3 DEF ReadTimes
      <4>2. absentAt = now \/ (absentAt # None /\ c.began <= absentAt)
        BY <1>2, <2>1, <2>3, <2>5 DEF ReadTimes, ChainTimes
      <4>3. absentAt \in Nat \cup {None}  BY <1>2 DEF ChainTimes
      <4> HIDE DEF c
      <4>4. QED  BY <1>2, <4>1, <4>2, <4>3, TimesAreNat
    <3>2. ~ c.late =>
            /\ now <= absentAt + MissTtl + Timeout
            /\ now + MissTtl <= absentAt + MissTtl + Timeout /\ now + MissTtl \in Nat
      <4> HIDE DEF c
      <4>1. QED  BY <1>2, <3>1, TimesAreNat
    <3>3. CacheTimes'
      <4>1. missCache' # None =>
              /\ missCache' \in Nat
              /\ missCache' <= absentAt + MissTtl + Timeout
        BY <1>2, <2>5, <3>2 DEF CacheTimes
      <4>2. QED
        BY <1>2, <2>1, <3>1, <4>1, TimesAreNat DEF CacheTimes, chainVars
    <3>4. MissIsRecent' /\ RouteIsRecent'
      <4>1. served' = Nothing \/ (~ c.late /\ served'.what = "miss")
        BY <2>5, ServeWhat
      <4>2. QED
        BY <2>1, <3>1, <3>2, <4>1, TimesAreNat
           DEF MissIsRecent, RouteIsRecent, Nothing, chainVars
    <3>5. QED  BY <1>1, <1>3, <2>1, <2>5, <3>3, <3>4, ReadKeepsTimes
  <2>6. CASE /\ k # None /\ FreshRoute(k)
             /\ \/ Serve(c.late, "error", None)
                \/ Serve(c.late, "route", provisionCache[k].route)
             /\ reader' = [reader EXCEPT ![r] = Idle]
             /\ UNCHANGED missCache
    <3> DEFINE p == provisionCache[k].route
    <3>1. lastOn[p] # None /\ now <= lastOn[p] + RouteTtl + RpcLife
      <4> DEFINE e == provisionCache[k].expiresAt
      <4>1. p \in Published  BY <2>4, <2>6 DEF Inv, FreshRoute
      <4>2. e \in Nat /\ now < e /\ lastOn[p] # None
            /\ e <= lastOn[p] + RouteTtl + RpcLife
        BY <1>2, <2>4, <2>6 DEF FreshRoute, CacheTimes
      <4>3. lastOn[p] \in Nat  BY <1>2, <4>1, <4>2 DEF ChainTimes
      <4> HIDE DEF e, p
      <4>4. QED  BY <1>2, <4>2, <4>3, TimesAreNat
    <3>2. CacheTimes'  BY <1>2, <2>1, <2>6 DEF CacheTimes, chainVars
    <3>3. MissIsRecent' /\ RouteIsRecent'
      <4>1. \/ served' = Nothing \/ served'.what = "error"
            \/ served'.what = "route" /\ served'.route = p
        BY <2>6, ServeWhat
      <4> HIDE DEF p
      <4>2. QED
        BY <2>1, <3>1, <4>1 DEF MissIsRecent, RouteIsRecent, Nothing, chainVars
    <3>4. QED  BY <1>1, <1>3, <2>1, <2>6, <3>2, <3>3, ReadKeepsTimes
  <2>7. CASE /\ k # None
             /\ reader' = [reader EXCEPT ![r] =
                             Call("provision", k, provision, c.began, c.late)]
             /\ UNCHANGED missCache /\ ServeNobody
    <3> DEFINE d == Call("provision", k, provision, c.began, c.late)
    <3>1. /\ d.at = "provision" /\ d.began = c.began /\ d.called = now
          /\ d.seen = provision /\ d.late = c.late
      BY DEF Call
    <3>2. served' = Nothing  BY <2>7 DEF ServeNobody
    <3>3. reader' = [reader EXCEPT ![r] = d]  BY <2>7
    <3> HIDE DEF d
    <3>4. ReadTimes(d)
      <4>1. c.began \in Nat /\ (~ c.late => now <= c.began + Timeout)
        BY <2>3 DEF ReadTimes
      <4>2. provision # None => lastOn[provision] # None /\ now <= lastOn[provision]
        BY <1>2, TimesAreNat DEF ChainTimes
      <4>3. now <= now + RpcLife  BY <1>2, TimesAreNat
      <4>4. QED  BY <1>2, <3>1, <4>1, <4>2, <4>3 DEF ReadTimes
    <3>5. QED  BY <1>1, <1>4, <2>1, <2>7, <3>2, <3>3, <3>4, ReadKeepsTimes
  <2>8. QED  BY <2>2, <2>5, <2>6, <2>7
<1>7. ASSUME NEW r \in Readers, ProvisionAnswer(r)  PROVE TimeInv'
  <2> DEFINE c == reader[r]
  <2>1. /\ UNCHANGED <<now, chainVars, missCache>> /\ c.at = "provision"
        /\ reader' = [reader EXCEPT ![r] = Idle]
    BY <1>7 DEF ProvisionAnswer, cacheVars
  <2>2. PICK p \in {c.seen, provision} :
          \/ Serve(c.late, "error", None) /\ UNCHANGED provisionCache
          \/ /\ p # None
             /\ provisionCache' = [provisionCache EXCEPT ![c.key] =
                                     [route |-> p, expiresAt |-> now + RouteTtl]]
             /\ Serve(c.late, "route", p)
    BY <1>7 DEF ProvisionAnswer, cacheVars
  <2>3. CASE Serve(c.late, "error", None) /\ UNCHANGED provisionCache
    <3>1. served' = Nothing \/ served'.what = "error"  BY <2>3, ServeWhat
    <3>2. QED  BY <1>1, <1>3, <1>4, <2>1, <2>3, <3>1, ReadKeepsTimes
  <2>4. CASE /\ p # None
             /\ provisionCache' = [provisionCache EXCEPT ![c.key] =
                                     [route |-> p, expiresAt |-> now + RouteTtl]]
             /\ Serve(c.late, "route", p)
    <3>1. lastOn[p] \in Nat /\ now <= lastOn[p] + RpcLife
      BY <2>1, <2>4, AnswerIsRecent
    <3>2. /\ now + RouteTtl \in Nat
          /\ now + RouteTtl <= lastOn[p] + RouteTtl + RpcLife
          /\ now <= lastOn[p] + RouteTtl + RpcLife
      BY <1>2, <3>1, TimesAreNat
    <3>3. UNCHANGED <<lastOn, absentAt, now>>  BY <2>1 DEF chainVars
    <3>4. \A k \in Keys :
            \/ provisionCache'[k] = provisionCache[k]
            \/ provisionCache'[k] = [route |-> p, expiresAt |-> now + RouteTtl]
      BY <2>4 DEF Inv
    <3>5. CacheTimes'
      BY <1>2, <2>1, <3>1, <3>2, <3>3, <3>4, TimesAreNat DEF CacheTimes
    <3>6. MissIsRecent' /\ RouteIsRecent'
      <4>1. \/ served' = Nothing
            \/ served'.what = "route" /\ served'.route = p
        BY <2>4, ServeWhat
      <4>2. QED
        BY <3>1, <3>2, <3>3, <4>1, TimesAreNat DEF MissIsRecent, RouteIsRecent, Nothing
    <3>7. QED  BY <1>1, <1>3, <2>1, <3>5, <3>6, ReadKeepsTimes
  <2>5. QED  BY <2>2, <2>3, <2>4
<1>8. ASSUME NEW r \in Readers, CallFails(r)  PROVE TimeInv'
  <2>1. served' = Nothing \/ served'.what = "error"
    BY <1>8, ServeWhat DEF CallFails
  <2>2. QED  BY <1>1, <1>3, <1>4, <1>8, <2>1, ReadKeepsTimes DEF CallFails, cacheVars
<1>9. ASSUME NEW r \in Readers, GiveUp(r)  PROVE TimeInv'
  <2> DEFINE c == [reader[r] EXCEPT !.late = TRUE]
  <2>1. served'.what = "error"  BY <1>9 DEF GiveUp, Serve
  <2>2. reader' = [reader EXCEPT ![r] = c] /\ ReadTimes(reader[r])
    BY <1>9 DEF GiveUp, TimeInv, ReaderTimes
  <2>3. reader[r].at # "idle"  BY <1>9 DEF GiveUp
  <2>4. /\ c.at = reader[r].at /\ c.began = reader[r].began
        /\ c.called = reader[r].called /\ c.seen = reader[r].seen
    OBVIOUS
  <2>5. ReadTimes(c)
    <3>1. c.late \/ c.late = reader[r].late  OBVIOUS
    <3> HIDE DEF c
    <3>2. QED  BY <2>2, <2>4, <3>1 DEF ReadTimes
  <2> HIDE DEF c
  <2>6. QED
    BY <1>1, <1>4, <1>9, <2>1, <2>2, <2>5, ReadKeepsTimes DEF GiveUp, cacheVars
<1>10. CASE Write \/ Tick  BY <1>10, ChainKeepsTimes
<1>11. CASE UNCHANGED vars
  BY <1>11 DEF vars, chainVars, cacheVars, TimeInv, ChainTimes, ReaderTimes,
     ReadTimes, CacheTimes, MissIsRecent, RouteIsRecent
<1>12. QED  BY <1>5, <1>6, <1>7, <1>8, <1>9, <1>10, <1>11 DEF Next

LEMMA InitTimes == Init => TimeInv
BY NoneAssumption
   DEF Init, TimeInv, ChainTimes, ReaderTimes, CacheTimes, MissIsRecent,
       RouteIsRecent, Idle, Nothing

LEMMA TimesHold == Spec => []TimeInv
BY InitTimes, NextTimes, Invariance, PTL DEF Spec

\* A caller is told that a number has no provision only if the chain had none
\* within the life of a cached miss and the caller's own timeout: what a read
\* brings that nobody waits for any more is not cached as a miss.
THEOREM MissesAreRecent == Spec => []MissIsRecent
<1>1. TimeInv => MissIsRecent  BY DEF TimeInv
<1> QED BY <1>1, TimesHold, PTL

\* A route that a caller gets was on the chain within the life of a cached route
\* and of one call to the chain, late reads included (fetchProvision,
\* withTimeout).
THEOREM RoutesAreRecent == Spec => []RouteIsRecent
<1>1. TimeInv => RouteIsRecent  BY DEF TimeInv
<1> QED BY <1>1, TimesHold, PTL
==============================================================================

---------------------------- MODULE ProvisionReader ----------------------------
(***************************************************************************)
(* LightPbxProvisionReader.js: how the route of one called number is read  *)
(* from the chain.  A read takes two calls, one for the record that names  *)
(* the current provision and one for the provision itself.  Provisions are *)
(* cached by record, misses for a short time, and the highest revision     *)
(* seen is kept so that the chain cannot lead back to an older one.  The   *)
(* caller waits no longer than Timeout; the calls are not cancelled, and   *)
(* what they bring later is still cached.                                  *)
(*                                                                         *)
(* Identities share nothing, so one is modelled.  The chain is external:   *)
(* an answer is what it held at some moment of the call, its start or its  *)
(* end here, and a call settles within RpcLife, failing at the latest then.*)
(***************************************************************************)
EXTENDS Integers, FiniteSets

CONSTANTS
  Readers,   \* reads under way at one time
  Keys,      \* what the record can name
  Published, \* the provisions that are ever on the chain, records (see Canonical)
  Timeout, RpcLife, RouteTtl, MissTtl,  \* timeoutMs, routeTtlMs, missTtlMs <= 10 s
  Horizon,   \* bound on the clock
  MaxWrites, \* bound on changes of the chain
  None

ASSUME TimeAssumption ==
  {Timeout, RpcLife, RouteTtl, MissTtl} \subseteq Nat \ {0} /\ Timeout <= RpcLife
ASSUME ProvisionAssumption ==
  \A p \in Published : p.revision \in Nat /\ p.valid \in Nat /\ p.spare \in Nat
ASSUME NoneAssumption == None \notin Nat \cup Keys \cup Published

VARIABLES
  now,
  record,         \* the chain's record for the number: a key or None
  provision,      \* the chain's provision for it, or None
  writes,
  provisionCache, \* [Keys -> [route, expiresAt], or None]
  missCache,      \* expiresAt, or None
  highest,        \* highestRevisionByIdentity, or None
  reader,         \* [Readers -> where its read stands]
  served,         \* what a caller got in this step: [what, route]
  top,            \* the highest revision a caller got, or None
  lastOn,         \* [Published -> when the chain last held it, or None]
  absentAt        \* when the chain last had no record, or None

chainVars == <<record, provision, writes, lastOn, absentAt>>
cacheVars == <<provisionCache, missCache, highest>>
vars == <<now, chainVars, cacheVars, reader, served, top>>

\* A read: at its record or its provision, since when, what the chain held when
\* the call was made, and whether the caller has given up.
Idle == [at |-> "idle"]
Call(at, key, seen, began, late) ==
  [at |-> at, key |-> key, seen |-> seen, began |-> began, called |-> now, late |-> late]

Nothing == [what |-> "nothing", route |-> None]

Init ==
  /\ now = 0 /\ writes = 0
  /\ record \in Keys \cup {None} /\ provision \in Published \cup {None}
  /\ provisionCache = [k \in Keys |-> None]
  /\ missCache = None /\ highest = None
  /\ reader = [r \in Readers |-> Idle]
  /\ served = Nothing
  /\ top = None
  /\ lastOn = [p \in Published |-> IF p = provision THEN 0 ELSE None]
  /\ absentAt = IF record = None THEN 0 ELSE None

-----------------------------------------------------------------------------
\* Mutant of Canonical: the targets are counted after the invalid ones are gone.
CanonicalOnceFiltered(p) ==
  /\ p.ours
  /\ \/ p.type \in {"DIRECT", "IVR"} /\ p.valid = 1
     \/ p.type = "MULTI_RING" /\ p.valid \in 1 .. 5

\* toCanonicalRoute: is the provision a route?  `ours' stands for its schema,
\* kind, label, identity, provider and owner, `valid' is the number of different
\* well-formed targets and `spare' of those beside them, malformed or repeated.
Canonical(p) ==
  /\ p.ours
  /\ p.type \in {"DIRECT", "MULTI_RING", "IVR"}
  /\ p.type \in {"DIRECT", "IVR"} => p.valid + p.spare = 1
  /\ p.type = "MULTI_RING" => p.valid + p.spare \in 1 .. 5
  /\ p.valid > 0

ServeNobody == served' = Nothing /\ UNCHANGED top

\* The caller gets something, unless it has given up.
Serve(late, what, route) ==
  IF late THEN ServeNobody
  ELSE /\ served' = [what |-> what, route |-> route]
       /\ top' = IF what = "route" /\ (top = None \/ (top # None /\ route.revision > top))
                   THEN route.revision ELSE top

\* Mutant of RolledBack: only what comes from the chain is compared.
RolledBackOnChain(p, cached) ==
  ~ cached /\ highest # None /\ p.revision < highest

\* LIGHTPBX_REVISION_ROLLBACK.
RolledBack(p, cached) == highest # None /\ p.revision < highest

\* Mutant of FreshMiss: what is cached is never looked at again.
FreshMissForGood == missCache # None

FreshMiss == missCache # None /\ missCache > now

\* readLightPbxProvision, until its first call to the chain.
Read(r) ==
  /\ reader[r] = Idle
  /\ IF FreshMiss
       THEN /\ Serve(FALSE, "miss", None)
            /\ UNCHANGED <<missCache, reader>>
       ELSE /\ missCache' = None
            /\ reader' = [reader EXCEPT ![r] = Call("record", None, record, now, FALSE)]
            /\ ServeNobody
  /\ UNCHANGED <<now, chainVars, provisionCache, highest>>

\* Mutant of FreshRoute: `expiresAt' is not looked at.
FreshRouteForGood(k) == provisionCache[k] # None

FreshRoute(k) == provisionCache[k] # None /\ provisionCache[k].expiresAt > now

\* readUncached, with the record: a miss, a cached route, or the second call.
RecordAnswer(r) ==
  LET c == reader[r]
  IN /\ c.at = "record"
     /\ \E k \in {c.seen, record} :
          \/ /\ k = None
             /\ missCache' = IF c.late THEN missCache ELSE now + MissTtl
             /\ Serve(c.late, "miss", None)
             /\ reader' = [reader EXCEPT ![r] = Idle]
          \/ /\ k # None /\ FreshRoute(k)
             /\ IF RolledBack(provisionCache[k].route, TRUE)
                  THEN Serve(c.late, "error", None)
                  ELSE Serve(c.late, "route", provisionCache[k].route)
             /\ reader' = [reader EXCEPT ![r] = Idle]
             /\ UNCHANGED missCache
          \/ /\ k # None /\ ~ FreshRoute(k)
             /\ reader' = [reader EXCEPT ![r] =
                             Call("provision", k, provision, c.began, c.late)]
             /\ UNCHANGED missCache /\ ServeNobody
     /\ UNCHANGED <<now, chainVars, provisionCache, highest>>

\* fetchProvision and the caching of its route.
ProvisionAnswer(r) ==
  LET c == reader[r]
  IN /\ c.at = "provision"
     /\ \E p \in {c.seen, provision} :
          IF p = None \/ (p # None /\ (~ Canonical(p) \/ RolledBack(p, FALSE)))
            THEN /\ Serve(c.late, "error", None)
                 /\ UNCHANGED cacheVars
            ELSE /\ highest' = p.revision
                 /\ provisionCache' = [provisionCache EXCEPT ![c.key] =
                                         [route |-> p, expiresAt |-> now + RouteTtl]]
                 /\ Serve(c.late, "route", p)
                 /\ UNCHANGED missCache
     /\ reader' = [reader EXCEPT ![r] = Idle]
     /\ UNCHANGED <<now, chainVars>>

\* Either call fails.
CallFails(r) ==
  /\ reader[r].at # "idle"
  /\ Serve(reader[r].late, "error", None)
  /\ reader' = [reader EXCEPT ![r] = Idle]
  /\ UNCHANGED <<now, chainVars, cacheVars>>

\* withTimeout: the caller gets an error, the read goes on.
GiveUp(r) ==
  /\ reader[r].at # "idle" /\ ~ reader[r].late
  /\ now >= reader[r].began + Timeout
  /\ Serve(FALSE, "error", None)
  /\ reader' = [reader EXCEPT ![r].late = TRUE]
  /\ UNCHANGED <<now, chainVars, cacheVars>>

-----------------------------------------------------------------------------
(* The chain and the clock. *)

Write ==
  /\ writes < MaxWrites
  /\ writes' = writes + 1
  /\ \/ /\ record' \in Keys \cup {None} /\ UNCHANGED provision
     \/ /\ provision' \in Published \cup {None} /\ UNCHANGED record
  /\ lastOn' = [p \in Published |-> IF p \in {provision, provision'} THEN now ELSE lastOn[p]]
  /\ absentAt' = IF None \in {record, record'} THEN now ELSE absentAt
  /\ ServeNobody
  /\ UNCHANGED <<now, cacheVars, reader>>

Tick ==
  /\ now < Horizon
  /\ \A r \in Readers : reader[r].at # "idle" =>
       /\ now < reader[r].called + RpcLife
       /\ ~ reader[r].late => now < reader[r].began + Timeout
  /\ now' = now + 1
  /\ lastOn' = [p \in Published |-> IF p = provision THEN now' ELSE lastOn[p]]
  /\ absentAt' = IF record = None THEN now' ELSE absentAt
  /\ ServeNobody
  /\ UNCHANGED <<record, provision, writes, cacheVars, reader>>

Next ==
  \/ \E r \in Readers :
       Read(r) \/ RecordAnswer(r) \/ ProvisionAnswer(r) \/ CallFails(r) \/ GiveUp(r)
  \/ Write \/ Tick

Spec == Init /\ [][Next]_vars

-----------------------------------------------------------------------------
\* Whatever reads overlap, time out or come late, and whatever the chain is made
\* to say, no caller gets a revision older than one a caller got before.
NeverGoesBack == served.what = "route" => served.route.revision = top

\* A caller is told that a number has no provision only if the chain had none
\* within the life of a cached miss and of the read that found it.
MissIsRecent ==
  served.what = "miss" =>
    absentAt # None /\ now <= absentAt + MissTtl + Timeout

\* A route that a caller gets was on the chain within the life of a cached route
\* and of a call that nobody waited for any more: the caller's timeout bounds
\* nothing here.
RouteIsRecent ==
  served.what = "route" => /\ lastOn[served.route] # None
                           /\ now <= lastOn[served.route] + RouteTtl + RpcLife

\* "LightPBX DIRECT routing requires exactly one target" (and IVR), "MULTI_RING
\* between one and five": also of a route that comes from the cache.
RoutesAreSound ==
  served.what = "route" =>
    /\ served.route.type \in {"DIRECT", "IVR"} =>
         served.route.valid = 1 /\ served.route.spare = 0
    /\ served.route.valid \in 1 .. 5
================================================================================

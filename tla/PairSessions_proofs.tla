----------------------- MODULE PairSessions_proofs -----------------------
(***************************************************************************)
(* However many sessions, PolySessions, transfers and requests there are:  *)
(* the registry holds every PolySession that lives, and a session marked   *)
(* for a transfer has the transfer's state.                                *)
(***************************************************************************)
EXTENDS PairSessions, TLAPS

---------------------------------------------------------------------------
(* What the operations on the tables return.                               *)

LEMMA WaitType ==
  ASSUME TypeOK, NEW i \in Handlers, NEW w \in OpRec, Wait(i, w)
  PROVE  ops' \in [Handlers -> OpRec]
BY DEF TypeOK, Wait, OpRec

LEMMA AwaitType ==
  ASSUME NEW at \in Waits, NEW s \in 0 .. MaxSessions, NEW p \in 0 .. MaxSessions,
         NEW id \in Nat
  PROVE  Await(at, s, p, id) \in OpRec
BY DEF Await, OpRec

LEMMA ReturnType ==
  ASSUME TypeOK, NEW i \in Handlers, Return(i)
  PROVE  ops' \in [Handlers -> OpRec]
<1>1. Idle \in OpRec BY BoundsAssumption DEF Idle, OpRec
<1> QED BY <1>1, WaitType DEF Return

LEMMA MoveType ==
  ASSUME TypeOK, NEW i \in Handlers, NEW at \in Waits, Wait(i, [ops[i] EXCEPT !.at = at])
  PROVE  ops' \in [Handlers -> OpRec]
<1>1. [ops[i] EXCEPT !.at = at] \in OpRec BY DEF TypeOK, OpRec
<1> QED BY <1>1, WaitType

LEMMA DestroyedType ==
  ASSUME TypeOK
  PROVE  Destroyed \in [Sessions -> SessionRec]
<1>1. [pc |-> "closed", transfer |-> 0] \in SessionRec
  BY BoundsAssumption DEF SessionRec
<1> QED BY <1>1 DEF TypeOK, Destroyed, Sessions, SessionRec

LEMMA CreateType ==
  ASSUME TypeOK, NEW before \in [Sessions -> SessionRec], NEW s \in Sessions, Create(s, before)
  PROVE  stored' \in Sessions /\ sess' \in [Sessions -> SessionRec]
<1>1. [pc |-> "new", transfer |-> 0] \in SessionRec
  BY BoundsAssumption DEF SessionRec, Usable
<1> QED BY <1>1 DEF Create

LEMMA DropType ==
  ASSUME TypeOK, Drop
  PROVE  registered' \in 0 .. MaxPolys /\ pol' \in [Polys -> PolyRec]
<1>1. registered' = 0 /\ 0 \in 0 .. MaxPolys BY BoundsAssumption DEF Drop
<1>2. pol \in [Polys -> PolyRec] BY DEF TypeOK, PolyRec
<1>3. [pol EXCEPT ![registered].state = "disposed"] \in [Polys -> PolyRec]
  BY <1>2 DEF PolyRec
<1> QED BY <1>1, <1>2, <1>3 DEF Drop

LEMMA ResolveType ==
  ASSUME TypeOK, NEW owner \in 0 .. MaxSessions, Resolve(owner)
  PROVE  registered' \in 0 .. MaxPolys /\ pol' \in [Polys -> PolyRec]
<1>1. CASE UNCHANGED <<registered, pol>> BY <1>1 DEF TypeOK, PolyRec
<1>2. CASE NewPoly(owner)
  <2>1. [state |-> "live", owner |-> owner] \in PolyRec BY DEF PolyRec
  <2>2. PICK p \in Polys : /\ pol' = [pol EXCEPT ![p] = [state |-> "live", owner |-> owner]]
                           /\ registered' = p
    BY <1>2 DEF NewPoly
  <2> QED BY <2>1, <2>2 DEF TypeOK, Polys, PolyRec
<1> QED BY <1>1, <1>2 DEF Resolve

LEMMA ClearType ==
  ASSUME TypeOK, NEW t
  PROVE  Clear(t) \in [Transfers -> {"unmade", "armed", "fired", "done"}]
BY DEF TypeOK, Clear

LEMMA CloseRestType ==
  ASSUME TypeOK, NEW i \in Handlers, NEW s \in 0 .. MaxSessions, NEW pc \in 0 .. MaxSessions,
         CloseRest(i, s, pc)
  PROVE  /\ stored' \in 0 .. MaxSessions /\ sess' \in [Sessions -> SessionRec]
         /\ ops' \in [Handlers -> OpRec]
<1>1. Await("closing", s, pc, 0) \in OpRec BY AwaitType DEF Waits
<1>2. Return(i) \/ Wait(i, Await("closing", s, pc, 0)) BY DEF CloseRest
<1>3. ops' \in [Handlers -> OpRec] BY <1>1, <1>2, ReturnType, WaitType
<1>4. stored' \in 0 .. MaxSessions BY BoundsAssumption DEF CloseRest, TypeOK
<1>5. ASSUME NEW f \in [Sessions -> SessionRec]
      PROVE  /\ [f EXCEPT ![pc].pc = IF @ = "closed" THEN @ ELSE "lost"] \in [Sessions -> SessionRec]
             /\ [f EXCEPT ![pc].pc = "lost"] \in [Sessions -> SessionRec]
  BY DEF SessionRec, Usable
<1>6. sess \in [Sessions -> SessionRec] BY DEF TypeOK, SessionRec
<1>7. \/ sess' = [sess EXCEPT ![pc].pc = IF @ = "closed" THEN @ ELSE "lost"]
      \/ sess' = [sess EXCEPT ![pc].pc = "lost"]
      \/ sess' = [Destroyed EXCEPT ![pc].pc = IF @ = "closed" THEN @ ELSE "lost"]
  BY DEF CloseRest
<1>8. sess' \in [Sessions -> SessionRec] BY <1>5, <1>6, <1>7, DestroyedType
<1> QED BY <1>3, <1>4, <1>8

---------------------------------------------------------------------------
(* Types.                                                                  *)

LEMMA InitType == Init => TypeOK
<1> SUFFICES ASSUME Init PROVE TypeOK OBVIOUS
<1>1. [pc |-> "unmade", transfer |-> 0] \in SessionRec BY BoundsAssumption DEF SessionRec
<1>2. [state |-> "unmade", owner |-> 0] \in PolyRec BY BoundsAssumption DEF PolyRec
<1>3. Idle \in OpRec BY BoundsAssumption DEF Idle, OpRec
<1>4. sess \in [Sessions -> SessionRec] BY <1>1 DEF Init
<1>5. pol \in [Polys -> PolyRec] BY <1>2 DEF Init
<1>6. ops \in [Handlers -> OpRec] BY <1>3 DEF Init
<1>7. stored \in 0 .. MaxSessions /\ registered \in 0 .. MaxPolys BY BoundsAssumption DEF Init
<1>8. transfers \in [Transfers -> {"unmade", "armed", "fired", "done"}] BY DEF Init
<1>9. firing \subseteq Transfers /\ cancelled \in BOOLEAN BY DEF Init
<1> QED BY <1>4, <1>5, <1>6, <1>7, <1>8, <1>9 DEF TypeOK

LEMMA RequestType ==
  ASSUME TypeOK, NEW i \in Handlers, Request(i)
  PROVE  TypeOK'
<1>a. /\ sess \in [Sessions -> SessionRec] /\ pol \in [Polys -> PolyRec]
      /\ stored \in 0 .. MaxSessions /\ registered \in 0 .. MaxPolys
      /\ registered \in Nat /\ 0 \in 0 .. MaxSessions
  BY BoundsAssumption DEF TypeOK
<1>b. InController => Controlled \in Nat
  BY BoundsAssumption DEF InController, Controlled, TypeOK, Sessions, SessionRec
<1>1. ASSUME OfferArrives(i) PROVE TypeOK'
  <2>1. CASE Intake(i)
    <3>1. ops' \in [Handlers -> OpRec] BY <2>1, ReturnType DEF Intake
    <3>2. stored' \in 0 .. MaxSessions /\ sess' \in [Sessions -> SessionRec]
      BY <1>a, <2>1, CreateType DEF Intake, Sessions
    <3> QED BY <1>1, <3>1, <3>2 DEF OfferArrives, TypeOK
  <2>2. CASE Wait(i, Await("rotating", 0, 0, registered)) /\ UNCHANGED <<stored, sess>>
    <3>1. Await("rotating", 0, 0, registered) \in OpRec BY <1>a, AwaitType DEF Waits
    <3>2. ops' \in [Handlers -> OpRec] BY <2>2, <3>1, WaitType
    <3> QED BY <1>1, <2>2, <3>2 DEF OfferArrives, TypeOK
  <2> QED BY <1>1, <2>1, <2>2 DEF OfferArrives
<1>2. ASSUME Ring(i) PROVE TypeOK'
  <2>1. registered' \in 0 .. MaxPolys /\ pol' \in [Polys -> PolyRec]
    BY <1>2, DropType DEF Ring
  <2>2. Await("ring", 0, 0, 0) \in OpRec /\ Await("resolving", stored, 0, 0) \in OpRec
    BY <1>a, AwaitType DEF Waits
  <2>3. ops' \in [Handlers -> OpRec]
    BY <1>2, <2>2, WaitType, ReturnType DEF Ring, EnterRing
  <2> QED BY <1>2, <2>1, <2>3 DEF Ring, TypeOK
<1>3. ASSUME Cancel(i) PROVE TypeOK'
  <2>1. CASE Teardown(i) BY <1>a, <2>1, DestroyedType, DropType, ReturnType DEF Teardown, TypeOK
  <2>2. CASE Wait(i, Await("cancelling", 0, 0, 0))
             /\ UNCHANGED <<stored, sess, registered, pol, transfers, firing, cancelled>>
    <3>1. Await("cancelling", 0, 0, 0) \in OpRec BY <1>a, AwaitType DEF Waits
    <3>2. ops' \in [Handlers -> OpRec] BY <2>2, <3>1, WaitType
    <3> QED BY <2>2, <3>2 DEF TypeOK
  <2> QED BY <1>3, <2>1, <2>2 DEF Cancel
<1>4. ASSUME RejectTransfer(i) PROVE TypeOK'
  <2>1. Await("failing", 0, 0, Controlled) \in OpRec
    BY <1>a, <1>b, <1>4, AwaitType DEF Waits, RejectTransfer
  <2>2. ops' \in [Handlers -> OpRec] BY <1>4, <2>1, WaitType DEF RejectTransfer
  <2> QED BY <1>4, <2>2 DEF RejectTransfer, TypeOK
<1>5. ASSUME AnswerArrives(i) PROVE TypeOK'
  <2>1. Await("verifying", 0, 0, 0) \in OpRec BY <1>a, AwaitType DEF Waits
  <2>2. ops' \in [Handlers -> OpRec] BY <1>5, <2>1, WaitType DEF AnswerArrives
  <2> QED BY <1>5, <2>2 DEF AnswerArrives, TypeOK
<1>6. ASSUME NEW at \in Waits, Inbound(i, at) PROVE TypeOK'
  <2>1. stored' \in 0 .. MaxSessions /\ sess' \in [Sessions -> SessionRec]
    BY <1>6, CreateType, DestroyedType DEF Inbound, Sessions
  <2>2. Await(at, 0, 0, 0) \in OpRec BY <1>a, AwaitType
  <2>3. ops' \in [Handlers -> OpRec] BY <1>6, <2>2, WaitType DEF Inbound
  <2> QED BY <1>6, <2>1, <2>3 DEF Inbound, TypeOK
<1>7. ASSUME NEW pc \in Sessions, TransportCloses(i, pc) PROVE TypeOK'
  <2>1. pc \in 0 .. MaxSessions BY DEF Sessions
  <2>2. CASE InController /\ InMap(Controlled)
    <3>1. Await("failingClose", stored, pc, Controlled) \in OpRec
      BY <1>a, <1>b, <2>1, <2>2, AwaitType DEF Waits
    <3>2. ops' \in [Handlers -> OpRec]
      BY <1>7, <2>2, <3>1, WaitType DEF TransportCloses
    <3>3. sess' \in [Sessions -> SessionRec]
      BY <1>a, <1>7, <2>2 DEF TransportCloses, Usable, SessionRec
    <3> QED BY <1>7, <2>2, <3>2, <3>3 DEF TransportCloses, TypeOK
  <2>3. CASE ~ (InController /\ InMap(Controlled))
    <3>1. CloseRest(i, stored, pc) BY <1>7, <2>3 DEF TransportCloses
    <3>2. /\ stored' \in 0 .. MaxSessions /\ sess' \in [Sessions -> SessionRec]
          /\ ops' \in [Handlers -> OpRec]
      BY <1>a, <2>1, <3>1, CloseRestType
    <3> QED BY <1>7, <3>2 DEF TransportCloses, TypeOK
  <2> QED BY <2>2, <2>3
<1> QED
  BY <1>1, <1>2, <1>3, <1>4, <1>5, <1>6, <1>7
  DEF Request, InboundCall, InboundRefer, Waits

LEMMA ContinueType ==
  ASSUME TypeOK, NEW i \in Handlers, Continue(i)
  PROVE  TypeOK'
<1>a. /\ stored \in 0 .. MaxSessions /\ sess \in [Sessions -> SessionRec]
      /\ registered \in 0 .. MaxPolys /\ pol \in [Polys -> PolyRec]
      /\ 0 \in 0 .. MaxSessions /\ ops[i] \in OpRec
  BY BoundsAssumption DEF TypeOK
<1>b. /\ ops[i].session \in 0 .. MaxSessions /\ ops[i].pc \in 0 .. MaxSessions
      /\ ops[i].id \in Nat
  BY <1>a DEF OpRec
<1>c. [pol EXCEPT ![ops[i].id].state = "disposed"] \in [Polys -> PolyRec]
  BY <1>a DEF PolyRec
<1>d. ASSUME NEW s, NEW t \in 0 .. MaxTransfers
      PROVE  [sess EXCEPT ![s].transfer = t] \in [Sessions -> SessionRec]
  BY <1>a DEF SessionRec
<1>e. 0 \in 0 .. MaxTransfers BY BoundsAssumption
<1>1. ASSUME Rotated(i) PROVE TypeOK'
  <2>1. ops' \in [Handlers -> OpRec] BY <1>1, MoveType DEF Rotated, Waits
  <2> QED BY <1>1, <1>c, <2>1 DEF Rotated, TypeOK
<1>2. ASSUME RotationDrops(i) PROVE TypeOK'
  <2>1. ops' \in [Handlers -> OpRec] BY <1>2, MoveType DEF RotationDrops, Waits
  <2> QED BY <1>2, <2>1, DropType DEF RotationDrops, TypeOK
<1>3. ASSUME OfferTaken(i) PROVE TypeOK'
  <2>1. Intake(i) BY <1>3 DEF OfferTaken
  <2>2. ops' \in [Handlers -> OpRec] BY <2>1, ReturnType DEF Intake
  <2>3. stored' \in 0 .. MaxSessions /\ sess' \in [Sessions -> SessionRec]
    BY <1>a, <2>1, CreateType DEF Intake, Sessions
  <2> QED BY <1>3, <2>2, <2>3 DEF OfferTaken, TypeOK
<1>4. ASSUME RingEnters(i) PROVE TypeOK'
  <2>1. Await("resolving", stored, 0, 0) \in OpRec BY <1>a, AwaitType DEF Waits
  <2>2. ops' \in [Handlers -> OpRec]
    BY <1>4, <2>1, WaitType, ReturnType DEF RingEnters, EnterRing
  <2> QED BY <1>4, <2>2 DEF RingEnters, TypeOK
<1>5. ASSUME Route(i) PROVE TypeOK'
  <2>1. ops' \in [Handlers -> OpRec] BY <1>5, ReturnType DEF Route
  <2>2. registered' \in 0 .. MaxPolys /\ pol' \in [Polys -> PolyRec]
    BY <1>5, <1>a, <1>b, ResolveType DEF Route
  <2> QED BY <1>5, <2>1, <2>2 DEF Route, TypeOK
<1>6. ASSUME Failed(i) PROVE TypeOK'
  <2>1. ops' \in [Handlers -> OpRec]
    BY <1>6, MoveType, ReturnType DEF Failed, Return, Waits
  <2> QED BY <1>6, <1>a, <2>1, DestroyedType, ClearType DEF Failed, FailEnds, TypeOK
<1>7. ASSUME AnswerOrdinary(i) PROVE TypeOK'
  <2>1. ops' \in [Handlers -> OpRec] BY <1>7, ReturnType DEF AnswerOrdinary
  <2> QED BY <1>7, <2>1 DEF AnswerOrdinary, TypeOK
<1>8. ASSUME AnswerTransfer(i) PROVE TypeOK'
  <2>1. Controlled \in Nat
    BY <1>8, <1>a, BoundsAssumption DEF AnswerTransfer, InController, Controlled, Sessions, SessionRec
  <2>2. Await("committing", 0, 0, Controlled) \in OpRec BY <1>a, <2>1, AwaitType DEF Waits
  <2>3. ops' \in [Handlers -> OpRec] BY <1>8, <2>2, WaitType DEF AnswerTransfer
  <2> QED BY <1>8, <2>3 DEF AnswerTransfer, TypeOK
<1>9. ASSUME Committed(i) PROVE TypeOK'
  <2>1. ops' \in [Handlers -> OpRec] BY <1>9, ReturnType DEF Committed
  <2>2. sess' \in [Sessions -> SessionRec] BY <1>9, <1>a, <1>d, <1>e DEF Committed
  <2> QED BY <1>9, <2>1, <2>2, ClearType DEF Committed, TypeOK
<1>10. ASSUME CancelIngressed(i) PROVE TypeOK'
  <2>1. Teardown(i) BY <1>10 DEF CancelIngressed
  <2> QED BY <1>a, <2>1, DestroyedType, DropType, ReturnType DEF Teardown, TypeOK
<1>11. ASSUME TransferFailedOnClose(i) PROVE TypeOK'
  <2>1. CloseRest(i, ops[i].session, ops[i].pc) BY <1>11 DEF TransferFailedOnClose
  <2>2. /\ stored' \in 0 .. MaxSessions /\ sess' \in [Sessions -> SessionRec]
        /\ ops' \in [Handlers -> OpRec]
    BY <1>b, <2>1, CloseRestType
  <2> QED BY <1>11, <2>2 DEF TransferFailedOnClose, TypeOK
<1>12. ASSUME CloseDrops(i) PROVE TypeOK'
  <2>1. ops' \in [Handlers -> OpRec] BY <1>12, MoveType DEF CloseDrops, Waits
  <2> QED BY <1>12, <2>1, DropType DEF CloseDrops, TypeOK
<1>13. ASSUME CloseDestroys(i) PROVE TypeOK'
  BY <1>13, <1>a, DestroyedType, ReturnType DEF CloseDestroys, TypeOK
<1>14. ASSUME InviteFails(i) PROVE TypeOK'
  BY <1>14, ReturnType DEF InviteFails, TypeOK
<1>15. ASSUME NEW s \in 0 .. MaxSessions, Seed(i, s) PROVE TypeOK'
  <2>1. ops' \in [Handlers -> OpRec] BY <1>15, ReturnType DEF Seed
  <2>2. registered' \in 0 .. MaxPolys /\ pol' \in [Polys -> PolyRec]
    BY <1>15, ResolveType DEF Seed
  <2> QED BY <1>15, <1>d, <1>e, <2>1, <2>2 DEF Seed, TypeOK
<1>16. ASSUME Invited(i) PROVE TypeOK'
  <2>1. CASE Return(i) /\ UNCHANGED <<stored, sess, registered, pol, transfers, firing, cancelled>>
    BY <2>1, ReturnType DEF TypeOK
  <2>2. CASE Seed(i, stored) BY <1>a, <1>15, <2>2
  <2>3. CASE /\ Drop /\ Wait(i, Await("seeding", stored, 0, 0))
             /\ UNCHANGED <<stored, sess, transfers, firing, cancelled>>
    <3>1. Await("seeding", stored, 0, 0) \in OpRec BY <1>a, AwaitType DEF Waits
    <3>2. ops' \in [Handlers -> OpRec] BY <2>3, <3>1, WaitType
    <3> QED BY <2>3, <3>2, DropType DEF TypeOK
  <2> QED BY <1>16, <2>1, <2>2, <2>3 DEF Invited
<1>17. ASSUME ReferInvited(i) PROVE TypeOK'
  <2>1. ops' \in [Handlers -> OpRec] BY <1>17, ReturnType DEF ReferInvited
  <2>2. CASE UNCHANGED <<sess, transfers>> BY <1>17, <2>1, <2>2 DEF ReferInvited, TypeOK
  <2>3. CASE stored # 0
    <3>1. PICK t \in Transfers : /\ transfers' = [transfers EXCEPT ![t] = "armed"]
                                 /\ sess' = [sess EXCEPT ![stored].transfer = t]
      BY <1>17, <2>3 DEF ReferInvited
    <3>2. t \in 0 .. MaxTransfers BY BoundsAssumption DEF Transfers
    <3> QED BY <1>17, <1>d, <2>1, <3>1, <3>2 DEF ReferInvited, TypeOK
  <2> QED BY <1>17, <2>2, <2>3 DEF ReferInvited
<1> QED
  BY <1>1, <1>2, <1>3, <1>4, <1>5, <1>6, <1>7, <1>8, <1>9, <1>10, <1>11, <1>12,
     <1>13, <1>14, <1>15, <1>16, <1>17, <1>b
  DEF Continue, Seeds

LEMMA NextType == TypeOK /\ [Next]_vars => TypeOK'
<1> SUFFICES ASSUME TypeOK, [Next]_vars PROVE TypeOK' OBVIOUS
<1>1. ASSUME NEW t \in Transfers, TimerFires(t) PROVE TypeOK'
  BY <1>1 DEF TimerFires, TypeOK
<1>2. ASSUME NEW t \in Transfers, TimerFailed(t) PROVE TypeOK'
  <2>1. 0 \in 0 .. MaxSessions BY BoundsAssumption
  <2> QED BY <1>2, <2>1, DestroyedType, ClearType DEF TimerFailed, FailEnds, TypeOK
<1>3. ASSUME NEW s \in Sessions, ChannelOpens(s) PROVE TypeOK'
  <2>1. sess' \in [Sessions -> SessionRec]
    BY <1>3 DEF ChannelOpens, TypeOK, SessionRec, Usable
  <2> QED BY <1>3, <2>1 DEF ChannelOpens, TypeOK
<1>4. CASE UNCHANGED vars BY <1>4 DEF vars, TypeOK
<1> QED BY <1>1, <1>2, <1>3, <1>4, RequestType, ContinueType DEF Next

---------------------------------------------------------------------------
(* The registry.                                                           *)

\* The offers whose PolySession is disposed of but still registered stay as they are.
RotationsStay == \A j \in Handlers : At(j, "rotated") => ops'[j] = ops[j]

LEMMA WaitKeepsRotations ==
  ASSUME TypeOK, NEW i \in Handlers, NEW w, ~ At(i, "rotated"), Wait(i, w)
  PROVE  RotationsStay
BY DEF TypeOK, Wait, RotationsStay

LEMMA SameRegistry ==
  ASSUME RegistryIsSound, UNCHANGED <<registered, pol>>, RotationsStay
  PROVE  RegistryIsSound'
BY DEF RegistryIsSound, RotationsStay, At

LEMMA DropKeepsSound ==
  ASSUME TypeOK, RegistryIsSound, Drop
  PROVE  RegistryIsSound'
<1>1. registered' = 0 BY DEF Drop
<1>2. ASSUME NEW p \in Polys, pol'[p].state = "live" PROVE FALSE
  <2>1. CASE registered = 0
    BY <1>2, <2>1 DEF Drop, RegistryIsSound, Polys
  <2>2. CASE registered # 0
    <3>1. pol' = [pol EXCEPT ![registered].state = "disposed"] BY <2>2 DEF Drop
    <3>2. p # registered BY <1>2, <3>1 DEF TypeOK, PolyRec
    <3>3. pol[p].state = "live" BY <1>2, <3>1, <3>2 DEF TypeOK, PolyRec
    <3> QED BY <3>2, <3>3 DEF RegistryIsSound
  <2> QED BY <2>1, <2>2
<1> QED BY <1>1, <1>2 DEF RegistryIsSound

LEMMA ResolveKeepsSound ==
  ASSUME TypeOK, RegistryIsSound, NEW owner, Resolve(owner), RotationsStay
  PROVE  RegistryIsSound'
<1>1. CASE UNCHANGED <<registered, pol>> BY <1>1, SameRegistry
<1>2. CASE registered = 0 /\ NewPoly(owner)
  <2>1. PICK p \in Polys : /\ pol' = [pol EXCEPT ![p] = [state |-> "live", owner |-> owner]]
                           /\ registered' = p
    BY <1>2 DEF NewPoly
  <2>2. pol'[p].state = "live" BY <2>1 DEF TypeOK
  <2>3. ASSUME NEW q \in Polys, pol'[q].state = "live", q # p PROVE FALSE
    <3>1. pol[q].state = "live" BY <2>1, <2>3 DEF TypeOK
    <3> QED BY <1>2, <3>1 DEF RegistryIsSound, Polys
  <2> QED BY <2>1, <2>2, <2>3 DEF RegistryIsSound
<1> QED BY <1>1, <1>2 DEF Resolve

LEMMA RotatedKeepsSound ==
  ASSUME TypeOK, RegistryIsSound, NEW i \in Handlers, Rotated(i)
  PROVE  RegistryIsSound'
<1>1. /\ pol' = [pol EXCEPT ![ops[i].id].state = "disposed"]
      /\ ops' = [ops EXCEPT ![i] = [ops[i] EXCEPT !.at = "rotated"]]
      /\ registered' = registered /\ ops[i].at = "rotating"
  BY DEF Rotated, Wait, At
<1>2. ASSUME NEW p \in Polys, pol'[p].state = "live" PROVE pol[p].state = "live"
  BY <1>1, <1>2 DEF TypeOK, PolyRec
<1>3. ASSUME registered # 0, pol'[registered].state # "live"
      PROVE  \E j \in Handlers : ops'[j].at = "rotated" /\ ops'[j].id = registered
  <2>1. registered \in Polys BY <1>3 DEF TypeOK, Polys
  <2>2. CASE registered = ops[i].id
    <3>1. ops'[i].at = "rotated" /\ ops'[i].id = registered
      BY <1>1, <2>2 DEF TypeOK, OpRec
    <3> QED BY <3>1
  <2>3. CASE registered # ops[i].id
    <3>1. pol[registered].state # "live" BY <1>1, <1>3, <2>1, <2>3 DEF TypeOK
    <3>2. PICK j \in Handlers : ops[j].at = "rotated" /\ ops[j].id = registered
      BY <1>3, <3>1 DEF RegistryIsSound, At
    <3>3. ops'[j] = ops[j] BY <1>1, <3>2 DEF TypeOK
    <3> QED BY <3>2, <3>3
  <2> QED BY <2>2, <2>3
<1> QED BY <1>1, <1>2, <1>3 DEF RegistryIsSound, At

LEMMA TeardownKeepsSound ==
  ASSUME TypeOK, RegistryIsSound, NEW i \in Handlers, Teardown(i)
  PROVE  RegistryIsSound'
BY DropKeepsSound DEF Teardown

LEMMA SeedKeepsSound ==
  ASSUME TypeOK, RegistryIsSound, NEW i \in Handlers, NEW s, ~ At(i, "rotated"), Seed(i, s)
  PROVE  RegistryIsSound'
<1>1. RotationsStay BY WaitKeepsRotations DEF Seed, Return
<1> QED BY <1>1, ResolveKeepsSound DEF Seed

LEMMA NextKeepsSound == TypeOK /\ RegistryIsSound /\ [Next]_vars => RegistryIsSound'
<1> SUFFICES ASSUME TypeOK, RegistryIsSound, [Next]_vars PROVE RegistryIsSound' OBVIOUS
<1>a. ASSUME NEW i \in Handlers, NEW w, ~ At(i, "rotated"), Wait(i, w),
             UNCHANGED <<registered, pol>>
      PROVE  RegistryIsSound'
  BY <1>a, WaitKeepsRotations, SameRegistry
<1>1. ASSUME NEW i \in Handlers, Request(i) PROVE RegistryIsSound'
  <2>a. Free(i) => ~ At(i, "rotated") BY DEF Free, At
  <2>1. ASSUME OfferArrives(i) PROVE RegistryIsSound'
    <3>1. PICK w : Wait(i, w) BY <2>1 DEF OfferArrives, Intake, Return
    <3> QED BY <1>a, <2>a, <2>1, <3>1 DEF OfferArrives
  <2>2. ASSUME Ring(i) PROVE RegistryIsSound' BY <2>2, DropKeepsSound DEF Ring
  <2>3. ASSUME Cancel(i) PROVE RegistryIsSound'
    BY <1>a, <2>a, <2>3, TeardownKeepsSound DEF Cancel
  <2>4. ASSUME RejectTransfer(i) PROVE RegistryIsSound' BY <1>a, <2>a, <2>4 DEF RejectTransfer
  <2>5. ASSUME AnswerArrives(i) PROVE RegistryIsSound' BY <1>a, <2>a, <2>5 DEF AnswerArrives
  <2>6. ASSUME NEW at, Inbound(i, at) PROVE RegistryIsSound' BY <1>a, <2>a, <2>6 DEF Inbound
  <2>7. ASSUME NEW pc \in Sessions, TransportCloses(i, pc) PROVE RegistryIsSound'
    <3>1. PICK w : Wait(i, w) BY <2>7 DEF TransportCloses, CloseRest, Return
    <3> QED BY <1>a, <2>a, <2>7, <3>1 DEF TransportCloses
  <2> QED BY <1>1, <2>1, <2>2, <2>3, <2>4, <2>5, <2>6, <2>7 DEF Request, InboundCall, InboundRefer
<1>2. ASSUME NEW i \in Handlers, Continue(i) PROVE RegistryIsSound'
  <2>1. ASSUME OfferTaken(i) PROVE RegistryIsSound'
    BY <1>a, <2>1 DEF OfferTaken, Intake, Return, At
  <2>2. ASSUME RingEnters(i) PROVE RegistryIsSound'
    <3>1. PICK w : Wait(i, w) BY <2>2 DEF RingEnters, EnterRing, Return
    <3> QED BY <1>a, <2>2, <3>1 DEF RingEnters, At
  <2>3. ASSUME Route(i) PROVE RegistryIsSound'
    <3>1. RotationsStay BY <2>3, WaitKeepsRotations DEF Route, Return, At
    <3> QED BY <2>3, <3>1, SameRegistry, ResolveKeepsSound DEF Route
  <2>4. ASSUME Failed(i) PROVE RegistryIsSound'
    <3>1. PICK w : Wait(i, w) BY <2>4 DEF Failed
    <3> QED BY <1>a, <2>4, <3>1 DEF Failed, FailEnds, At
  <2>5. ASSUME AnswerOrdinary(i) PROVE RegistryIsSound'
    BY <1>a, <2>5 DEF AnswerOrdinary, Return, At
  <2>6. ASSUME AnswerTransfer(i) PROVE RegistryIsSound' BY <1>a, <2>6 DEF AnswerTransfer, At
  <2>7. ASSUME Committed(i) PROVE RegistryIsSound' BY <1>a, <2>7 DEF Committed, Return, At
  <2>8. ASSUME TransferFailedOnClose(i) PROVE RegistryIsSound'
    <3>1. PICK w : Wait(i, w) BY <2>8 DEF TransferFailedOnClose, CloseRest, Return
    <3> QED BY <1>a, <2>8, <3>1 DEF TransferFailedOnClose, At
  <2>9. ASSUME CloseDestroys(i) PROVE RegistryIsSound'
    BY <1>a, <2>9 DEF CloseDestroys, Return, At
  <2>10. ASSUME InviteFails(i) PROVE RegistryIsSound' BY <1>a, <2>10 DEF InviteFails, Return, At
  <2>11. ASSUME Invited(i) PROVE RegistryIsSound'
    <3>1. ~ At(i, "rotated") BY <2>11 DEF Invited, At
    <3> QED BY <1>a, <2>11, <3>1, DropKeepsSound, SeedKeepsSound DEF Invited, Return
  <2>12. ASSUME Seeds(i) PROVE RegistryIsSound' BY <2>12, SeedKeepsSound DEF Seeds, At
  <2>13. ASSUME ReferInvited(i) PROVE RegistryIsSound'
    BY <1>a, <2>13 DEF ReferInvited, Return, At
  <2>14. CASE Rotated(i) BY <2>14, RotatedKeepsSound
  <2>15. CASE RotationDrops(i) \/ CloseDrops(i)
    BY <2>15, DropKeepsSound DEF RotationDrops, CloseDrops
  <2>16. CASE CancelIngressed(i) BY <2>16, TeardownKeepsSound DEF CancelIngressed
  <2> QED
    BY <1>2, <2>1, <2>2, <2>3, <2>4, <2>5, <2>6, <2>7, <2>8, <2>9, <2>10, <2>11, <2>12,
       <2>13, <2>14, <2>15, <2>16
    DEF Continue
<1>3. CASE UNCHANGED <<registered, pol, ops>> BY <1>3, SameRegistry DEF RotationsStay
<1> QED
  BY <1>1, <1>2, <1>3
  DEF Next, vars, TimerFires, TimerFailed, FailEnds, ChannelOpens

---------------------------------------------------------------------------
(* The controller.                                                         *)

LEMMA EmptyHasNoController ==
  ASSUME stored' = 0
  PROVE  ControllerHasState'
BY DEF ControllerHasState, InController

\* No session is marked, and no transfer changes.
LEMMA MarksKept ==
  ASSUME TypeOK, ControllerHasState, UNCHANGED <<stored, transfers>>,
         \A s \in Sessions : sess'[s].transfer \in {0, sess[s].transfer}
  PROVE  ControllerHasState'
<1>1. CASE stored = 0 BY <1>1, EmptyHasNoController
<1>2. CASE stored # 0
  <2>1. stored \in Sessions BY <1>2 DEF TypeOK, Sessions
  <2> QED BY <1>2, <2>1 DEF ControllerHasState, InController, InMap, Controlled
<1> QED BY <1>1, <1>2

LEMMA CreatedUnmarked ==
  ASSUME NEW before \in [Sessions -> SessionRec], NEW s \in Sessions, Create(s, before)
  PROVE  ControllerHasState'
<1>1. sess'[s].transfer = 0 /\ stored' = s BY DEF Create
<1> QED BY <1>1 DEF ControllerHasState, InController

LEMMA IntakeKeepsState ==
  ASSUME TypeOK, ControllerHasState, NEW i \in Handlers, Intake(i), UNCHANGED transfers
  PROVE  ControllerHasState'
<1>1. CASE UNCHANGED <<stored, sess>> BY <1>1, MarksKept
<1>2. CASE \E s \in Sessions : Create(s, sess) BY <1>2, CreatedUnmarked DEF TypeOK
<1> QED BY <1>1, <1>2 DEF Intake

LEMMA CloseRestKeepsState ==
  ASSUME TypeOK, ControllerHasState, NEW i \in Handlers, NEW s, NEW pc,
         CloseRest(i, s, pc), UNCHANGED transfers
  PROVE  ControllerHasState'
<1>1. CASE stored' = 0 BY <1>1, EmptyHasNoController
<1>2. CASE /\ UNCHANGED stored
           /\ \/ sess' = [sess EXCEPT ![pc].pc = IF @ = "closed" THEN @ ELSE "lost"]
              \/ sess' = [sess EXCEPT ![pc].pc = "lost"]
  <2>1. \A r \in Sessions : sess'[r].transfer \in {0, sess[r].transfer}
    BY <1>2 DEF TypeOK, SessionRec
  <2> QED BY <1>2, <2>1, MarksKept
<1> QED BY <1>1, <1>2 DEF CloseRest

LEMMA SeedKeepsState ==
  ASSUME TypeOK, ControllerHasState, NEW i \in Handlers, NEW s, Seed(i, s)
  PROVE  ControllerHasState'
<1>1. \A r \in Sessions : sess'[r].transfer \in {0, sess[r].transfer}
  BY DEF Seed, TypeOK, SessionRec
<1> QED BY <1>1, MarksKept DEF Seed

LEMMA CommittedKeepsState ==
  ASSUME TypeOK, ControllerHasState, NEW i \in Handlers, Committed(i)
  PROVE  ControllerHasState'
<1> DEFINE t == ops[i].id
<1>1. transfers' = [transfers EXCEPT ![t] = IF InMap(t) THEN "done" ELSE @] /\ stored' = stored
  BY DEF Committed, Clear
<1>2. CASE stored = 0 BY <1>1, <1>2, EmptyHasNoController
<1>3. CASE stored # 0 /\ InMap(t) /\ Controlled = t
  <2>1. sess' = [sess EXCEPT ![stored].transfer = 0] BY <1>3 DEF Committed
  <2>2. stored \in Sessions BY <1>3 DEF TypeOK, Sessions
  <2>3. sess'[stored].transfer = 0 BY <2>1, <2>2 DEF TypeOK, SessionRec
  <2> QED BY <1>1, <2>3 DEF ControllerHasState, InController
<1>4. CASE stored # 0 /\ ~ (InMap(t) /\ Controlled = t)
  <2>1. sess' = sess BY <1>4 DEF Committed
  <2>2. ASSUME Controlled # 0 PROVE transfers'[Controlled] = transfers[Controlled]
    <3>1. InMap(Controlled) BY <1>4, <2>2 DEF ControllerHasState, InController, Controlled
    <3>2. Controlled # t BY <1>4, <3>1
    <3> QED BY <1>1, <3>2 DEF TypeOK
  <2> QED
    BY <1>1, <1>4, <2>1, <2>2 DEF ControllerHasState, InController, InMap, Controlled
<1> QED BY <1>2, <1>3, <1>4

LEMMA InvitedKeepsState ==
  ASSUME TypeOK, ControllerHasState, NEW i \in Handlers, ReferInvited(i)
  PROVE  ControllerHasState'
<1>1. CASE stored = 0 BY <1>1, EmptyHasNoController DEF ReferInvited
<1>2. CASE stored # 0
  <2>1. PICK t \in Transfers : /\ transfers' = [transfers EXCEPT ![t] = "armed"]
                               /\ sess' = [sess EXCEPT ![stored].transfer = t]
    BY <1>2 DEF ReferInvited
  <2>2. stored' = stored BY DEF ReferInvited
  <2>3. stored \in Sessions BY <1>2 DEF TypeOK, Sessions
  <2>4. sess'[stored].transfer = t BY <2>1, <2>3 DEF TypeOK, SessionRec
  <2>5. transfers'[t] = "armed" /\ t # 0 BY <2>1 DEF TypeOK, Transfers
  <2> QED BY <2>2, <2>4, <2>5 DEF ControllerHasState, InMap, Controlled
<1> QED BY <1>1, <1>2

LEMMA NextKeepsState == TypeOK /\ ControllerHasState /\ [Next]_vars => ControllerHasState'
<1> SUFFICES ASSUME TypeOK, ControllerHasState, [Next]_vars PROVE ControllerHasState' OBVIOUS
<1>a. ASSUME UNCHANGED <<stored, sess, transfers>> PROVE ControllerHasState'
  BY <1>a, MarksKept
<1>1. ASSUME NEW i \in Handlers, Request(i) PROVE ControllerHasState'
  <2>1. ASSUME OfferArrives(i) PROVE ControllerHasState'
    BY <1>a, <2>1, IntakeKeepsState DEF OfferArrives
  <2>2. ASSUME Cancel(i) PROVE ControllerHasState'
    BY <1>a, <2>2, EmptyHasNoController DEF Cancel, Teardown
  <2>3. ASSUME Ring(i) \/ RejectTransfer(i) \/ AnswerArrives(i) PROVE ControllerHasState'
    BY <1>a, <2>3 DEF Ring, RejectTransfer, AnswerArrives
  <2>4. ASSUME NEW at, Inbound(i, at) PROVE ControllerHasState'
    BY <2>4, CreatedUnmarked, DestroyedType DEF Inbound
  <2>5. ASSUME NEW pc \in Sessions, TransportCloses(i, pc) PROVE ControllerHasState'
    <3>1. CASE InController /\ InMap(Controlled)
      <4>1. \A s \in Sessions : sess'[s].transfer \in {0, sess[s].transfer}
        BY <2>5, <3>1 DEF TransportCloses, TypeOK, SessionRec
      <4> QED BY <2>5, <3>1, <4>1, MarksKept DEF TransportCloses
    <3>2. CASE ~ (InController /\ InMap(Controlled))
      BY <2>5, <3>2, CloseRestKeepsState DEF TransportCloses
    <3> QED BY <3>1, <3>2
  <2> QED BY <1>1, <2>1, <2>2, <2>3, <2>4, <2>5 DEF Request, InboundCall, InboundRefer
<1>2. ASSUME NEW i \in Handlers, Continue(i) PROVE ControllerHasState'
  <2>1. ASSUME OfferTaken(i) PROVE ControllerHasState'
    BY <2>1, IntakeKeepsState DEF OfferTaken
  <2>2. ASSUME Failed(i) PROVE ControllerHasState'
    BY <2>2, EmptyHasNoController DEF Failed, FailEnds
  <2>3. ASSUME CancelIngressed(i) PROVE ControllerHasState'
    BY <2>3, EmptyHasNoController DEF CancelIngressed, Teardown
  <2>4. ASSUME TransferFailedOnClose(i) PROVE ControllerHasState'
    BY <2>4, CloseRestKeepsState DEF TransferFailedOnClose
  <2>5. ASSUME CloseDestroys(i) PROVE ControllerHasState'
    BY <2>5, EmptyHasNoController DEF CloseDestroys
  <2>6. ASSUME Invited(i) \/ Seeds(i) PROVE ControllerHasState'
    BY <1>a, <2>6, SeedKeepsState DEF Invited, Seeds
  <2>7. CASE Rotated(i) \/ RotationDrops(i) \/ RingEnters(i) \/ Route(i) \/ AnswerOrdinary(i)
             \/ AnswerTransfer(i) \/ CloseDrops(i) \/ InviteFails(i)
    BY <1>a, <2>7
    DEF Rotated, RotationDrops, RingEnters, Route, AnswerOrdinary, AnswerTransfer, CloseDrops, InviteFails
  <2> QED
    BY <1>2, <2>1, <2>2, <2>3, <2>4, <2>5, <2>6, <2>7, CommittedKeepsState, InvitedKeepsState
    DEF Continue
<1>3. ASSUME NEW t \in Transfers, TimerFires(t) PROVE ControllerHasState'
  <2>1. \A u \in Transfers : transfers[u] = "armed" => transfers'[u] \in {"armed", "fired"}
    BY <1>3 DEF TimerFires, TypeOK
  <2>2. \A u \in Transfers : transfers[u] = "fired" => transfers'[u] = "fired"
    BY <1>3 DEF TimerFires, TypeOK
  <2>3. UNCHANGED <<stored, sess>> BY <1>3 DEF TimerFires
  <2>4. InController => Controlled \in Transfers
    <3>1. InController => stored \in Sessions BY DEF InController, TypeOK, Sessions
    <3>2. InController => Controlled \in 0 .. MaxTransfers /\ Controlled # 0
      BY <3>1 DEF InController, Controlled, TypeOK, SessionRec
    <3> QED BY <3>2, BoundsAssumption DEF Transfers
  <2>5. InController => (InMap(Controlled))'
    BY <2>1, <2>2, <2>3, <2>4 DEF ControllerHasState, InMap, Controlled, Transfers
  <2>6. InController' = InController BY <2>3 DEF InController
  <2> QED BY <2>5, <2>6 DEF ControllerHasState
<1>4. ASSUME NEW t \in Transfers, TimerFailed(t) PROVE ControllerHasState'
  BY <1>4, EmptyHasNoController DEF TimerFailed, FailEnds
<1>5. ASSUME NEW s \in Sessions, ChannelOpens(s) PROVE ControllerHasState'
  <2>1. \A r \in Sessions : sess'[r].transfer \in {0, sess[r].transfer}
    BY <1>5 DEF ChannelOpens, TypeOK, SessionRec
  <2> QED BY <1>5, <2>1, MarksKept DEF ChannelOpens
<1>6. CASE UNCHANGED vars BY <1>a, <1>6 DEF vars
<1> QED BY <1>1, <1>2, <1>3, <1>4, <1>5, <1>6 DEF Next

---------------------------------------------------------------------------
(* The theorems.                                                           *)

\* SessionStore, PolySessionRegistry, referTransferStates: the tables and the
\* objects they name keep their types.
THEOREM TypeCorrect == Spec => []TypeOK
BY InitType, NextType, PTL DEF Spec

\* However offers, rings, cancels, inbound calls and lost connections interleave,
\* a PolySession that lives is the registered one (RegistryIsSound).
THEOREM RegistryStaysSound == Spec => []RegistryIsSound
<1>1. Init => RegistryIsSound BY DEF Init, RegistryIsSound
<1> QED BY <1>1, InitType, NextType, NextKeepsSound, PTL DEF Spec

\* However the timer, the reports and the answers of a transfer interleave with
\* what happens to its session, a marked session has its state (ControllerHasState).
THEOREM ControllersHaveState == Spec => []ControllerHasState
<1>1. Init => ControllerHasState BY DEF Init, ControllerHasState, InController
<1> QED BY <1>1, InitType, NextType, NextKeepsState, PTL DEF Spec
=============================================================================

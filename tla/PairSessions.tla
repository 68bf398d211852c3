---------------------------- MODULE PairSessions ----------------------------
(***************************************************************************)
(* The session and the PolySession of one pair of parties, and the         *)
(* requests that create, replace and remove them: the client's offers and  *)
(* cancels over HTTP, its rings over the data channel, the loss of its     *)
(* connection, calls from the telephone network, and transfers (REFER)     *)
(* with their controller state and timer.                                  *)
(*                                                                         *)
(* Every session of the pair is stored under one id, the pair's key, so a  *)
(* handler that awaits something and then looks the id up again may find   *)
(* another session.  A handler is an entry of ops; it runs to its next     *)
(* await in one step, and `at' says what it waits for.  What happens       *)
(* inside a PolySession is the subject of module PolySession: an ingress   *)
(* that changes neither table is not an action here.  callRuntime is null, *)
(* as the manager wires it, so the branches that call it do nothing.       *)
(***************************************************************************)
EXTENDS Naturals, FiniteSets

CONSTANTS MaxSessions, MaxPolys, MaxTransfers,  \* how many are ever created
          Handlers                              \* the requests served at once

ASSUME BoundsAssumption ==
  MaxSessions \in Nat /\ MaxPolys \in Nat /\ MaxTransfers \in Nat

VARIABLES
  stored,      \* the session under the pair's id in SessionStore.sessions, or 0
  sess,        \* every session object: its connection and its referTransfer
  registered,  \* the PolySession under the pair's key in the registry, or 0
  pol,         \* every PolySession object: its state, the session it is bound to
  transfers,   \* referTransferStates and the timer of each transfer
  firing,      \* the transfers whose timer has fired and reports the failure
  ops,         \* what each handler that is under way waits for
  cancelled    \* the last request was a cancel, and it has returned

vars == <<stored, sess, registered, pol, transfers, firing, ops, cancelled>>

Sessions == 1 .. MaxSessions
Polys == 1 .. MaxPolys
Transfers == 1 .. MaxTransfers

\* "closed": destroySession has run; the object has no peerConnection any more.
Usable == {"new", "open", "lost"}
Waits == {"rotating", "rotated", "intake", "ring", "resolving", "cancelling", "closing",
          "closed", "failing", "failingClose", "resume", "verifying",
          "committing", "inviting", "inviteRefer", "seeding"}

Idle == [at |-> "idle", session |-> 0, pc |-> 0, id |-> 0]
Await(at, session, pc, id) == [at |-> at, session |-> session, pc |-> pc, id |-> id]

SessionRec == [pc : Usable \cup {"unmade", "closed"}, transfer : 0 .. MaxTransfers]
PolyRec == [state : {"unmade", "live", "disposed"}, owner : 0 .. MaxSessions]
OpRec == [at : Waits \cup {"idle"}, session : 0 .. MaxSessions,
          pc : 0 .. MaxSessions, id : Nat]

TypeOK ==
  /\ stored \in 0 .. MaxSessions
  /\ sess \in [Sessions -> SessionRec]
  /\ registered \in 0 .. MaxPolys
  /\ pol \in [Polys -> PolyRec]
  /\ transfers \in [Transfers -> {"unmade", "armed", "fired", "done"}]
  /\ firing \subseteq Transfers
  /\ ops \in [Handlers -> OpRec]
  /\ cancelled \in BOOLEAN

Init ==
  /\ stored = 0
  /\ sess = [s \in Sessions |-> [pc |-> "unmade", transfer |-> 0]]
  /\ registered = 0
  /\ pol = [p \in Polys |-> [state |-> "unmade", owner |-> 0]]
  /\ transfers = [t \in Transfers |-> "unmade"]
  /\ firing = {}
  /\ ops = [i \in Handlers |-> Idle]
  /\ cancelled = FALSE

---------------------------------------------------------------------------
(* The tables.                                                             *)

InMap(t) == t # 0 /\ transfers[t] \in {"armed", "fired"}

\* SessionStore.destroySession of whatever the id stands for now.
Destroyed ==
  IF stored = 0 THEN sess
  ELSE [sess EXCEPT ![stored] = [pc |-> "closed", transfer |-> 0]]

\* createSession, after the entry under the id has become `before'.
Create(s, before) ==
  /\ sess[s].pc = "unmade"
  /\ \A r \in 1 .. s - 1 : sess[r].pc # "unmade"
  /\ sess' = [before EXCEPT ![s] = [pc |-> "new", transfer |-> 0]]
  /\ stored' = s

\* PolySessionRegistry.destroy: the entry goes first, then the object is disposed of.
Drop ==
  /\ registered' = 0
  /\ pol' = IF registered = 0 THEN pol ELSE [pol EXCEPT ![registered].state = "disposed"]

\* PolySessionRegistry._create
NewPoly(owner) ==
  \E p \in Polys :
    /\ pol[p].state = "unmade"
    /\ \A q \in 1 .. p - 1 : pol[q].state # "unmade"
    /\ pol' = [pol EXCEPT ![p] = [state |-> "live", owner |-> owner]]
    /\ registered' = p

\* Mutant of Resolve: an entry that is there is not looked up.
ResolveAnew(owner) == NewPoly(owner)

\* PolySessionRegistry.resolve: the entry of the pair, or a new one.
Resolve(owner) ==
  \/ registered # 0 /\ UNCHANGED <<registered, pol>>
  \/ registered = 0 /\ NewPoly(owner)

\* CallPairResolver.polyForSession, polyForOffer: every lookup is by the pair's key.
PolyFor(session) == IF session = 0 THEN 0 ELSE registered

\* The session is bound to a leg of the PolySession of its pair.
Owns(session) == PolyFor(session) # 0 /\ pol[PolyFor(session)].owner = session

\* clearReferTransferState
Clear(t) == [transfers EXCEPT ![t] = IF InMap(t) THEN "done" ELSE @]

Free(i) == ops[i].at = "idle"
Wait(i, w) == ops' = [ops EXCEPT ![i] = w]
Return(i) == Wait(i, Idle)
At(i, where) == ops[i].at = where

\* The bounds hold back requests, never a handler that is under way.
Room(unmade, waits) ==
  Cardinality(unmade) > Cardinality({j \in Handlers : ops[j].at \in waits})
RoomForSession ==
  Room({s \in Sessions : sess[s].pc = "unmade"}, {"rotating", "rotated", "intake"})
RoomForPoly ==
  Room({p \in Polys : pol[p].state = "unmade"}, {"ring", "resolving", "inviting", "seeding"})
RoomForTransfer ==
  Room({t \in Transfers : transfers[t] = "unmade"}, {"inviteRefer"})

---------------------------------------------------------------------------
(* An offer over HTTP.                                                     *)

\* The tail of onIncomingOffer: an existing session takes the offer when its
\* PolySession owns it and its channel is open, unless the ingress throws;
\* otherwise a fresh session is stored over the old one, which is not destroyed.
Intake(i) ==
  /\ Return(i)
  /\ \/ /\ Owns(stored) /\ sess[stored].pc = "open"
        /\ UNCHANGED <<stored, sess>>
     \/ \E s \in Sessions : Create(s, sess)

OfferArrives(i) ==
  /\ Free(i) /\ RoomForSession
  /\ IF registered = 0 THEN Intake(i)
     ELSE Wait(i, Await("rotating", 0, 0, registered)) /\ UNCHANGED <<stored, sess>>
  /\ cancelled' = FALSE
  /\ UNCHANGED <<registered, pol, transfers, firing>>

\* poly.rotate has ended the legs and disposes of the PolySession, which is
\* still registered.
Rotated(i) ==
  /\ At(i, "rotating")
  /\ pol' = [pol EXCEPT ![ops[i].id].state = "disposed"]
  /\ Wait(i, [ops[i] EXCEPT !.at = "rotated"])
  /\ UNCHANGED <<stored, sess, registered, transfers, firing, cancelled>>

\* polyRegistryLookup.destroy drops whatever is registered by now.
RotationDrops(i) ==
  /\ At(i, "rotated")
  /\ Drop
  /\ Wait(i, [ops[i] EXCEPT !.at = "intake"])
  /\ UNCHANGED <<stored, sess, transfers, firing, cancelled>>

OfferTaken(i) ==
  /\ At(i, "intake")
  /\ Intake(i)
  /\ UNCHANGED <<registered, pol, transfers, firing, cancelled>>

---------------------------------------------------------------------------
(* A ring over a data channel.                                             *)

\* onDcRing up to resolveDestination.
EnterRing(i) ==
  IF stored = 0 THEN Return(i) ELSE Wait(i, Await("resolving", stored, 0, 0))

\* onDataChannelMessage of an offer, when no PolySession owns the session.  The
\* channel may be that of a session that was replaced.
Ring(i) ==
  /\ Free(i) /\ RoomForPoly
  /\ \E s \in Sessions : sess[s].pc = "open"
  /\ stored # 0 /\ ~ Owns(stored)
  /\ Drop
  /\ IF registered # 0 THEN Wait(i, Await("ring", 0, 0, 0)) ELSE EnterRing(i)
  /\ cancelled' = FALSE
  /\ UNCHANGED <<stored, sess, transfers, firing>>

RingEnters(i) ==
  /\ At(i, "ring")
  /\ EnterRing(i)
  /\ UNCHANGED <<stored, sess, registered, pol, transfers, firing, cancelled>>

\* The destination is known.  It is refused, or the minutes are spent; or the
\* PolySession of the pair is looked up or created for the session found at
\* the beginning.
Route(i) ==
  /\ At(i, "resolving")
  /\ Return(i)
  /\ \/ UNCHANGED <<registered, pol>>
     \/ Resolve(ops[i].session)
  /\ UNCHANGED <<stored, sess, transfers, firing, cancelled>>

---------------------------------------------------------------------------
(* Transfers.                                                              *)

InController == stored # 0 /\ sess[stored].transfer # 0
Controlled == sess[stored].transfer

\* Mutant of FailEnds: a failure that finds no session leaves the transfer's state behind.
FailEndsIfStored(t) ==
  /\ sess' = Destroyed
  /\ stored' = 0
  /\ transfers' = IF stored = 0 THEN transfers ELSE Clear(t)
  /\ UNCHANGED <<registered, pol, cancelled>>

\* The end of failReferTransfer, after the report to the controller: it destroys
\* the session that the id stands for by now.
FailEnds(t) ==
  /\ sess' = Destroyed
  /\ stored' = 0
  /\ transfers' = Clear(t)
  /\ UNCHANGED <<registered, pol, cancelled>>

TimerFires(t) ==
  /\ transfers[t] = "armed"
  /\ transfers' = [transfers EXCEPT ![t] = "fired"]
  /\ firing' = firing \cup {t}
  /\ UNCHANGED <<stored, sess, registered, pol, ops, cancelled>>

TimerFailed(t) ==
  /\ t \in firing
  /\ firing' = firing \ {t}
  /\ FailEnds(t)
  /\ UNCHANGED ops

\* onHttpReject and onHttpCancel of a session in controller mode: without a
\* state there is nothing to fail and nothing is done.
RejectTransfer(i) ==
  /\ Free(i) /\ InController /\ InMap(Controlled)
  /\ Wait(i, Await("failing", 0, 0, Controlled))
  /\ UNCHANGED <<stored, sess, registered, pol, transfers, firing, cancelled>>

Failed(i) ==
  /\ ops[i].at \in {"failing", "failingClose"}
  /\ FailEnds(ops[i].id)
  /\ Wait(i, IF At(i, "failing") THEN Idle ELSE [ops[i] EXCEPT !.at = "resume"])
  /\ UNCHANGED firing

\* An HTTP answer is verified against the pair's session; without one it is refused.
Verifiable == stored # 0

\* The signer is looked up (awaited) before the answer is handled.
AnswerArrives(i) ==
  /\ Free(i) /\ Verifiable
  /\ Wait(i, Await("verifying", 0, 0, 0))
  /\ UNCHANGED <<stored, sess, registered, pol, transfers, firing, cancelled>>

\* The signature is not the callee's, the session or the state of its transfer
\* is gone, or the answer goes to the PolySession, if there is one: neither table
\* changes.
AnswerOrdinary(i) ==
  /\ At(i, "verifying")
  /\ Return(i)
  /\ UNCHANGED <<stored, sess, registered, pol, transfers, firing, cancelled>>

\* onVerifiedNotifyAnswer in controller mode: two reports, then the commit.
AnswerTransfer(i) ==
  /\ At(i, "verifying") /\ InController /\ InMap(Controlled)
  /\ Wait(i, Await("committing", 0, 0, Controlled))
  /\ UNCHANGED <<stored, sess, registered, pol, transfers, firing, cancelled>>

\* Mutant of Committed: the session keeps its mark.
CommittedUnmarked(i) ==
  /\ At(i, "committing")
  /\ transfers' = Clear(ops[i].id)
  /\ Return(i)
  /\ UNCHANGED <<stored, sess, registered, pol, firing, cancelled>>

\* clearReferTransferState also takes the mark off the session, if the session
\* stored by now bears it.
Committed(i) ==
  /\ At(i, "committing")
  /\ transfers' = Clear(ops[i].id)
  /\ sess' = IF InMap(ops[i].id) /\ stored # 0 /\ Controlled = ops[i].id
               THEN [sess EXCEPT ![stored].transfer = 0] ELSE sess
  /\ Return(i)
  /\ UNCHANGED <<stored, registered, pol, firing, cancelled>>

---------------------------------------------------------------------------
(* A cancel over HTTP.                                                     *)

\* The sessions of the pair are destroyed and its PolySession is dropped.
Teardown(i) ==
  /\ sess' = Destroyed
  /\ stored' = 0
  /\ Drop
  /\ cancelled' = TRUE
  /\ Return(i)
  /\ UNCHANGED <<transfers, firing>>

Cancel(i) ==
  /\ Free(i) /\ ~ InController
  /\ IF registered = 0 THEN Teardown(i)
     ELSE /\ Wait(i, Await("cancelling", 0, 0, 0))
          /\ UNCHANGED <<stored, sess, registered, pol, transfers, firing, cancelled>>

CancelIngressed(i) == At(i, "cancelling") /\ Teardown(i)

---------------------------------------------------------------------------
(* The client's connection.                                                *)

ChannelOpens(s) ==
  /\ sess[s].pc = "new"
  /\ sess' = [sess EXCEPT ![s].pc = "open"]
  /\ UNCHANGED <<stored, registered, pol, transfers, firing, ops, cancelled>>

\* onTransportClosed after its first await, if it has one: a connection that is
\* not the captured session's own is ignored; the owner's PolySession is told
\* first (awaited); a session without one is destroyed at once.
CloseRest(i, session, pc) ==
  IF session # pc \/ sess[pc].pc = "closed"
    THEN Return(i) /\ sess' = [sess EXCEPT ![pc].pc = IF @ = "closed" THEN @ ELSE "lost"]
                   /\ UNCHANGED stored
  ELSE IF Owns(session)
    THEN Wait(i, Await("closing", session, pc, 0))
         /\ sess' = [sess EXCEPT ![pc].pc = "lost"] /\ UNCHANGED stored
  ELSE Return(i) /\ stored' = 0
       /\ sess' = [Destroyed EXCEPT ![pc].pc = IF @ = "closed" THEN @ ELSE "lost"]

\* The connection of a session that was not destroyed fails.  The handler finds
\* the session stored under the id, which may be a later one; if that one is in
\* a transfer, the transfer fails first.
TransportCloses(i, pc) ==
  /\ Free(i)
  /\ sess[pc].pc \in Usable
  /\ stored # 0
  /\ IF InController /\ InMap(Controlled)
       THEN /\ Wait(i, Await("failingClose", stored, pc, Controlled))
            /\ sess' = [sess EXCEPT ![pc].pc = "lost"]
            /\ UNCHANGED stored
       ELSE CloseRest(i, stored, pc)
  /\ UNCHANGED <<registered, pol, transfers, firing, cancelled>>

TransferFailedOnClose(i) ==
  /\ At(i, "resume")
  /\ CloseRest(i, ops[i].session, ops[i].pc)
  /\ UNCHANGED <<registered, pol, transfers, firing, cancelled>>

\* The leg knows; the PolySession of the pair is dropped (awaited)...
CloseDrops(i) ==
  /\ At(i, "closing")
  /\ Drop
  /\ Wait(i, [ops[i] EXCEPT !.at = "closed"])
  /\ UNCHANGED <<stored, sess, transfers, firing, cancelled>>

\* ... and then the session that the id stands for by now is destroyed.
CloseDestroys(i) ==
  /\ At(i, "closed")
  /\ sess' = Destroyed
  /\ stored' = 0
  /\ Return(i)
  /\ UNCHANGED <<registered, pol, transfers, firing, cancelled>>

---------------------------------------------------------------------------
(* A call from the telephone network, or the target leg of a transfer.     *)

\* The inbound flow destroys the session of the id, stores a new one and awaits
\* its offer and the notification.
Inbound(i, at) ==
  /\ Free(i) /\ RoomForSession
  /\ \E s \in Sessions : Create(s, Destroyed)
  /\ Wait(i, Await(at, 0, 0, 0))
  /\ cancelled' = FALSE
  /\ UNCHANGED <<registered, pol, transfers, firing>>

InboundCall(i) == RoomForPoly /\ Inbound(i, "inviting")
InboundRefer(i) == RoomForTransfer /\ Inbound(i, "inviteRefer")

InviteFails(i) ==
  /\ ops[i].at \in {"inviting", "inviteRefer"}
  /\ Return(i)
  /\ UNCHANGED <<stored, sess, registered, pol, transfers, firing, cancelled>>

\* seedInboundSipToWebrtcPoly: its session is bound to the pair's PolySession.
Seed(i, session) ==
  /\ sess' = [sess EXCEPT ![session].transfer = 0]
  /\ Resolve(session)
  /\ Return(i)
  /\ UNCHANGED <<stored, transfers, firing, cancelled>>

Invited(i) ==
  /\ At(i, "inviting")
  /\ IF stored = 0 THEN Return(i) /\ UNCHANGED <<stored, sess, registered, pol, transfers, firing, cancelled>>
     ELSE IF registered = 0 THEN Seed(i, stored)
     ELSE /\ Drop
          /\ Wait(i, Await("seeding", stored, 0, 0))
          /\ UNCHANGED <<stored, sess, transfers, firing, cancelled>>

Seeds(i) == At(i, "seeding") /\ Seed(i, ops[i].session)

\* initReferTransferSession: the state, its timer, and the session's mark.
ReferInvited(i) ==
  /\ At(i, "inviteRefer")
  /\ Return(i)
  /\ IF stored = 0 THEN UNCHANGED <<sess, transfers>>
     ELSE \E t \in Transfers :
            /\ transfers[t] = "unmade"
            /\ \A u \in 1 .. t - 1 : transfers[u] # "unmade"
            /\ transfers' = [transfers EXCEPT ![t] = "armed"]
            /\ sess' = [sess EXCEPT ![stored].transfer = t]
  /\ UNCHANGED <<stored, registered, pol, firing, cancelled>>

---------------------------------------------------------------------------
Request(i) ==
  \/ OfferArrives(i) \/ Ring(i) \/ Cancel(i) \/ RejectTransfer(i)
  \/ AnswerArrives(i) \/ InboundCall(i) \/ InboundRefer(i)
  \/ \E s \in Sessions : TransportCloses(i, s)

Continue(i) ==
  \/ Rotated(i) \/ RotationDrops(i) \/ OfferTaken(i) \/ RingEnters(i) \/ Route(i) \/ Failed(i)
  \/ AnswerOrdinary(i) \/ AnswerTransfer(i) \/ Committed(i) \/ CancelIngressed(i) \/ TransferFailedOnClose(i)
  \/ CloseDrops(i) \/ CloseDestroys(i) \/ InviteFails(i) \/ Invited(i)
  \/ Seeds(i) \/ ReferInvited(i)

Next ==
  \/ \E i \in Handlers : Request(i) \/ Continue(i)
  \/ \E t \in Transfers : TimerFires(t) \/ TimerFailed(t)
  \/ \E s \in Sessions : ChannelOpens(s)

\* Every await ends: the HTTP calls to the controller, the notification and the
\* lookups time out, disposal catches what fails, and timers fire.
Fairness ==
  /\ \A t \in Transfers : WF_vars(TimerFires(t)) /\ WF_vars(TimerFailed(t))
  /\ \A i \in Handlers : WF_vars(Continue(i))

Spec == Init /\ [][Next]_vars /\ Fairness

---------------------------------------------------------------------------
(* Properties.                                                             *)

\* PolySessionRegistry, WebRtcOfferUseCase.js:205-226: every PolySession is the
\* registered one or is being disposed of, so its SIP dialog and bridge end; one
\* that has been disposed of is registered only until the offer that rotates it
\* drops it.
RegistryIsSound ==
  /\ \A p \in Polys : pol[p].state = "live" => registered = p
  /\ registered # 0 /\ pol[registered].state # "live" =>
       \E i \in Handlers : At(i, "rotated") /\ ops[i].id = registered

\* onHttpReject, onHttpCancel, onVerifiedNotifyAnswer (webRTCmanager.js:2557-2665):
\* a stored session marked for a transfer has that transfer's state.  Without it
\* every answer, reject and cancel of the pair would be swallowed.
ControllerHasState == InController => InMap(Controlled)

\* failReferTransfer, clearReferTransferState: a transfer is not left open,
\* whatever happens to its session and whoever else ends it.
TransferSettles == \A t \in Transfers : InMap(t) ~> ~ InMap(t)

\* "A cancel MUST always leave the pair truly empty, so a subsequent offer from
\* the same (from,to) starts from a clean slate" (webRTCmanager.js:2657).
CancelLeavesPairEmpty == cancelled => stored = 0 /\ registered = 0

=============================================================================

----------------------------- MODULE PolySession -----------------------------
(***************************************************************************)
(* One call between two endpoints: the PolySession mediator (PolySession.  *)
(* js), its two SessionLegs (SessionLeg.js, legs/SipLeg.js) and the part   *)
(* of the transports the coordination depends on (negotiation/*.js).       *)
(*                                                                         *)
(* The program is single threaded, so a step of the model is what runs     *)
(* between two awaits of real input or output:                             *)
(*   - an ingress handler up to its first await, which leaves an operation *)
(*     on the leg's signaling chain (SessionLeg._tx);                      *)
(*   - the completion of the operation at the head of a chain, with the    *)
(*     code that follows the await;                                        *)
(*   - a stretch of the reconcile drain.  The drain's own awaits between   *)
(*     passes are microtasks, so no event is delivered before it blocks on *)
(*     a signaling or media operation or goes idle (MicrotasksDone).       *)
(* What an operation takes is not modelled: each one completes at any      *)
(* later time, in the order of its leg's chain.                            *)
(***************************************************************************)
EXTENDS ReconcileRules, Naturals

CONSTANTS
  Role,        \* [Legs -> Roles]: what each leg is (createPolyCore.js)
  Metered,     \* outbound telephone calls are prepaid, and the balance is low
  Events,      \* bound: the kinds of event this instance explores
  MaxIngress,  \* bound: events delivered to the legs
  MaxQueue,    \* bound: operations a leg may hold when an event reaches it
  MaxFaults,   \* bound: failed operations and silently lost channels
  MaxPasses    \* MAX_RECONCILE_PASSES, 50 in the code

(***************************************************************************)
(* A webrtc leg is the caller (its peer connection exists before the call),*)
(* a callee woken by a notification when the policy connects it, or a      *)
(* callee that adopts the session the inbound flow already invited.        *)
(***************************************************************************)
Roles == {"caller", "callee", "adopt", "sip"}

\* What the outside may do to a session besides reporting an open transport.
EventKinds == {"calleeClose", "close", "offer", "inbound", "answer",
               "strayAnswer", "end", "bye", "cancel", "httpCancel", "reject",
               "lose", "destroy", "rotate"}

ASSUME RoleAssumption == Role \in [Legs -> Roles]
ASSUME MeteredAssumption == Metered \in BOOLEAN
ASSUME BoundAssumption ==
  /\ Events \subseteq EventKinds
  /\ MaxIngress \in Nat /\ MaxQueue \in Nat /\ MaxFaults \in Nat
  /\ MaxPasses \in Nat \ {0}

isSip(l) == Role[l] = "sip"

VARIABLES
  st,          \* leg.state
  tx,          \* leg._signalingChain: the operations queued on each leg
  link,        \* transport: peer connection and data channel, or SIP dialog
  endOffer,    \* leg._pendingEndOffer carries an SDP offer to answer
  media,       \* mediaHandle is set
  phase,       \* where the drain stands
  todo,        \* actions of the current pass still to execute
  cur,         \* the action the drain is awaiting
  dirty,       \* _dirty
  lastEvent,   \* the state named by lastEvent
  passes,      \* passes of the current drain
  callActive,  \* _callActive
  metered,     \* the attached hooks run the minute counter
  billing,     \* the minute counter runs (session.minuteCounter)
  cutoff,      \* session._minuteCutoffTimer is armed
  retiring,    \* handlers that will dispose the session when it settles
  disposed,    \* _disposed
  removed,        \* the session was removed from the SessionStore
  nIngress, nFaults

polyVars == <<media, phase, todo, cur, dirty, lastEvent, passes>>
hookVars == <<callActive, metered, billing, cutoff>>
lifeVars == <<retiring, disposed, removed>>
vars == <<st, tx, link, endOffer, polyVars, hookVars, lifeVars,
          nIngress, nFaults>>

(***************************************************************************)
(* An operation on a signaling chain: the negotiation method it runs, the  *)
(* state the code after the await sets ("keep" for none), who awaits it (P *)
(* for the drain), whether it sends on the data channel, and whether what  *)
(* it works on was taken away, so that it can only fail.                   *)
(***************************************************************************)
Methods == {"connect", "ring", "ackConnected", "ackRing", "answer", "ackEnd",
            "endCall", "applyOffer", "applyAnswer", "applySessionAnswer"}
Goals == LegState \cup {"keep", "invited", "end"}
Op(m, goal, by, sends) ==
  [m |-> m, goal |-> goal, by |-> by, sends |-> sends, doomed |-> FALSE]
Ops == [m : Methods, goal : Goals, by : {"client", "P", "cancel", "rotate"},
        sends : BOOLEAN, doomed : BOOLEAN]

RetireReasons == {"close", "cancel", "force", "rotate"}

NoAction == [on |-> "none", do |-> "none"]

\* Mutant of CanRetire: it waits until no leg is up any more.
CanRetireWhenIdle(why) ==
  /\ why \in retiring
  /\ why = "force" \/ (phase = "idle" /\ ~ dirty)
  /\ \A l \in Legs : st[l] \in {"disconnected", "failed", "canceled"}

\* Mutant of CanRetire: it waits for its own operations only.
CanRetireAtOnce(why) ==
  /\ why \in retiring
  /\ \A l \in Legs : \A k \in DOMAIN tx[l] : tx[l][k].by # why

\* The handler of a lost transport, of a cancel over HTTP or of a rotation goes
\* on once its own operations and the drain have settled; "force" does at once.
CanRetire(why) ==
  /\ why \in retiring
  /\ why = "force" \/ (phase = "idle" /\ ~ dirty)
  /\ \A l \in Legs : \A k \in DOMAIN tx[l] : tx[l][k].by # why

\* A webrtc operation that cannot run without a peer connection.
NeedsPc(l, op) ==
  /\ ~ isSip(l) /\ link[l] = "none"
  /\ \/ op.m \in {"ring", "applyOffer", "applyAnswer", "applySessionAnswer"}
     \/ op.m = "connect" /\ Role[l] = "caller"

\* An operation that awaits no input or output.  On a webrtc leg: an ack, the
\* connect of a leg that is not invited, the end of a leg without a peer
\* connection or without SDP.  On a SIP leg: all but INVITE, accept and close.
Immediate(l, op) ==
  IF isSip(l)
    THEN CASE op.m \in {"ring", "answer"} -> link[l] # "none"
           [] op.m = "endCall" -> link[l] = "none" \/ removed
           [] OTHER -> TRUE
    ELSE \/ op.m \in {"ackConnected", "ackRing"}
         \/ op.m = "connect" /\ Role[l] # "callee"
         \/ op.m = "endCall" /\ (link[l] = "none" \/ ~ op.sends)
         \/ op.m = "ackEnd" /\ (link[l] = "none" \/ ~ endOffer[l])
         \/ NeedsPc(l, op)

\* The microtask queue is empty: the drain is idle or blocked, what the chains
\* run awaits input or output, and no handler that waited is about to go on.
MicrotasksDone ==
  /\ phase = "wait" \/ (phase = "idle" /\ ~ dirty)
  /\ \A l \in Legs : tx[l] # <<>> => ~ Immediate(l, Head(tx[l]))
  /\ \A why \in RetireReasons : ~ CanRetire(why)

Init ==
  /\ st = [l \in Legs |-> "disconnected"]
  /\ tx = [l \in Legs |-> <<>>]
  /\ link \in [Legs -> {"none", "inviting", "open"}]
  /\ \A l \in Legs :
       link[l] \in CASE Role[l] = "caller" -> {"open"}
                     [] Role[l] = "adopt" -> {"inviting", "open"}
                     [] OTHER -> {"none"}
  /\ endOffer = [l \in Legs |-> FALSE]
  /\ media = FALSE /\ phase = "idle" /\ todo = <<>> /\ cur = NoAction
  /\ dirty = FALSE /\ lastEvent = "none" /\ passes = 0
  /\ metered = (Metered /\ \E l \in Legs : Role[l] = "caller" /\ isSip(Peer(l)))
  /\ callActive = FALSE /\ billing = FALSE /\ cutoff = FALSE
  /\ retiring = {} /\ disposed = FALSE /\ removed = FALSE
  /\ nIngress = 0 /\ nFaults = 0

-----------------------------------------------------------------------------
(***************************************************************************)
(* SessionLeg.setState for a whole assignment of the legs.  A change wakes *)
(* the mediator (_onLegChange), unless dispose removed the listeners.      *)
(***************************************************************************)
SetStates(next, ev) ==
  /\ st' = next
  /\ IF next # st /\ ~ disposed
       THEN dirty' = TRUE /\ lastEvent' = ev
       ELSE UNCHANGED <<dirty, lastEvent>>

SetState(l, s) == SetStates([st EXCEPT ![l] = s], s)

Enqueue(l, op) == tx' = [tx EXCEPT ![l] = Append(@, op)]

-----------------------------------------------------------------------------
(***************************************************************************)
(* Ingress: PolySession.onIngress and SessionLeg.handleIngress.            *)
(***************************************************************************)

\* An event reaches the leg l: it moves to `now' and queues `ops' (0 or 1).
Deliver(l, now, ops) ==
  /\ MicrotasksDone
  /\ nIngress < MaxIngress /\ Len(tx[l]) <= MaxQueue
  /\ nIngress' = nIngress + 1
  /\ SetState(l, now)
  /\ tx' = [tx EXCEPT ![l] = @ \o ops]
  /\ UNCHANGED <<media, phase, todo, cur, passes, callActive, billing,
                 disposed, removed, nFaults>>

\* Mutant of OnTransportOpen: only a leg nobody invited is moved.
OnTransportOpenFresh(l) ==
  /\ link[l] = "inviting" \/ (Role[l] = "caller" /\ link[l] = "open")
  /\ link' = [link EXCEPT ![l] = "open"]
  /\ Deliver(l, IF st[l] = "disconnected" THEN "connected" ELSE st[l], <<>>)
  /\ UNCHANGED <<endOffer, metered, cutoff, retiring>>

\* The data channel of a webrtc leg opened.  A caller's channel is open before
\* its PolySession exists, and onDcRing reports it.
OnTransportOpen(l) ==
  /\ link[l] = "inviting" \/ (Role[l] = "caller" /\ link[l] = "open")
  /\ ~ isSip(l)
  /\ link' = [link EXCEPT ![l] = "open"]
  /\ Deliver(l, IF st[l] \in {"disconnected", "connecting"} THEN "connected"
                ELSE st[l], <<>>)
  /\ UNCHANGED <<endOffer, metered, cutoff, retiring>>

\* The peer connection reached a terminal state: an abnormal loss fails the
\* leg unless it is settled or already tearing down.
TransportClose(l) ==
  /\ link[l] # "none"
  /\ link' = [link EXCEPT ![l] = "lost"]
  /\ Deliver(l, IF isTeardown(st[l]) \/ st[l] \in {"ended", "canceled", "rejected"}
                THEN st[l] ELSE "failed", <<>>)
  /\ UNCHANGED <<endOffer, metered, cutoff>>

\* The connection of an invited callee only closes its leg.
OnCalleeClosed(l) ==
  /\ "calleeClose" \in Events /\ Role[l] = "callee"
  /\ TransportClose(l) /\ UNCHANGED retiring

\* Any other connection carries the session, which is destroyed once the loss
\* has been reconciled.
OnTransportClosed(l) ==
  /\ "close" \in Events /\ Role[l] \in {"caller", "adopt"}
  /\ TransportClose(l) /\ retiring' = retiring \cup {"close"}

\* A client's offer over its data channel; for a telephone call the prepaid gate
\* runs again and the hooks are attached anew.  In call it is an ICE restart,
\* answered at once; while ringing it is glare; otherwise a call starts.
OnOffer(l) ==
  /\ "offer" \in Events
  /\ ~ isSip(l) /\ link[l] = "open"
  /\ metered' = (Metered /\ isSip(Peer(l)))
  /\ Deliver(l, st[l],
       <<CASE st[l] = "inCall" -> Op("applyOffer", "keep", "client", TRUE)
           [] st[l] = "ringing" -> Op("applyOffer", "keep", "client", FALSE)
           [] OTHER -> Op("applyOffer", "calling", "client", FALSE)>>)
  /\ UNCHANGED <<link, endOffer, cutoff, retiring>>

\* A call from the telephone network, seeded as an offer of the SIP leg: into a
\* fresh PolySession, or into an idle one whose webrtc leg can be rung, after a
\* stale dialog was closed (seedInboundSipToWebrtcPoly, tryInboundReuse).
OnInboundCall(l) ==
  /\ isSip(l)
  /\ \/ nIngress = 0
     \/ /\ "inbound" \in Events
        /\ canBeRung(st[Peer(l)]) /\ link[Peer(l)] # "none"
        /\ ~ isActiveCall(st[l])
  /\ link' = [link EXCEPT ![l] = "none"]
  /\ metered' = FALSE
  /\ Deliver(l, st[l], <<Op("applyOffer", "calling", "client", FALSE)>>)
  /\ UNCHANGED <<endOffer, cutoff, retiring>>

\* An answer: to the session offer while connecting, to our end-call offer
\* while ending, else the user picked up; in any other state it is ignored.  The
\* states in which a client has nothing of ours to answer are a kind of event.
OnAnswer(l) ==
  /\ ~ isSip(l)
  /\ IF st[l] \in {"connecting", "ending", "ringing", "answering"}
       THEN "answer" \in Events ELSE "strayAnswer" \in Events
  /\ Deliver(l, st[l],
       CASE st[l] = "connecting" ->
              <<Op("applySessionAnswer", "keep", "client", FALSE)>>
         [] st[l] = "ending" -> <<Op("endCall", "connected", "client", TRUE)>>
         [] st[l] \in {"connected", "calling", "ringing", "answering"} ->
              <<Op("applyAnswer", "inCall", "client", TRUE)>>
         [] OTHER -> <<>>)
  /\ UNCHANGED <<link, endOffer, metered, cutoff, retiring>>

\* The payload of an end event: a bare end, an end-call offer or an end-call
\* answer.  The answer completes the end we started or is stale; an offer in a
\* settled state is absorbed; otherwise the client's end is parked for P.
HandleEnd(l, payload) ==
  LET absorb == Op("endCall", "keep", "client", payload # "bare")
  IN \/ /\ st[l] = "ending" /\ payload = "answer"
        /\ Deliver(l, st[l], <<Op("endCall", "connected", "client", TRUE)>>)
        /\ UNCHANGED endOffer
     \/ /\ \/ payload = "answer" /\ st[l] \in {"calling", "ringing", "answering"}
           \/ isTerminal(st[l])
           \/ st[l] \in {"endRequested", "connected", "disconnected"}
           \/ st[l] = "ending" /\ payload # "answer"
        /\ Deliver(l, st[l], <<absorb>>)
        /\ UNCHANGED endOffer
     \/ /\ \/ st[l] \in {"connecting", "inCall", "canceling", "rejecting"}
           \/ st[l] \in {"calling", "ringing", "answering"} /\ payload # "answer"
        /\ endOffer' = [endOffer EXCEPT ![l] = payload # "bare"]
        /\ Deliver(l, "endRequested", <<>>)

\* A client's end over its data channel, or the single-call guard ending a call
\* that overlaps a pickup of the same endpoint.
OnEnd(l, payload) ==
  /\ "end" \in Events /\ ~ isSip(l)
  /\ link[l] = "open" \/ (payload = "bare" /\ isActiveCall(st[l]))
  /\ HandleEnd(l, payload)
  /\ UNCHANGED <<link, metered, cutoff, retiring>>

\* The prepaid cutoff timer fires: an end event on the SIP leg.
OnMinuteCutoff(l) ==
  /\ isSip(l) /\ cutoff
  /\ cutoff' = FALSE
  /\ HandleEnd(l, "bare")
  /\ UNCHANGED <<link, metered, retiring>>

\* Mutant of OnRemoteBye: it is reported only while both legs are in call.
OnRemoteByeInConversation(l) ==
  /\ "bye" \in Events
  /\ isSip(l) /\ link[l] = "open"
  /\ link' = [link EXCEPT ![l] = "lost"]
  /\ Deliver(l, st[l],
       IF BothInCall(st)
         THEN <<Op("endCall", "disconnected", "client", FALSE)>> ELSE <<>>)
  /\ UNCHANGED <<endOffer, metered, cutoff, retiring>>

\* The SIP dialog terminated, by the network or by a BYE of ours that is still
\* in flight.  It is reported only while some leg is in call
\* (attachSbcByeHandler); the connection object stays until a close.
OnRemoteBye(l) ==
  /\ "bye" \in Events
  /\ isSip(l) /\ link[l] = "open"
  /\ link' = [link EXCEPT ![l] = "lost"]
  /\ Deliver(l, st[l],
       IF \E k \in Legs : st[k] = "inCall"
         THEN <<Op("endCall", IF isTerminal(st[l]) \/ st[l] = "disconnected"
                              THEN "keep" ELSE "disconnected", "client", FALSE)>>
         ELSE <<>>)
  /\ UNCHANGED <<endOffer, metered, cutoff, retiring>>

\* A client cancels or rejects: `going' while the transport is told, then
\* `gone'.  A repeated one, or one after the end, is absorbed.
Decline(l, going, gone, by) ==
  /\ ~ isSip(l)
  /\ IF isTerminal(st[l]) \/ st[l] = going
       THEN Deliver(l, st[l], <<Op("endCall", "keep", by, TRUE)>>)
       ELSE Deliver(l, going, <<Op("endCall", gone, by, TRUE)>>)
  /\ UNCHANGED <<link, endOffer, metered, cutoff>>

OnCancel(l) ==
  /\ "cancel" \in Events /\ link[l] = "open"
  /\ Decline(l, "canceling", "canceled", "client") /\ UNCHANGED retiring

OnReject(l) ==
  /\ "reject" \in Events
  /\ Decline(l, "rejecting", "rejected", "client") /\ UNCHANGED retiring

\* A cancel over HTTP also destroys the session, however its ingress ended.
OnHttpCancel(l) ==
  /\ "httpCancel" \in Events /\ retiring \cap {"cancel", "force"} = {}
  /\ Decline(l, "canceling", "canceled", "cancel")
  /\ retiring' = retiring \cup {"cancel"}

\* A session is created by its first event: the caller's ring, reported as its
\* transport being open, or a call from the telephone network.  The registry no
\* longer finds a disposed session; only the cutoff timer still refers to it.
Ingress ==
  \E l \in Legs :
     \/ /\ nIngress = 0
        /\ \/ Role[l] = "caller" /\ OnTransportOpen(l)
           \/ Role[Peer(l)] = "adopt" /\ OnInboundCall(l)
     \/ /\ nIngress > 0 /\ ~ disposed
        /\ \/ OnTransportOpen(l) \/ OnCalleeClosed(l) \/ OnTransportClosed(l)
           \/ OnOffer(l) \/ OnInboundCall(l) \/ OnAnswer(l)
           \/ \E payload \in {"bare", "offer", "answer"} : OnEnd(l, payload)
           \/ OnRemoteBye(l) \/ OnCancel(l) \/ OnReject(l) \/ OnHttpCancel(l)
     \/ OnMinuteCutoff(l)

\* A data channel is lost and nothing has been reported yet.
LoseChannel(l) ==
  /\ "lose" \in Events
  /\ MicrotasksDone
  /\ ~ isSip(l) /\ link[l] = "open"
  /\ nFaults < MaxFaults
  /\ nFaults' = nFaults + 1
  /\ link' = [link EXCEPT ![l] = "lost"]
  /\ UNCHANGED <<st, tx, endOffer, polyVars, hookVars, lifeVars, nIngress>>

-----------------------------------------------------------------------------
(***************************************************************************)
(* The reconcile drain: PolySession._drain, _execute, _executeMedia,       *)
(* _recoverFailedLegs and _settleCallActivity.                             *)
(***************************************************************************)

\* One pass: take a snapshot and ask the policy what to do.
DrainPass ==
  /\ phase \in {"idle", "loop"} /\ dirty /\ passes < MaxPasses
  /\ dirty' = FALSE
  /\ passes' = passes + 1
  /\ todo' = reconcile(st, media, lastEvent)
  /\ phase' = "exec"
  /\ UNCHANGED <<st, tx, link, endOffer, media, cur, lastEvent, hookVars,
                 lifeVars, nIngress, nFaults>>

FAIL_ON_ERROR_INTENTS == {"ring", "connect", "answer", "ackConnected", "ackRing"}

\* Mutant of FailedIntent: the leg becomes idle at once, to be tried again.
FailedIntentRetried(l, i) == IF i \in FAIL_ON_ERROR_INTENTS THEN "disconnected" ELSE st[l]

\* The state in which a failed intent leaves a leg (the catch of _execute).
FailedIntent(l, i) == IF i \in FAIL_ON_ERROR_INTENTS THEN "failed" ELSE st[l]

\* An intent that the leg answers without doing anything: it already is there.
IsIdempotent(l, i) ==
  \/ i = "ring" /\ st[l] = "ringing"
  \/ i = "connect" /\ st[l] = "connected" /\ ~ isSip(l)
  \/ i = "endCall" /\ st[l] = "ending"

\* The state an intent enters before its transport work.
Entering(l, i) ==
  CASE i = "ring" \/ (i = "connect" /\ isSip(l)) -> "ringing"
    [] i = "connect" /\ ~ isSip(l) -> "connecting"
    [] i = "answer" -> "answering"
    [] i = "endCall" -> "ending"
    [] OTHER -> st[l]

\* The transport work of an intent.  A SIP leg has no transport of its own to
\* connect: connect and ring both send the INVITE (SipLeg._invite).
TransportWork(l, i, by) ==
  CASE i \in {"connect", "ring"} /\ isSip(l) -> Op("ring", "invited", by, FALSE)
    [] i = "connect" /\ ~ isSip(l) ->
         Op("connect", IF Role[l] = "caller" THEN "connected" ELSE "keep", by,
            FALSE)
    [] i = "answer" -> Op("answer", "inCall", by, TRUE)
    [] i = "ackEnd" -> Op("ackEnd", "connected", by, TRUE)
    [] i = "endCall" -> Op("endCall", "end", by, TRUE)
    [] OTHER -> Op(i, "keep", by, i # "ackRing")

\* An invite, an INVITE or an accept looks its session up before anything else.
WorkOf(l, i, by) ==
  [TransportWork(l, i, by) EXCEPT !.doomed =
     /\ removed
     /\ \/ isSip(l) /\ i \in {"connect", "ring", "answer"}
        \/ Role[l] = "callee" /\ i = "connect"]

\* The next action of the pass is an intent.
ExecuteIntent ==
  /\ phase = "exec" /\ todo # <<>> /\ Head(todo).on \in Legs
  /\ todo' = Tail(todo)
  /\ LET l == Head(todo).on
         i == Head(todo).do
     IN \/ /\ ~ isIntentLegal(st[l], i)
           /\ SetState(l, FailedIntent(l, i))
           /\ UNCHANGED <<tx, phase, cur>>
        \/ /\ isIntentLegal(st[l], i) /\ IsIdempotent(l, i)
           /\ UNCHANGED <<st, dirty, lastEvent, tx, phase, cur>>
        \/ /\ isIntentLegal(st[l], i) /\ ~ IsIdempotent(l, i)
           /\ SetState(l, Entering(l, i))
           /\ Enqueue(l, WorkOf(l, i, "P"))
           /\ cur' = Head(todo) /\ phase' = "wait"
  /\ UNCHANGED <<link, endOffer, media, passes, hookVars, lifeVars, nIngress,
                 nFaults>>

\* The next action is about media: bridging sets the handle only after the
\* await, tearing down clears it before.
ExecuteMedia ==
  /\ phase = "exec" /\ todo # <<>> /\ Head(todo).on = "media"
  /\ todo' = Tail(todo)
  /\ IF (Head(todo).do = "connect") = media
       THEN UNCHANGED <<media, phase, cur>>
       ELSE media' = FALSE /\ cur' = Head(todo) /\ phase' = "wait"
  /\ UNCHANGED <<st, tx, link, endOffer, dirty, lastEvent, passes, hookVars,
                 lifeVars, nIngress, nFaults>>

\* The media layer answers; a failure is only logged.
MediaDone ==
  /\ phase = "wait" /\ cur.on = "media"
  /\ \/ media' = (cur.do = "connect") /\ UNCHANGED nFaults
     \/ nFaults < MaxFaults /\ nFaults' = nFaults + 1 /\ UNCHANGED media
  /\ cur' = NoAction /\ phase' = "exec"
  /\ UNCHANGED <<st, tx, link, endOffer, todo, dirty, lastEvent, passes,
                 hookVars, lifeVars, nIngress>>

\* Mutant of Recover: only a leg whose peer is gone altogether recovers.
RecoverWithPeer(s, l) ==
  IF s[l] = "failed" /\ s[Peer(l)] = "disconnected"
    THEN [s EXCEPT ![l] = "disconnected"] ELSE s

\* End of a pass: a failed leg whose peer has no call left becomes idle again,
\* leg a first.
Recover(s, l) ==
  IF s[l] = "failed" /\ ~ isActiveCall(s[Peer(l)])
    THEN [s EXCEPT ![l] = "disconnected"] ELSE s

EndPass ==
  /\ phase = "exec" /\ todo = <<>>
  /\ SetStates(Recover(Recover(st, "a"), "b"), "disconnected")
  /\ phase' = "loop"
  /\ UNCHANGED <<tx, link, endOffer, media, todo, cur, passes, hookVars,
                 lifeVars, nIngress, nFaults>>

\* Mutant of SettleCallActivity: the end of a call is told only by a leg that
\* is back to connected.
SettleOnConnected ==
  LET active == BothInCall(st) \/ (callActive /\ \A l \in Legs : st[l] # "connected")
  IN /\ callActive' = active
     /\ IF active # callActive /\ metered
          THEN billing' = active /\ cutoff' = active
          ELSE UNCHANGED <<billing, cutoff>>

\* The edge of the two legs being in call fires the lifecycle hooks, which start
\* and stop the minute counter and its cutoff timer.
SettleCallActivity ==
  /\ callActive' = BothInCall(st)
  /\ IF callActive' # callActive /\ metered
       THEN billing' = callActive' /\ cutoff' = callActive'
       ELSE UNCHANGED <<billing, cutoff>>

\* The drain ends: nothing changed since the last snapshot, or the pass limit
\* was hit.
DrainEnd ==
  /\ phase = "loop" /\ (~ dirty \/ passes = MaxPasses)
  /\ phase' = "idle" /\ passes' = 0 /\ dirty' = FALSE
  /\ SettleCallActivity
  /\ UNCHANGED <<st, tx, link, endOffer, media, todo, cur, lastEvent, metered,
                 lifeVars, nIngress, nFaults>>

-----------------------------------------------------------------------------
(***************************************************************************)
(* Completion of the operation at the head of a leg's signaling chain.     *)
(***************************************************************************)

\* The operation sends on a data channel that is not open (NO_OPEN_DC).  An end
\* has nothing to send without a peer connection, nor has the acknowledgement
\* of a bare end.
NoOpenDc(l, op) ==
  /\ ~ isSip(l) /\ op.sends /\ link[l] # "open"
  /\ ~ (link[l] = "none" /\ op.m \in {"endCall", "ackEnd"})
  /\ ~ (op.m = "ackEnd" /\ ~ endOffer[l])

\* Mutant of Landing: the result of an operation is taken for a state.
LandingUnresolved(l, op) == IF op.goal = "keep" THEN st[l] ELSE op.goal

\* Where the code after the await puts the leg.
Landing(l, op) ==
  CASE op.goal = "keep" -> st[l]
    [] op.goal = "invited" -> IF st[l] = "ringing" THEN "inCall" ELSE st[l]
    [] op.goal = "end" -> IF isSip(l) \/ link[l] = "none" THEN "disconnected"
                          ELSE st[l]
    [] OTHER -> op.goal

\* What a successful operation does to the transport: an invite leaves a fresh
\* peer connection waiting for its channel, INVITE and accept bring a dialog up
\* unless a connection object is still there, a SIP end sends BYE.  Both ends of
\* that need the session: its removal closed the peer connection of an invite
\* still in flight, and a close no longer finds the dialog.
LinkAfter(l, op) ==
  CASE isSip(l) /\ op.m \in {"ring", "answer"} /\ link[l] = "none" -> "open"
    [] isSip(l) /\ op.m = "endCall" /\ ~ removed -> "none"
    [] op.m = "connect" /\ Role[l] = "callee" /\ ~ removed -> "inviting"
    [] OTHER -> link[l]

\* Mutant of ResumeDrain: whatever completes resumes the drain.
ResumeDrainAlways(op) ==
  IF phase = "wait" THEN phase' = "exec" /\ cur' = NoAction
  ELSE UNCHANGED <<phase, cur>>

\* The drain resumes when the intent it awaits completes.
ResumeDrain(op) ==
  IF op.by = "P" THEN phase' = "exec" /\ cur' = NoAction
  ELSE UNCHANGED <<phase, cur>>

Completes(l) ==
  /\ tx[l] # <<>>
  /\ MicrotasksDone \/ Immediate(l, Head(tx[l]))
  /\ tx' = [tx EXCEPT ![l] = Tail(@)]
  /\ ResumeDrain(Head(tx[l]))
  /\ UNCHANGED <<media, todo, passes, hookVars, disposed, removed, nIngress>>

\* A cancel over HTTP whose ingress throws tears the session down at once.
ThrowToCaller(op) ==
  retiring' = IF op.by = "cancel" THEN (retiring \ {"cancel"}) \cup {"force"}
              ELSE retiring

TxOk(l) ==
  /\ Completes(l)
  /\ LET op == Head(tx[l])
     IN /\ ~ op.doomed /\ ~ NeedsPc(l, op) /\ ~ NoOpenDc(l, op)
        /\ SetState(l, Landing(l, op))
        /\ link' = [link EXCEPT ![l] = LinkAfter(l, op)]
        /\ endOffer' = IF op.m = "ackEnd" THEN [endOffer EXCEPT ![l] = FALSE]
                       ELSE endOffer
  /\ UNCHANGED <<retiring, nFaults>>

\* The send found no open channel.  An intent drops the leg to disconnected so
\* that the policy connects it again; an ingress handler just throws.
TxNoOpenDc(l) ==
  /\ Completes(l)
  /\ LET op == Head(tx[l])
     IN /\ ~ NeedsPc(l, op) /\ NoOpenDc(l, op)
        /\ SetState(l, IF op.by = "P" THEN "disconnected" ELSE st[l])
        /\ ThrowToCaller(op)
  /\ UNCHANGED <<link, endOffer, nFaults>>

\* Any other error: SDP work, the notification, a refused or unanswered INVITE.
\* Closing a SIP dialog swallows its errors.
TxError(l) ==
  /\ Completes(l)
  /\ LET op == Head(tx[l])
     IN /\ \/ (op.doomed \/ NeedsPc(l, op)) /\ UNCHANGED nFaults
           \/ /\ ~ op.doomed /\ ~ NeedsPc(l, op)
              /\ isSip(l) => op.m \in {"ring", "answer"} /\ link[l] = "none"
              /\ nFaults < MaxFaults /\ nFaults' = nFaults + 1
        /\ SetState(l, IF op.by = "P" THEN FailedIntent(l, op.m) ELSE st[l])
        /\ ThrowToCaller(op)
        /\ UNCHANGED <<link, endOffer>>

-----------------------------------------------------------------------------
(***************************************************************************)
(* End of the session.                                                     *)
(***************************************************************************)

\* What the disposal makes of the operations in flight: an INVITE is cancelled.
InFlight(found) ==
  [l \in Legs |->
     IF isSip(l) /\ found /\ tx[l] # <<>> /\ Head(tx[l]).m = "ring"
       THEN <<[Head(tx[l]) EXCEPT !.doomed = TRUE]>> \o Tail(tx[l])
       ELSE tx[l]]

\* dispose: unsubscribe, stop media, run the teardown hook (minute counter
\* finish), close both transports.  Operations in flight are not awaited, and a
\* SIP dialog is found through the session.
Dispose(found) ==
  /\ ~ disposed /\ disposed' = TRUE
  /\ retiring' = {}
  /\ media' = FALSE
  /\ billing' = FALSE
  /\ link' = [l \in Legs |-> IF isSip(l) /\ ~ found THEN link[l] ELSE "none"]
  /\ tx' = InFlight(found)
  /\ UNCHANGED <<st, endOffer, phase, todo, cur, dirty, lastEvent, passes,
                 callActive, metered, cutoff, nIngress, nFaults>>

\* The registry destroys the PolySession whatever its state, for a new ring or
\* a new inbound call of the pair; the runtime session lives on.
RegistryDestroy ==
  /\ "destroy" \in Events
  /\ MicrotasksDone /\ nIngress > 0
  /\ Dispose(TRUE) /\ UNCHANGED removed

\* rotate ends every leg that is up and can be ended, then disposes.
RotateStart ==
  /\ "rotate" \in Events
  /\ MicrotasksDone /\ nIngress > 0 /\ ~ disposed /\ "rotate" \notin retiring
  /\ retiring' = retiring \cup {"rotate"}
  /\ LET ended == {l \in Legs : /\ isIntentLegal(st[l], "endCall")
                                /\ ~ IsIdempotent(l, "endCall")}
     IN /\ SetStates([l \in Legs |-> IF l \in ended THEN "ending" ELSE st[l]],
                     "ending")
        /\ tx' = [l \in Legs |-> IF l \in ended
                                   THEN Append(tx[l], WorkOf(l, "endCall", "rotate"))
                                   ELSE tx[l]]
  /\ UNCHANGED <<link, endOffer, media, phase, todo, cur, passes, hookVars,
                 disposed, removed, nIngress, nFaults>>

\* A retiring handler disposes and then removes the session; a cancel over HTTP
\* does so in the opposite order.
Retire(why) ==
  /\ CanRetire(why)
  /\ Dispose(why \notin {"cancel", "force"})
  /\ removed' = TRUE

-----------------------------------------------------------------------------
Drain == DrainPass \/ ExecuteIntent \/ ExecuteMedia \/ EndPass \/ DrainEnd

Complete(l) == TxOk(l) \/ TxNoOpenDc(l) \/ TxError(l)

Next ==
  \/ Ingress
  \/ Drain
  \/ MediaDone
  \/ \E l \in Legs : Complete(l) \/ LoseChannel(l)
  \/ RegistryDestroy \/ RotateStart \/ \E why \in RetireReasons : Retire(why)

\* Microtasks run to completion, and every operation ends: an INVITE by its
\* 30 second timer, the others by the local SDP engine or a bounded request.
Fairness ==
  /\ WF_vars(Drain) /\ WF_vars(MediaDone)
  /\ \A why \in RetireReasons : WF_vars(Retire(why))
  /\ \A l \in Legs : WF_vars(Complete(l))

Spec == Init /\ [][Next]_vars /\ Fairness

-----------------------------------------------------------------------------
(***************************************************************************)
(* Properties.                                                             *)
(***************************************************************************)

\* Every variable keeps its kind: in particular the drain only ever executes
\* actions of the policy and a chain only ever holds operations.
TypeOK ==
  /\ st \in [Legs -> LegState]
  /\ tx \in [Legs -> Seq(Ops)]
  /\ link \in [Legs -> {"none", "inviting", "open", "lost"}]
  /\ endOffer \in [Legs -> BOOLEAN]
  /\ media \in BOOLEAN
  /\ phase \in {"idle", "loop", "exec", "wait"}
  /\ todo \in Seq(Action)
  /\ cur \in Action \cup {NoAction}
  /\ dirty \in BOOLEAN /\ lastEvent \in LegState \cup {"none"}
  /\ passes \in 0 .. MaxPasses
  /\ callActive \in BOOLEAN /\ metered \in BOOLEAN /\ billing \in BOOLEAN
  /\ cutoff \in BOOLEAN
  /\ retiring \in SUBSET RetireReasons
  /\ disposed \in BOOLEAN /\ removed \in BOOLEAN
  /\ nIngress \in Nat /\ nFaults \in Nat

\* The drain waits for exactly one operation, the intent it issued, which is on
\* the chain of the leg it addresses; it issued nothing else.  If the operation
\* were missing the drain would block for good (_running would never be reset);
\* if there were two, one would complete into a pass that did not issue it.
DrainWaitsForOne ==
  \A l \in Legs :
    LET issued == {k \in DOMAIN tx[l] : tx[l][k].by = "P"}
    IN /\ issued # {} <=> phase = "wait" /\ cur.on = l
       /\ \A j, k \in issued : j = k

\* Everything that was started has ended, and the session is still in use.
Settled ==
  phase = "idle" /\ ~ dirty /\ ~ disposed /\ \A l \in Legs : tx[l] = <<>>

\* Once everything has settled nobody is left in a call alone: the peer of a
\* leg in call is in call too or still on its way to the call (reconcile's
\* second teardown rule, reached from whatever order events came in).
NoLoneCall ==
  Settled => \A l \in Legs : st[l] = "inCall" => callViable(st[Peer(l)])

\* Once everything has settled media is bridged only between two legs in call,
\* and (unless the media layer failed) always then (_executeMedia).
MediaMatchesCall ==
  Settled => /\ media => BothInCall(st)
             /\ BothInCall(st) /\ nFaults = 0 => media

\* A client's end is never left unanswered: no leg rests in endRequested, in
\* whatever state of the drain, of the peer and of the chains the end came in.
\* An answer that fails is not sent again (SessionLeg.ackEnd), so this holds
\* while no operation has failed.
EndAcknowledged == Settled /\ nFaults = 0 => \A l \in Legs : st[l] # "endRequested"

\* A failed leg is made idle again as soon as its peer has no call left
\* (_recoverFailedLegs), so that the next call can connect it.
NoFailedLegAtRest ==
  Settled => \A l \in Legs : st[l] = "failed" => isActiveCall(st[Peer(l)])

\* A leg that rests in connecting has an invite outstanding, whose data channel
\* will move it on; otherwise the caller would wait for it for ever.
InviteOutstanding ==
  Settled => \A l \in Legs : st[l] = "connecting" => link[l] = "inviting"

\* Once everything has settled the SIP dialog is up exactly when the SIP leg is
\* in call: no dialog outlives its call and no call runs on a dead dialog.
DialogMatchesCall ==
  Settled => \A l \in Legs : isSip(l) => (link[l] = "open" <=> st[l] = "inCall")

\* Once everything has settled the minute counter of a prepaid telephone call
\* runs exactly while both legs are in call (_settleCallActivity).
BillingMatchesCall == Settled => (billing <=> metered /\ BothInCall(st))

\* The drain reaches quiescence below the pass limit.
Converges == passes < MaxPasses

\* When a session was disposed and what was in flight has ended, nothing is
\* left of it: no media bridge, no running counter, no transport, no dialog.
RetiredIsEmpty ==
  disposed /\ phase = "idle" /\ (\A l \in Legs : tx[l] = <<>>) =>
    ~ media /\ ~ billing /\ \A l \in Legs : link[l] = "none"

\* A client that ends a call ends it for the peer too: P ends the peer in the
\* pass that acknowledges the end (SessionLeg.js on the first client end).
HangupReachesPeer ==
  \A l \in Legs : st[l] = "endRequested" /\ st[Peer(l)] = "inCall"
                    ~> st[Peer(l)] # "inCall" \/ disposed

\* A handler that waits for the session to settle does dispose it in the end.
RetireCompletes == retiring # {} ~> disposed

-----------------------------------------------------------------------------
(***************************************************************************)
(* What one would expect as well, and the code does not do (README.md, 6,  *)
(* names the instances).                                                   *)
(***************************************************************************)

\* A callee whose channel is lost does not rest in ending: the answer to the
\* end-call offer can no longer come, and a redial waits for it (SoftWait).
LostCalleeSettles ==
  Settled => \A l \in Legs :
    Role[l] = "callee" /\ link[l] = "lost" => st[l] # "ending"

\* Whatever session hooks are attached, the counter never runs outside a call.
BillingStops == Settled => (billing => BothInCall(st))

\* The lifecycle hooks fire once per call: a call is not answered while the
\* mediator still counts the previous one as active.
BillingBracketed ==
  [][callActive /\ ~ BothInCall(st) /\ BothInCall(st') => ~ callActive']_vars

\* A settled session has nothing left to do: asked again, the policy would issue
\* no action.  Otherwise the drain stopped short of what the policy wants (a
\* caller to be rung, a pickup to be completed) and nothing will wake it.
PolicyIsSatisfied == Settled => reconcile(st, media, "none") = <<>>
==============================================================================

------------------------- MODULE PolySession_proofs --------------------------
(***************************************************************************)
(* Theorems about the mediator, for every pair of roles, every set of      *)
(* events and every bound.                                                 *)
(***************************************************************************)
EXTENDS PolySession, ReconcileRules_proofs

-----------------------------------------------------------------------------
(***************************************************************************)
(* Values: operations, states and transports are what they should be.      *)
(***************************************************************************)

LinkState == {"none", "inviting", "open", "lost"}

LEMMA PeerType ==
  ASSUME NEW l \in Legs  PROVE Peer(l) \in Legs
BY DEF Peer, Legs

\* The transport work of an intent is an operation of whoever asked for it.
LEMMA WorkOfType ==
  ASSUME NEW l \in Legs, NEW i \in Intents, removed \in BOOLEAN,
         NEW by \in {"client", "P", "cancel", "rotate"}
  PROVE  WorkOf(l, i, by) \in Ops /\ WorkOf(l, i, by).by = by
<1>1. TransportWork(l, i, by) \in Ops /\ TransportWork(l, i, by).by = by
  <2>1. CASE i \in {"connect", "ring"} /\ isSip(l)
    BY <2>1 DEF TransportWork, Op, Ops, Methods, Goals
  <2>2. CASE ~ (i \in {"connect", "ring"} /\ isSip(l)) /\ i = "connect"
    <3> DEFINE goal == IF Role[l] = "caller" THEN "connected" ELSE "keep"
    <3>1. goal \in Goals  BY DEF Goals, LegState
    <3>2. TransportWork(l, i, by) = Op("connect", goal, by, FALSE)
      BY <2>2 DEF TransportWork
    <3>3. "connect" \in Methods /\ FALSE \in BOOLEAN  BY DEF Methods
    <3> HIDE DEF goal
    <3>4. QED  BY <3>1, <3>2, <3>3 DEF Op, Ops
  <2>3. CASE i \in {"answer", "ackEnd", "endCall"}
    BY <2>3 DEF TransportWork, Op, Ops, Methods, Goals, LegState
  <2>4. CASE ~ (i \in {"connect", "ring"} /\ isSip(l))
             /\ i \in {"ring", "ackConnected", "ackRing"}
    BY <2>4 DEF TransportWork, Op, Ops, Methods, Goals, LegState
  <2>5. QED  BY <2>1, <2>2, <2>3, <2>4 DEF Intents
<1>2. QED
  BY <1>1 DEF WorkOf, Ops

\* An intent enters a state, and a failed one leaves its leg in one.
LEMMA EnteringType ==
  ASSUME NEW l \in Legs, NEW i \in Intents, st \in [Legs -> LegState]
  PROVE  Entering(l, i) \in LegState
BY DEF Entering, LegState, Intents

LEMMA FailedIntentType ==
  ASSUME NEW l \in Legs, NEW i, st \in [Legs -> LegState]
  PROVE  FailedIntent(l, i) \in LegState
BY DEF FailedIntent, LegState

\* What completes leaves its leg in a state and its transport in one of its own.
LEMMA LandingType ==
  ASSUME NEW l \in Legs, NEW op \in Ops, st \in [Legs -> LegState]
  PROVE  Landing(l, op) \in LegState
<1>1. st[l] \in LegState /\ "inCall" \in LegState /\ "disconnected" \in LegState
  BY DEF LegState
<1>2. op.goal \in Goals  BY DEF Ops
<1>3. CASE op.goal = "keep"  BY <1>1, <1>3 DEF Landing
<1>4. CASE op.goal = "invited"  BY <1>1, <1>4 DEF Landing
<1>5. CASE op.goal = "end"  BY <1>1, <1>5 DEF Landing
<1>6. CASE op.goal \notin {"keep", "invited", "end"}
  BY <1>2, <1>6 DEF Landing, Goals
<1>7. QED  BY <1>3, <1>4, <1>5, <1>6

LEMMA LinkAfterType ==
  ASSUME NEW l \in Legs, NEW op, link \in [Legs -> LinkState]
  PROVE  LinkAfter(l, op) \in LinkState
BY DEF LinkAfter, LinkState

-----------------------------------------------------------------------------
(***************************************************************************)
(* Type correctness, one lemma per group of actions.                       *)
(***************************************************************************)

LEMMA InitType == Init => TypeOK
<1> SUFFICES ASSUME Init  PROVE TypeOK
  OBVIOUS
<1>1. st \in [Legs -> LegState] /\ endOffer \in [Legs -> BOOLEAN]
  BY DEF Init, LegState
<1>2. tx \in [Legs -> Seq(Ops)] /\ todo \in Seq(Action)
  BY EmptySeq DEF Init
<1>3. link \in [Legs -> {"none", "inviting", "open", "lost"}]
  BY DEF Init
<1>4. media \in BOOLEAN /\ phase \in {"idle", "loop", "exec", "wait"}
      /\ cur \in Action \cup {NoAction} /\ dirty \in BOOLEAN
      /\ lastEvent \in LegState \cup {"none"}
  BY DEF Init
<1>5. passes \in 0 .. MaxPasses /\ nIngress \in Nat /\ nFaults \in Nat
  BY BoundAssumption DEF Init
<1>6. metered \in BOOLEAN
  BY MeteredAssumption DEF Init
<1>7. callActive \in BOOLEAN /\ billing \in BOOLEAN /\ cutoff \in BOOLEAN
      /\ retiring \in SUBSET RetireReasons /\ disposed \in BOOLEAN
      /\ removed \in BOOLEAN
  BY DEF Init
<1>8. QED
  BY <1>1, <1>2, <1>3, <1>4, <1>5, <1>6, <1>7 DEF TypeOK

\* What a change of the legs' states makes of the variables it writes.
StatesTyped ==
  /\ st \in [Legs -> LegState]
  /\ dirty \in BOOLEAN
  /\ lastEvent \in LegState \cup {"none"}

LEMMA SetStatesType ==
  ASSUME StatesTyped, NEW next \in [Legs -> LegState], NEW ev \in LegState,
         SetStates(next, ev)
  PROVE  StatesTyped'
BY DEF StatesTyped, SetStates

LEMMA SetStateType ==
  ASSUME StatesTyped, NEW l \in Legs, NEW s \in LegState, SetState(l, s)
  PROVE  StatesTyped'
<1>1. [st EXCEPT ![l] = s] \in [Legs -> LegState]  BY DEF StatesTyped
<1>2. QED  BY <1>1, SetStatesType DEF SetState

\* The queues of the legs after an operation was appended to one of them.
LEMMA AppendType ==
  ASSUME tx \in [Legs -> Seq(Ops)], NEW l \in Legs, NEW op \in Ops
  PROVE  [tx EXCEPT ![l] = Append(@, op)] \in [Legs -> Seq(Ops)]
BY AppendProperties

\* The operations of a client, as opposed to the intents of the drain: none of
\* them brings a transport up, and a cancel over HTTP is one only where it occurs.
ClientOps ==
  {op \in Ops : /\ op.by # "P" /\ op.m \notin {"connect", "ring", "answer"}
                /\ op.goal # "connecting"
                /\ op.by = "cancel" => "httpCancel" \in Events}

\* An event delivered to a leg, with what the client asks of it.
IsDelivery ==
  \E l \in Legs, now \in LegState, ops \in Seq(ClientOps) : Deliver(l, now, ops)

\* The variables an event may write besides those Deliver writes.
AuxTyped ==
  /\ link \in [Legs -> LinkState]
  /\ endOffer \in [Legs -> BOOLEAN]
  /\ metered \in BOOLEAN /\ cutoff \in BOOLEAN
  /\ retiring \in SUBSET RetireReasons

LEMMA TypeAux == TypeOK => AuxTyped
BY DEF TypeOK, AuxTyped, LinkState

LEMMA DeliverType ==
  ASSUME TypeOK, IsDelivery, AuxTyped'
  PROVE  TypeOK'
<1>1. PICK l \in Legs, now \in LegState, ops \in Seq(ClientOps) :
        Deliver(l, now, ops)
  BY DEF IsDelivery
<1>2. StatesTyped'
  BY <1>1, SetStateType DEF TypeOK, StatesTyped, Deliver
<1>3. tx' \in [Legs -> Seq(Ops)]
  <2>1. Seq(ClientOps) \subseteq Seq(Ops)  BY SMT DEF ClientOps
  <2>2. tx[l] \o ops \in Seq(Ops)  BY <2>1, ConcatSeq DEF TypeOK
  <2>3. QED  BY <1>1, <2>2 DEF TypeOK, Deliver
<1>4. nIngress' \in Nat
  BY <1>1 DEF TypeOK, Deliver
<1>5. QED
  BY <1>1, <1>2, <1>3, <1>4 DEF TypeOK, AuxTyped, StatesTyped, Deliver, LinkState

\* The lists of operations an event may queue: none, or one of the client.
LEMMA NoOp == <<>> \in Seq(ClientOps)
BY EmptySeq

LEMMA OneOp ==
  ASSUME NEW m \in Methods \ {"connect", "ring", "answer"},
         NEW goal \in Goals \ {"connecting"}, NEW by \in {"client", "cancel"},
         by = "cancel" => "httpCancel" \in Events, NEW sends \in BOOLEAN
  PROVE  <<Op(m, goal, by, sends)>> \in Seq(ClientOps)
<1>1. Op(m, goal, by, sends) \in ClientOps  BY DEF Op, Ops, ClientOps
<1>2. QED  BY <1>1, SMT

LEMMA TransportOpenType ==
  ASSUME TypeOK, NEW l \in Legs, OnTransportOpen(l)
  PROVE  IsDelivery /\ AuxTyped'
<1> DEFINE now == IF st[l] \in {"disconnected", "connecting"} THEN "connected"
                  ELSE st[l]
<1>1. now \in LegState  BY DEF TypeOK, LegState
<1>2. AuxTyped'  BY TypeAux DEF OnTransportOpen, AuxTyped, LinkState
<1>3. Deliver(l, now, <<>>)  BY DEF OnTransportOpen
<1> HIDE DEF now
<1>4. QED  BY <1>1, <1>2, <1>3, NoOp DEF IsDelivery

LEMMA TransportCloseType ==
  ASSUME TypeOK, NEW l \in Legs, TransportClose(l),
         retiring' \in SUBSET RetireReasons
  PROVE  IsDelivery /\ AuxTyped'
<1> DEFINE now == IF isTeardown(st[l]) \/ st[l] \in {"ended", "canceled", "rejected"}
                  THEN st[l] ELSE "failed"
<1>1. now \in LegState  BY DEF TypeOK, LegState
<1>2. AuxTyped'  BY TypeAux DEF TransportClose, AuxTyped, LinkState
<1>3. Deliver(l, now, <<>>)  BY DEF TransportClose
<1> HIDE DEF now
<1>4. QED  BY <1>1, <1>2, <1>3, NoOp DEF IsDelivery

LEMMA OfferType ==
  ASSUME TypeOK, NEW l \in Legs, OnOffer(l)
  PROVE  IsDelivery /\ AuxTyped'
<1>1. st[l] \in LegState  BY DEF TypeOK
<1>2. AuxTyped'  BY TypeAux, MeteredAssumption DEF OnOffer, AuxTyped
<1>3. PICK ops \in Seq(ClientOps) : Deliver(l, st[l], ops)
  <2>1. /\ <<Op("applyOffer", "keep", "client", TRUE)>> \in Seq(ClientOps)
        /\ <<Op("applyOffer", "keep", "client", FALSE)>> \in Seq(ClientOps)
        /\ <<Op("applyOffer", "calling", "client", FALSE)>> \in Seq(ClientOps)
    BY OneOp DEF Methods, Goals, LegState
  <2>2. CASE st[l] = "inCall"  BY <2>1, <2>2 DEF OnOffer
  <2>3. CASE st[l] = "ringing"  BY <2>1, <2>3 DEF OnOffer
  <2>4. CASE st[l] \notin {"inCall", "ringing"}  BY <2>1, <2>4 DEF OnOffer
  <2>5. QED  BY <2>2, <2>3, <2>4
<1>4. QED  BY <1>1, <1>2, <1>3 DEF IsDelivery

LEMMA InboundType ==
  ASSUME TypeOK, NEW l \in Legs, OnInboundCall(l)
  PROVE  IsDelivery /\ AuxTyped'
<1>1. <<Op("applyOffer", "calling", "client", FALSE)>> \in Seq(ClientOps)
  BY OneOp DEF Methods, Goals, LegState
<1>2. AuxTyped'  BY TypeAux DEF OnInboundCall, AuxTyped, LinkState
<1>3. QED  BY <1>1, <1>2 DEF OnInboundCall, IsDelivery, TypeOK

LEMMA AnswerType ==
  ASSUME TypeOK, NEW l \in Legs, OnAnswer(l)
  PROVE  IsDelivery /\ AuxTyped'
<1>1. st[l] \in LegState  BY DEF TypeOK
<1>2. AuxTyped'  BY TypeAux DEF OnAnswer, AuxTyped
<1>3. PICK ops \in Seq(ClientOps) : Deliver(l, st[l], ops)
  <2>1. /\ <<Op("applySessionAnswer", "keep", "client", FALSE)>> \in Seq(ClientOps)
        /\ <<Op("endCall", "connected", "client", TRUE)>> \in Seq(ClientOps)
        /\ <<Op("applyAnswer", "inCall", "client", TRUE)>> \in Seq(ClientOps)
    BY OneOp DEF Methods, Goals, LegState
  <2>2. CASE st[l] = "connecting"  BY <2>1, <2>2 DEF OnAnswer
  <2>3. CASE st[l] = "ending"  BY <2>1, <2>3 DEF OnAnswer
  <2>4. CASE st[l] \in {"connected", "calling", "ringing", "answering"}
    BY <2>1, <2>4 DEF OnAnswer
  <2>5. CASE st[l] \notin {"connecting", "ending", "connected", "calling",
                           "ringing", "answering"}
    BY <2>5, NoOp DEF OnAnswer
  <2>6. QED  BY <2>2, <2>3, <2>4, <2>5
<1>4. QED  BY <1>1, <1>2, <1>3 DEF IsDelivery

LEMMA HandleEndType ==
  ASSUME TypeOK, NEW l \in Legs, NEW payload, HandleEnd(l, payload),
         link' \in [Legs -> LinkState], metered' \in BOOLEAN,
         cutoff' \in BOOLEAN, retiring' \in SUBSET RetireReasons
  PROVE  IsDelivery /\ AuxTyped'
<1> DEFINE sdp == payload # "bare"
<1>1. st[l] \in LegState /\ "endRequested" \in LegState /\ sdp \in BOOLEAN
  BY DEF TypeOK, LegState
<1>2. <<Op("endCall", "keep", "client", sdp)>> \in Seq(ClientOps)
  BY <1>1, OneOp DEF Methods, Goals
<1>3. <<Op("endCall", "connected", "client", TRUE)>> \in Seq(ClientOps)
  BY OneOp DEF Methods, Goals, LegState
<1>4. \/ /\ Deliver(l, st[l], <<Op("endCall", "connected", "client", TRUE)>>)
         /\ UNCHANGED endOffer
      \/ /\ Deliver(l, st[l], <<Op("endCall", "keep", "client", sdp)>>)
         /\ UNCHANGED endOffer
      \/ /\ Deliver(l, "endRequested", <<>>)
         /\ endOffer' = [endOffer EXCEPT ![l] = sdp]
  BY DEF HandleEnd
<1> HIDE DEF sdp
<1>5. endOffer' \in [Legs -> BOOLEAN]  BY <1>1, <1>4 DEF TypeOK
<1>6. IsDelivery  BY <1>1, <1>2, <1>3, <1>4, NoOp DEF IsDelivery
<1>7. QED  BY <1>5, <1>6 DEF AuxTyped

LEMMA RemoteByeType ==
  ASSUME TypeOK, NEW l \in Legs, OnRemoteBye(l)
  PROVE  IsDelivery /\ AuxTyped'
<1>1. st[l] \in LegState  BY DEF TypeOK
<1>2. AuxTyped'  BY TypeAux DEF OnRemoteBye, AuxTyped, LinkState
<1>3. PICK ops \in Seq(ClientOps) : Deliver(l, st[l], ops)
  <2>1. /\ <<Op("endCall", "keep", "client", FALSE)>> \in Seq(ClientOps)
        /\ <<Op("endCall", "disconnected", "client", FALSE)>> \in Seq(ClientOps)
    BY OneOp DEF Methods, Goals, LegState
  <2>2. CASE \E k \in Legs : st[k] = "inCall"
    <3>1. CASE isTerminal(st[l]) \/ st[l] = "disconnected"
      BY <2>1, <2>2, <3>1 DEF OnRemoteBye
    <3>2. CASE ~ (isTerminal(st[l]) \/ st[l] = "disconnected")
      BY <2>1, <2>2, <3>2 DEF OnRemoteBye
    <3>3. QED  BY <3>1, <3>2
  <2>3. CASE ~ \E k \in Legs : st[k] = "inCall"
    BY <2>3, NoOp DEF OnRemoteBye
  <2>4. QED  BY <2>2, <2>3
<1>4. QED  BY <1>1, <1>2, <1>3 DEF IsDelivery

LEMMA DeclineType ==
  ASSUME TypeOK, NEW l \in Legs, NEW going \in LegState, NEW gone \in LegState,
         NEW by \in {"client", "cancel"}, Decline(l, going, gone, by),
         by = "cancel" => "httpCancel" \in Events, gone # "connecting",
         retiring' \in SUBSET RetireReasons
  PROVE  IsDelivery /\ AuxTyped'
<1>1. st[l] \in LegState  BY DEF TypeOK
<1>2. /\ <<Op("endCall", "keep", by, TRUE)>> \in Seq(ClientOps)
      /\ <<Op("endCall", gone, by, TRUE)>> \in Seq(ClientOps)
  BY OneOp DEF Methods, Goals
<1>3. \/ Deliver(l, st[l], <<Op("endCall", "keep", by, TRUE)>>)
      \/ Deliver(l, going, <<Op("endCall", gone, by, TRUE)>>)
  BY DEF Decline
<1>4. AuxTyped'  BY TypeAux DEF Decline, AuxTyped
<1>5. QED  BY <1>1, <1>2, <1>3, <1>4 DEF IsDelivery

\* Every event that reaches a leg is a delivery.
LEMMA IngressDelivers ==
  ASSUME TypeOK, Ingress
  PROVE  IsDelivery /\ AuxTyped'
<1> DEFINE Goal == IsDelivery /\ AuxTyped'
<1>1. retiring \in SUBSET RetireReasons /\ metered \in BOOLEAN
      /\ cutoff \in BOOLEAN /\ link \in [Legs -> LinkState]
  BY DEF TypeOK, LinkState
<1>2. ASSUME NEW l \in Legs, OnTransportOpen(l)  PROVE Goal
  BY <1>2, TransportOpenType
<1>3. ASSUME NEW l \in Legs, OnInboundCall(l)  PROVE Goal
  BY <1>3, InboundType
<1>4. ASSUME NEW l \in Legs, OnCalleeClosed(l)  PROVE Goal
  BY <1>1, <1>4, TransportCloseType DEF OnCalleeClosed
<1>5. ASSUME NEW l \in Legs, OnTransportClosed(l)  PROVE Goal
  BY <1>1, <1>5, TransportCloseType DEF OnTransportClosed, RetireReasons
<1>6. ASSUME NEW l \in Legs, OnOffer(l)  PROVE Goal
  BY <1>6, OfferType
<1>7. ASSUME NEW l \in Legs, OnAnswer(l)  PROVE Goal
  BY <1>7, AnswerType
<1>8. ASSUME NEW l \in Legs, NEW payload, OnEnd(l, payload)  PROVE Goal
  BY <1>1, <1>8, HandleEndType DEF OnEnd
<1>9. ASSUME NEW l \in Legs, OnMinuteCutoff(l)  PROVE Goal
  BY <1>1, <1>9, HandleEndType DEF OnMinuteCutoff
<1>10. ASSUME NEW l \in Legs, OnRemoteBye(l)  PROVE Goal
  BY <1>10, RemoteByeType
<1>11. ASSUME NEW l \in Legs, OnCancel(l)  PROVE Goal
  BY <1>1, <1>11, DeclineType DEF OnCancel, LegState
<1>12. ASSUME NEW l \in Legs, OnReject(l)  PROVE Goal
  BY <1>1, <1>12, DeclineType DEF OnReject, LegState
<1>13. ASSUME NEW l \in Legs, OnHttpCancel(l)  PROVE Goal
  BY <1>1, <1>13, DeclineType DEF OnHttpCancel, LegState, RetireReasons
<1> HIDE DEF Goal
<1>14. Goal
  BY <1>2, <1>3, <1>4, <1>5, <1>6, <1>7, <1>8, <1>9, <1>10, <1>11, <1>12, <1>13
     DEF Ingress
<1>15. QED  BY <1>14 DEF Goal

-----------------------------------------------------------------------------
LEMMA LoseChannelType ==
  ASSUME TypeOK, NEW l \in Legs, LoseChannel(l)
  PROVE  TypeOK'
BY DEF TypeOK, LoseChannel, polyVars, hookVars, lifeVars

LEMMA DrainPassType ==
  ASSUME TypeOK, DrainPass
  PROVE  TypeOK'
<1>1. todo' \in Seq(Action)  BY ReconcileType DEF DrainPass, TypeOK
<1>2. passes' \in 0 .. MaxPasses
  BY BoundAssumption DEF DrainPass, TypeOK
<1>3. QED  BY <1>1, <1>2 DEF DrainPass, TypeOK, hookVars, lifeVars

\* The list of actions still to execute keeps its kind.
LEMMA TodoType ==
  ASSUME todo \in Seq(Action), todo # <<>>
  PROVE  Tail(todo) \in Seq(Action) /\ Head(todo) \in Action
BY HeadTailProperties

LEMMA ExecuteIntentType ==
  ASSUME TypeOK, ExecuteIntent
  PROVE  TypeOK'
<1> DEFINE l == Head(todo).on
           i == Head(todo).do
<1>1. Tail(todo) \in Seq(Action) /\ Head(todo) \in Action
  BY TodoType DEF TypeOK, ExecuteIntent
<1>2. l \in Legs /\ i \in Intents
  BY <1>1 DEF ExecuteIntent, Action, Legs
<1>3. StatesTyped /\ todo' \in Seq(Action)
  BY <1>1 DEF TypeOK, StatesTyped, ExecuteIntent
<1> HIDE DEF l, i
<1>4. CASE SetState(l, FailedIntent(l, i)) /\ UNCHANGED <<tx, phase, cur>>
  <2>1. StatesTyped'
    BY <1>2, <1>3, <1>4, SetStateType, FailedIntentType DEF StatesTyped
  <2>2. QED
    BY <1>3, <1>4, <2>1 DEF TypeOK, StatesTyped, ExecuteIntent, hookVars, lifeVars
<1>5. CASE UNCHANGED <<st, dirty, lastEvent, tx, phase, cur>>
  BY <1>3, <1>5 DEF TypeOK, ExecuteIntent, hookVars, lifeVars
<1>6. CASE /\ SetState(l, Entering(l, i))
           /\ Enqueue(l, WorkOf(l, i, "P"))
           /\ cur' = Head(todo) /\ phase' = "wait"
  <2>1. StatesTyped'
    BY <1>2, <1>3, <1>6, SetStateType, EnteringType DEF StatesTyped
  <2>2. WorkOf(l, i, "P") \in Ops
    BY <1>2, WorkOfType DEF TypeOK
  <2>3. tx' \in [Legs -> Seq(Ops)]
    BY <1>2, <1>6, <2>2, AppendType DEF TypeOK, Enqueue
  <2>4. QED
    BY <1>1, <1>3, <1>6, <2>1, <2>3
       DEF TypeOK, StatesTyped, ExecuteIntent, hookVars, lifeVars
<1>7. QED  BY <1>4, <1>5, <1>6 DEF ExecuteIntent, l, i

LEMMA ExecuteMediaType ==
  ASSUME TypeOK, ExecuteMedia
  PROVE  TypeOK'
<1>1. Tail(todo) \in Seq(Action) /\ Head(todo) \in Action
  BY TodoType DEF TypeOK, ExecuteMedia
<1>2. todo' \in Seq(Action) /\ media' \in BOOLEAN
      /\ phase' \in {"idle", "loop", "exec", "wait"}
      /\ cur' \in Action \cup {NoAction}
  BY <1>1 DEF TypeOK, ExecuteMedia
<1>3. QED  BY <1>2 DEF TypeOK, ExecuteMedia, hookVars, lifeVars

LEMMA MediaDoneType ==
  ASSUME TypeOK, MediaDone
  PROVE  TypeOK'
<1>1. nFaults' \in Nat
  BY DEF TypeOK, MediaDone
<1>2. media' \in BOOLEAN
  BY DEF TypeOK, MediaDone
<1>3. QED  BY <1>1, <1>2 DEF TypeOK, MediaDone, hookVars, lifeVars

LEMMA EndPassType ==
  ASSUME TypeOK, EndPass
  PROVE  TypeOK'
<1>1. ASSUME NEW s \in [Legs -> LegState], NEW l \in Legs
      PROVE  Recover(s, l) \in [Legs -> LegState]
  BY DEF Recover, LegState
<1>2. Recover(Recover(st, "a"), "b") \in [Legs -> LegState]
  BY <1>1 DEF TypeOK, Legs
<1>3. StatesTyped'
  BY <1>2, SetStatesType DEF EndPass, TypeOK, StatesTyped, LegState
<1>4. QED  BY <1>3 DEF TypeOK, StatesTyped, EndPass, hookVars, lifeVars

LEMMA DrainEndType ==
  ASSUME TypeOK, DrainEnd
  PROVE  TypeOK'
<1>1. callActive' \in BOOLEAN
  BY DEF DrainEnd, SettleCallActivity, BothInCall
<1>2. billing' \in BOOLEAN /\ cutoff' \in BOOLEAN
  BY <1>1 DEF TypeOK, DrainEnd, SettleCallActivity
<1>3. passes' \in 0 .. MaxPasses  BY BoundAssumption DEF DrainEnd
<1>4. QED  BY <1>1, <1>2, <1>3 DEF TypeOK, DrainEnd, lifeVars

-----------------------------------------------------------------------------
\* What every completion writes, whatever its outcome.
LEMMA CompletesType ==
  ASSUME TypeOK, NEW l \in Legs, Completes(l)
  PROVE  /\ tx' \in [Legs -> Seq(Ops)]
         /\ Head(tx[l]) \in Ops
         /\ phase' \in {"idle", "loop", "exec", "wait"}
         /\ cur' \in Action \cup {NoAction}
<1>1. tx[l] \in Seq(Ops) /\ tx[l] # <<>>  BY DEF TypeOK, Completes
<1>2. Tail(tx[l]) \in Seq(Ops) /\ Head(tx[l]) \in Ops
  BY <1>1, HeadTailProperties
<1>3. tx' \in [Legs -> Seq(Ops)]  BY <1>2 DEF TypeOK, Completes
<1>4. QED  BY <1>2, <1>3 DEF TypeOK, Completes, ResumeDrain

LEMMA ThrowType ==
  ASSUME retiring \in SUBSET RetireReasons, NEW op, ThrowToCaller(op)
  PROVE  retiring' \in SUBSET RetireReasons
BY DEF ThrowToCaller, RetireReasons

LEMMA TxOkType ==
  ASSUME TypeOK, NEW l \in Legs, TxOk(l)
  PROVE  TypeOK'
<1> DEFINE op == Head(tx[l])
<1>1. Completes(l)  BY DEF TxOk
<1>2. op \in Ops  BY <1>1, CompletesType
<1>3. StatesTyped'
  <2>1. Landing(l, op) \in LegState  BY <1>2, LandingType DEF TypeOK
  <2>2. SetState(l, Landing(l, op))  BY DEF TxOk
  <2> HIDE DEF op
  <2>3. QED  BY <2>1, <2>2, SetStateType DEF TypeOK, StatesTyped
<1>4. link' \in [Legs -> LinkState]
  <2>1. link \in [Legs -> LinkState]  BY DEF TypeOK, LinkState
  <2>2. LinkAfter(l, op) \in LinkState  BY <2>1, LinkAfterType
  <2>3. QED  BY <2>1, <2>2 DEF TxOk
<1>5. endOffer' \in [Legs -> BOOLEAN]  BY DEF TxOk, TypeOK
<1>6. QED
  BY <1>1, <1>3, <1>4, <1>5, CompletesType
     DEF TypeOK, StatesTyped, TxOk, Completes, hookVars, LinkState

LEMMA TxNoOpenDcType ==
  ASSUME TypeOK, NEW l \in Legs, TxNoOpenDc(l)
  PROVE  TypeOK'
<1>1. Completes(l)  BY DEF TxNoOpenDc
<1>2. PICK s \in LegState : SetState(l, s)
  <2>1. st[l] \in LegState /\ "disconnected" \in LegState
    BY DEF TypeOK, LegState
  <2>2. QED  BY <2>1 DEF TxNoOpenDc
<1>3. StatesTyped'  BY <1>2, SetStateType DEF TypeOK, StatesTyped
<1>4. retiring' \in SUBSET RetireReasons  BY ThrowType DEF TxNoOpenDc, TypeOK
<1>5. QED
  BY <1>1, <1>3, <1>4, CompletesType
     DEF TypeOK, StatesTyped, TxNoOpenDc, Completes, hookVars

LEMMA TxErrorType ==
  ASSUME TypeOK, NEW l \in Legs, TxError(l)
  PROVE  TypeOK'
<1>1. Completes(l)  BY DEF TxError
<1>2. PICK s \in LegState : SetState(l, s)
  <2>1. st[l] \in LegState /\ FailedIntent(l, Head(tx[l]).m) \in LegState
    BY FailedIntentType DEF TypeOK
  <2>2. QED  BY <2>1 DEF TxError
<1>3. StatesTyped'  BY <1>2, SetStateType DEF TypeOK, StatesTyped
<1>4. retiring' \in SUBSET RetireReasons  BY ThrowType DEF TxError, TypeOK
<1>5. nFaults' \in Nat  BY DEF TxError, TypeOK
<1>6. QED
  BY <1>1, <1>3, <1>4, <1>5, CompletesType
     DEF TypeOK, StatesTyped, TxError, Completes, hookVars

-----------------------------------------------------------------------------
\* The disposal dooms operations but adds none.
LEMMA InFlightType ==
  ASSUME tx \in [Legs -> Seq(Ops)], NEW found \in BOOLEAN
  PROVE  InFlight(found) \in [Legs -> Seq(Ops)]
<1> SUFFICES ASSUME NEW l \in Legs, tx[l] # <<>>
             PROVE  <<[Head(tx[l]) EXCEPT !.doomed = TRUE]>> \o Tail(tx[l])
                      \in Seq(Ops)
  BY DEF InFlight
<1>1. Head(tx[l]) \in Ops /\ Tail(tx[l]) \in Seq(Ops)
  BY HeadTailProperties
<1>2. [Head(tx[l]) EXCEPT !.doomed = TRUE] \in Ops  BY <1>1 DEF Ops
<1>3. <<[Head(tx[l]) EXCEPT !.doomed = TRUE]>> \in Seq(Ops)  BY <1>2, SMT
<1>4. QED  BY <1>1, <1>3, ConcatSeq

LEMMA DisposeType ==
  ASSUME TypeOK, NEW found \in BOOLEAN, Dispose(found), removed' \in BOOLEAN
  PROVE  TypeOK'
<1>1. tx' \in [Legs -> Seq(Ops)]  BY InFlightType DEF Dispose, TypeOK
<1>2. link' \in [Legs -> LinkState]  BY DEF Dispose, TypeOK, LinkState
<1>3. QED  BY <1>1, <1>2 DEF Dispose, TypeOK, LinkState

LEMMA RotateStartType ==
  ASSUME TypeOK, RotateStart
  PROVE  TypeOK'
<1>1. PICK ended \in SUBSET Legs :
        /\ SetStates([l \in Legs |-> IF l \in ended THEN "ending" ELSE st[l]],
                     "ending")
        /\ tx' = [l \in Legs |-> IF l \in ended
                                   THEN Append(tx[l], WorkOf(l, "endCall", "rotate"))
                                   ELSE tx[l]]
  BY DEF RotateStart
<1>2. StatesTyped'
  <2>1. [l \in Legs |-> IF l \in ended THEN "ending" ELSE st[l]]
          \in [Legs -> LegState]
    BY DEF TypeOK, LegState
  <2>2. "ending" \in LegState  BY DEF LegState
  <2>3. QED  BY <1>1, <2>1, <2>2, SetStatesType DEF TypeOK, StatesTyped
<1>3. tx' \in [Legs -> Seq(Ops)]
  <2>1. ASSUME NEW l \in Legs
        PROVE  Append(tx[l], WorkOf(l, "endCall", "rotate")) \in Seq(Ops)
    <3>1. WorkOf(l, "endCall", "rotate") \in Ops
      BY WorkOfType DEF TypeOK, Intents
    <3>2. QED  BY <3>1, AppendProperties DEF TypeOK
  <2>2. QED  BY <1>1, <2>1 DEF TypeOK
<1>4. retiring' \in SUBSET RetireReasons
  BY DEF RotateStart, TypeOK, RetireReasons
<1>5. QED
  BY <1>2, <1>3, <1>4 DEF TypeOK, StatesTyped, RotateStart, hookVars

-----------------------------------------------------------------------------
LEMMA NextType == TypeOK /\ [Next]_vars => TypeOK'
<1> SUFFICES ASSUME TypeOK, [Next]_vars  PROVE TypeOK'
  OBVIOUS
<1>1. CASE Ingress  BY <1>1, IngressDelivers, DeliverType
<1>2. CASE Drain
  <2>1. CASE DrainPass  BY <2>1, DrainPassType
  <2>2. CASE ExecuteIntent  BY <2>2, ExecuteIntentType
  <2>3. CASE ExecuteMedia  BY <2>3, ExecuteMediaType
  <2>4. CASE EndPass  BY <2>4, EndPassType
  <2>5. CASE DrainEnd  BY <2>5, DrainEndType
  <2>6. QED  BY <1>2, <2>1, <2>2, <2>3, <2>4, <2>5 DEF Drain
<1>3. CASE MediaDone  BY <1>3, MediaDoneType
<1>4. ASSUME NEW l \in Legs, Complete(l)  PROVE TypeOK'
  BY <1>4, TxOkType, TxNoOpenDcType, TxErrorType DEF Complete
<1>5. ASSUME NEW l \in Legs, LoseChannel(l)  PROVE TypeOK'
  BY <1>5, LoseChannelType
<1>6. CASE RegistryDestroy
  BY <1>6, DisposeType DEF RegistryDestroy, TypeOK
<1>7. CASE RotateStart  BY <1>7, RotateStartType
<1>8. ASSUME NEW why \in RetireReasons, Retire(why)  PROVE TypeOK'
  <2>1. (why \notin {"cancel", "force"}) \in BOOLEAN  OBVIOUS
  <2>2. QED  BY <1>8, <2>1, DisposeType DEF Retire
<1>9. CASE UNCHANGED vars
  BY <1>9 DEF TypeOK, vars, polyVars, hookVars, lifeVars
<1>10. QED
  BY <1>1, <1>2, <1>3, <1>4, <1>5, <1>6, <1>7, <1>8, <1>9 DEF Next

\* Every variable keeps its kind; in particular no operation, no failed intent
\* and no recovery puts a leg (SessionLeg.state) into something that is not one
\* of LEG_STATES, and the drain counts no pass above its limit.
THEOREM TypeCorrect == Spec => []TypeOK
BY InitType, NextType, PTL DEF Spec

-----------------------------------------------------------------------------
(***************************************************************************)
(* The drain waits for exactly the operation it issued.  Together with the *)
(* types this is inductive: only the drain queues an operation of its own, *)
(* only when it waits for none, and whatever completes one resumes it.     *)
(***************************************************************************)

\* The places in a chain of the operations the drain issued.
Issued(q) == {k \in DOMAIN q : q[k].by = "P"}

AtMostOne(S) == \A j, k \in S : j = k

\* DrainWaitsForOne for one leg whose chain is q.
WaitsFor(l, q) ==
  /\ Issued(q) # {} <=> phase = "wait" /\ cur.on = l
  /\ AtMostOne(Issued(q))

LEMMA WaitsForEach == DrainWaitsForOne <=> \A l \in Legs : WaitsFor(l, tx[l])
BY DEF DrainWaitsForOne, WaitsFor, Issued, AtMostOne

LEMMA WaitsForEachNext ==
  DrainWaitsForOne' <=> \A l \in Legs : WaitsFor(l, tx[l])'
BY DEF DrainWaitsForOne, WaitsFor, Issued, AtMostOne

\* Operations of a client at the end of a chain leave the drain's where it is.
LEMMA IssuedConcat ==
  ASSUME NEW p \in Seq(Ops), NEW q \in Seq(ClientOps)
  PROVE  Issued(p \o q) = Issued(p)
<1>1. q \in Seq(Ops)
  <2>1. Seq(ClientOps) \subseteq Seq(Ops)  BY SMT DEF ClientOps
  <2>2. QED  BY <2>1
<1>2. DOMAIN (p \o q) = 1 .. Len(p) + Len(q) /\ DOMAIN p = 1 .. Len(p)
      /\ Len(p) \in Nat /\ Len(q) \in Nat
  BY <1>1, SMT
<1>3. ASSUME NEW k \in 1 .. Len(p) + Len(q)
      PROVE  k \in Issued(p \o q) <=> k \in Issued(p)
  <2>1. CASE k <= Len(p)
    <3>1. (p \o q)[k] = p[k]  BY <1>1, <1>2, <1>3, <2>1, SMT
    <3>2. QED  BY <1>2, <1>3, <2>1, <3>1 DEF Issued
  <2>2. CASE k > Len(p)
    <3>1. (p \o q)[k] = q[k - Len(p)] /\ k - Len(p) \in 1 .. Len(q)
      BY <1>1, <1>2, <1>3, <2>2, SMT
    <3>2. q[k - Len(p)] \in ClientOps  BY <3>1, SMT
    <3>3. (p \o q)[k].by # "P"  BY <3>1, <3>2 DEF ClientOps
    <3>4. QED  BY <1>2, <2>2, <3>3 DEF Issued
  <2>3. QED  BY <1>2, <2>1, <2>2
<1>4. QED  BY <1>2, <1>3 DEF Issued

\* What an appended operation adds to the drain's.
LEMMA IssuedAppend ==
  ASSUME NEW q \in Seq(Ops), NEW op \in Ops
  PROVE  Issued(Append(q, op)) =
           Issued(q) \cup IF op.by = "P" THEN {Len(q) + 1} ELSE {}
BY AppendProperties, SMT DEF Issued

\* What is left of the drain's operations when the head of a chain is done.
LEMMA IssuedTail ==
  ASSUME NEW q \in Seq(Ops), q # <<>>
  PROVE  /\ \A k \in Issued(Tail(q)) : k + 1 \in Issued(q) /\ k + 1 # 1
         /\ \A k \in Issued(q) : k # 1 => k - 1 \in Issued(Tail(q))
         /\ 1 \in Issued(q) <=> Head(q).by = "P"
<1>1. /\ Tail(q) \in Seq(Ops) /\ Len(Tail(q)) = Len(q) - 1
      /\ Len(q) \in Nat \ {0} /\ Head(q) = q[1]
      /\ DOMAIN q = 1 .. Len(q) /\ DOMAIN Tail(q) = 1 .. Len(q) - 1
      /\ \A k \in 1 .. Len(q) - 1 : Tail(q)[k] = q[k + 1]
  BY SMT
<1>2. ASSUME NEW k \in Issued(Tail(q))
      PROVE  k + 1 \in Issued(q) /\ k + 1 # 1
  BY <1>1, <1>2 DEF Issued
<1>3. ASSUME NEW k \in Issued(q), k # 1
      PROVE  k - 1 \in Issued(Tail(q))
  <2>1. k - 1 \in 1 .. Len(q) - 1 /\ (k - 1) + 1 = k
    BY <1>1, <1>3 DEF Issued
  <2>2. Tail(q)[k - 1] = q[k]  BY <1>1, <2>1
  <2>3. QED  BY <1>1, <1>3, <2>1, <2>2 DEF Issued
<1>4. 1 \in Issued(q) <=> Head(q).by = "P"
  BY <1>1 DEF Issued
<1>5. QED  BY <1>2, <1>3, <1>4

-----------------------------------------------------------------------------
LEMMA DeliverWaits ==
  ASSUME TypeOK, DrainWaitsForOne, IsDelivery
  PROVE  DrainWaitsForOne'
<1>1. PICK k \in Legs, ops \in Seq(ClientOps) :
        tx' = [tx EXCEPT ![k] = @ \o ops] /\ UNCHANGED <<phase, cur>>
  BY DEF IsDelivery, Deliver
<1>2. ASSUME NEW l \in Legs  PROVE Issued(tx'[l]) = Issued(tx[l])
  <2>1. CASE l = k
    <3>1. tx'[l] = tx[l] \o ops  BY <1>1, <2>1 DEF TypeOK
    <3>2. QED  BY <3>1, IssuedConcat DEF TypeOK
  <2>2. CASE l # k  BY <1>1, <2>2 DEF TypeOK
  <2>3. QED  BY <2>1, <2>2
<1>3. QED
  BY <1>1, <1>2, WaitsForEach DEF WaitsFor, DrainWaitsForOne, Issued

\* The drain issues an intent only when it waits for none.
LEMMA ExecuteIntentWaits ==
  ASSUME TypeOK, DrainWaitsForOne, ExecuteIntent
  PROVE  DrainWaitsForOne'
<1>1. ASSUME NEW l \in Legs  PROVE Issued(tx[l]) = {}
  BY <1>1, WaitsForEach DEF ExecuteIntent, WaitsFor
<1>2. CASE UNCHANGED <<tx, phase, cur>>
  BY <1>2 DEF DrainWaitsForOne
<1>3. CASE /\ Enqueue(Head(todo).on, WorkOf(Head(todo).on, Head(todo).do, "P"))
           /\ cur' = Head(todo) /\ phase' = "wait"
  <2>1. /\ Head(todo).on \in Legs
        /\ WorkOf(Head(todo).on, Head(todo).do, "P") \in Ops
        /\ WorkOf(Head(todo).on, Head(todo).do, "P").by = "P"
    <3>1. Head(todo) \in Action  BY TodoType DEF TypeOK, ExecuteIntent
    <3>2. Head(todo).on \in Legs /\ Head(todo).do \in Intents
      BY <3>1 DEF ExecuteIntent, Action, Legs
    <3>3. QED  BY <3>2, WorkOfType DEF TypeOK
  <2>2. PICK k \in Legs, op \in Ops :
          /\ op.by = "P" /\ cur'.on = k /\ phase' = "wait"
          /\ tx' = [tx EXCEPT ![k] = Append(@, op)]
    BY <1>3, <2>1 DEF Enqueue
  <2>3. ASSUME NEW l \in Legs, l # k  PROVE WaitsFor(l, tx[l])'
    BY <1>1, <2>2, <2>3 DEF WaitsFor, AtMostOne, TypeOK
  <2>4. WaitsFor(k, tx[k])'
    <3>1. tx'[k] = Append(tx[k], op)  BY <2>2 DEF TypeOK
    <3>2. Issued(tx'[k]) = {Len(tx[k]) + 1}
      BY <1>1, <2>2, <3>1, IssuedAppend DEF TypeOK
    <3>3. Issued(tx'[k]) # {} /\ AtMostOne(Issued(tx'[k]))
      BY <3>2 DEF AtMostOne
    <3>4. QED  BY <2>2, <3>3 DEF WaitsFor
  <2>5. QED  BY <2>3, <2>4, WaitsForEachNext
<1>4. QED  BY <1>2, <1>3 DEF ExecuteIntent

\* What completes is the drain's operation exactly if it resumes the drain.
LEMMA CompletesWaits ==
  ASSUME TypeOK, DrainWaitsForOne, NEW l \in Legs, Completes(l)
  PROVE  DrainWaitsForOne'
<1> DEFINE op == Head(tx[l])
<1>1. tx[l] \in Seq(Ops) /\ tx[l] # <<>>
  BY DEF TypeOK, Completes
<1>2. \A k \in Legs : tx'[k] = IF k = l THEN Tail(tx[l]) ELSE tx[k]
  BY DEF Completes, TypeOK
<1>3. \A k \in Legs : WaitsFor(k, tx[k])
  BY WaitsForEach
<1>4. AtMostOne(Issued(Tail(tx[l])))
  <2>1. ASSUME NEW i \in Issued(Tail(tx[l])), NEW j \in Issued(Tail(tx[l]))
        PROVE  i = j
    <3>1. i + 1 \in Issued(tx[l]) /\ j + 1 \in Issued(tx[l])
      BY <1>1, <2>1, IssuedTail
    <3>2. i + 1 = j + 1  BY <1>3, <3>1 DEF WaitsFor, AtMostOne
    <3>3. i \in Int /\ j \in Int
      <4>1. Tail(tx[l]) \in Seq(Ops)  BY <1>1, HeadTailProperties
      <4>2. DOMAIN Tail(tx[l]) \subseteq Int  BY <4>1, SMT
      <4>3. QED  BY <4>2 DEF Issued
    <3>4. QED  BY <3>2, <3>3, SMT
  <2>2. QED  BY <2>1 DEF AtMostOne
<1>5. CASE op.by = "P"
  <2>1. 1 \in Issued(tx[l])  BY <1>1, <1>5, IssuedTail
  <2>2. phase = "wait" /\ cur.on = l  BY <1>3, <2>1 DEF WaitsFor
  <2>3. Issued(Tail(tx[l])) = {}
    <3>1. SUFFICES ASSUME NEW k \in Issued(Tail(tx[l]))  PROVE FALSE
      OBVIOUS
    <3>2. k + 1 \in Issued(tx[l]) /\ k + 1 # 1  BY <1>1, <3>1, IssuedTail
    <3>3. QED  BY <1>3, <2>1, <3>2 DEF WaitsFor, AtMostOne
  <2>4. ASSUME NEW k \in Legs, k # l  PROVE Issued(tx[k]) = {}
    BY <1>3, <2>2, <2>4 DEF WaitsFor
  <2>5. phase' = "exec"  BY <1>5 DEF Completes, ResumeDrain
  <2>6. ASSUME NEW k \in Legs  PROVE WaitsFor(k, tx[k])'
    BY <1>2, <2>3, <2>4, <2>5 DEF WaitsFor, AtMostOne
  <2>7. QED  BY <2>6, WaitsForEachNext
<1>6. CASE op.by # "P"
  <2>1. UNCHANGED <<phase, cur>>  BY <1>6 DEF Completes, ResumeDrain
  <2>2. 1 \notin Issued(tx[l])  BY <1>1, <1>6, IssuedTail
  <2>3. Issued(Tail(tx[l])) # {} <=> Issued(tx[l]) # {}
    BY <1>1, <2>2, IssuedTail
  <2>4. ASSUME NEW k \in Legs  PROVE WaitsFor(k, tx[k])'
    BY <1>2, <1>3, <1>4, <2>1, <2>3 DEF WaitsFor
  <2>5. QED  BY <2>4, WaitsForEachNext
<1>7. QED  BY <1>5, <1>6

\* The disposal takes no operation off a chain, a rotation adds none of P.
LEMMA DisposeWaits ==
  ASSUME TypeOK, DrainWaitsForOne, NEW found, Dispose(found)
  PROVE  DrainWaitsForOne'
<1>1. UNCHANGED <<phase, cur>> /\ tx' = InFlight(found)
  BY DEF Dispose
<1>2. ASSUME NEW l \in Legs  PROVE Issued(tx'[l]) = Issued(tx[l])
  <2> DEFINE q == <<[Head(tx[l]) EXCEPT !.doomed = TRUE]>> \o Tail(tx[l])
  <2>1. CASE tx'[l] = tx[l]  BY <2>1
  <2>2. CASE tx'[l] = q /\ tx[l] # <<>>
    <3>1. tx[l] \in Seq(Ops) /\ Tail(tx[l]) \in Seq(Ops)
          /\ Len(Tail(tx[l])) = Len(tx[l]) - 1 /\ Len(tx[l]) \in Nat \ {0}
      BY <2>2, HeadTailProperties, SMT DEF TypeOK
    <3>2. DOMAIN q = DOMAIN tx[l]  BY <3>1, SMT
    <3>3. ASSUME NEW k \in DOMAIN tx[l]  PROVE q[k].by = tx[l][k].by
      <4>1. CASE k = 1
        <5>1. q[1] = [Head(tx[l]) EXCEPT !.doomed = TRUE]  BY <3>1, SMT
        <5>2. Head(tx[l]) \in Ops /\ Head(tx[l]) = tx[l][1]
          BY <2>2, <3>1, HeadTailProperties, SMT
        <5>3. QED  BY <4>1, <5>1, <5>2 DEF Ops
      <4>2. CASE k # 1
        <5>1. q[k] = tx[l][k]  BY <3>1, <3>3, <4>2, SMT
        <5>2. QED  BY <5>1
      <4>3. QED  BY <4>1, <4>2
    <3> HIDE DEF q
    <3>4. QED  BY <2>2, <3>2, <3>3 DEF Issued
  <2>3. QED  BY <1>1, <2>1, <2>2 DEF InFlight
<1>3. QED
  BY <1>1, <1>2, WaitsForEach DEF WaitsFor, DrainWaitsForOne, Issued

LEMMA RotateStartWaits ==
  ASSUME TypeOK, DrainWaitsForOne, RotateStart
  PROVE  DrainWaitsForOne'
<1>1. UNCHANGED <<phase, cur>>
  BY DEF RotateStart
<1>2. ASSUME NEW l \in Legs  PROVE Issued(tx'[l]) = Issued(tx[l])
  <2> DEFINE op == WorkOf(l, "endCall", "rotate")
  <2>1. op \in Ops /\ op.by = "rotate"
    BY WorkOfType DEF TypeOK, Intents
  <2>2. tx'[l] = tx[l] \/ tx'[l] = Append(tx[l], op)
    BY DEF RotateStart
  <2> HIDE DEF op
  <2>3. Issued(Append(tx[l], op)) = Issued(tx[l])
    BY <2>1, IssuedAppend DEF TypeOK
  <2>4. QED  BY <2>2, <2>3
<1>3. QED
  BY <1>1, <1>2, WaitsForEach DEF WaitsFor, DrainWaitsForOne, Issued

\* The other steps of the drain start and end without an operation of its own.
LEMMA DrainWaits ==
  ASSUME TypeOK, DrainWaitsForOne,
         DrainPass \/ ExecuteMedia \/ EndPass \/ DrainEnd \/ MediaDone
  PROVE  DrainWaitsForOne'
<1>1. UNCHANGED tx
  BY DEF DrainPass, ExecuteMedia, EndPass, DrainEnd, MediaDone
<1>2. ASSUME NEW l \in Legs  PROVE ~ (phase = "wait" /\ cur.on = l)
  BY <1>2 DEF DrainPass, ExecuteMedia, EndPass, DrainEnd, MediaDone, Legs
<1>3. ASSUME NEW l \in Legs  PROVE ~ (phase' = "wait" /\ cur'.on = l)
  BY <1>2, <1>3
     DEF DrainPass, ExecuteMedia, EndPass, DrainEnd, MediaDone, Legs
<1>4. QED
  BY <1>1, <1>2, <1>3 DEF DrainWaitsForOne

\* The drain never blocks on anything but the one intent it issued, and no
\* second intent of it is ever in flight (PolySession._execute, SessionLeg._tx).
THEOREM OneOperationAwaited == Spec => []DrainWaitsForOne
<1>1. Init => DrainWaitsForOne
  <2>1. ASSUME Init, NEW l \in Legs  PROVE WaitsFor(l, tx[l])
    <3>1. tx[l] = <<>> /\ phase = "idle"  BY <2>1 DEF Init
    <3>2. DOMAIN tx[l] = {}  BY <3>1, SMT
    <3>3. Issued(tx[l]) = {}  BY <3>2 DEF Issued
    <3>4. QED  BY <3>1, <3>3 DEF WaitsFor, AtMostOne
  <2>2. QED  BY <2>1, WaitsForEach
<1>2. TypeOK /\ DrainWaitsForOne /\ [Next]_vars => DrainWaitsForOne'
  <2> SUFFICES ASSUME TypeOK, DrainWaitsForOne, [Next]_vars
               PROVE  DrainWaitsForOne'
    OBVIOUS
  <2>1. CASE Ingress  BY <2>1, IngressDelivers, DeliverWaits
  <2>2. CASE Drain
    BY <2>2, ExecuteIntentWaits, DrainWaits DEF Drain
  <2>3. CASE MediaDone  BY <2>3, DrainWaits
  <2>4. ASSUME NEW l \in Legs, Complete(l)  PROVE DrainWaitsForOne'
    BY <2>4, CompletesWaits DEF Complete, TxOk, TxNoOpenDc, TxError
  <2>5. ASSUME NEW l \in Legs, LoseChannel(l)  PROVE DrainWaitsForOne'
    BY <2>5 DEF LoseChannel, polyVars, DrainWaitsForOne
  <2>6. CASE RegistryDestroy  BY <2>6, DisposeWaits DEF RegistryDestroy
  <2>7. CASE RotateStart  BY <2>7, RotateStartWaits
  <2>8. ASSUME NEW why \in RetireReasons, Retire(why)  PROVE DrainWaitsForOne'
    BY <2>8, DisposeWaits DEF Retire
  <2>9. CASE UNCHANGED vars
    BY <2>9 DEF vars, polyVars, DrainWaitsForOne
  <2>10. QED
    BY <2>1, <2>2, <2>3, <2>4, <2>5, <2>6, <2>7, <2>8, <2>9 DEF Next
<1>3. QED
  BY <1>1, <1>2, TypeCorrect, PTL DEF Spec

-----------------------------------------------------------------------------
(***************************************************************************)
(* What a session rests in.  A leg that changes its state makes the drain  *)
(* dirty, so while the session is calm (not dirty, not disposed) the legs  *)
(* are in the states of the last snapshot, and what the policy asked for   *)
(* on that snapshot is either still to be executed or was executed without *)
(* changing a state.  An intent that matters changes one.                  *)
(*                                                                         *)
(* A drain that hits its pass limit stops although it is dirty: nothing of *)
(* this section holds after that, so its theorems assume []Converges.      *)
(***************************************************************************)

Calm == ~ dirty /\ ~ disposed

InPass == phase \in {"exec", "wait"}

Awaits(act) == phase = "wait" /\ cur = act

\* The current pass will execute the action or awaits its end.
Due(act) == InPass /\ (Has(todo, act) \/ Awaits(act))

\* The actions still to execute are legal: the snapshot is not out of date.
PassLegal == InPass => todo \in Seq(LegalActions(st))

\* A leg to be ended is ended by this pass, and that changes its state.
EndsDue == \A l \in toEnd(st) : InPass /\ Has(todo, Intent(l, "endCall"))

\* A client's end is acknowledged by this pass unless an operation failed.
AcksDue ==
  nFaults = 0 =>
    \A l \in Legs : st[l] = "endRequested" => Due(Intent(l, "ackEnd"))

\* When a pass is over the failed legs have recovered.
Recovered ==
  ~ InPass =>
    \A l \in Legs : st[l] = "failed" => isActiveCall(st[Peer(l)])

\* Media outside a call is dropped by this pass, and only such media is.
DropDue ==
  media /\ ~ BothInCall(st) => InPass /\ Has(todo, Media("disconnect"))

DropRight == Due(Media("disconnect")) => ~ BothInCall(st)

\* Media is bridged within a call only, or behind an answer, and a call gets it
\* in this pass unless an operation failed.
BridgeRight ==
  /\ InPass => Guarded(todo, st)
  /\ Awaits(Media("connect")) => BothInCall(st)

BridgeDue ==
  nFaults = 0 /\ BothInCall(st) /\ ~ media => Due(Media("connect"))

Snapshot ==
  /\ PassLegal /\ EndsDue /\ AcksDue /\ Recovered
  /\ DropDue /\ DropRight /\ BridgeRight /\ BridgeDue

\* While the drain awaits the media layer nothing is bridged.
Unbridged == phase = "wait" /\ cur.on = "media" => ~ media

\* What the drain queued to acknowledge an end is an operation that leaves
\* endRequested, however it completes.
AckOp == Op("ackEnd", "connected", "P", TRUE)

AckChain(q) == \A k \in Issued(q) : q[k] = AckOp

AckWork == \A l \in Legs : cur = Intent(l, "ackEnd") => AckChain(tx[l])

\* A step after which the session is calm, and which no snapshot was taken in,
\* left the states as they were.
Quiet == Calm /\ st' = st

\* It did nothing else to the pass either.
Still == UNCHANGED <<phase, todo, cur, media>> /\ (nFaults' = 0 => nFaults = 0)

LEMMA SetStatesQuiet ==
  ASSUME NEW next, NEW ev, SetStates(next, ev), UNCHANGED disposed, Calm'
  PROVE  Quiet /\ next = st
BY DEF SetStates, Quiet, Calm

\* What happens in a step after which the session is calm.
LEMMA CalmStep ==
  ASSUME TypeOK, [Next]_vars, Calm'
  PROVE  \/ DrainPass
         \/ DrainEnd /\ st' = st
         \/ /\ Quiet
            /\ \/ Still
               \/ ExecuteIntent \/ ExecuteMedia \/ MediaDone \/ EndPass
               \/ \E l \in Legs : Complete(l) /\ Head(tx[l]).by = "P"
<1>1. CASE Ingress
  <2>1. PICK l \in Legs, now \in LegState, ops \in Seq(ClientOps) :
          Deliver(l, now, ops)
    BY <1>1, IngressDelivers DEF IsDelivery
  <2>2. Still  BY <2>1 DEF Deliver, Still
  <2>3. Quiet  BY <2>1, SetStatesQuiet DEF Deliver, SetState
  <2>4. QED  BY <2>2, <2>3
<1>2. CASE Drain
  <2>1. CASE DrainPass  BY <2>1
  <2>2. CASE ExecuteIntent
    <3>1. UNCHANGED disposed  BY <2>2 DEF ExecuteIntent, lifeVars
    <3>2. CASE \E l, s : SetState(l, s)
      BY <2>2, <3>1, <3>2, SetStatesQuiet DEF SetState
    <3>3. CASE UNCHANGED <<st, dirty>>
      BY <2>2, <3>1, <3>3 DEF Quiet, Calm
    <3>4. QED  BY <2>2, <3>2, <3>3 DEF ExecuteIntent
  <2>3. CASE ExecuteMedia
    BY <2>3 DEF ExecuteMedia, Quiet, Calm, lifeVars
  <2>4. CASE EndPass
    BY <2>4, SetStatesQuiet DEF EndPass, lifeVars
  <2>5. CASE DrainEnd  BY <2>5 DEF DrainEnd
  <2>6. QED  BY <1>2, <2>1, <2>2, <2>3, <2>4, <2>5 DEF Drain
<1>3. CASE MediaDone
  BY <1>3 DEF MediaDone, Quiet, Calm, lifeVars
<1>4. ASSUME NEW l \in Legs, Complete(l)
      PROVE  Quiet /\ (Head(tx[l]).by = "P" \/ Still)
  <2>1. Completes(l)  BY <1>4 DEF Complete, TxOk, TxNoOpenDc, TxError
  <2>2. PICK s : SetState(l, s)
    BY <1>4 DEF Complete, TxOk, TxNoOpenDc, TxError
  <2>3. Quiet  BY <2>1, <2>2, SetStatesQuiet DEF SetState, Completes
  <2>4. nFaults' = 0 => nFaults = 0
    BY <1>4 DEF Complete, TxOk, TxNoOpenDc, TxError, TypeOK
  <2>5. Head(tx[l]).by = "P" \/ Still
    BY <2>1, <2>4 DEF Completes, ResumeDrain, Still
  <2>6. QED  BY <2>3, <2>5
<1>5. ASSUME NEW l \in Legs, LoseChannel(l)  PROVE Quiet /\ Still
  BY <1>5 DEF LoseChannel, polyVars, lifeVars, Quiet, Calm, Still, TypeOK
<1>6. CASE RegistryDestroy
  BY <1>6 DEF RegistryDestroy, Dispose, Calm
<1>7. CASE RotateStart
  <2>1. PICK next, ev : SetStates(next, ev)  BY <1>7 DEF RotateStart
  <2>2. Still /\ UNCHANGED disposed  BY <1>7 DEF RotateStart, Still
  <2>3. QED  BY <2>1, <2>2, SetStatesQuiet
<1>8. ASSUME NEW why \in RetireReasons, Retire(why)  PROVE FALSE
  BY <1>8 DEF Retire, Dispose, Calm
<1>9. CASE UNCHANGED vars
  BY <1>9 DEF vars, polyVars, lifeVars, Quiet, Calm, Still
<1>10. QED
  BY <1>1, <1>2, <1>3, <1>4, <1>5, <1>6, <1>7, <1>8, <1>9 DEF Next

-----------------------------------------------------------------------------
\* A snapshot owes what the policy answers.
LEMMA DrainPassSnapshot ==
  ASSUME TypeOK, DrainPass
  PROVE  Snapshot'
<1> DEFINE q == reconcile(st, media, lastEvent)
<1>1. /\ media \in BOOLEAN /\ UNCHANGED <<st, media, nFaults>>
      /\ phase' = "exec" /\ todo' = q
  BY DEF TypeOK, DrainPass
<1>2. q \in Seq(LegalActions(st)) /\ Guarded(q, st)
  BY <1>1, ReconcileLegal, ReconcileGuarded
<1>3. \A l \in toEnd(st) : Has(q, Intent(l, "endCall"))
  <2>1. \A l \in toEnd(st) : l \in Legs  BY DEF toEnd
  <2>2. QED  BY <1>1, <2>1, TeardownHas, ReconcileTearsDown
<1>4. \A l \in Legs : st[l] = "endRequested" => Has(q, Intent(l, "ackEnd"))
  BY <1>1, TeardownHas, ReconcileTearsDown
<1>5. media /\ ~ BothInCall(st) => Has(q, Media("disconnect"))
  BY <1>1, TeardownHas, ReconcileTearsDown
<1>6. BothInCall(st) => /\ ~ Has(q, Media("disconnect"))
                        /\ ~ media => Has(q, Media("connect"))
  <2>1. SUFFICES ASSUME BothInCall(st)
                 PROVE  /\ ~ Has(q, Media("disconnect"))
                        /\ ~ media => Has(q, Media("connect"))
    OBVIOUS
  <2>2. Media("connect") # Media("disconnect")  BY DEF Media
  <2>3. q = When(~ media, Media("connect"))  BY <1>1, <2>1, ReconcileInCall
  <2> HIDE DEF q
  <2>4. QED  BY <2>2, <2>3, HasWhen
<1> HIDE DEF q
<1>7. PassLegal'  BY <1>1, <1>2 DEF PassLegal
<1>8. EndsDue'  BY <1>1, <1>3 DEF EndsDue, InPass
<1>9. AcksDue'  BY <1>1, <1>4 DEF AcksDue, Due, InPass
<1>10. Recovered'  BY <1>1 DEF Recovered, InPass
<1>11. DropDue'  BY <1>1, <1>5 DEF DropDue, InPass
<1>12. DropRight'  BY <1>1, <1>6 DEF DropRight, Due, Awaits
<1>13. BridgeRight'  BY <1>1, <1>2 DEF BridgeRight, Awaits
<1>14. BridgeDue'  BY <1>1, <1>6 DEF BridgeDue, Due, InPass
<1>15. QED
  BY <1>7, <1>8, <1>9, <1>10, <1>11, <1>12, <1>13, <1>14 DEF Snapshot

LEMMA StillSnapshot ==
  ASSUME Snapshot, Quiet, Still
  PROVE  Snapshot'
<1>1. UNCHANGED <<st, phase, todo, cur, media>> /\ (nFaults' = 0 => nFaults = 0)
  BY DEF Quiet, Still
<1>2. PassLegal' /\ EndsDue'  BY <1>1 DEF Snapshot, PassLegal, EndsDue, InPass
<1>3. AcksDue'  BY <1>1 DEF Snapshot, AcksDue, Due, Awaits, InPass
<1>4. Recovered'  BY <1>1 DEF Snapshot, Recovered, InPass
<1>5. DropDue' /\ DropRight'
  BY <1>1 DEF Snapshot, DropDue, DropRight, Due, Awaits, InPass
<1>6. BridgeRight' /\ BridgeDue'
  BY <1>1 DEF Snapshot, BridgeRight, BridgeDue, Due, Awaits, InPass
<1>7. QED  BY <1>2, <1>3, <1>4, <1>5, <1>6 DEF Snapshot

\* An intent executed without changing a state ends nobody and answers nobody.
LEMMA QuietIntent ==
  ASSUME TypeOK, PassLegal, ExecuteIntent, Quiet, Calm'
  PROVE  /\ Head(todo) \in Action /\ Head(todo).on \in Legs
         /\ \A l \in toEnd(st) : Head(todo) # Intent(l, "endCall")
         /\ \A l \in Legs : isCaller(st[l]) => Head(todo) # Intent(l, "answer")
         /\ \/ phase' = "exec" /\ \A l \in Legs : Head(todo) # Intent(l, "ackEnd")
            \/ phase' = "wait" /\ cur' = Head(todo)
<1> DEFINE k == Head(todo).on
           i == Head(todo).do
<1>1. phase = "exec" /\ todo # <<>> /\ k \in Legs /\ UNCHANGED disposed
  BY DEF ExecuteIntent, lifeVars
<1>2. Head(todo) \in LegalActions(st)
  BY <1>1, HeadTailProperties DEF PassLegal, InPass
<1>3. Head(todo) \in Action /\ isIntentLegal(st[k], i)
  BY <1>1, <1>2 DEF LegalActions
<1>4. st \in [Legs -> LegState]  BY DEF TypeOK
<1>5. CASE /\ IsIdempotent(k, i) /\ UNCHANGED phase
  <2>1. ~ (i = "ackEnd") /\ ~ (i = "answer")  BY <1>5 DEF IsIdempotent
  <2>2. i = "endCall" => st[k] = "ending"  BY <1>5 DEF IsIdempotent
  <2>3. \A l \in toEnd(st) : st[l] # "ending"
    BY DEF toEnd, needsEnding, TEARDOWN_STATES
  <2>4. QED
    BY <1>1, <1>3, <1>5, <2>1, <2>2, <2>3 DEF Intent
<1>6. CASE SetState(k, Entering(k, i)) /\ cur' = Head(todo) /\ phase' = "wait"
  <2>1. [st EXCEPT ![k] = Entering(k, i)] = st
    BY <1>1, <1>6, SetStatesQuiet DEF SetState
  <2>2. Entering(k, i) = st[k]  BY <1>1, <1>4, <2>1
  <2>3. i = "endCall" => st[k] = "ending"  BY <2>2 DEF Entering
  <2>4. i = "answer" => st[k] = "answering"  BY <2>2 DEF Entering
  <2>5. \A l \in toEnd(st) : st[l] # "ending"
    BY DEF toEnd, needsEnding, TEARDOWN_STATES
  <2>6. ~ isCaller("answering")  BY DEF isCaller
  <2>7. QED
    BY <1>1, <1>3, <1>6, <2>3, <2>4, <2>5, <2>6 DEF Intent
<1>7. QED  BY <1>3, <1>5, <1>6 DEF ExecuteIntent

LEMMA ExecuteIntentSnapshot ==
  ASSUME TypeOK, Snapshot, ExecuteIntent, Quiet, Calm'
  PROVE  Snapshot'
<1> DEFINE act == Head(todo)
<1>1. /\ phase = "exec" /\ todo # <<>> /\ todo' = Tail(todo)
      /\ UNCHANGED <<st, media, nFaults>>
  BY DEF ExecuteIntent, Quiet
<1>2. /\ act \in Action /\ act.on \in Legs
      /\ \A l \in toEnd(st) : act # Intent(l, "endCall")
      /\ \A l \in Legs : isCaller(st[l]) => act # Intent(l, "answer")
      /\ \/ phase' = "exec" /\ \A l \in Legs : act # Intent(l, "ackEnd")
         \/ phase' = "wait" /\ cur' = act
  BY QuietIntent DEF Snapshot
<1>3. todo \in Seq(LegalActions(st))
  BY <1>1 DEF Snapshot, PassLegal, InPass
<1>4. \A x : Has(todo, x) <=> act = x \/ Has(todo', x)
  BY <1>1, <1>3, HasTail
<1>5. InPass /\ InPass' /\ \A x : ~ Awaits(x)
  BY <1>1, <1>2 DEF InPass, Awaits
<1>6. \A op : act # Media(op)  BY <1>2 DEF Media, Legs
<1> HIDE DEF act
<1>7. PassLegal'
  BY <1>1, <1>3, HeadTailProperties DEF PassLegal
<1>8. EndsDue'  BY <1>1, <1>2, <1>4, <1>5 DEF Snapshot, EndsDue
<1>9. AcksDue'
  <2>1. SUFFICES ASSUME nFaults = 0, NEW l \in Legs, st[l] = "endRequested"
                 PROVE  Due(Intent(l, "ackEnd"))'
    BY <1>1 DEF AcksDue
  <2>2. Has(todo, Intent(l, "ackEnd"))
    BY <1>5, <2>1 DEF Snapshot, AcksDue, Due
  <2>3. Has(todo', Intent(l, "ackEnd")) \/ act = Intent(l, "ackEnd")
    BY <1>4, <2>2
  <2>4. QED  BY <1>2, <1>5, <2>3 DEF Due, Awaits
<1>10. Recovered'  BY <1>5 DEF Recovered
<1>11. DropDue'  BY <1>1, <1>4, <1>5, <1>6 DEF Snapshot, DropDue
<1>12. \A op : ~ Awaits(Media(op))'  BY <1>2, <1>6 DEF Awaits
<1>13. DropRight'  BY <1>1, <1>4, <1>5, <1>12 DEF Snapshot, DropRight, Due
<1>14. BridgeRight'
  <2>1. Guarded(todo', st)
    BY <1>1, <1>2, <1>3, <1>5, GuardedTail DEF Snapshot, BridgeRight, act
  <2>2. QED  BY <1>1, <1>12, <2>1 DEF BridgeRight
<1>15. BridgeDue'
  BY <1>1, <1>4, <1>5, <1>6 DEF Snapshot, BridgeDue, Due
<1>16. QED
  BY <1>7, <1>8, <1>9, <1>10, <1>11, <1>13, <1>14, <1>15 DEF Snapshot

LEMMA ExecuteMediaSnapshot ==
  ASSUME TypeOK, Snapshot, ExecuteMedia, Quiet
  PROVE  Snapshot'
<1> DEFINE act == Head(todo)
<1>1. /\ phase = "exec" /\ todo # <<>> /\ todo' = Tail(todo)
      /\ UNCHANGED <<st, nFaults>> /\ act.on = "media"
  BY DEF ExecuteMedia, Quiet
<1>2. act = Media("connect") \/ act = Media("disconnect")
  <2>1. act \in Action  BY TodoType DEF TypeOK, ExecuteMedia
  <2>2. QED  BY <1>1, <2>1 DEF Action, Media, Legs
<1>3. todo \in Seq(LegalActions(st))
  BY <1>1 DEF Snapshot, PassLegal, InPass
<1>4. \A x : Has(todo, x) <=> act = x \/ Has(todo', x)
  BY <1>1, <1>3, HasTail
<1>5. InPass /\ InPass' /\ \A x : ~ Awaits(x)
  BY <1>1 DEF InPass, Awaits, ExecuteMedia
<1>6. \A l \in Legs : \A i : act # Intent(l, i)  BY <1>1 DEF Intent, Legs
<1>7. \/ /\ act = Media("connect") /\ media
         /\ UNCHANGED media /\ phase' = "exec"
      \/ /\ act = Media("disconnect") /\ ~ media
         /\ UNCHANGED media /\ phase' = "exec"
      \/ /\ act = Media("connect") /\ ~ media
         /\ ~ media' /\ phase' = "wait" /\ cur' = act
      \/ /\ act = Media("disconnect") /\ media
         /\ ~ media' /\ phase' = "wait" /\ cur' = act
  BY <1>2 DEF ExecuteMedia, Media, TypeOK
<1>8. Media("connect") # Media("disconnect")  BY DEF Media
<1>9. Guarded(todo, st)  BY <1>5 DEF Snapshot, BridgeRight
<1>11. act = Media("connect") => BothInCall(st)
  <2>1. SUFFICES ASSUME act = Media("connect")  PROVE BothInCall(st)
    OBVIOUS
  <2>2. 1 \in DOMAIN todo /\ todo[1] = Media("connect")
    BY <1>1, <1>3, <2>1, SMT
  <2>3. BothInCall(st) \/ AnswersBefore(todo, st, 1)
    BY <1>9, <2>2 DEF Guarded
  <2>4. ~ AnswersBefore(todo, st, 1)  BY DEF AnswersBefore
  <2>5. QED  BY <2>3, <2>4
<1>12. act = Media("disconnect") => ~ BothInCall(st)
  BY <1>4, <1>5 DEF Snapshot, DropRight, Due
<1> HIDE DEF act
<1>13. PassLegal'  BY <1>1, <1>3, HeadTailProperties DEF PassLegal
<1>14. EndsDue'
  <2>1. \A l \in toEnd(st) : l \in Legs  BY DEF toEnd
  <2>2. QED  BY <1>1, <1>4, <1>5, <1>6, <2>1 DEF Snapshot, EndsDue
<1>15. AcksDue'  BY <1>1, <1>4, <1>5, <1>6 DEF Snapshot, AcksDue, Due
<1>16. Recovered'  BY <1>5 DEF Recovered
<1>17. DropDue'  BY <1>1, <1>4, <1>5, <1>7, <1>8 DEF Snapshot, DropDue
<1>18. DropRight'
  BY <1>1, <1>4, <1>5, <1>7, <1>8, <1>12 DEF Snapshot, DropRight, Due, Awaits
<1>19. BridgeRight'
  <2>1. Guarded(todo', st)
    BY <1>1, <1>3, <1>6, <1>9, GuardedTail DEF act
  <2>2. QED  BY <1>1, <1>7, <1>8, <1>11, <2>1 DEF BridgeRight, Awaits
<1>20. BridgeDue'
  BY <1>1, <1>4, <1>5, <1>7, <1>8, <1>12
     DEF Snapshot, BridgeDue, Due, Awaits
<1>21. QED
  BY <1>13, <1>14, <1>15, <1>16, <1>17, <1>18, <1>19, <1>20 DEF Snapshot

LEMMA MediaDoneSnapshot ==
  ASSUME TypeOK, Snapshot, Unbridged, MediaDone, Quiet
  PROVE  Snapshot'
<1>1. /\ phase = "wait" /\ phase' = "exec" /\ cur.on = "media" /\ ~ media
      /\ UNCHANGED <<st, todo>> /\ (nFaults' = 0 => nFaults = 0)
  BY DEF MediaDone, Quiet, Unbridged, TypeOK
<1>2. cur = Media("connect") \/ cur = Media("disconnect")
  BY <1>1 DEF TypeOK, Action, Media, Legs, NoAction
<1>3. /\ media' => cur = Media("connect")
      /\ ~ media' /\ nFaults' = 0 => cur = Media("disconnect")
  <2>1. nFaults \in Nat  BY DEF TypeOK
  <2>2. cur.do = "connect" <=> cur = Media("connect")
    BY <1>2 DEF Media
  <2>3. CASE media' = (cur.do = "connect")
    BY <1>2, <2>2, <2>3
  <2>4. CASE nFaults' = nFaults + 1 /\ UNCHANGED media
    BY <1>1, <2>1, <2>4
  <2>5. QED  BY <2>3, <2>4 DEF MediaDone
<1>4. InPass /\ InPass' /\ \A x : ~ Awaits(x)'
  BY <1>1 DEF InPass, Awaits
<1>5. \A l \in Legs : \A i : ~ Awaits(Intent(l, i))
  BY <1>1 DEF Awaits, Intent, Legs
<1>6. PassLegal' /\ EndsDue'
  BY <1>1, <1>4 DEF Snapshot, PassLegal, EndsDue
<1>7. AcksDue'  BY <1>1, <1>4, <1>5 DEF Snapshot, AcksDue, Due
<1>8. Recovered'  BY <1>4 DEF Recovered
<1>9. DropDue'
  <2>1. media' => BothInCall(st)
    BY <1>1, <1>3 DEF Snapshot, BridgeRight, Awaits
  <2>2. QED  BY <1>1, <2>1 DEF DropDue
<1>10. DropRight'  BY <1>1, <1>4 DEF Snapshot, DropRight, Due
<1>11. BridgeRight'  BY <1>1, <1>4 DEF Snapshot, BridgeRight
<1>12. BridgeDue'
  <2>1. ~ media' /\ nFaults' = 0 => ~ BothInCall(st)
    BY <1>1, <1>3, <1>4 DEF Snapshot, DropRight, Due, Awaits
  <2>2. QED  BY <1>1, <2>1 DEF BridgeDue
<1>13. QED  BY <1>6, <1>7, <1>8, <1>9, <1>10, <1>11, <1>12 DEF Snapshot

\* The end of a pass leaves nothing due, and a leg that can recover does.
LEMMA EndPassSnapshot ==
  ASSUME TypeOK, Snapshot, EndPass, Quiet, Calm'
  PROVE  Snapshot'
<1>1. /\ phase = "exec" /\ phase' = "loop" /\ todo = <<>>
      /\ UNCHANGED <<st, todo, media, nFaults, disposed>>
      /\ SetStates(Recover(Recover(st, "a"), "b"), "disconnected")
  BY DEF EndPass, Quiet, lifeVars
<1>2. InPass /\ ~ InPass' /\ \A x : ~ Due(x) /\ ~ Due(x)'
  BY <1>1, HasEmpty DEF InPass, Due, Awaits
<1>3. \A x : ~ Has(todo, x)  BY <1>1, HasEmpty
<1>4. Recovered'
  <2> DEFINE s == Recover(st, "a")
  <2>1. st \in [Legs -> LegState]  BY DEF TypeOK
  <2>2. Recover(s, "b") = st  BY <1>1, SetStatesQuiet
  <2>3. Peer("a") = "b" /\ Peer("b") = "a"  BY DEF Peer
  <2>4. ~ (st["a"] = "failed" /\ ~ isActiveCall(st["b"]))
    <3>1. SUFFICES ASSUME st["a"] = "failed", ~ isActiveCall(st["b"])
                   PROVE  FALSE
      OBVIOUS
    <3>2. s = [st EXCEPT !["a"] = "disconnected"]
      BY <2>3, <3>1 DEF Recover
    <3>3. s \in [Legs -> LegState] /\ s["a"] = "disconnected"
      BY <2>1, <3>2 DEF Legs, LegState
    <3> HIDE DEF s
    <3>4. Recover(s, "b")["a"] = "disconnected"
      BY <3>3 DEF Recover, Legs
    <3>5. QED  BY <2>2, <3>1, <3>4
  <2>5. s = st  BY <2>3, <2>4 DEF Recover
  <2> HIDE DEF s
  <2>6. ~ (st["b"] = "failed" /\ ~ isActiveCall(st["a"]))
    <3>1. SUFFICES ASSUME st["b"] = "failed", ~ isActiveCall(st["a"])
                   PROVE  FALSE
      OBVIOUS
    <3>2. st = [st EXCEPT !["b"] = "disconnected"]
      BY <2>2, <2>3, <2>5, <3>1 DEF Recover
    <3>3. QED  BY <2>1, <3>1, <3>2 DEF Legs
  <2>7. QED  BY <1>1, <2>3, <2>4, <2>6 DEF Recovered, Legs
<1>5. PassLegal' /\ EndsDue'
  BY <1>1, <1>2, <1>3 DEF Snapshot, PassLegal, EndsDue
<1>6. AcksDue'  BY <1>1, <1>2 DEF Snapshot, AcksDue
<1>7. DropDue'  BY <1>1, <1>3 DEF Snapshot, DropDue
<1>8. DropRight' /\ BridgeRight'
  BY <1>1, <1>2 DEF DropRight, BridgeRight, Awaits
<1>9. BridgeDue'  BY <1>1, <1>2 DEF Snapshot, BridgeDue
<1>10. QED
  BY <1>4, <1>5, <1>6, <1>7, <1>8, <1>9 DEF Snapshot

LEMMA DrainEndSnapshot ==
  ASSUME Snapshot, DrainEnd
  PROVE  Snapshot'
<1>1. ~ InPass /\ ~ InPass' /\ UNCHANGED <<st, media, nFaults>>
      /\ phase' # "wait"
  BY DEF DrainEnd, InPass
<1>2. \A x : ~ Due(x) /\ ~ Due(x)'  BY <1>1 DEF Due
<1>3. PassLegal' /\ EndsDue' /\ Recovered' /\ DropDue'
  BY <1>1 DEF Snapshot, PassLegal, EndsDue, Recovered, DropDue
<1>4. AcksDue' /\ BridgeDue'
  BY <1>1, <1>2 DEF Snapshot, AcksDue, BridgeDue
<1>5. DropRight' /\ BridgeRight'
  BY <1>1, <1>2 DEF DropRight, BridgeRight, Awaits
<1>6. QED  BY <1>3, <1>4, <1>5 DEF Snapshot

\* An acknowledgement that completes changes its leg or has failed.
LEMMA AckCompletes ==
  ASSUME TypeOK, NEW l \in Legs, Complete(l), Head(tx[l]) = AckOp,
         st[l] = "endRequested", Quiet, Calm'
  PROVE  nFaults' # 0
<1>1. ~ NeedsPc(l, AckOp) /\ ~ AckOp.doomed /\ AckOp.by = "P"
      /\ Landing(l, AckOp) = "connected"
  BY DEF NeedsPc, AckOp, Op, Landing
<1>2. st \in [Legs -> LegState] /\ nFaults \in Nat  BY DEF TypeOK
<1>3. UNCHANGED disposed
  BY DEF Complete, TxOk, TxNoOpenDc, TxError, Completes
<1>4. ASSUME NEW s, s # "endRequested", SetState(l, s)  PROVE FALSE
  <2>1. [st EXCEPT ![l] = s] = st
    BY <1>3, <1>4, SetStatesQuiet DEF SetState
  <2>2. QED  BY <1>2, <1>4, <2>1
<1>5. CASE TxOk(l)
  <2>1. SetState(l, "connected")  BY <1>1, <1>5 DEF TxOk
  <2>2. QED  BY <1>4, <2>1
<1>6. CASE TxNoOpenDc(l)
  <2>1. SetState(l, "disconnected")  BY <1>1, <1>6 DEF TxNoOpenDc
  <2>2. QED  BY <1>4, <2>1
<1>7. CASE TxError(l)
  BY <1>1, <1>2, <1>7 DEF TxError
<1>8. QED  BY <1>5, <1>6, <1>7 DEF Complete

LEMMA CompleteSnapshot ==
  ASSUME TypeOK, DrainWaitsForOne, Snapshot, AckWork, NEW l \in Legs,
         Complete(l), Head(tx[l]).by = "P", Quiet, Calm'
  PROVE  Snapshot'
<1>1. Completes(l)  BY DEF Complete, TxOk, TxNoOpenDc, TxError
<1>2. tx[l] \in Seq(Ops) /\ tx[l] # <<>>  BY <1>1 DEF TypeOK, Completes
<1>3. 1 \in Issued(tx[l]) /\ tx[l][1] = Head(tx[l])
  BY <1>2, IssuedTail, SMT
<1>4. phase = "wait" /\ cur.on = l
  BY <1>3, WaitsForEach DEF WaitsFor
<1>5. /\ phase' = "exec" /\ UNCHANGED <<st, todo, media>>
      /\ (nFaults' = 0 => nFaults = 0)
  BY <1>1 DEF Completes, ResumeDrain, Quiet, Complete, TxOk, TxNoOpenDc,
              TxError, TypeOK
<1>6. InPass /\ InPass' /\ \A x : ~ Awaits(x)'
  BY <1>4, <1>5 DEF InPass, Awaits
<1>7. \A op : ~ Awaits(Media(op))  BY <1>4 DEF Awaits, Media, Legs
<1>8. PassLegal' /\ EndsDue' /\ DropDue'
  BY <1>5, <1>6 DEF Snapshot, PassLegal, EndsDue, DropDue
<1>9. AcksDue'
  <2>1. SUFFICES ASSUME nFaults' = 0, NEW k \in Legs, st[k] = "endRequested"
                 PROVE  Has(todo, Intent(k, "ackEnd"))
    BY <1>5, <1>6 DEF AcksDue, Due
  <2>2. Due(Intent(k, "ackEnd"))
    BY <1>5, <2>1 DEF Snapshot, AcksDue
  <2>3. CASE cur = Intent(k, "ackEnd")
    <3>1. k = l  BY <1>4, <2>3 DEF Intent
    <3>2. Head(tx[l]) = AckOp
      BY <1>3, <2>3, <3>1 DEF AckWork, AckChain
    <3>3. QED  BY <2>1, <3>1, <3>2, AckCompletes
  <2>4. QED  BY <2>2, <2>3 DEF Due, Awaits
<1>10. Recovered'  BY <1>6 DEF Recovered
<1>11. DropRight'  BY <1>5, <1>6 DEF Snapshot, DropRight, Due
<1>12. BridgeRight'  BY <1>5, <1>6 DEF Snapshot, BridgeRight
<1>13. BridgeDue'  BY <1>5, <1>6, <1>7 DEF Snapshot, BridgeDue, Due
<1>14. QED
  BY <1>8, <1>9, <1>10, <1>11, <1>12, <1>13 DEF Snapshot

-----------------------------------------------------------------------------
LEMMA UnbridgedStep ==
  ASSUME TypeOK, Unbridged, [Next]_vars
  PROVE  Unbridged'
<1>1. CASE UNCHANGED <<media, phase, cur>>  BY <1>1 DEF Unbridged
<1>2. CASE ~ media'  BY <1>2 DEF Unbridged
<1>3. CASE phase' # "wait"  BY <1>3 DEF Unbridged
<1>4. CASE cur'.on # "media"  BY <1>4 DEF Unbridged
<1>5. CASE Ingress
  BY <1>1, <1>5, IngressDelivers DEF IsDelivery, Deliver
<1>6. CASE Drain
  <2>1. CASE DrainPass  BY <1>3, <2>1 DEF DrainPass
  <2>2. CASE ExecuteIntent
    BY <1>1, <1>4, <2>2 DEF ExecuteIntent, Legs
  <2>3. CASE ExecuteMedia  BY <1>1, <1>2, <2>3 DEF ExecuteMedia
  <2>4. CASE EndPass  BY <1>3, <2>4 DEF EndPass
  <2>5. CASE DrainEnd  BY <1>3, <2>5 DEF DrainEnd
  <2>6. QED  BY <1>6, <2>1, <2>2, <2>3, <2>4, <2>5 DEF Drain
<1>7. CASE MediaDone  BY <1>3, <1>7 DEF MediaDone
<1>8. ASSUME NEW l \in Legs, Complete(l)  PROVE Unbridged'
  BY <1>1, <1>3, <1>8
     DEF Complete, TxOk, TxNoOpenDc, TxError, Completes, ResumeDrain
<1>9. ASSUME NEW l \in Legs, LoseChannel(l)  PROVE Unbridged'
  BY <1>1, <1>9 DEF LoseChannel, polyVars
<1>10. CASE RegistryDestroy  BY <1>2, <1>10 DEF RegistryDestroy, Dispose
<1>11. CASE RotateStart  BY <1>1, <1>11 DEF RotateStart
<1>12. ASSUME NEW why \in RetireReasons, Retire(why)  PROVE Unbridged'
  BY <1>2, <1>12 DEF Retire, Dispose
<1>13. CASE UNCHANGED vars  BY <1>1, <1>13 DEF vars, polyVars
<1>14. QED
  BY <1>5, <1>6, <1>7, <1>8, <1>9, <1>10, <1>11, <1>12, <1>13 DEF Next

LEMMA AckChainConcat ==
  ASSUME NEW p \in Seq(Ops), NEW q \in Seq(ClientOps), AckChain(p)
  PROVE  AckChain(p \o q)
<1>1. q \in Seq(Ops)  BY SeqMonotonic DEF ClientOps
<1>2. Issued(p \o q) = Issued(p)  BY IssuedConcat
<1>3. \A k \in DOMAIN p : (p \o q)[k] = p[k]  BY <1>1, SMT
<1>4. QED  BY <1>2, <1>3 DEF AckChain, Issued

LEMMA AckChainAppend ==
  ASSUME NEW q \in Seq(Ops), NEW op \in Ops, AckChain(q), op.by # "P" \/ op = AckOp
  PROVE  AckChain(Append(q, op))
<1>1. Issued(Append(q, op)) = Issued(q) \cup IF op.by = "P" THEN {Len(q) + 1} ELSE {}
  BY IssuedAppend
<1>2. /\ \A k \in DOMAIN q : Append(q, op)[k] = q[k]
      /\ Append(q, op)[Len(q) + 1] = op
  BY AppendProperties, SMT
<1>3. QED  BY <1>1, <1>2 DEF AckChain, Issued

LEMMA AckChainTail ==
  ASSUME NEW q \in Seq(Ops), q # <<>>, AckChain(q)
  PROVE  AckChain(Tail(q))
<1>1. SUFFICES ASSUME NEW k \in Issued(Tail(q))  PROVE Tail(q)[k] = AckOp
  BY DEF AckChain
<1>2. k + 1 \in Issued(q)  BY <1>1, IssuedTail
<1>3. k \in DOMAIN Tail(q)  BY <1>1 DEF Issued
<1>4. Tail(q)[k] = q[k + 1]  BY <1>3, SMT
<1>5. QED  BY <1>2, <1>4 DEF AckChain

\* The disposal dooms an INVITE, never an acknowledgement.
LEMMA AckChainInFlight ==
  ASSUME TypeOK, NEW l \in Legs, NEW found, AckChain(tx[l])
  PROVE  AckChain(InFlight(found)[l])
<1>1. CASE InFlight(found)[l] = tx[l]  BY <1>1
<1>2. CASE InFlight(found)[l] # tx[l]
  <2> DEFINE op == [Head(tx[l]) EXCEPT !.doomed = TRUE]
             q == <<op>> \o Tail(tx[l])
  <2>1. InFlight(found)[l] = q /\ tx[l] # <<>> /\ Head(tx[l]).m = "ring"
    BY <1>2 DEF InFlight
  <2>2. tx[l] \in Seq(Ops)  BY DEF TypeOK
  <2>3. Head(tx[l]).by # "P"
    <3>1. Head(tx[l]) # AckOp  BY <2>1 DEF AckOp, Op
    <3>2. 1 \notin Issued(tx[l])
      <4>1. tx[l][1] = Head(tx[l])  BY <2>1, <2>2, SMT
      <4>2. QED  BY <3>1, <4>1 DEF AckChain
    <3>3. QED  BY <2>1, <2>2, <3>2, IssuedTail
  <2>4. Head(tx[l]) \in Ops /\ Tail(tx[l]) \in Seq(Ops)
    BY <2>1, <2>2, HeadTailProperties
  <2>5. op.by # "P"  BY <2>3, <2>4 DEF Ops
  <2>6. \A k \in DOMAIN q : k # 1 => k \in DOMAIN tx[l] /\ q[k] = tx[l][k]
    BY <2>1, <2>2, <2>4, SMT
  <2>7. q[1] = op  BY <2>4, SMT
  <2> HIDE DEF q, op
  <2>8. QED  BY <2>1, <2>5, <2>6, <2>7 DEF AckChain, Issued
<1>3. QED  BY <1>1, <1>2

LEMMA AckWorkStep ==
  ASSUME TypeOK, DrainWaitsForOne, AckWork, [Next]_vars
  PROVE  AckWork'
<1> USE DEF AckWork
<1>1. ASSUME cur' = cur \/ cur' = NoAction,
             \A l \in Legs : AckChain(tx[l]) => AckChain(tx'[l])
      PROVE  AckWork'
  <2>1. \A l \in Legs : NoAction # Intent(l, "ackEnd")
    BY DEF NoAction, Intent
  <2>2. QED  BY <1>1, <2>1
<1>2. CASE Ingress
  <2>1. PICK k \in Legs, ops \in Seq(ClientOps) :
          tx' = [tx EXCEPT ![k] = @ \o ops] /\ UNCHANGED cur
    BY <1>2, IngressDelivers DEF IsDelivery, Deliver
  <2>2. \A l \in Legs : tx'[l] = IF l = k THEN tx[l] \o ops ELSE tx[l]
    BY <2>1 DEF TypeOK
  <2>3. \A l \in Legs : AckChain(tx[l]) => AckChain(tx'[l])
    BY <2>2, AckChainConcat DEF TypeOK
  <2>4. QED  BY <1>1, <2>1, <2>3
<1>3. CASE DrainPass \/ EndPass \/ DrainEnd \/ MediaDone
  BY <1>1, <1>3 DEF DrainPass, EndPass, DrainEnd, MediaDone
<1>4. CASE ExecuteMedia
  <2>1. UNCHANGED tx /\ (cur' = cur \/ cur'.on = "media")
    BY <1>4 DEF ExecuteMedia
  <2>2. \A l \in Legs : cur'.on = "media" => cur' # Intent(l, "ackEnd")
    BY DEF Intent, Legs
  <2>3. QED  BY <1>1, <2>1, <2>2
<1>5. CASE ExecuteIntent
  <2>1. CASE UNCHANGED <<tx, cur>>  BY <1>1, <2>1
  <2>2. CASE /\ Enqueue(Head(todo).on, WorkOf(Head(todo).on, Head(todo).do, "P"))
             /\ cur' = Head(todo)
    <3>1. ASSUME NEW l \in Legs  PROVE Issued(tx[l]) = {}
      BY <1>5, <3>1, WaitsForEach DEF ExecuteIntent, WaitsFor
    <3>2. SUFFICES ASSUME NEW l \in Legs, cur' = Intent(l, "ackEnd")
                   PROVE  AckChain(tx'[l])
      OBVIOUS
    <3>3. Head(todo).on = l /\ Head(todo).do = "ackEnd"
      BY <2>2, <3>2 DEF Intent
    <3>4. WorkOf(l, "ackEnd", "P") = AckOp
      <4>1. TransportWork(l, "ackEnd", "P") = AckOp
        BY DEF TransportWork, AckOp
      <4>2. WorkOf(l, "ackEnd", "P") = [AckOp EXCEPT !.doomed = FALSE]
        BY <4>1 DEF WorkOf
      <4>3. QED  BY <4>2 DEF AckOp, Op
    <3>5. tx'[l] = Append(tx[l], AckOp)
      BY <2>2, <3>3, <3>4 DEF Enqueue, TypeOK
    <3>6. AckOp \in Ops  BY DEF AckOp, Op, Ops, Methods, Goals, LegState
    <3>7. AckChain(tx[l])  BY <3>1 DEF AckChain
    <3>8. QED  BY <3>5, <3>6, <3>7, AckChainAppend DEF TypeOK
  <2>3. QED  BY <1>5, <2>1, <2>2 DEF ExecuteIntent
<1>6. ASSUME NEW l \in Legs, Complete(l)  PROVE AckWork'
  <2>1. Completes(l)  BY <1>6 DEF Complete, TxOk, TxNoOpenDc, TxError
  <2>2. cur' = cur \/ cur' = NoAction  BY <2>1 DEF Completes, ResumeDrain
  <2>3. tx[l] \in Seq(Ops) /\ tx[l] # <<>>
        /\ \A k \in Legs : tx'[k] = IF k = l THEN Tail(tx[l]) ELSE tx[k]
    BY <2>1 DEF Completes, TypeOK
  <2>4. \A k \in Legs : AckChain(tx[k]) => AckChain(tx'[k])
    BY <2>3, AckChainTail
  <2>5. QED  BY <1>1, <2>2, <2>4
<1>7. ASSUME NEW l \in Legs, LoseChannel(l)  PROVE AckWork'
  BY <1>1, <1>7 DEF LoseChannel, polyVars
<1>8. ASSUME NEW found, Dispose(found)  PROVE AckWork'
  <2>1. UNCHANGED cur /\ tx' = InFlight(found)  BY <1>8 DEF Dispose
  <2>2. QED  BY <1>1, <2>1, AckChainInFlight
<1>9. CASE RotateStart
  <2>1. UNCHANGED cur  BY <1>9 DEF RotateStart
  <2>2. ASSUME NEW l \in Legs, AckChain(tx[l])  PROVE AckChain(tx'[l])
    <3>1. /\ WorkOf(l, "endCall", "rotate") \in Ops
          /\ WorkOf(l, "endCall", "rotate").by = "rotate"
      BY WorkOfType DEF TypeOK, Intents
    <3>2. \/ tx'[l] = tx[l]
          \/ tx'[l] = Append(tx[l], WorkOf(l, "endCall", "rotate"))
      BY <1>9 DEF RotateStart
    <3>3. QED  BY <2>2, <3>1, <3>2, AckChainAppend DEF TypeOK
  <2>3. QED  BY <1>1, <2>1, <2>2
<1>10. CASE UNCHANGED vars  BY <1>1, <1>10 DEF vars, polyVars
<1>11. QED
  BY <1>2, <1>3, <1>4, <1>5, <1>6, <1>7, <1>8, <1>9, <1>10
     DEF Next, Drain, RegistryDestroy, Retire

-----------------------------------------------------------------------------
(***************************************************************************)
(* The inductive invariant, and what it says of a settled session.         *)
(***************************************************************************)

SnapshotHolds == (Calm => Snapshot) /\ Unbridged /\ AckWork

LEMMA InitSnapshot == Init => SnapshotHolds
<1> SUFFICES ASSUME Init  PROVE SnapshotHolds
  OBVIOUS
<1>1. /\ ~ media /\ phase = "idle" /\ \A l \in Legs : st[l] = "disconnected"
      /\ cur = NoAction
  BY DEF Init
<1>2. ~ InPass /\ \A x : ~ Due(x)  BY <1>1 DEF InPass, Due
<1>3. toEnd(st) = {}
  BY <1>1 DEF toEnd, Legs, isTeardown, TEARDOWN_STATES, Peer
<1>4. ~ BothInCall(st)  BY <1>1 DEF BothInCall, Legs
<1>5. PassLegal /\ EndsDue /\ AcksDue /\ Recovered
  BY <1>1, <1>2, <1>3 DEF PassLegal, EndsDue, AcksDue, Recovered
<1>6. DropDue /\ DropRight /\ BridgeRight /\ BridgeDue
  BY <1>1, <1>2, <1>4 DEF DropDue, DropRight, BridgeRight, BridgeDue, Awaits
<1>7. Unbridged /\ AckWork
  BY <1>1 DEF Unbridged, AckWork, NoAction, Intent
<1>8. QED  BY <1>5, <1>6, <1>7 DEF SnapshotHolds, Snapshot

LEMMA NextSnapshot ==
  TypeOK /\ DrainWaitsForOne /\ Converges /\ SnapshotHolds /\ [Next]_vars
    => SnapshotHolds'
<1> SUFFICES ASSUME TypeOK, DrainWaitsForOne, Converges, SnapshotHolds, [Next]_vars
             PROVE  SnapshotHolds'
  OBVIOUS
<1>1. Unbridged' /\ AckWork'
  BY UnbridgedStep, AckWorkStep DEF SnapshotHolds
<1>2. ASSUME Calm'  PROVE Snapshot'
  <2>1. CASE DrainPass  BY <2>1, DrainPassSnapshot
  <2>2. CASE DrainEnd
    <3>1. Calm
      BY <1>2, <2>2 DEF DrainEnd, Calm, lifeVars, Converges, TypeOK
    <3>2. QED  BY <2>2, <3>1, DrainEndSnapshot DEF SnapshotHolds
  <2>3. ASSUME Quiet
        PROVE  Snapshot /\ Unbridged /\ AckWork
    BY <2>3 DEF SnapshotHolds, Quiet
  <2>4. CASE Quiet /\ Still  BY <2>3, <2>4, StillSnapshot
  <2>5. CASE Quiet /\ ExecuteIntent
    BY <1>2, <2>3, <2>5, ExecuteIntentSnapshot
  <2>6. CASE Quiet /\ ExecuteMedia  BY <2>3, <2>6, ExecuteMediaSnapshot
  <2>7. CASE Quiet /\ MediaDone  BY <2>3, <2>7, MediaDoneSnapshot
  <2>8. CASE Quiet /\ EndPass  BY <1>2, <2>3, <2>8, EndPassSnapshot
  <2>9. ASSUME NEW l \in Legs, Quiet, Complete(l), Head(tx[l]).by = "P"
        PROVE  Snapshot'
    BY <1>2, <2>3, <2>9, CompleteSnapshot
  <2>10. QED
    BY <1>2, <2>1, <2>2, <2>4, <2>5, <2>6, <2>7, <2>8, <2>9, CalmStep
<1>3. QED  BY <1>1, <1>2 DEF SnapshotHolds

LEMMA SnapshotInvariant == Spec /\ []Converges => []SnapshotHolds
BY InitSnapshot, NextSnapshot, TypeCorrect, OneOperationAwaited, PTL DEF Spec

\* A settled session rests outside a pass and is calm.
LEMMA SettledIsCalm ==
  ASSUME Settled, SnapshotHolds
  PROVE  Snapshot /\ ~ InPass /\ \A x : ~ Due(x)
BY DEF Settled, SnapshotHolds, Calm, InPass, Due

\* While no drain is cut off by its pass limit, nobody is left in a call alone
\* once everything has settled (ReconcileRules.reconcile, the second teardown
\* rule): the pass that saw the call fall apart ended the other leg.
THEOREM NobodyIsLeftInCall == Spec /\ []Converges => []NoLoneCall
<1>1. SnapshotHolds => NoLoneCall
  <2> SUFFICES ASSUME SnapshotHolds, Settled, NEW l \in Legs, st[l] = "inCall"
               PROVE  callViable(st[Peer(l)])
    BY DEF NoLoneCall
  <2>1. l \notin toEnd(st)  BY SettledIsCalm DEF Snapshot, EndsDue
  <2>2. QED  BY <2>1 DEF toEnd
<1>2. QED  BY <1>1, SnapshotInvariant, PTL

\* Under the same hypothesis media is bridged, once everything has settled, only
\* between two legs in call, and, unless something failed, always then
\* (PolySession._executeMedia).
THEOREM MediaFollowsTheCall == Spec /\ []Converges => []MediaMatchesCall
<1>1. SnapshotHolds => MediaMatchesCall
  <2> SUFFICES ASSUME SnapshotHolds, Settled
               PROVE  /\ media => BothInCall(st)
                      /\ BothInCall(st) /\ nFaults = 0 => media
    BY DEF MediaMatchesCall
  <2>1. Snapshot /\ ~ InPass /\ \A x : ~ Due(x)  BY SettledIsCalm
  <2>2. QED  BY <2>1 DEF Snapshot, DropDue, BridgeDue
<1>2. QED  BY <1>1, SnapshotInvariant, PTL

\* Under the same hypothesis no leg rests in endRequested while no operation
\* has failed: every end of a client was acknowledged (SessionLeg.ackEnd).
THEOREM EveryEndIsAcknowledged == Spec /\ []Converges => []EndAcknowledged
<1>1. SnapshotHolds => EndAcknowledged
  <2> SUFFICES ASSUME SnapshotHolds, Settled, nFaults = 0, NEW l \in Legs
               PROVE  st[l] # "endRequested"
    BY DEF EndAcknowledged
  <2>1. Snapshot /\ \A x : ~ Due(x)  BY SettledIsCalm
  <2>2. QED  BY <2>1 DEF Snapshot, AcksDue
<1>2. QED  BY <1>1, SnapshotInvariant, PTL

\* Under the same hypothesis no leg rests in failed next to a peer without a
\* call (PolySession._recoverFailedLegs).
THEOREM FailedLegsRecover == Spec /\ []Converges => []NoFailedLegAtRest
<1>1. SnapshotHolds => NoFailedLegAtRest
  BY SettledIsCalm DEF NoFailedLegAtRest, Snapshot, Recovered
<1>2. QED  BY <1>1, SnapshotInvariant, PTL

-----------------------------------------------------------------------------
(***************************************************************************)
(* The minute counter.  The hooks that run it are attached with the first  *)
(* event and again with every offer and inbound call (webRTCmanager.js),   *)
(* while the counter runs on: billing follows the call only in sessions    *)
(* whose hooks stay the same, those made for an outbound call to which no  *)
(* inbound one is added, and those without prepaid calls.                  *)
(***************************************************************************)

OutboundOnly ==
  "inbound" \notin Events /\ \A l \in Legs : isSip(Peer(l)) => Role[l] \in {"caller", "sip"}

\* The session calls a telephone number and is metered for it.
Prepaid == Metered /\ \E l \in Legs : ~ isSip(l) /\ isSip(Peer(l))

BillingInv ==
  /\ metered = Prepaid
  /\ ~ disposed => (billing <=> metered /\ callActive)
  /\ Calm /\ phase = "idle" => (callActive <=> BothInCall(st))

\* The hooks that are attached anew are those that are attached already.
LEMMA HooksStay ==
  ASSUME OutboundOnly \/ ~ Metered, metered = Prepaid, Ingress
  PROVE  UNCHANGED metered
<1>1. Metered \in BOOLEAN  BY MeteredAssumption
<1>2. ASSUME NEW l \in Legs, OnOffer(l)  PROVE UNCHANGED metered
  <2>1. metered' = (Metered /\ isSip(Peer(l))) /\ ~ isSip(l)  BY <1>2 DEF OnOffer
  <2>2. \A k \in Legs : ~ isSip(k) /\ isSip(Peer(k)) => k = l \/ isSip(l)
    BY DEF Legs, Peer
  <2>3. Prepaid <=> Metered /\ isSip(Peer(l))
    BY <2>1, <2>2 DEF Prepaid
  <2>4. QED  BY <2>1, <2>3, <1>1 DEF Prepaid
<1>3. ASSUME NEW l \in Legs, OnInboundCall(l),
             "inbound" \in Events \/ Role[Peer(l)] = "adopt"
      PROVE  UNCHANGED metered
  <2>1. CASE ~ Metered
    BY <1>3, <2>1 DEF OnInboundCall, Prepaid
  <2>2. CASE OutboundOnly
    <3>1. Peer(l) \in Legs /\ Peer(Peer(l)) = l  BY DEF Peer, Legs
    <3>2. isSip(l)  BY <1>3 DEF OnInboundCall
    <3>3. QED  BY <1>3, <2>2, <3>1, <3>2 DEF OutboundOnly
  <2>3. QED  BY <2>1, <2>2
<1>4. ASSUME NEW l \in Legs, OnInboundCall(l), nIngress > 0
      PROVE  "inbound" \in Events
  BY <1>4 DEF OnInboundCall
<1>5. QED
  BY <1>2, <1>3, <1>4
     DEF Ingress, OnTransportOpen, OnCalleeClosed, OnTransportClosed,
         TransportClose, OnAnswer, OnEnd, OnRemoteBye, OnCancel, OnReject,
         OnHttpCancel, Decline, OnMinuteCutoff

LEMMA BillingStep ==
  ASSUME TypeOK, OutboundOnly \/ ~ Metered, BillingInv, [Next]_vars
  PROVE  BillingInv'
<1>1. metered' = Prepaid
  <2>1. CASE Ingress  BY <2>1, HooksStay DEF BillingInv
  <2>2. CASE UNCHANGED metered  BY <2>2 DEF BillingInv
  <2>3. Ingress \/ UNCHANGED metered
    BY DEF Next, Drain, DrainPass, ExecuteIntent, ExecuteMedia, EndPass, DrainEnd,
           MediaDone, Complete, TxOk, TxNoOpenDc, TxError, Completes, LoseChannel,
           RegistryDestroy, RotateStart, Retire, Dispose, hookVars, vars
  <2>4. QED  BY <2>1, <2>2, <2>3
<1>2. UNCHANGED metered  BY <1>1 DEF BillingInv
<1>3. DrainEnd \/ disposed' \/ UNCHANGED <<billing, callActive, disposed>>
  <2>1. Ingress => UNCHANGED <<billing, callActive, disposed>>
    BY IngressDelivers DEF IsDelivery, Deliver
  <2>2. QED
    BY <2>1
       DEF Next, Drain, DrainPass, ExecuteIntent, ExecuteMedia, EndPass,
           MediaDone, Complete, TxOk, TxNoOpenDc, TxError, Completes, LoseChannel,
           RegistryDestroy, RotateStart, Retire, Dispose, hookVars, lifeVars, vars
<1>4. ASSUME ~ disposed'
      PROVE  billing' <=> metered' /\ callActive'
  <2>1. CASE UNCHANGED <<billing, callActive, disposed>>
    BY <1>2, <1>4, <2>1 DEF BillingInv
  <2>2. CASE DrainEnd
    <3>1. UNCHANGED disposed  BY <2>2 DEF DrainEnd, lifeVars
    <3>2. callActive \in BOOLEAN /\ callActive' \in BOOLEAN
          /\ metered \in BOOLEAN /\ billing \in BOOLEAN
      BY <2>2, DrainEndType DEF TypeOK
    <3>3. \/ callActive' # callActive /\ metered /\ billing' = callActive'
          \/ (callActive' = callActive \/ ~ metered) /\ UNCHANGED billing
      BY <2>2 DEF DrainEnd, SettleCallActivity
    <3>4. QED  BY <1>2, <1>4, <3>1, <3>2, <3>3 DEF BillingInv
  <2>3. QED  BY <1>3, <1>4, <2>1, <2>2
<1>5. ASSUME Calm', phase' = "idle"
      PROVE  callActive' <=> BothInCall(st')
  <2>1. CASE DrainEnd
    BY <2>1 DEF DrainEnd, SettleCallActivity
  <2>2. CASE Quiet /\ UNCHANGED <<phase, callActive>>
    BY <1>5, <2>2 DEF BillingInv, Quiet
  <2>3. CASE ~ DrainEnd
    <3>1. UNCHANGED callActive  BY <1>3, <1>5, <2>3 DEF Calm
    <3>2. Quiet /\ Still
      <4>1. ~ DrainPass /\ ~ ExecuteMedia /\ ~ MediaDone /\ ~ EndPass
        BY <1>5 DEF DrainPass, ExecuteMedia, MediaDone, EndPass
      <4>2. ~ ExecuteIntent  BY <1>5 DEF ExecuteIntent
      <4>3. ASSUME NEW l \in Legs, Complete(l), Head(tx[l]).by = "P"  PROVE FALSE
        BY <1>5, <4>3
           DEF Complete, TxOk, TxNoOpenDc, TxError, Completes, ResumeDrain
      <4>4. QED  BY <1>5, <2>3, <4>1, <4>2, <4>3, CalmStep
    <3>3. QED  BY <2>2, <3>1, <3>2 DEF Still
  <2>4. QED  BY <2>1, <2>3
<1>6. QED  BY <1>1, <1>4, <1>5 DEF BillingInv

\* In a session made for an outbound call, and where no call is prepaid, the
\* minute counter runs, once everything has settled, exactly while the two legs
\* of a prepaid call are in call (PolySession._settleCallActivity), whatever
\* failed, and also after a drain that was cut off.
THEOREM BillingFollowsTheCall ==
  ASSUME OutboundOnly \/ ~ Metered
  PROVE  Spec => []BillingMatchesCall
<1>1. Init => BillingInv
  <2> SUFFICES ASSUME Init  PROVE BillingInv
    OBVIOUS
  <2>1. metered = Prepaid
    <3>1. CASE ~ Metered  BY <3>1 DEF Init, Prepaid
    <3>2. CASE OutboundOnly
      <4>1. \A l \in Legs : isSip(Peer(l)) /\ ~ isSip(l) => Role[l] = "caller"
        BY <3>2 DEF OutboundOnly, isSip
      <4>2. \A l \in Legs : Role[l] = "caller" => ~ isSip(l)  BY DEF isSip
      <4>3. QED  BY <4>1, <4>2 DEF Init, Prepaid
    <3>3. QED  BY <3>1, <3>2
  <2>2. ~ billing /\ ~ callActive /\ ~ BothInCall(st)
    BY DEF Init, BothInCall, Legs
  <2>3. QED  BY <2>1, <2>2 DEF BillingInv
<1>2. TypeOK /\ BillingInv /\ [Next]_vars => BillingInv'
  BY BillingStep
<1>3. BillingInv => BillingMatchesCall
  BY DEF BillingInv, BillingMatchesCall, Settled, Calm
<1>4. QED
  BY <1>1, <1>2, <1>3, TypeCorrect, PTL DEF Spec

-----------------------------------------------------------------------------
(***************************************************************************)
(* What the chains hold: only an intent of the drain brings a transport    *)
(* up, and no operation leaves its leg in connecting.                      *)
(***************************************************************************)

OpSound(op, l) ==
  /\ op.by # "P" => op.m \notin {"connect", "ring", "answer"}
  /\ op.goal # "connecting"
  /\ op.by = "cancel" => "httpCancel" \in Events
  /\ op.m = "connect" =>
       ~ op.sends /\ op.goal = IF Role[l] = "caller" THEN "connected" ELSE "keep"

ChainSound(q, l) == \A k \in DOMAIN q : OpSound(q[k], l)

ChainsSound == \A l \in Legs : ChainSound(tx[l], l)

\* The places of a chain after each of the ways it changes.
LEMMA ChainConcat ==
  ASSUME NEW p \in Seq(Ops), NEW q \in Seq(ClientOps), NEW l
  PROVE  /\ ChainSound(p, l) => ChainSound(p \o q, l)
         /\ \A k \in DOMAIN p : k \in DOMAIN (p \o q) /\ (p \o q)[k] = p[k]
<1>1. q \in Seq(Ops)  BY SeqMonotonic DEF ClientOps
<1>2. /\ DOMAIN (p \o q) = 1 .. Len(p) + Len(q)
      /\ DOMAIN p = 1 .. Len(p) /\ Len(p) \in Nat
      /\ DOMAIN q = 1 .. Len(q) /\ Len(q) \in Nat
  BY <1>1, SMT
<1>3. \A k \in 1 .. Len(p) + Len(q) :
        (p \o q)[k] = IF k <= Len(p) THEN p[k] ELSE q[k - Len(p)]
  BY <1>1, ConcatProperties
<1>4. \A k \in DOMAIN p : k \in DOMAIN (p \o q) /\ (p \o q)[k] = p[k]
  BY <1>2, <1>3
<1>5. ASSUME NEW k \in DOMAIN q  PROVE OpSound(q[k], l)
  <2>1. q[k] \in ClientOps  BY <1>2, <1>5, ElementOfSeq
  <2>2. QED  BY <2>1 DEF ClientOps, OpSound
<1>6. ASSUME ChainSound(p, l), NEW k \in 1 .. Len(p) + Len(q)
      PROVE  OpSound((p \o q)[k], l)
  <2>1. CASE k <= Len(p)
    <3>1. k \in DOMAIN p /\ (p \o q)[k] = p[k]  BY <1>2, <1>3, <1>6, <2>1
    <3>2. QED  BY <1>6, <3>1 DEF ChainSound
  <2>2. CASE ~ (k <= Len(p))
    <3>1. k - Len(p) \in DOMAIN q /\ (p \o q)[k] = q[k - Len(p)]
      BY <1>2, <1>3, <1>6, <2>2
    <3>2. QED  BY <1>5, <3>1
  <2>3. QED  BY <2>1, <2>2
<1>7. QED  BY <1>2, <1>4, <1>6 DEF ChainSound

LEMMA ChainAppend ==
  ASSUME NEW q \in Seq(Ops), NEW op \in Ops, NEW l
  PROVE  /\ ChainSound(q, l) /\ OpSound(op, l) => ChainSound(Append(q, op), l)
         /\ \A k \in DOMAIN q :
              k \in DOMAIN Append(q, op) /\ Append(q, op)[k] = q[k]
         /\ \E k \in DOMAIN Append(q, op) : Append(q, op)[k] = op
<1>1. /\ Len(q) \in Nat /\ DOMAIN q = 1 .. Len(q)
      /\ DOMAIN Append(q, op) = 1 .. Len(q) + 1
      /\ \A k \in 1 .. Len(q) : Append(q, op)[k] = q[k]
      /\ Append(q, op)[Len(q) + 1] = op
  BY AppendProperties, SMT
<1>2. \A k \in 1 .. Len(q) + 1 : k \in 1 .. Len(q) \/ k = Len(q) + 1
  BY <1>1
<1>3. Len(q) + 1 \in 1 .. Len(q) + 1 /\ \A k \in 1 .. Len(q) : k \in 1 .. Len(q) + 1
  BY <1>1
<1>4. QED  BY <1>1, <1>2, <1>3 DEF ChainSound

LEMMA ChainTail ==
  ASSUME NEW q \in Seq(Ops), q # <<>>, NEW l
  PROVE  /\ ChainSound(q, l) => ChainSound(Tail(q), l) /\ OpSound(Head(q), l)
         /\ \A k \in DOMAIN q :
              q[k] = Head(q) \/ \E j \in DOMAIN Tail(q) : Tail(q)[j] = q[k]
<1>1. /\ DOMAIN q = 1 .. Len(q) /\ Len(q) \in Nat \ {0} /\ Head(q) = q[1]
      /\ DOMAIN Tail(q) = 1 .. Len(q) - 1
      /\ \A k \in 1 .. Len(q) - 1 : Tail(q)[k] = q[k + 1]
  BY SMT
<1>2. ASSUME NEW k \in DOMAIN q, k # 1
      PROVE  k - 1 \in DOMAIN Tail(q) /\ Tail(q)[k - 1] = q[k]
  <2>1. k - 1 \in 1 .. Len(q) - 1 /\ (k - 1) + 1 = k  BY <1>1, <1>2
  <2>2. QED  BY <1>1, <2>1
<1>3. \A k \in DOMAIN Tail(q) : k + 1 \in DOMAIN q  BY <1>1
<1>4. 1 \in DOMAIN q  BY <1>1
<1>5. QED  BY <1>1, <1>2, <1>3, <1>4 DEF ChainSound

LEMMA ChainInFlight ==
  ASSUME TypeOK, NEW l \in Legs, NEW found, ChainSound(tx[l], l)
  PROVE  ChainSound(InFlight(found)[l], l)
<1>1. CASE InFlight(found)[l] = tx[l]  BY <1>1
<1>2. CASE InFlight(found)[l] # tx[l]
  <2> DEFINE op == [Head(tx[l]) EXCEPT !.doomed = TRUE]
             q == <<op>> \o Tail(tx[l])
  <2>1. InFlight(found)[l] = q /\ tx[l] # <<>>
    BY <1>2 DEF InFlight
  <2>2. tx[l] \in Seq(Ops)  BY DEF TypeOK
  <2>3. Head(tx[l]) \in Ops /\ Tail(tx[l]) \in Seq(Ops) /\ OpSound(Head(tx[l]), l)
    BY <2>1, <2>2, HeadTailProperties, ChainTail
  <2>4. OpSound(op, l)
    <3>1. /\ op.by = Head(tx[l]).by /\ op.m = Head(tx[l]).m
          /\ op.goal = Head(tx[l]).goal /\ op.sends = Head(tx[l]).sends
      BY <2>3 DEF Ops
    <3> HIDE DEF op
    <3>2. QED  BY <2>3, <3>1 DEF OpSound
  <2>5. \A k \in DOMAIN q : k # 1 => k \in DOMAIN tx[l] /\ q[k] = tx[l][k]
    BY <2>1, <2>2, <2>3, SMT
  <2>6. q[1] = op  BY <2>3, SMT
  <2> HIDE DEF q, op
  <2>7. QED  BY <2>1, <2>4, <2>5, <2>6 DEF ChainSound
<1>3. QED  BY <1>1, <1>2

\* The transport work of an intent is sound.
LEMMA WorkSound ==
  ASSUME NEW l \in Legs, NEW i \in Intents, removed \in BOOLEAN,
         NEW by \in {"P", "rotate"}, by = "P" \/ i = "endCall"
  PROVE  /\ OpSound(WorkOf(l, i, by), l)
         /\ ~ isSip(l) /\ i = "connect" => WorkOf(l, i, by).m = "connect"
<1> DEFINE t == TransportWork(l, i, by)
           w == WorkOf(l, i, by)
<1>1. /\ OpSound(t, l)
      /\ ~ isSip(l) /\ i = "connect" => t.m = "connect"
      /\ t \in [m : {t.m}, goal : {t.goal}, by : {t.by}, sends : {t.sends},
                doomed : {t.doomed}]
  <2>1. CASE i \in {"connect", "ring"} /\ isSip(l)
    <3>1. t = Op("ring", "invited", by, FALSE)  BY <2>1 DEF TransportWork
    <3> HIDE DEF t
    <3>2. QED  BY <2>1, <3>1 DEF Op, OpSound
  <2>2. CASE i = "connect" /\ ~ isSip(l)
    <3> DEFINE goal == IF Role[l] = "caller" THEN "connected" ELSE "keep"
    <3>1. t = Op("connect", goal, by, FALSE)  BY <2>2 DEF TransportWork
    <3>2. goal # "connecting" /\ by = "P"  BY <2>2
    <3> HIDE DEF t
    <3>3. QED  BY <2>2, <3>1, <3>2 DEF Op, OpSound
  <2>3. CASE i = "answer"
    <3>1. t = Op("answer", "inCall", by, TRUE)  BY <2>3 DEF TransportWork
    <3> HIDE DEF t
    <3>2. QED  BY <2>3, <3>1 DEF Op, OpSound
  <2>4. CASE i = "ackEnd"
    <3>1. t = Op("ackEnd", "connected", by, TRUE)  BY <2>4 DEF TransportWork
    <3> HIDE DEF t
    <3>2. QED  BY <2>4, <3>1 DEF Op, OpSound
  <2>5. CASE i = "endCall"
    <3>1. t = Op("endCall", "end", by, TRUE)  BY <2>5 DEF TransportWork
    <3> HIDE DEF t
    <3>2. QED  BY <2>5, <3>1 DEF Op, OpSound
  <2>6. CASE ~ (i \in {"connect", "ring"} /\ isSip(l))
             /\ i \in {"ring", "ackConnected", "ackRing"}
    <3>1. t = Op(i, "keep", by, i # "ackRing")  BY <2>6 DEF TransportWork
    <3> HIDE DEF t
    <3>2. QED  BY <2>6, <3>1 DEF Op, OpSound
  <2>7. QED  BY <2>1, <2>2, <2>3, <2>4, <2>5, <2>6 DEF Intents
<1>2. /\ w.m = t.m /\ w.goal = t.goal /\ w.by = t.by /\ w.sends = t.sends
  <2>1. t \in [m : {t.m}, goal : {t.goal}, by : {t.by}, sends : {t.sends},
               doomed : {t.doomed}]
    BY <1>1
  <2> HIDE DEF t
  <2>2. QED  BY <2>1 DEF WorkOf, t
<1> HIDE DEF t, w
<1>3. OpSound(w, l)  BY <1>1, <1>2 DEF OpSound
<1>4. QED  BY <1>1, <1>2, <1>3 DEF w

LEMMA ChainsSoundStep ==
  ASSUME TypeOK, ChainsSound, [Next]_vars
  PROVE  ChainsSound'
<1>1. ASSUME \A l \in Legs : ChainSound(tx[l], l) => ChainSound(tx'[l], l)
      PROVE  ChainsSound'
  BY <1>1 DEF ChainsSound
<1>2. ASSUME UNCHANGED tx  PROVE ChainsSound'
  BY <1>1, <1>2
<1>3. CASE Ingress
  <2>1. PICK k \in Legs, ops \in Seq(ClientOps) :
          tx' = [tx EXCEPT ![k] = @ \o ops]
    BY <1>3, IngressDelivers DEF IsDelivery, Deliver
  <2>2. \A l \in Legs : tx'[l] = IF l = k THEN tx[l] \o ops ELSE tx[l]
    BY <2>1 DEF TypeOK
  <2>3. \A l \in Legs : ChainSound(tx[l], l) => ChainSound(tx'[l], l)
    BY <2>2, ChainConcat DEF TypeOK
  <2>4. QED  BY <1>1, <2>3
<1>4. CASE ExecuteIntent
  <2> DEFINE l == Head(todo).on
             work == WorkOf(l, Head(todo).do, "P")
  <2>1. CASE UNCHANGED tx  BY <1>2, <2>1
  <2>2. CASE tx' = [tx EXCEPT ![l] = Append(@, work)]
    <3>1. l \in Legs /\ Head(todo).do \in Intents /\ removed \in BOOLEAN
      BY <1>4, HeadTailProperties DEF ExecuteIntent, TypeOK, Action, Legs
    <3>2. work \in Ops /\ OpSound(work, l)
      BY <3>1, WorkOfType, WorkSound
    <3> HIDE DEF work, l
    <3>3. \A k \in Legs : tx'[k] = IF k = l THEN Append(tx[k], work) ELSE tx[k]
      BY <2>2, <3>1 DEF TypeOK
    <3>4. ASSUME NEW k \in Legs, ChainSound(tx[k], k)
          PROVE  ChainSound(tx'[k], k)
      <4>1. tx[k] \in Seq(Ops)  BY DEF TypeOK
      <4>2. CASE k = l  BY <3>2, <3>3, <3>4, <4>1, <4>2, ChainAppend
      <4>3. CASE k # l  BY <3>3, <3>4, <4>3
      <4>4. QED  BY <4>2, <4>3
    <3>5. QED  BY <1>1, <3>4
  <2>3. QED  BY <1>4, <2>1, <2>2 DEF ExecuteIntent, Enqueue
<1>5. ASSUME NEW l \in Legs, Complete(l)  PROVE ChainsSound'
  <2>1. Completes(l)  BY <1>5 DEF Complete, TxOk, TxNoOpenDc, TxError
  <2>2. tx[l] \in Seq(Ops) /\ tx[l] # <<>>
        /\ \A k \in Legs : tx'[k] = IF k = l THEN Tail(tx[l]) ELSE tx[k]
    BY <2>1 DEF Completes, TypeOK
  <2>3. \A k \in Legs : ChainSound(tx[k], k) => ChainSound(tx'[k], k)
    BY <2>2, ChainTail
  <2>4. QED  BY <1>1, <2>3
<1>6. ASSUME NEW found, Dispose(found)  PROVE ChainsSound'
  BY <1>1, <1>6, ChainInFlight DEF Dispose
<1>7. CASE RotateStart
  <2>1. ASSUME NEW l \in Legs, ChainSound(tx[l], l)  PROVE ChainSound(tx'[l], l)
    <3>1. "endCall" \in Intents /\ removed \in BOOLEAN  BY DEF Intents, TypeOK
    <3>2. /\ WorkOf(l, "endCall", "rotate") \in Ops
          /\ OpSound(WorkOf(l, "endCall", "rotate"), l)
      BY <3>1, WorkOfType, WorkSound
    <3>3. \/ tx'[l] = tx[l]
          \/ tx'[l] = Append(tx[l], WorkOf(l, "endCall", "rotate"))
      BY <1>7 DEF RotateStart
    <3>4. tx[l] \in Seq(Ops)  BY DEF TypeOK
    <3>5. QED  BY <2>1, <3>2, <3>3, <3>4, ChainAppend
  <2>2. QED  BY <1>1, <2>1
<1>8. CASE DrainPass \/ ExecuteMedia \/ EndPass \/ DrainEnd \/ MediaDone
  BY <1>2, <1>8 DEF DrainPass, ExecuteMedia, EndPass, DrainEnd, MediaDone
<1>9. ASSUME NEW l \in Legs, LoseChannel(l)  PROVE ChainsSound'
  BY <1>2, <1>9 DEF LoseChannel
<1>10. CASE UNCHANGED vars  BY <1>2, <1>10 DEF vars
<1>11. QED
  BY <1>3, <1>4, <1>5, <1>6, <1>7, <1>8, <1>9, <1>10
     DEF Next, Drain, RegistryDestroy, Retire

LEMMA ChainsAreSound == Spec => []ChainsSound
<1>1. Init => ChainsSound
  BY DEF Init, ChainsSound, ChainSound
<1>2. QED  BY <1>1, ChainsSoundStep, TypeCorrect, PTL DEF Spec

-----------------------------------------------------------------------------
(***************************************************************************)
(* The invite of a leg that is connecting.  The session of an adopted leg  *)
(* was invited before the PolySession existed: the invite is not the leg's *)
(* and nothing here speaks of it.                                          *)
(***************************************************************************)

\* What moves a connecting leg on: the connect is queued, or the channel of the
\* connection it made is still to open.
Invited(l) ==
  /\ ~ isSip(l)
  /\ link[l] = "inviting" \/ \E k \in DOMAIN tx[l] : tx[l][k].m = "connect"

InviteInv ==
  /\ removed => disposed
  /\ ~ disposed => \A l \in Legs : st[l] = "connecting" => Invited(l)

\* No event puts a leg into connecting or takes the invite of one away.
LEMMA IngressConnecting ==
  ASSUME TypeOK, Ingress, NEW k \in Legs, st'[k] = "connecting"
  PROVE  st[k] = "connecting" /\ (isSip(k) \/ link'[k] = link[k])
<1> DEFINE Goal == st[k] = "connecting" /\ (isSip(k) \/ link'[k] = link[k])
<1>1. ASSUME NEW l \in Legs, NEW now \in LegState, NEW ops, Deliver(l, now, ops)
      PROVE  st'[k] = IF k = l THEN now ELSE st[k]
  BY <1>1 DEF Deliver, SetState, SetStates, TypeOK
<1>2. ASSUME NEW l \in Legs, NEW now \in LegState, NEW ops, Deliver(l, now, ops),
             now # "connecting" \/ now = st[l], isSip(l) \/ UNCHANGED link,
             \A j \in Legs : j # l => link'[j] = link[j]
      PROVE  Goal
  BY <1>1, <1>2
<1>3. \A l \in Legs : st[l] \in LegState  BY DEF TypeOK
<1>4. {"connected", "failed", "endRequested", "canceling", "rejecting"}
        \subseteq LegState
  BY DEF LegState
<1>5. ASSUME NEW l \in Legs, OnTransportOpen(l)  PROVE Goal
  <2>1. PICK now \in LegState : Deliver(l, now, <<>>) /\ now # "connecting"
    BY <1>3, <1>4, <1>5 DEF OnTransportOpen
  <2>2. \A j \in Legs : j # l => link'[j] = link[j]
    BY <1>5 DEF OnTransportOpen, TypeOK
  <2>3. QED  BY <1>1, <2>1, <2>2
<1>6. ASSUME NEW l \in Legs, TransportClose(l)  PROVE Goal
  <2>1. PICK now \in LegState : Deliver(l, now, <<>>) /\ now # "connecting"
    BY <1>3, <1>4, <1>6 DEF TransportClose, isTeardown, TEARDOWN_STATES
  <2>2. \A j \in Legs : j # l => link'[j] = link[j]
    BY <1>6 DEF TransportClose, TypeOK
  <2>3. QED  BY <1>1, <2>1, <2>2
<1>7. ASSUME NEW l \in Legs, OnOffer(l) \/ OnAnswer(l)  PROVE Goal
  <2>1. PICK ops : Deliver(l, st[l], ops)  BY <1>7 DEF OnOffer, OnAnswer
  <2>2. UNCHANGED link  BY <1>7 DEF OnOffer, OnAnswer
  <2>3. QED  BY <1>2, <1>3, <2>1, <2>2
<1>8. ASSUME NEW l \in Legs, OnInboundCall(l) \/ OnRemoteBye(l)  PROVE Goal
  <2>1. PICK ops : Deliver(l, st[l], ops)  BY <1>8 DEF OnInboundCall, OnRemoteBye
  <2>2. isSip(l) /\ \A j \in Legs : j # l => link'[j] = link[j]
    BY <1>8 DEF OnInboundCall, OnRemoteBye, TypeOK
  <2>3. QED  BY <1>2, <1>3, <2>1, <2>2
<1>9. ASSUME NEW l \in Legs, NEW payload, HandleEnd(l, payload), UNCHANGED link
      PROVE  Goal
  <2>1. PICK now \in {st[l], "endRequested"} : \E ops : Deliver(l, now, ops)
    BY <1>9 DEF HandleEnd
  <2>2. QED  BY <1>2, <1>3, <1>4, <1>9, <2>1
<1>10. ASSUME NEW l \in Legs, NEW going \in {"canceling", "rejecting"}, NEW gone,
              NEW by, Decline(l, going, gone, by)
       PROVE  Goal
  <2>1. PICK now \in {st[l], going} : \E ops : Deliver(l, now, ops)
    BY <1>10 DEF Decline
  <2>2. UNCHANGED link  BY <1>10 DEF Decline
  <2>3. QED  BY <1>2, <1>3, <1>4, <2>1, <2>2
<1> HIDE DEF Goal
<1>11. Goal
  BY <1>5, <1>6, <1>7, <1>8, <1>9, <1>10
     DEF Ingress, OnCalleeClosed, OnTransportClosed, OnEnd, OnMinuteCutoff,
         OnCancel, OnReject, OnHttpCancel
<1>12. QED  BY <1>11 DEF Goal

LEMMA InviteStep ==
  ASSUME \A l \in Legs : Role[l] # "adopt",
         TypeOK, ChainsSound, InviteInv, [Next]_vars
  PROVE  InviteInv'
<1>1. removed' => disposed'
  <2>1. Ingress => UNCHANGED <<disposed, removed>>
    BY IngressDelivers DEF IsDelivery, Deliver
  <2>2. QED
    BY <2>1
       DEF InviteInv, Next, Drain, DrainPass, ExecuteIntent, ExecuteMedia, EndPass,
           DrainEnd, MediaDone, Complete, TxOk, TxNoOpenDc, TxError, Completes,
           LoseChannel, RegistryDestroy, RotateStart, Retire, Dispose, lifeVars,
           vars
<1>2. SUFFICES ASSUME ~ disposed', NEW l \in Legs, st'[l] = "connecting"
               PROVE  Invited(l)'
  BY <1>1 DEF InviteInv
<1>3. ~ disposed
  <2>1. Ingress => UNCHANGED disposed
    BY IngressDelivers DEF IsDelivery, Deliver
  <2>2. QED
    BY <1>2, <2>1
       DEF Next, Drain, DrainPass, ExecuteIntent, ExecuteMedia, EndPass,
           DrainEnd, MediaDone, Complete, TxOk, TxNoOpenDc, TxError, Completes,
           LoseChannel, RegistryDestroy, RotateStart, Retire, Dispose, lifeVars,
           vars
<1>4. st[l] = "connecting" => Invited(l)  BY <1>3 DEF InviteInv
<1>5. ASSUME st[l] = "connecting", isSip(l) \/ link'[l] = link[l],
             \A k \in DOMAIN tx[l] :
               k \in DOMAIN tx'[l] /\ tx'[l][k] = tx[l][k]
      PROVE  Invited(l)'
  BY <1>4, <1>5 DEF Invited, isSip
<1>6. ASSUME UNCHANGED <<st, tx, link>>  PROVE Invited(l)'
  BY <1>2, <1>5, <1>6
<1>7. CASE Ingress
  <2>1. PICK k \in Legs, ops \in Seq(ClientOps) :
          tx' = [tx EXCEPT ![k] = @ \o ops]
    BY <1>7, IngressDelivers DEF IsDelivery, Deliver
  <2>2. tx'[l] = IF l = k THEN tx[l] \o ops ELSE tx[l]
    BY <2>1 DEF TypeOK
  <2>3. \A j \in DOMAIN tx[l] : j \in DOMAIN tx'[l] /\ tx'[l][j] = tx[l][j]
    BY <2>2, ChainConcat DEF TypeOK
  <2>4. QED  BY <1>2, <1>5, <1>7, <2>3, IngressConnecting
<1>8. CASE ExecuteIntent
  <2> DEFINE k == Head(todo).on
             i == Head(todo).do
             work == WorkOf(k, i, "P")
  <2>1. k \in Legs /\ i \in Intents /\ removed \in BOOLEAN
    BY <1>8, HeadTailProperties DEF ExecuteIntent, TypeOK, Action, Legs
  <2>2. work \in Ops /\ (~ isSip(k) /\ i = "connect" => work.m = "connect")
    BY <2>1, WorkOfType, WorkSound
  <2>3. UNCHANGED link  BY <1>8 DEF ExecuteIntent
  <2>4. CASE UNCHANGED tx
    <3>1. st[l] = "connecting"
      BY <1>2, <1>8, <2>1, <2>4 DEF ExecuteIntent, SetState, SetStates, Enqueue,
         FailedIntent, TypeOK
    <3>2. QED  BY <1>5, <2>3, <2>4, <3>1
  <2>5. CASE /\ st' = [st EXCEPT ![k] = Entering(k, i)]
             /\ tx' = [tx EXCEPT ![k] = Append(@, work)]
    <3> HIDE DEF work, k, i
    <3>1. /\ tx'[l] = IF l = k THEN Append(tx[l], work) ELSE tx[l]
          /\ st'[l] = IF l = k THEN Entering(k, i) ELSE st[l]
      BY <2>1, <2>5 DEF TypeOK
    <3>2. \A j \in DOMAIN tx[l] : j \in DOMAIN tx'[l] /\ tx'[l][j] = tx[l][j]
      BY <2>2, <3>1, ChainAppend DEF TypeOK
    <3>3. CASE st[l] = "connecting"  BY <1>5, <2>3, <3>2, <3>3
    <3>4. CASE st[l] # "connecting"
      <4>1. l = k /\ Entering(k, i) = "connecting"  BY <1>2, <3>1, <3>4
      <4>2. i = "connect" /\ ~ isSip(l)
        BY <3>4, <4>1 DEF Entering
      <4>3. \E j \in DOMAIN tx'[l] : tx'[l][j] = work
        <5>1. tx[l] \in Seq(Ops)  BY DEF TypeOK
        <5>2. tx'[l] = Append(tx[l], work)  BY <3>1, <4>1
        <5>3. QED  BY <2>2, <5>1, <5>2, ChainAppend
      <4>4. QED  BY <2>2, <4>1, <4>2, <4>3 DEF Invited, isSip
    <3>5. QED  BY <3>3, <3>4
  <2>6. QED
    BY <1>8, <2>4, <2>5 DEF ExecuteIntent, SetState, SetStates, Enqueue
<1>9. ASSUME NEW k \in Legs, Complete(k)  PROVE Invited(l)'
  <2>1. Completes(k)  BY <1>9 DEF Complete, TxOk, TxNoOpenDc, TxError
  <2>2. tx[k] \in Seq(Ops) /\ tx[k] # <<>>
        /\ \A j \in Legs : tx'[j] = IF j = k THEN Tail(tx[k]) ELSE tx[j]
    BY <2>1 DEF Completes, TypeOK
  <2>3. CASE l # k
    <3>1. st'[l] = st[l] /\ link'[l] = link[l]
      BY <1>9, <2>3 DEF Complete, TxOk, TxNoOpenDc, TxError, SetState, SetStates,
         TypeOK
    <3>2. QED  BY <1>2, <1>5, <2>2, <2>3, <3>1
  <2>4. CASE l = k
    <3> DEFINE op == Head(tx[l])
    <3>0. tx[l] \in Seq(Ops) /\ tx[l] # <<>> /\ tx'[l] = Tail(tx[l])
      BY <2>2, <2>4
    <3>1. op \in Ops /\ OpSound(op, l)
      <4>1. ChainSound(tx[l], l)  BY DEF ChainsSound
      <4>2. op \in Ops  BY <3>0, HeadTailProperties
      <4>3. QED  BY <3>0, <4>1, <4>2, ChainTail
    <3>2. \A j \in DOMAIN tx[l] :
            tx[l][j] = op \/ \E m \in DOMAIN tx'[l] : tx'[l][m] = tx[l][j]
      <4> DEFINE q == tx[l]
      <4>1. q \in Seq(Ops) /\ q # <<>>  BY <3>0
      <4> HIDE DEF q
      <4>2. \A j \in DOMAIN q :
              q[j] = Head(q) \/ \E m \in DOMAIN Tail(q) : Tail(q)[m] = q[j]
        BY <4>1, ChainTail
      <4>3. tx'[l] = Tail(q) /\ tx[l] = q /\ op = Head(q)  BY <3>0 DEF q
      <4> HIDE DEF op
      <4>4. QED  BY <4>2, <4>3
    <3>3. /\ TxOk(l) => st'[l] = Landing(l, op) /\ link'[l] = LinkAfter(l, op)
          /\ TxNoOpenDc(l) => /\ NoOpenDc(l, op)
                              /\ st'[l] = IF op.by = "P" THEN "disconnected"
                                          ELSE st[l]
                              /\ UNCHANGED link
          /\ TxError(l) => /\ st'[l] = IF op.by = "P" THEN FailedIntent(l, op.m)
                                       ELSE st[l]
                           /\ UNCHANGED link
      BY DEF TxOk, TxNoOpenDc, TxError, SetState, SetStates, TypeOK
    <3>4. TxOk(l) \/ TxNoOpenDc(l) \/ TxError(l)  BY <1>9, <2>4 DEF Complete
    <3> HIDE DEF op
    <3>5. st[l] = "connecting"
      <4>1. Landing(l, op) = "connecting" => st[l] = "connecting"
        BY <3>1 DEF Landing, OpSound
      <4>2. FailedIntent(l, op.m) = "connecting" => st[l] = "connecting"
        BY DEF FailedIntent
      <4>3. QED  BY <1>2, <3>3, <3>4, <4>1, <4>2
    <3>6. ~ isSip(l)  BY <1>4, <3>5 DEF Invited
    <3>7. CASE op.m = "connect"
      <4>1. /\ op.by = "P" /\ ~ op.sends
            /\ op.goal = IF Role[l] = "caller" THEN "connected" ELSE "keep"
        BY <3>1, <3>7 DEF OpSound
      <4>2. ~ TxNoOpenDc(l)  BY <3>3, <4>1 DEF NoOpenDc
      <4>3. ~ TxError(l)
        BY <1>2, <3>3, <3>7, <4>1 DEF FailedIntent, FAIL_ON_ERROR_INTENTS
      <4>4. Role[l] # "caller"
        BY <1>2, <3>3, <3>4, <4>1, <4>2, <4>3 DEF Landing
      <4>5. Role[l] = "callee"
        BY <3>6, <4>4, RoleAssumption DEF Roles, isSip
      <4>6. ~ removed  BY <1>3 DEF InviteInv
      <4>7. link'[l] = "inviting"
        BY <3>3, <3>4, <3>6, <3>7, <4>2, <4>3, <4>5, <4>6 DEF LinkAfter
      <4>8. QED  BY <3>6, <4>7 DEF Invited, isSip
    <3>8. CASE op.m # "connect"
      <4>1. link'[l] = link[l]
        BY <3>3, <3>4, <3>6, <3>8 DEF LinkAfter
      <4>2. QED  BY <1>4, <3>2, <3>5, <3>8, <4>1 DEF Invited, isSip
    <3>9. QED  BY <3>7, <3>8
  <2>5. QED  BY <2>3, <2>4
<1>10. ASSUME NEW k \in Legs, LoseChannel(k)  PROVE Invited(l)'
  <2>1. /\ UNCHANGED <<st, tx>> /\ link[k] = "open"
        /\ link' = [link EXCEPT ![k] = "lost"]
    BY <1>10 DEF LoseChannel
  <2>2. Invited(l)  BY <1>2, <1>4, <2>1
  <2>3. link[l] = "inviting" => link'[l] = "inviting"  BY <2>1 DEF TypeOK
  <2>4. QED  BY <2>1, <2>2, <2>3 DEF Invited, isSip
<1>11. CASE RotateStart
  <2>1. UNCHANGED link /\ st[l] = "connecting"
    BY <1>2, <1>11 DEF RotateStart, SetStates
  <2>2. \/ tx'[l] = tx[l]
        \/ tx'[l] = Append(tx[l], WorkOf(l, "endCall", "rotate"))
    BY <1>11 DEF RotateStart
  <2>3. WorkOf(l, "endCall", "rotate") \in Ops
    BY WorkOfType DEF TypeOK, Intents
  <2>4. tx[l] \in Seq(Ops)  BY DEF TypeOK
  <2>5. \A j \in DOMAIN tx[l] : j \in DOMAIN tx'[l] /\ tx'[l][j] = tx[l][j]
    BY <2>2, <2>3, <2>4, ChainAppend
  <2>6. QED  BY <1>5, <2>1, <2>5
<1>12. CASE EndPass
  <2>1. UNCHANGED <<tx, link>> /\ st' = Recover(Recover(st, "a"), "b")
    BY <1>12 DEF EndPass, SetStates
  <2>2. st[l] = "connecting"
    BY <1>2, <2>1 DEF Recover, TypeOK
  <2>3. QED  BY <1>5, <2>1, <2>2
<1>13. CASE DrainPass \/ ExecuteMedia \/ DrainEnd \/ MediaDone
  BY <1>6, <1>13 DEF DrainPass, ExecuteMedia, DrainEnd, MediaDone
<1>14. ~ RegistryDestroy /\ \A why \in RetireReasons : ~ Retire(why)
  BY <1>2 DEF RegistryDestroy, Retire, Dispose
<1>15. CASE UNCHANGED vars  BY <1>6, <1>15 DEF vars
<1>16. QED
  BY <1>7, <1>8, <1>9, <1>10, <1>11, <1>12, <1>13, <1>14, <1>15 DEF Next, Drain

\* In a session that adopted no leg, a leg that rests in connecting has an
\* invite outstanding (SessionLeg.connect, OfferAnswerNegotiation.connect): no
\* event, no failure and no rotation leaves it there with nothing to wait for.
THEOREM ConnectingLegIsInvited ==
  ASSUME \A l \in Legs : Role[l] # "adopt"
  PROVE  Spec => []InviteOutstanding
<1>1. Init => InviteInv
  BY DEF Init, InviteInv
<1>2. TypeOK /\ ChainsSound /\ InviteInv /\ [Next]_vars => InviteInv'
  BY InviteStep
<1>3. InviteInv => InviteOutstanding
  BY DEF InviteInv, Invited, InviteOutstanding, Settled
<1>4. QED
  BY <1>1, <1>2, <1>3, TypeCorrect, ChainsAreSound, PTL DEF Spec

-----------------------------------------------------------------------------
(***************************************************************************)
(* What is left of a session.  A handler that waited for the session to    *)
(* settle disposes it between two drains, and finds its SIP dialog.  A     *)
(* cancel over HTTP that failed and the destruction by the registry wait   *)
(* for nothing: they are outside this section.                             *)
(***************************************************************************)

WaitsToRetire == "httpCancel" \notin Events /\ "destroy" \notin Events

Empty == ~ media /\ ~ billing /\ \A l \in Legs : link[l] = "none"

RetiredInv ==
  /\ retiring \subseteq {"close", "rotate"}
  /\ nIngress = 0 => ~ disposed /\ retiring = {}
  /\ disposed => ~ dirty /\ phase = "idle" /\ Empty

\* Before its first event a session does nothing.
Fresh ==
  nIngress = 0 => phase = "idle" /\ ~ dirty /\ \A l \in Legs : tx[l] = <<>>

\* The last conjunct of RetiredInv survives a step that writes none of its
\* variables.
LEMMA RetiredStill ==
  ASSUME RetiredInv, retiring' \subseteq {"close", "rotate"}, nIngress' > 0,
         nIngress \in Nat,
         UNCHANGED disposed,
         disposed => UNCHANGED <<dirty, phase, media, billing, link>>
  PROVE  RetiredInv'
BY SMT DEF RetiredInv, Empty

LEMMA RetiredIngress ==
  ASSUME WaitsToRetire, TypeOK, RetiredInv, Ingress
  PROVE  RetiredInv'
<1>1. PICK l \in Legs, now \in LegState, ops \in Seq(ClientOps) :
        Deliver(l, now, ops)
  BY IngressDelivers DEF IsDelivery
<1>2. nIngress \in Nat /\ nIngress' > 0 /\ UNCHANGED disposed
  BY <1>1 DEF Deliver, TypeOK
<1>3. retiring' \subseteq {"close", "rotate"}
  BY DEF RetiredInv, WaitsToRetire, Ingress, OnTransportOpen, OnCalleeClosed,
         OnTransportClosed, OnOffer, OnInboundCall, OnAnswer, OnEnd, OnRemoteBye,
         OnCancel, OnReject, OnHttpCancel, OnMinuteCutoff
<1>4. ASSUME disposed  PROVE UNCHANGED <<dirty, phase, media, billing, link>>
  <2>1. UNCHANGED <<dirty, phase, media, billing>>
    BY <1>1, <1>4 DEF Deliver, SetState, SetStates
  <2>2. nIngress # 0  BY <1>4 DEF RetiredInv
  <2>3. PICK k \in Legs : OnMinuteCutoff(k)  BY <1>4, <2>2 DEF Ingress
  <2>4. QED  BY <2>1, <2>3 DEF OnMinuteCutoff
<1>5. QED  BY <1>2, <1>3, <1>4, RetiredStill

\* What completes after the disposal brings no transport up.
LEMMA RetiredComplete ==
  ASSUME WaitsToRetire, TypeOK, DrainWaitsForOne, ChainsSound, RetiredInv,
         NEW l \in Legs, Complete(l), nIngress > 0
  PROVE  RetiredInv'
<1> DEFINE op == Head(tx[l])
<1>1. Completes(l)  BY DEF Complete, TxOk, TxNoOpenDc, TxError
<1>2. tx[l] \in Seq(Ops) /\ tx[l] # <<>>  BY <1>1 DEF Completes, TypeOK
<1>3. OpSound(op, l)
  <2>1. ChainSound(tx[l], l)  BY DEF ChainsSound
  <2>2. QED  BY <1>2, <2>1, ChainTail
<1>4. UNCHANGED <<media, billing, disposed, nIngress>> /\ nIngress \in Nat
  BY <1>1 DEF Completes, hookVars, TypeOK
<1>5. retiring' = retiring
  <2>1. op.by # "cancel"  BY <1>3 DEF OpSound, WaitsToRetire
  <2>2. QED  BY <2>1 DEF Complete, TxOk, TxNoOpenDc, TxError, ThrowToCaller
<1>6. ASSUME disposed  PROVE UNCHANGED <<dirty, phase, link>>
  <2>1. phase = "idle" /\ \A k \in Legs : link[k] = "none"
    BY <1>6 DEF RetiredInv, Empty
  <2>2. op.by # "P"
    <3>1. Issued(tx[l]) = {}
      BY <2>1, WaitsForEach DEF WaitsFor
    <3>2. 1 \in DOMAIN tx[l] /\ tx[l][1] = op  BY <1>2, SMT
    <3> HIDE DEF op
    <3>3. QED  BY <3>1, <3>2 DEF Issued
  <2>3. UNCHANGED phase  BY <1>1, <2>2 DEF Completes, ResumeDrain
  <2>4. UNCHANGED dirty
    BY <1>6 DEF Complete, TxOk, TxNoOpenDc, TxError, SetState, SetStates
  <2>5. link' = link \/ link' = [link EXCEPT ![l] = LinkAfter(l, op)]
    BY DEF Complete, TxOk, TxNoOpenDc, TxError
  <2>6. op.m \notin {"connect", "ring", "answer"}
    BY <1>3, <2>2 DEF OpSound
  <2> HIDE DEF op
  <2>7. LinkAfter(l, op) = link[l]
    BY <2>1, <2>6 DEF LinkAfter
  <2>8. link' = link  BY <2>5, <2>7 DEF TypeOK
  <2>9. QED  BY <2>3, <2>4, <2>8
<1>7. QED
  BY <1>4, <1>5, <1>6, RetiredStill DEF RetiredInv

LEMMA RetiredStep ==
  ASSUME WaitsToRetire, TypeOK, DrainWaitsForOne, ChainsSound, RetiredInv,
         Fresh, [Next]_vars
  PROVE  RetiredInv'
<1>1. CASE Ingress  BY <1>1, RetiredIngress
<1>2. CASE Drain \/ MediaDone
  <2>1. ~ disposed
    BY <1>2 DEF RetiredInv, Drain, DrainPass, ExecuteIntent, ExecuteMedia, EndPass,
       DrainEnd, MediaDone
  <2>2. UNCHANGED <<retiring, disposed, nIngress>>
    BY <1>2 DEF Drain, DrainPass, ExecuteIntent, ExecuteMedia, EndPass, DrainEnd,
       MediaDone, lifeVars
  <2>3. QED  BY <2>1, <2>2 DEF RetiredInv
<1>3. ASSUME NEW l \in Legs, Complete(l)  PROVE RetiredInv'
  <2>1. tx[l] # <<>>
    BY <1>3 DEF Complete, TxOk, TxNoOpenDc, TxError, Completes
  <2>2. nIngress > 0  BY <2>1 DEF TypeOK, Fresh
  <2>3. QED  BY <1>3, <2>2, RetiredComplete
<1>4. ASSUME NEW l \in Legs, LoseChannel(l)  PROVE RetiredInv'
  <2>1. ~ disposed  BY <1>4 DEF RetiredInv, Empty, LoseChannel
  <2>2. UNCHANGED <<retiring, disposed, nIngress>>
    BY <1>4 DEF LoseChannel, lifeVars
  <2>3. QED  BY <2>1, <2>2 DEF RetiredInv
<1>5. CASE RotateStart
  <2>1. ~ disposed' /\ nIngress' > 0 /\ retiring' = retiring \cup {"rotate"}
    BY <1>5 DEF RotateStart
  <2>2. QED  BY <2>1, SMT DEF RetiredInv
<1>6. ~ RegistryDestroy  BY DEF WaitsToRetire, RegistryDestroy
<1>7. ASSUME NEW why \in RetireReasons, Retire(why)  PROVE RetiredInv'
  <2>1. why \in {"close", "rotate"} /\ nIngress # 0
    BY <1>7 DEF Retire, CanRetire, RetiredInv
  <2>2. ~ dirty /\ phase = "idle"  BY <1>7, <2>1 DEF Retire, CanRetire
  <2>3. Dispose(TRUE)  BY <1>7, <2>1 DEF Retire
  <2>4. QED  BY <2>1, <2>2, <2>3 DEF Dispose, RetiredInv, Empty
<1>8. CASE UNCHANGED vars
  BY <1>8 DEF vars, polyVars, hookVars, lifeVars, RetiredInv, Empty
<1>9. QED  BY <1>1, <1>2, <1>3, <1>4, <1>5, <1>6, <1>7, <1>8 DEF Next

LEMMA FreshStep ==
  ASSUME TypeOK, WaitsToRetire, RetiredInv, Fresh, [Next]_vars
  PROVE  Fresh'
<1>1. CASE Ingress
  <2>1. nIngress' > 0
    BY <1>1, IngressDelivers DEF IsDelivery, Deliver, TypeOK
  <2>2. QED  BY <2>1 DEF Fresh
<1>2. CASE nIngress' # 0  BY <1>2 DEF Fresh
<1>3. ASSUME nIngress' = 0, ~ Ingress
      PROVE  nIngress = 0 /\ UNCHANGED <<phase, dirty, tx>>
  <2>1. nIngress = 0
    BY <1>3 DEF Next, Drain, DrainPass, ExecuteIntent, ExecuteMedia, EndPass,
       DrainEnd, MediaDone, Complete, TxOk, TxNoOpenDc, TxError, Completes,
       LoseChannel, RegistryDestroy, RotateStart, Retire, Dispose, vars
  <2>2. phase = "idle" /\ ~ dirty /\ (\A l \in Legs : tx[l] = <<>>) /\ retiring = {}
    BY <2>1 DEF RetiredInv, Fresh
  <2>3. QED
    BY <1>3, <2>1, <2>2
       DEF Next, Drain, DrainPass, ExecuteIntent, ExecuteMedia, EndPass,
           DrainEnd, MediaDone, Complete, TxOk, TxNoOpenDc, TxError, Completes,
           LoseChannel, RegistryDestroy, RotateStart, Retire, CanRetire, vars,
           polyVars
<1>4. QED  BY <1>1, <1>2, <1>3 DEF Fresh

\* A session that was disposed by a handler that had waited for it to settle
\* leaves nothing: no media, no counter, no transport, no dialog, whatever
\* completes or expires after the disposal (PolySession.dispose, SipLeg.dispose).
THEOREM RetiredSessionIsEmpty ==
  ASSUME WaitsToRetire
  PROVE  Spec => []RetiredIsEmpty
<1>1. Init => RetiredInv /\ Fresh
  BY DEF Init, RetiredInv, Fresh
<1>2. /\ TypeOK /\ DrainWaitsForOne /\ ChainsSound /\ RetiredInv /\ Fresh
      /\ [Next]_vars
      => RetiredInv' /\ Fresh'
  BY RetiredStep, FreshStep
<1>3. RetiredInv => RetiredIsEmpty
  BY DEF RetiredInv, Empty, RetiredIsEmpty
<1>4. QED
  BY <1>1, <1>2, <1>3, TypeCorrect, OneOperationAwaited, ChainsAreSound, PTL
     DEF Spec

-----------------------------------------------------------------------------
(***************************************************************************)
(* The dialog of a telephone leg, in a session whose client calls nobody:  *)
(* every call comes from the telephone network, and none is rotated away.  *)
(* The leg l is the telephone, its peer the client.                        *)
(***************************************************************************)

OnlyCalled == "offer" \notin Events /\ "rotate" \notin Events

\* The registry never makes a session between two telephones.
OneTelephone == \A l \in Legs : isSip(l) => ~ isSip(Peer(l))

Kind(op, m, goal, by) == op.m = m /\ op.goal = goal /\ op.by = by

\* The operations a telephone leg that only calls may hold.
PhoneOp(op) ==
  /\ ~ op.doomed
  /\ \/ Kind(op, "applyOffer", "calling", "client")
     \/ Kind(op, "endCall", "disconnected", "client")
     \/ Kind(op, "answer", "inCall", "P")
     \/ Kind(op, "endCall", "end", "P")
     \/ Kind(op, "ackConnected", "keep", "P")
     \/ Kind(op, "ackRing", "keep", "P")

\* The chain q holds an operation m.
Queued(q, m) == \E k \in DOMAIN q : q[k].m = m

\* Every operation of the chain q is the drain's.
AllIssued(q) == \A k \in DOMAIN q : q[k].by = "P"

\* The chain q holds an end that the drain issued.
EndIssued(q) == \E k \in DOMAIN q : q[k].m = "endCall" /\ q[k].by = "P"

\* What a call waits for is not overtaken: behind it come intents of the drain.
OfferLast(q) ==
  \A j, k \in DOMAIN q : q[j].m = "applyOffer" /\ j < k => q[k].by = "P"

\* The chain q, the state s and the dialog d of the telephone leg agree: unless
\* an end is on its way the dialog is up exactly in call, an answer is sent from
\* answering and an offer waits only on a leg without a call.
PhoneFits(q, s, d) ==
  /\ \A k \in DOMAIN q : PhoneOp(q[k])
  /\ s \in {"disconnected", "calling", "answering", "inCall", "ending", "failed"}
  /\ d \in {"none", "open", "lost"}
  /\ s \in {"calling", "answering"} => d = "none" /\ AllIssued(q)
  /\ d = "open" => s \in {"inCall", "ending"}
  /\ Queued(q, "endCall") \/ (d # "lost" /\ (d = "open" <=> s = "inCall"))
  /\ Queued(q, "answer") =>
       s = "answering" /\ ~ Queued(q, "endCall") /\ ~ Queued(q, "applyOffer")
  /\ Queued(q, "applyOffer") =>
       d = "none" /\ s \notin {"calling", "answering", "inCall"} /\ OfferLast(q)

\* Nothing in the pass addresses the leg l.
NothingFor(plan, l) == \A k \in DOMAIN plan : plan[k].on # l

\* What is left of a pass agrees with its telephone leg l and with the state t
\* of the client: it never calls the telephone, answers a leg without a dialog,
\* and rings the client only while the telephone calls and is not answered or
\* ended in the same breath.
PlanFits(l, plan, q, s, d, t) ==
  /\ ~ Has(plan, Intent(l, "connect")) /\ ~ Has(plan, Intent(l, "ring"))
  /\ \A i \in {"answer", "ackConnected", "ackRing"} :
       Has(plan, Intent(l, i)) => d = "none"
  /\ AnswerLast(plan, l)
  /\ Queued(q, "answer") => NothingFor(plan, l)
  /\ \/ Has(plan, Intent(l, "answer")) \/ Has(plan, Intent(l, "endCall"))
     \/ EndIssued(q)
     => t # "ringing" /\ ~ Has(plan, Intent(Peer(l), "ring"))
  /\ Has(plan, Intent(Peer(l), "ring")) \/ t = "ringing" => s = "calling"
  /\ t # "calling"

\* No operation of the chain q starts a call or a ring.
Rings == {"calling", "ringing", "invited"}

Unringing(q) == \A k \in DOMAIN q : q[k].goal \notin Rings

\* The hooks of an outbound call are attached only before the telephone calls.
Unbilled(l) ==
  /\ ~ cutoff
  /\ metered => st[l] = "disconnected" /\ tx[l] = <<>> /\ NothingFor(todo, l)

PhoneInv(l) ==
  /\ PhoneFits(tx[l], st[l], link[l])
  /\ PlanFits(l, todo, tx[l], st[l], link[l], st[Peer(l)])
  /\ Unringing(tx[Peer(l)])
  /\ Unbilled(l)

\* A session to which nothing has happened yet.
Untouched ==
  /\ phase = "idle" /\ ~ dirty /\ retiring = {} /\ ~ disposed
  /\ \A l \in Legs : st[l] = "disconnected" /\ tx[l] = <<>>

DialogInv ==
  /\ removed => disposed
  /\ nIngress = 0 => Untouched
  /\ ~ disposed => \A l \in Legs : isSip(l) => PhoneInv(l)

\* The operations of a chain without its head, and with one more.
LEMMA QueuedTail ==
  ASSUME NEW q \in Seq(Ops), q # <<>>
  PROVE  /\ \A m : Queued(q, m) <=> Head(q).m = m \/ Queued(Tail(q), m)
         /\ EndIssued(Tail(q)) => EndIssued(q)
         /\ Head(q).m = "endCall" /\ Head(q).by = "P" => EndIssued(q)
         /\ AllIssued(q) => AllIssued(Tail(q)) /\ Head(q).by = "P"
         /\ OfferLast(q) => OfferLast(Tail(q))
         /\ OfferLast(q) /\ Head(q).m = "applyOffer" => AllIssued(Tail(q))
         /\ (\A k \in DOMAIN q : PhoneOp(q[k])) =>
              PhoneOp(Head(q)) /\ \A k \in DOMAIN Tail(q) : PhoneOp(Tail(q)[k])
         /\ Unringing(q) => Unringing(Tail(q)) /\ Head(q).goal \notin Rings
<1>1. /\ DOMAIN q = 1 .. Len(q) /\ Len(q) \in Nat \ {0} /\ Head(q) = q[1]
      /\ DOMAIN Tail(q) = 1 .. Len(q) - 1
      /\ \A k \in 1 .. Len(q) - 1 : Tail(q)[k] = q[k + 1]
  BY SMT
<1>2. \A k \in DOMAIN Tail(q) :
        k + 1 \in DOMAIN q /\ 1 < k + 1 /\ Tail(q)[k] = q[k + 1]
  BY <1>1
<1>3. \A k \in DOMAIN q :
        k = 1 \/ (k - 1 \in DOMAIN Tail(q) /\ Tail(q)[k - 1] = q[k])
  <2>1. \A k \in DOMAIN q : k # 1 => k - 1 \in 1 .. Len(q) - 1 /\ (k - 1) + 1 = k
    BY <1>1
  <2>2. QED  BY <1>1, <2>1
<1>4. 1 \in DOMAIN q /\ Head(q) = q[1]  BY <1>1
<1>5. \A j, k \in DOMAIN Tail(q) : j < k => j + 1 < k + 1  BY <1>1
<1>6. \A m : Queued(q, m) <=> Head(q).m = m \/ Queued(Tail(q), m)
  BY <1>2, <1>3, <1>4, Zenon DEF Queued
<1>7. /\ EndIssued(Tail(q)) => EndIssued(q)
      /\ Head(q).m = "endCall" /\ Head(q).by = "P" => EndIssued(q)
  BY <1>2, <1>4 DEF EndIssued
<1>8. AllIssued(q) => AllIssued(Tail(q)) /\ Head(q).by = "P"
  BY <1>2, <1>4 DEF AllIssued
<1>9. OfferLast(q) => OfferLast(Tail(q))
  BY <1>2, <1>5 DEF OfferLast
<1>10. OfferLast(q) /\ Head(q).m = "applyOffer" => AllIssued(Tail(q))
  BY <1>2, <1>4 DEF OfferLast, AllIssued
<1>11. (\A k \in DOMAIN q : PhoneOp(q[k])) =>
         PhoneOp(Head(q)) /\ \A k \in DOMAIN Tail(q) : PhoneOp(Tail(q)[k])
  BY <1>2, <1>4
<1>12. Unringing(q) => Unringing(Tail(q)) /\ Head(q).goal \notin Rings
  BY <1>2, <1>4 DEF Unringing
<1>13. QED  BY <1>6, <1>7, <1>8, <1>9, <1>10, <1>11, <1>12

LEMMA QueuedAppend ==
  ASSUME NEW q \in Seq(Ops), NEW op \in Ops
  PROVE  /\ \A m : Queued(Append(q, op), m) <=> op.m = m \/ Queued(q, m)
         /\ EndIssued(Append(q, op)) <=>
              (op.m = "endCall" /\ op.by = "P") \/ EndIssued(q)
         /\ AllIssued(q) /\ op.by = "P" => AllIssued(Append(q, op))
         /\ OfferLast(q) /\ (op.by = "P" \/ ~ Queued(q, "applyOffer")) =>
              OfferLast(Append(q, op))
         /\ (\A k \in DOMAIN q : PhoneOp(q[k])) /\ PhoneOp(op) =>
              \A k \in DOMAIN Append(q, op) : PhoneOp(Append(q, op)[k])
         /\ Unringing(q) /\ op.goal \notin Rings => Unringing(Append(q, op))
<1> DEFINE r == Append(q, op)
           n == Len(q) + 1
<1>1. /\ Len(q) \in Nat /\ DOMAIN q = 1 .. Len(q)
      /\ DOMAIN r = 1 .. n /\ \A k \in 1 .. Len(q) : r[k] = q[k]
      /\ r[n] = op
  BY AppendProperties, SMT
<1>2. \A k \in DOMAIN r : k = n \/ (k \in DOMAIN q /\ r[k] = q[k])
  <2>1. \A k \in 1 .. n : k = n \/ k \in 1 .. Len(q)  BY <1>1
  <2>2. QED  BY <1>1, <2>1
<1>3. \A k \in DOMAIN q : k \in DOMAIN r /\ r[k] = q[k] /\ k < n
  BY <1>1
<1>4. n \in DOMAIN r /\ r[n] = op /\ n \notin DOMAIN q  BY <1>1
<1>5. \A k \in DOMAIN r : ~ (n < k)  BY <1>1
<1> HIDE DEF r, n
<1>6. \A m : Queued(r, m) <=> op.m = m \/ Queued(q, m)
  BY <1>2, <1>3, <1>4, Zenon DEF Queued
<1>7. EndIssued(r) <=> (op.m = "endCall" /\ op.by = "P") \/ EndIssued(q)
  BY <1>2, <1>3, <1>4 DEF EndIssued
<1>8. AllIssued(q) /\ op.by = "P" => AllIssued(r)
  BY <1>2, <1>4 DEF AllIssued
<1>9. OfferLast(q) /\ (op.by = "P" \/ ~ Queued(q, "applyOffer")) => OfferLast(r)
  BY <1>2, <1>3, <1>4, <1>5 DEF OfferLast, Queued
<1>10. (\A k \in DOMAIN q : PhoneOp(q[k])) /\ PhoneOp(op) =>
         \A k \in DOMAIN r : PhoneOp(r[k])
  BY <1>2, <1>4
<1>11. Unringing(q) /\ op.goal \notin Rings => Unringing(r)
  BY <1>2, <1>4 DEF Unringing
<1>12. QED  BY <1>6, <1>7, <1>8, <1>9, <1>10, <1>11 DEF r

\* The head of the chain completes: what becomes of the state and the dialog.
PhoneStep(op, s, d, s2, d2) ==
  \/ op.m = "applyOffer" /\ s2 = "calling" /\ d2 = d
  \/ op.m = "answer" /\ d = "none" /\ s2 = "inCall" /\ d2 = "open"
  \/ op.m = "answer" /\ s2 = "failed" /\ d2 = d
  \/ op.m = "endCall" /\ s2 = "disconnected" /\ d2 = "none"
  \/ op.m \in {"ackConnected", "ackRing"} /\ s2 = s /\ d2 = d

\* The chain that is left agrees with them.
LEMMA FitsTail ==
  ASSUME NEW q \in Seq(Ops), q # <<>>, AtMostOne(Issued(q)), NEW s, NEW d,
         NEW s2, NEW d2, PhoneFits(q, s, d), PhoneStep(Head(q), s, d, s2, d2)
  PROVE  PhoneFits(Tail(q), s2, d2)
<1> DEFINE op == Head(q)
           r == Tail(q)
<1>1. /\ \A m : Queued(q, m) <=> op.m = m \/ Queued(r, m)
      /\ AllIssued(q) => AllIssued(r) /\ op.by = "P"
      /\ OfferLast(q) => OfferLast(r)
      /\ OfferLast(q) /\ op.m = "applyOffer" => AllIssued(r)
      /\ PhoneOp(op) /\ \A k \in DOMAIN r : PhoneOp(r[k])
  BY QueuedTail DEF PhoneFits
<1>2. op.m = "applyOffer" => ~ Queued(r, "applyOffer")
  <2>1. ASSUME op.m = "applyOffer", NEW k \in DOMAIN r, r[k].m = "applyOffer"
        PROVE  FALSE
    <3>1. PhoneOp(r[k]) /\ r[k].by = "P"
      BY <1>1, <2>1 DEF PhoneFits, AllIssued
    <3>2. QED  BY <2>1, <3>1 DEF PhoneOp, Kind
  <2>2. QED  BY <2>1 DEF Queued
<1>3. op.m = "answer" => ~ Queued(r, "answer")
  <2>1. ASSUME op.m = "answer", NEW k \in DOMAIN r, r[k].m = "answer"
        PROVE  FALSE
    <3>1. r[k].by = "P" /\ op.by = "P"
      BY <1>1, <2>1 DEF PhoneOp, Kind
    <3>2. k \in Issued(r) /\ 1 \in Issued(q)
      BY <3>1, IssuedTail DEF Issued
    <3>3. k + 1 \in Issued(q) /\ k + 1 # 1  BY <3>2, IssuedTail
    <3>4. QED  BY <3>2, <3>3 DEF AtMostOne
  <2>2. QED  BY <2>1 DEF Queued
<1> HIDE DEF op, r
<1>4. PhoneStep(op, s, d, s2, d2)  BY DEF op
<1>5. CASE op.m = "applyOffer"
  <2>1. s2 = "calling" /\ d2 = "none" /\ AllIssued(r) /\ ~ Queued(r, "answer")
    BY <1>1, <1>4, <1>5 DEF PhoneStep, PhoneFits
  <2>2. PhoneFits(r, s2, d2)  BY <1>1, <1>2, <1>5, <2>1 DEF PhoneFits
  <2>3. QED  BY <2>2 DEF r
<1>6. CASE op.m = "answer"
  <2>1. /\ ~ Queued(r, "answer") /\ ~ Queued(r, "endCall") /\ ~ Queued(r, "applyOffer")
        /\ d = "none"
    BY <1>1, <1>3, <1>6 DEF PhoneFits
  <2>2. (s2 = "inCall" /\ d2 = "open") \/ (s2 = "failed" /\ d2 = "none")
    BY <1>4, <1>6, <2>1 DEF PhoneStep
  <2>3. PhoneFits(r, s2, d2)  BY <1>1, <2>1, <2>2 DEF PhoneFits
  <2>4. QED  BY <2>3 DEF r
<1>7. CASE op.m = "endCall"
  <2>1. s2 = "disconnected" /\ d2 = "none" /\ ~ Queued(r, "answer")
        /\ (Queued(r, "applyOffer") => OfferLast(r))
    BY <1>1, <1>4, <1>7 DEF PhoneStep, PhoneFits
  <2>2. PhoneFits(r, s2, d2)  BY <1>1, <2>1 DEF PhoneFits
  <2>3. QED  BY <2>2 DEF r
<1>8. CASE op.m \in {"ackConnected", "ackRing"}
  <2>1. s2 = s /\ d2 = d  BY <1>4, <1>8 DEF PhoneStep
  <2>2. \A m \in {"endCall", "answer", "applyOffer"} : Queued(r, m) <=> Queued(q, m)
    BY <1>1, <1>8
  <2>3. PhoneFits(r, s2, d2)  BY <1>1, <2>1, <2>2 DEF PhoneFits
  <2>4. QED  BY <2>3 DEF r
<1>9. QED  BY <1>4, <1>5, <1>6, <1>7, <1>8 DEF PhoneStep

\* The drain queues an intent on a chain that holds none.
LEMMA FitsIntent ==
  ASSUME NEW q \in Seq(Ops), NEW op \in Ops, Issued(q) = {}, NEW s, NEW d,
         PhoneFits(q, s, d), PhoneOp(op), op.by = "P", NEW s2,
         \/ op.m = "answer" /\ s \in {"calling", "answering"} /\ s2 = "answering"
         \/ op.m = "endCall" /\ s2 = "ending"
         \/ op.m \in {"ackConnected", "ackRing"} /\ s2 = s
  PROVE  PhoneFits(Append(q, op), s2, d)
<1> DEFINE r == Append(q, op)
<1>1. /\ \A m : Queued(r, m) <=> op.m = m \/ Queued(q, m)
      /\ AllIssued(q) => AllIssued(r)
      /\ OfferLast(q) => OfferLast(r)
      /\ \A k \in DOMAIN r : PhoneOp(r[k])
  BY QueuedAppend DEF PhoneFits
<1>2. ~ Queued(q, "answer")
  <2>1. ASSUME NEW k \in DOMAIN q, q[k].m = "answer"  PROVE FALSE
    <3>1. q[k].by = "P"  BY <2>1 DEF PhoneFits, PhoneOp, Kind
    <3>2. QED  BY <3>1 DEF Issued
  <2>2. QED  BY <2>1 DEF Queued
<1> HIDE DEF r
<1>3. CASE op.m = "answer"
  <2>1. AllIssued(q) /\ d = "none" /\ s2 = "answering"
    BY <1>3 DEF PhoneFits
  <2>2. \A m : ~ Queued(q, m)  BY <2>1 DEF AllIssued, Issued, Queued
  <2>3. PhoneFits(r, s2, d)  BY <1>1, <1>3, <2>1, <2>2 DEF PhoneFits
  <2>4. QED  BY <2>3 DEF r
<1>4. CASE op.m = "endCall"
  <2>1. s2 = "ending"  BY <1>4
  <2>2. PhoneFits(r, s2, d)  BY <1>1, <1>2, <1>4, <2>1 DEF PhoneFits
  <2>3. QED  BY <2>2 DEF r
<1>5. CASE op.m \in {"ackConnected", "ackRing"}
  <2>1. s2 = s  BY <1>5
  <2>2. \A m \in {"endCall", "answer", "applyOffer"} : Queued(r, m) <=> Queued(q, m)
    BY <1>1, <1>5
  <2>3. PhoneFits(r, s2, d)  BY <1>1, <2>1, <2>2 DEF PhoneFits
  <2>4. QED  BY <2>3 DEF r
<1>6. QED  BY <1>3, <1>4, <1>5

\* An intent that the telephone leg cannot take, or its recovery, changes the
\* state of a leg without a dialog.
LEMMA FitsIdle ==
  ASSUME NEW q, NEW s, NEW d, PhoneFits(q, s, d), NEW s2 \in {"failed", "disconnected"},
         d = "none" \/ s = "failed", ~ Queued(q, "answer")
  PROVE  PhoneFits(q, s2, d)
BY DEF PhoneFits

\* A call arrives: a stale dialog was closed, and the offer is queued.
LEMMA FitsInbound ==
  ASSUME NEW q \in Seq(Ops), NEW op \in Ops, NEW s, NEW d, PhoneFits(q, s, d),
         s \in {"disconnected", "failed"}, ~ Queued(q, "applyOffer"),
         PhoneOp(op), op.m = "applyOffer"
  PROVE  PhoneFits(Append(q, op), s, "none")
<1> DEFINE r == Append(q, op)
<1>1. /\ \A m : Queued(r, m) <=> op.m = m \/ Queued(q, m)
      /\ OfferLast(q) => OfferLast(r)
      /\ \A k \in DOMAIN r : PhoneOp(r[k])
  BY QueuedAppend DEF PhoneFits
<1>2. OfferLast(q)  BY DEF OfferLast, Queued
<1>3. ~ Queued(q, "answer")  BY DEF PhoneFits
<1> HIDE DEF r
<1>4. PhoneFits(r, s, "none")  BY <1>1, <1>2, <1>3 DEF PhoneFits
<1>5. QED  BY <1>4 DEF r

\* The dialog terminates: an end is queued unless one is on its way.
LEMMA FitsBye ==
  ASSUME NEW q \in Seq(Ops), NEW op \in Ops, NEW s, PhoneFits(q, s, "open"),
         PhoneOp(op), op.m = "endCall"
  PROVE  /\ PhoneFits(Append(q, op), s, "lost")
         /\ s = "ending" => PhoneFits(q, s, "lost")
<1> DEFINE r == Append(q, op)
<1>1. /\ \A m : Queued(r, m) <=> op.m = m \/ Queued(q, m)
      /\ \A k \in DOMAIN r : PhoneOp(r[k])
  BY QueuedAppend DEF PhoneFits
<1>2. s \in {"inCall", "ending"} /\ ~ Queued(q, "answer") /\ ~ Queued(q, "applyOffer")
  BY DEF PhoneFits
<1>3. s = "ending" => Queued(q, "endCall")  BY DEF PhoneFits
<1> HIDE DEF r
<1>4. PhoneFits(r, s, "lost")  BY <1>1, <1>2 DEF PhoneFits
<1>5. s = "ending" => PhoneFits(q, s, "lost")  BY <1>2, <1>3 DEF PhoneFits
<1>6. QED  BY <1>4, <1>5 DEF r

\* What is left of a pass agrees with the telephone leg when its head is taken.
LEMMA PlanTail ==
  ASSUME NEW plan \in Seq(Action), plan # <<>>, NEW l \in Legs, NEW q, NEW s, NEW d,
         NEW t, PlanFits(l, plan, q, s, d, t)
  PROVE  /\ PlanFits(l, Tail(plan), q, s, d, t)
         /\ Head(plan) = Intent(l, "answer") => NothingFor(Tail(plan), l)
         /\ NothingFor(plan, l) => NothingFor(Tail(plan), l) /\ Head(plan).on # l
<1>1. \A x : Has(Tail(plan), x) => Has(plan, x)  BY HasTail
<1>2. /\ AnswerLast(Tail(plan), l)
      /\ Head(plan) = Intent(l, "answer") => NothingFor(Tail(plan), l)
  BY AnswerLastTail DEF PlanFits, NothingFor
<1>3. NothingFor(plan, l) => NothingFor(Tail(plan), l) /\ Head(plan).on # l
  <2>1. /\ DOMAIN plan = 1 .. Len(plan) /\ Len(plan) \in Nat \ {0}
        /\ Head(plan) = plan[1] /\ DOMAIN Tail(plan) = 1 .. Len(plan) - 1
        /\ \A k \in 1 .. Len(plan) - 1 : Tail(plan)[k] = plan[k + 1]
    BY SMT
  <2>2. \A k \in DOMAIN Tail(plan) : k + 1 \in DOMAIN plan /\ Tail(plan)[k] = plan[k + 1]
    BY <2>1
  <2>3. 1 \in DOMAIN plan  BY <2>1
  <2>4. QED  BY <2>1, <2>2, <2>3 DEF NothingFor
<1>4. QED  BY <1>1, <1>2, <1>3 DEF PlanFits

\* An event of the client: it neither calls nor rings, and leaves the dialog of
\* the telephone and the hooks alone.
ClientEvent(p) ==
  \E now \in {st[p], "connected", "failed", "endRequested", "canceling", "rejecting"},
     ops \in Seq(Ops) :
       /\ Deliver(p, now, ops) /\ Unringing(ops)
       /\ UNCHANGED <<metered, cutoff>>
       /\ \A l \in Legs : l # p => link'[l] = link[l]

LEMMA UnringingOps ==
  ASSUME NEW m \in Methods, NEW goal \in Goals \ Rings, NEW by \in {"client", "cancel"},
         NEW sends \in BOOLEAN
  PROVE  /\ <<Op(m, goal, by, sends)>> \in Seq(Ops)
         /\ Unringing(<<Op(m, goal, by, sends)>>)
<1> DEFINE op == Op(m, goal, by, sends)
<1>1. op \in Ops /\ op.goal = goal  BY DEF Op, Ops
<1> HIDE DEF op
<1>2. <<op>> \in Seq(Ops) /\ DOMAIN <<op>> = {1} /\ <<op>>[1] = op  BY <1>1, SMT
<1>3. Unringing(<<op>>)  BY <1>1, <1>2 DEF Unringing
<1>4. QED  BY <1>2, <1>3 DEF op

LEMMA UnringingNone == <<>> \in Seq(Ops) /\ Unringing(<<>>)
BY EmptySeq DEF Unringing

\* In a session whose client calls nobody every event is one of the client, or a
\* call or an end of the telephone.
LEMMA IngressOfTwo ==
  ASSUME TypeOK, OnlyCalled, OneTelephone, Ingress, NEW l \in Legs, isSip(l), ~ cutoff
  PROVE  ClientEvent(Peer(l)) \/ OnInboundCall(l) \/ OnRemoteBye(l)
<1> DEFINE Nows(k) == {st[k], "connected", "failed", "endRequested", "canceling",
                       "rejecting"}
<1>1. \A k \in Legs : k = l \/ k = Peer(l)  BY DEF Legs, Peer
<1>2. ~ isSip(Peer(l))  BY DEF OneTelephone
<1>3. ASSUME NEW k \in Legs, ~ isSip(k), NEW now \in Nows(k),
             NEW ops \in Seq(Ops), Unringing(ops), Deliver(k, now, ops),
             UNCHANGED <<metered, cutoff>>,
             \A j \in Legs : j # k => link'[j] = link[j]
      PROVE  ClientEvent(Peer(l))
  <2>1. k = Peer(l)  BY <1>1, <1>3
  <2>2. ClientEvent(k)  BY <1>3 DEF ClientEvent
  <2>3. QED  BY <2>1, <2>2
<1> HIDE DEF Nows
<1>4. ASSUME NEW k \in Legs, OnTransportOpen(k)  PROVE ClientEvent(Peer(l))
  <2>1. PICK now : Deliver(k, now, <<>>) /\ now \in Nows(k)
    BY <1>4 DEF OnTransportOpen, Nows
  <2>2. \A j \in Legs : j # k => link'[j] = link[j]
    BY <1>4 DEF OnTransportOpen, TypeOK
  <2>3. ~ isSip(k) /\ UNCHANGED <<metered, cutoff>>  BY <1>4 DEF OnTransportOpen
  <2>4. QED  BY <1>3, <2>1, <2>2, <2>3, UnringingNone
<1>5. ASSUME NEW k \in Legs, ~ isSip(k), TransportClose(k)
      PROVE  ClientEvent(Peer(l))
  <2>1. PICK now : Deliver(k, now, <<>>) /\ now \in Nows(k)
    BY <1>5 DEF TransportClose, Nows
  <2>2. \A j \in Legs : j # k => link'[j] = link[j]
    BY <1>5 DEF TransportClose, TypeOK
  <2>3. UNCHANGED <<metered, cutoff>>  BY <1>5 DEF TransportClose
  <2>4. QED  BY <1>3, <1>5, <2>1, <2>2, <2>3, UnringingNone
<1>6. ASSUME NEW k \in Legs, OnAnswer(k)  PROVE ClientEvent(Peer(l))
  <2>1. PICK ops \in Seq(Ops) : Deliver(k, st[k], ops) /\ Unringing(ops)
    <3>1. /\ <<Op("applySessionAnswer", "keep", "client", FALSE)>> \in Seq(Ops)
          /\ Unringing(<<Op("applySessionAnswer", "keep", "client", FALSE)>>)
          /\ <<Op("endCall", "connected", "client", TRUE)>> \in Seq(Ops)
          /\ Unringing(<<Op("endCall", "connected", "client", TRUE)>>)
          /\ <<Op("applyAnswer", "inCall", "client", TRUE)>> \in Seq(Ops)
          /\ Unringing(<<Op("applyAnswer", "inCall", "client", TRUE)>>)
      BY UnringingOps DEF Methods, Goals, Rings, LegState
    <3>2. CASE st[k] = "connecting"  BY <1>6, <3>1, <3>2 DEF OnAnswer
    <3>3. CASE st[k] = "ending"  BY <1>6, <3>1, <3>3 DEF OnAnswer
    <3>4. CASE st[k] \in {"connected", "calling", "ringing", "answering"}
      BY <1>6, <3>1, <3>4 DEF OnAnswer
    <3>5. CASE st[k] \notin {"connecting", "ending", "connected", "calling",
                             "ringing", "answering"}
      BY <1>6, <3>5, UnringingNone DEF OnAnswer
    <3>6. QED  BY <3>2, <3>3, <3>4, <3>5
  <2>2. ~ isSip(k) /\ UNCHANGED <<link, metered, cutoff>>  BY <1>6 DEF OnAnswer
  <2>3. QED  BY <1>3, <2>1, <2>2 DEF Nows
<1>7. ASSUME NEW k \in Legs, NEW payload, OnEnd(k, payload)
      PROVE  ClientEvent(Peer(l))
  <2> DEFINE sdp == payload # "bare"
  <2>1. sdp \in BOOLEAN  OBVIOUS
  <2>2. \/ Deliver(k, st[k], <<Op("endCall", "connected", "client", TRUE)>>)
        \/ Deliver(k, st[k], <<Op("endCall", "keep", "client", sdp)>>)
        \/ Deliver(k, "endRequested", <<>>)
    BY <1>7 DEF OnEnd, HandleEnd
  <2> HIDE DEF sdp
  <2>3. /\ <<Op("endCall", "connected", "client", TRUE)>> \in Seq(Ops)
        /\ Unringing(<<Op("endCall", "connected", "client", TRUE)>>)
        /\ <<Op("endCall", "keep", "client", sdp)>> \in Seq(Ops)
        /\ Unringing(<<Op("endCall", "keep", "client", sdp)>>)
    BY <2>1, UnringingOps DEF Methods, Goals, Rings, LegState
  <2>4. ~ isSip(k) /\ UNCHANGED <<link, metered, cutoff>>  BY <1>7 DEF OnEnd
  <2>5. QED  BY <1>3, <2>2, <2>3, <2>4, UnringingNone DEF Nows
<1>8. ASSUME NEW k \in Legs, NEW going \in {"canceling", "rejecting"},
             NEW gone \in {"canceled", "rejected"}, NEW by \in {"client", "cancel"},
             Decline(k, going, gone, by)
      PROVE  ClientEvent(Peer(l))
  <2>1. \/ Deliver(k, st[k], <<Op("endCall", "keep", by, TRUE)>>)
        \/ Deliver(k, going, <<Op("endCall", gone, by, TRUE)>>)
    BY <1>8 DEF Decline
  <2>2. /\ <<Op("endCall", "keep", by, TRUE)>> \in Seq(Ops)
        /\ Unringing(<<Op("endCall", "keep", by, TRUE)>>)
        /\ <<Op("endCall", gone, by, TRUE)>> \in Seq(Ops)
        /\ Unringing(<<Op("endCall", gone, by, TRUE)>>)
    BY <1>8, UnringingOps DEF Methods, Goals, Rings, LegState
  <2>3. ~ isSip(k) /\ UNCHANGED <<link, metered, cutoff>>  BY <1>8 DEF Decline
  <2>4. QED  BY <1>3, <1>8, <2>1, <2>2, <2>3 DEF Nows
<1>9. ASSUME NEW k \in Legs, OnInboundCall(k) \/ OnRemoteBye(k)  PROVE k = l
  BY <1>1, <1>2, <1>9 DEF OnInboundCall, OnRemoteBye
<1>10. \A k \in Legs : Role[k] \in {"caller", "callee", "adopt"} => ~ isSip(k)
  BY DEF isSip
<1>11. \A k \in Legs : ~ OnOffer(k) /\ ~ OnMinuteCutoff(k)
  BY DEF OnlyCalled, OnOffer, OnMinuteCutoff
<1>12. PICK k \in Legs :
         \/ OnTransportOpen(k) \/ OnCalleeClosed(k) \/ OnTransportClosed(k)
         \/ OnInboundCall(k) \/ OnAnswer(k) \/ OnRemoteBye(k)
         \/ (\E payload : OnEnd(k, payload))
         \/ OnCancel(k) \/ OnReject(k) \/ OnHttpCancel(k)
  <2>1. PICK k \in Legs :
          \/ Role[k] = "caller" /\ OnTransportOpen(k)
          \/ Role[Peer(k)] = "adopt" /\ OnInboundCall(k)
          \/ OnTransportOpen(k) \/ OnCalleeClosed(k) \/ OnTransportClosed(k)
          \/ OnOffer(k) \/ OnInboundCall(k) \/ OnAnswer(k)
          \/ \E payload \in {"bare", "offer", "answer"} : OnEnd(k, payload)
          \/ OnRemoteBye(k) \/ OnCancel(k) \/ OnReject(k) \/ OnHttpCancel(k)
          \/ OnMinuteCutoff(k)
    BY DEF Ingress
  <2>2. QED  BY <1>11, <2>1
<1>13. CASE OnCalleeClosed(k) \/ OnTransportClosed(k)
  BY <1>5, <1>10, <1>13 DEF OnCalleeClosed, OnTransportClosed
<1>14. CASE OnCancel(k) \/ OnReject(k) \/ OnHttpCancel(k)
  BY <1>8, <1>14 DEF OnCancel, OnReject, OnHttpCancel
<1>15. QED  BY <1>4, <1>6, <1>7, <1>9, <1>12, <1>13, <1>14

LEMMA UnringingConcat ==
  ASSUME NEW p \in Seq(Ops), NEW q \in Seq(Ops), Unringing(p), Unringing(q)
  PROVE  Unringing(p \o q)
<1>1. /\ DOMAIN (p \o q) = 1 .. Len(p) + Len(q)
      /\ DOMAIN p = 1 .. Len(p) /\ Len(p) \in Nat
      /\ DOMAIN q = 1 .. Len(q) /\ Len(q) \in Nat
  BY SMT
<1>2. \A k \in 1 .. Len(p) + Len(q) :
        (p \o q)[k] = IF k <= Len(p) THEN p[k] ELSE q[k - Len(p)]
  BY ConcatProperties
<1>3. \A k \in 1 .. Len(p) + Len(q) :
        k \in 1 .. Len(p) \/ (~ (k <= Len(p)) /\ k - Len(p) \in 1 .. Len(q))
  BY <1>1
<1>4. QED  BY <1>1, <1>2, <1>3 DEF Unringing

\* The telephone keeps what it has, and the client does not start to ring.
LEMMA PhoneKeeps ==
  ASSUME TypeOK, NEW l \in Legs, PhoneInv(l),
         tx'[l] = tx[l], st'[l] = st[l], link'[l] = link[l],
         \/ todo' = todo
         \/ todo # <<>> /\ todo' = Tail(todo),
         st'[Peer(l)] # "calling",
         st'[Peer(l)] = "ringing" => st[Peer(l)] = "ringing",
         Unringing(tx'[Peer(l)]), metered' = metered, ~ cutoff'
  PROVE  PhoneInv(l)'
<1>1. PhoneFits(tx[l], st[l], link[l])'  BY DEF PhoneInv
<1>2. /\ PlanFits(l, todo', tx[l], st[l], link[l], st[Peer(l)])
      /\ NothingFor(todo, l) => NothingFor(todo', l)
  <2>1. PlanFits(l, todo, tx[l], st[l], link[l], st[Peer(l)])  BY DEF PhoneInv
  <2>2. CASE todo' = todo  BY <2>1, <2>2
  <2>3. CASE todo # <<>> /\ todo' = Tail(todo)
    <3>1. todo \in Seq(Action)  BY DEF TypeOK
    <3>2. QED  BY <2>1, <2>3, <3>1, PlanTail
  <2>4. QED  BY <2>2, <2>3
<1>3. PlanFits(l, todo, tx[l], st[l], link[l], st[Peer(l)])'
  BY <1>2 DEF PlanFits
<1>4. metered' => st'[l] = "disconnected" /\ tx'[l] = <<>> /\ NothingFor(todo', l)
  BY <1>2 DEF PhoneInv, Unbilled
<1>5. QED  BY <1>1, <1>3, <1>4 DEF PhoneInv, Unbilled

LEMMA PhoneClientEvent ==
  ASSUME TypeOK, NEW l \in Legs, PhoneInv(l), ClientEvent(Peer(l))
  PROVE  PhoneInv(l)'
<1> DEFINE p == Peer(l)
<1>1. p \in Legs /\ p # l  BY DEF Peer, Legs
<1>2. PICK now \in {st[p], "connected", "failed", "endRequested", "canceling",
                    "rejecting"}, ops \in Seq(Ops) :
        /\ Deliver(p, now, ops) /\ Unringing(ops)
        /\ UNCHANGED <<metered, cutoff>>
        /\ link'[l] = link[l]
  BY <1>1 DEF ClientEvent
<1>3. /\ st'[p] = now /\ st'[l] = st[l]
      /\ tx'[p] = tx[p] \o ops /\ tx'[l] = tx[l]
      /\ todo' = todo
  BY <1>1, <1>2 DEF Deliver, SetState, SetStates, TypeOK
<1>4. Unringing(tx[p]) /\ tx[p] \in Seq(Ops)  BY <1>1 DEF PhoneInv, TypeOK
<1>5. Unringing(tx'[p])  BY <1>2, <1>3, <1>4, UnringingConcat
<1>6. st[p] # "calling" /\ ~ cutoff  BY DEF PhoneInv, PlanFits, Unbilled
<1>7. QED  BY <1>2, <1>3, <1>5, <1>6, PhoneKeeps

LEMMA AppendOne ==
  ASSUME NEW q \in Seq(Ops), NEW op \in Ops
  PROVE  q \o <<op>> = Append(q, op)
BY SMT

\* An operation of the client at the end of the telephone's chain leaves what is
\* left of the pass in order.
LEMMA PlanBehind ==
  ASSUME NEW l, NEW plan, NEW q \in Seq(Ops), NEW op \in Ops, op.by # "P",
         op.m # "answer", NEW s, NEW d, NEW d2, NEW t, PlanFits(l, plan, q, s, d, t),
         d2 = "none" \/ d # "none"
  PROVE  /\ PlanFits(l, plan, q, s, d2, t)
         /\ PlanFits(l, plan, Append(q, op), s, d2, t)
<1>1. /\ Queued(Append(q, op), "answer") <=> Queued(q, "answer")
      /\ EndIssued(Append(q, op)) <=> EndIssued(q)
  BY QueuedAppend
<1>2. QED  BY <1>1 DEF PlanFits

LEMMA PhoneInbound ==
  ASSUME TypeOK, NEW l \in Legs, isSip(l), DialogInv, ~ disposed, OnInboundCall(l)
  PROVE  PhoneInv(l)'
<1> DEFINE p == Peer(l)
           op == Op("applyOffer", "calling", "client", FALSE)
           q == tx[l]
<1>1. p \in Legs /\ p # l /\ PhoneInv(l)  BY DEF Peer, Legs, DialogInv
<1>2. op \in Ops /\ PhoneOp(op) /\ op.m = "applyOffer" /\ op.by # "P"
  BY DEF Op, Ops, PhoneOp, Kind, Methods, Goals, LegState
<1>3. q \in Seq(Ops)  BY DEF TypeOK
<1> HIDE DEF op
<1>4. Deliver(l, st[l], <<op>>) /\ link' = [link EXCEPT ![l] = "none"]
      /\ metered' = FALSE /\ UNCHANGED cutoff
  BY DEF OnInboundCall, op
<1>5. /\ st' = st /\ todo' = todo /\ link'[l] = "none" /\ tx'[p] = tx[p]
      /\ tx'[l] = q \o <<op>>
  BY <1>1, <1>4 DEF Deliver, SetState, SetStates, TypeOK
<1>6. tx'[l] = Append(q, op)  BY <1>2, <1>3, <1>5, AppendOne
<1>7. st[l] \in {"disconnected", "failed"} /\ PhoneFits(q, st[l], link[l])
  <2>1. PhoneFits(q, st[l], link[l])  BY <1>1 DEF PhoneInv
  <2>2. CASE nIngress = 0  BY <2>1, <2>2 DEF DialogInv, Untouched
  <2>3. CASE ~ isActiveCall(st[l])
    BY <2>1, <2>3 DEF PhoneFits, isActiveCall, ACTIVE_CALL_STATES
  <2>4. QED  BY <2>2, <2>3 DEF OnInboundCall
<1>8. ~ Queued(q, "applyOffer")
  <2>1. SUFFICES ASSUME Queued(q, "applyOffer")  PROVE FALSE
    OBVIOUS
  <2>2. link[l] = "none" /\ ~ Queued(q, "answer") /\ q # <<>>
    BY <1>7, <2>1 DEF PhoneFits, Queued
  <2>3. PhoneOp(Head(q)) /\ Head(q).m # "answer"
    BY <1>3, <1>7, <2>2, QueuedTail DEF PhoneFits
  <2>4. Head(q).m \in {"applyOffer", "endCall", "ackConnected", "ackRing"}
    BY <2>3 DEF PhoneOp, Kind
  <2>5. Immediate(l, Head(q))
    BY <2>2, <2>4 DEF Immediate
  <2>6. MicrotasksDone  BY <1>4 DEF Deliver
  <2>7. QED  BY <2>2, <2>5, <2>6 DEF MicrotasksDone
<1> HIDE DEF q
<1>9. PhoneFits(Append(q, op), st[l], "none")
  BY <1>2, <1>3, <1>7, <1>8, FitsInbound
<1>10. PlanFits(l, todo, Append(q, op), st[l], "none", st[p])
  BY <1>1, <1>2, <1>3, PlanBehind DEF PhoneInv, q
<1>11. PhoneFits(tx[l], st[l], link[l])'  BY <1>5, <1>6, <1>9
<1>12. PlanFits(l, todo, tx[l], st[l], link[l], st[p])'
  BY <1>5, <1>6, <1>10 DEF PlanFits
<1>13. Unringing(tx'[p]) /\ ~ cutoff'
  BY <1>1, <1>4, <1>5 DEF PhoneInv, Unbilled
<1>14. QED  BY <1>4, <1>11, <1>12, <1>13 DEF PhoneInv, Unbilled

LEMMA PhoneBye ==
  ASSUME TypeOK, NEW l \in Legs, isSip(l), PhoneInv(l), OnRemoteBye(l)
  PROVE  PhoneInv(l)'
<1> DEFINE p == Peer(l)
           op == Op("endCall", "disconnected", "client", FALSE)
           q == tx[l]
<1>1. p \in Legs /\ p # l  BY DEF Peer, Legs
<1>2. op \in Ops /\ PhoneOp(op) /\ op.m = "endCall" /\ op.by # "P"
  BY DEF Op, Ops, PhoneOp, Kind, Methods, Goals, LegState
<1>3. q \in Seq(Ops) /\ link[l] = "open" /\ PhoneFits(q, st[l], "open")
  BY DEF TypeOK, OnRemoteBye, PhoneInv
<1>4. st[l] \in {"inCall", "ending"}  BY <1>3 DEF PhoneFits
<1>5. PICK ops : /\ Deliver(l, st[l], ops)
                 /\ ops = <<op>> \/ (ops = <<>> /\ st[l] = "ending")
  <2>1. ~ (isTerminal(st[l]) \/ st[l] = "disconnected")
    BY <1>4 DEF isTerminal
  <2>2. st[l] = "inCall" => \E k \in Legs : st[k] = "inCall"  OBVIOUS
  <2>3. CASE \E k \in Legs : st[k] = "inCall"
    BY <2>1, <2>3 DEF OnRemoteBye
  <2>4. CASE ~ \E k \in Legs : st[k] = "inCall"
    BY <1>4, <2>2, <2>4 DEF OnRemoteBye
  <2>5. QED  BY <2>3, <2>4
<1> HIDE DEF op
<1>6. /\ st' = st /\ todo' = todo /\ link'[l] = "lost" /\ tx'[p] = tx[p]
      /\ tx'[l] = q \o ops /\ metered' = metered /\ cutoff' = cutoff
  BY <1>1, <1>5 DEF Deliver, SetState, SetStates, TypeOK, OnRemoteBye
<1>7. tx'[l] = Append(q, op) \/ (tx'[l] = q /\ st[l] = "ending")
  <2>1. q \in Seq(Ops)  BY <1>3
  <2>2. CASE ops = <<op>>
    <3>1. q \o ops = Append(q, op)  BY <1>2, <2>1, <2>2, AppendOne
    <3>2. QED  BY <1>6, <3>1
  <2>3. CASE ops = <<>> /\ st[l] = "ending"
    <3>1. q \o ops = q  BY <2>1, <2>3
    <3>2. QED  BY <1>6, <2>3, <3>1
  <2>4. QED  BY <1>5, <2>2, <2>3
<1>8. ~ metered  BY <1>4 DEF PhoneInv, Unbilled
<1> HIDE DEF q
<1>9. PhoneFits(tx'[l], st[l], "lost")  BY <1>2, <1>3, <1>7, FitsBye
<1>10. PlanFits(l, todo, tx'[l], st[l], "lost", st[p])
  BY <1>2, <1>3, <1>7, PlanBehind DEF PhoneInv, q
<1>11. PhoneFits(tx[l], st[l], link[l])'  BY <1>6, <1>9
<1>12. PlanFits(l, todo, tx[l], st[l], link[l], st[p])'
  BY <1>6, <1>10 DEF PlanFits
<1>13. Unringing(tx'[p]) /\ ~ cutoff'  BY <1>6 DEF PhoneInv, Unbilled
<1>14. QED  BY <1>6, <1>8, <1>11, <1>12, <1>13 DEF PhoneInv, Unbilled

\* An operation of the telephone's chain completes.
LEMMA PhoneCompletes ==
  ASSUME TypeOK, DrainWaitsForOne, NEW l \in Legs, isSip(l), ~ removed,
         PhoneInv(l), Complete(l)
  PROVE  PhoneInv(l)'
<1> DEFINE p == Peer(l)
           q == tx[l]
           op == Head(q)
<1>1. p \in Legs /\ p # l  BY DEF Peer, Legs
<1>2. Completes(l)  BY DEF Complete, TxOk, TxNoOpenDc, TxError
<1>3. q \in Seq(Ops) /\ q # <<>> /\ tx'[l] = Tail(q) /\ tx'[p] = tx[p]
      /\ todo' = todo /\ metered' = metered /\ cutoff' = cutoff
  BY <1>1, <1>2 DEF Completes, TypeOK, hookVars
<1>4. PhoneFits(q, st[l], link[l]) /\ AtMostOne(Issued(q))
  BY WaitsForEach DEF PhoneInv, WaitsFor
<1>5. /\ PhoneOp(op) /\ (AllIssued(q) => op.by = "P")
      /\ Queued(q, op.m) /\ (op.m = "endCall" /\ op.by = "P" => EndIssued(q))
      /\ (\A m : Queued(Tail(q), m) => Queued(q, m))
      /\ (EndIssued(Tail(q)) => EndIssued(q))
  BY <1>3, <1>4, QueuedTail DEF PhoneFits
<1>6. op.m = "answer" => link[l] = "none" /\ NothingFor(todo, l)
  <2>1. op.m = "answer" => st[l] = "answering"  BY <1>4, <1>5 DEF PhoneFits
  <2>2. QED  BY <1>4, <1>5, <2>1 DEF PhoneFits, PhoneInv, PlanFits
<1>7. st'[p] = st[p] /\ \E s2 : st'[l] = s2 /\ PhoneStep(op, st[l], link[l], s2, link'[l])
  <2>1. ~ NeedsPc(l, op) /\ ~ NoOpenDc(l, op) /\ ~ op.doomed
    BY <1>5 DEF NeedsPc, NoOpenDc, PhoneOp
  <2>2. CASE TxOk(l)
    <3>1. /\ st' = [st EXCEPT ![l] = Landing(l, op)]
          /\ link' = [link EXCEPT ![l] = LinkAfter(l, op)]
      BY <2>2 DEF TxOk, SetState, SetStates
    <3>2. /\ st'[l] = Landing(l, op) /\ st'[p] = st[p]
          /\ link'[l] = LinkAfter(l, op)
      BY <1>1, <3>1 DEF TypeOK
    <3> HIDE DEF op
    <3>3. CASE op.m = "applyOffer"
      <4>1. Landing(l, op) = "calling" /\ LinkAfter(l, op) = link[l]
        BY <1>5, <3>3 DEF PhoneOp, Kind, Landing, LinkAfter
      <4>2. QED  BY <3>2, <3>3, <4>1 DEF PhoneStep
    <3>4. CASE op.m = "answer"
      <4>1. Landing(l, op) = "inCall" /\ LinkAfter(l, op) = "open"
        BY <1>5, <1>6, <3>4 DEF PhoneOp, Kind, Landing, LinkAfter
      <4>2. QED  BY <1>6, <3>2, <3>4, <4>1 DEF PhoneStep
    <3>5. CASE op.m = "endCall"
      <4>1. Landing(l, op) = "disconnected" /\ LinkAfter(l, op) = "none"
        BY <1>5, <3>5 DEF PhoneOp, Kind, Landing, LinkAfter
      <4>2. QED  BY <3>2, <3>5, <4>1 DEF PhoneStep
    <3>6. CASE op.m \in {"ackConnected", "ackRing"}
      <4>1. Landing(l, op) = st[l] /\ LinkAfter(l, op) = link[l]
        BY <1>5, <3>6 DEF PhoneOp, Kind, Landing, LinkAfter
      <4>2. QED  BY <3>2, <3>6, <4>1 DEF PhoneStep
    <3>7. QED  BY <1>5, <3>3, <3>4, <3>5, <3>6 DEF PhoneOp, Kind
  <2>3. CASE TxError(l)
    <3>1. /\ op.m \in {"ring", "answer"}
          /\ st' = [st EXCEPT ![l] = IF op.by = "P" THEN FailedIntent(l, op.m)
                                     ELSE st[l]]
          /\ link' = link
      BY <2>1, <2>3 DEF TxError, SetState, SetStates
    <3> HIDE DEF op
    <3>2. op.m = "answer" /\ op.by = "P"  BY <1>5, <3>1 DEF PhoneOp, Kind
    <3>3. FailedIntent(l, op.m) = "failed"
      BY <3>2 DEF FailedIntent, FAIL_ON_ERROR_INTENTS
    <3>4. st'[l] = "failed" /\ st'[p] = st[p] /\ link'[l] = link[l]
      BY <1>1, <3>1, <3>2, <3>3 DEF TypeOK
    <3>5. QED  BY <3>2, <3>4 DEF PhoneStep
  <2>4. CASE TxNoOpenDc(l)  BY <2>1, <2>4 DEF TxNoOpenDc
  <2>5. QED  BY <2>2, <2>3, <2>4 DEF Complete
<1>8. PhoneStep(op, st[l], link[l], st'[l], link'[l])  BY <1>7
<1> HIDE DEF q
<1>9. PhoneFits(Tail(q), st'[l], link'[l])  BY <1>3, <1>4, <1>8, FitsTail
<1> HIDE DEF op
<1>10. ASSUME st[l] = "calling", ~ EndIssued(q)  PROVE st'[l] = "calling"
  <2>1. AllIssued(q)  BY <1>4, <1>10 DEF PhoneFits
  <2>2. op.by = "P" /\ op.m # "endCall" /\ op.m # "applyOffer"
    BY <1>5, <1>10, <2>1 DEF PhoneOp, Kind
  <2>3. op.m # "answer"  BY <1>4, <1>5, <1>10 DEF PhoneFits
  <2>4. QED  BY <1>8, <1>10, <2>2, <2>3 DEF PhoneStep
<1>11. link'[l] = link[l] \/ link'[l] = "none" \/ NothingFor(todo, l)
  BY <1>6, <1>8 DEF PhoneStep
<1>12. PlanFits(l, todo, q, st[l], link[l], st[p])  BY DEF PhoneInv, q
<1>13. NothingFor(todo, l) => \A i : ~ Has(todo, Intent(l, i))
  BY DEF NothingFor, Has, Intent
<1>14. PlanFits(l, todo, Tail(q), st'[l], link'[l], st[p])
  <2>1. Has(todo, Intent(p, "ring")) \/ st[p] = "ringing" =>
          st[l] = "calling" /\ ~ EndIssued(q)
    BY <1>12 DEF PlanFits
  <2>2. \A i \in {"answer", "ackConnected", "ackRing"} :
          Has(todo, Intent(l, i)) => link'[l] = "none"
    BY <1>11, <1>12, <1>13 DEF PlanFits
  <2>3. QED  BY <1>5, <1>10, <1>12, <2>1, <2>2 DEF PlanFits
<1>15. PhoneFits(tx[l], st[l], link[l])'  BY <1>3, <1>9
<1>16. PlanFits(l, todo, tx[l], st[l], link[l], st[p])'
  BY <1>3, <1>7, <1>14 DEF PlanFits
<1>17. Unringing(tx'[p]) /\ ~ cutoff' /\ ~ metered'
  BY <1>3 DEF PhoneInv, Unbilled, q
<1>18. QED  BY <1>15, <1>16, <1>17 DEF PhoneInv, Unbilled

\* An operation of the client's chain completes.
LEMMA PhonePeerCompletes ==
  ASSUME TypeOK, NEW l \in Legs, isSip(l), PhoneInv(l), Complete(Peer(l))
  PROVE  PhoneInv(l)'
<1> DEFINE p == Peer(l)
           q == tx[p]
           op == Head(q)
<1>1. p \in Legs /\ p # l  BY DEF Peer, Legs
<1>2. Completes(p)  BY DEF Complete, TxOk, TxNoOpenDc, TxError
<1>3. q \in Seq(Ops) /\ q # <<>> /\ tx'[p] = Tail(q) /\ tx'[l] = tx[l]
      /\ todo' = todo /\ metered' = metered /\ cutoff' = cutoff
  BY <1>1, <1>2 DEF Completes, TypeOK, hookVars
<1>4. Unringing(Tail(q)) /\ op.goal \notin Rings
  BY <1>3, QueuedTail DEF PhoneInv
<1>5. st'[l] = st[l] /\ link'[l] = link[l]
  BY <1>1 DEF Complete, TxOk, TxNoOpenDc, TxError, SetState, SetStates, TypeOK
<1>6. st'[p] \in {Landing(p, op), "disconnected", st[p], FailedIntent(p, op.m)}
  BY <1>1 DEF Complete, TxOk, TxNoOpenDc, TxError, SetState, SetStates, TypeOK
<1> HIDE DEF op
<1>7. st'[p] = st[p] \/ st'[p] \notin {"calling", "ringing"}
  BY <1>4, <1>6 DEF Landing, FailedIntent, Rings
<1>8. st[p] # "calling" /\ ~ cutoff  BY DEF PhoneInv, PlanFits, Unbilled
<1>9. QED  BY <1>3, <1>4, <1>5, <1>7, <1>8, PhoneKeeps

\* While the drain runs a pass none of its operations is on a chain.
LEMMA NothingIssued ==
  ASSUME DrainWaitsForOne, phase # "wait", NEW l \in Legs
  PROVE  Issued(tx[l]) = {} /\ ~ EndIssued(tx[l])
<1>1. Issued(tx[l]) = {}  BY WaitsForEach DEF WaitsFor
<1>2. QED  BY <1>1 DEF Issued, EndIssued

\* The drain turns to the telephone.
LEMMA PhoneIntent ==
  ASSUME TypeOK, DrainWaitsForOne, NEW l \in Legs, isSip(l), ~ removed,
         PhoneInv(l), ExecuteIntent, Head(todo).on = l
  PROVE  PhoneInv(l)'
<1> DEFINE p == Peer(l)
           q == tx[l]
           i == Head(todo).do
           op == WorkOf(l, i, "P")
<1>1. p \in Legs /\ p # l  BY DEF Peer, Legs
<1>2. /\ todo \in Seq(Action) /\ todo # <<>> /\ todo' = Tail(todo)
      /\ link' = link /\ metered' = metered /\ cutoff' = cutoff /\ phase = "exec"
  BY DEF ExecuteIntent, TypeOK, hookVars
<1>3. Head(todo) = Intent(l, i) /\ i \in Intents
  <2>1. Head(todo) \in Action  BY <1>2, TodoType
  <2>2. QED  BY <2>1 DEF Action, Intent, Legs
<1>4. q \in Seq(Ops) /\ Issued(q) = {} /\ ~ EndIssued(q) /\ PhoneFits(q, st[l], link[l])
  BY <1>2, NothingIssued DEF TypeOK, PhoneInv
<1>5. ~ Queued(q, "answer")
  <2>1. ASSUME NEW k \in DOMAIN q, q[k].m = "answer"  PROVE FALSE
    <3>1. q[k].by = "P"  BY <1>4, <2>1 DEF PhoneFits, PhoneOp, Kind
    <3>2. QED  BY <1>4, <3>1 DEF Issued
  <2>2. QED  BY <2>1 DEF Queued
<1>6. PlanFits(l, todo, q, st[l], link[l], st[p]) /\ Has(todo, Intent(l, i))
  BY <1>2, <1>3, HasTail DEF PhoneInv
<1>7. /\ PlanFits(l, Tail(todo), q, st[l], link[l], st[p])
      /\ i = "answer" => NothingFor(Tail(todo), l)
      /\ ~ NothingFor(todo, l)
      /\ \A x : Has(Tail(todo), x) => Has(todo, x)
  BY <1>2, <1>3, <1>6, PlanTail, HasTail
<1>8. ~ metered  BY <1>7 DEF PhoneInv, Unbilled
<1>9. i \in {"answer", "ackConnected", "ackRing", "ackEnd", "endCall"}
      /\ (i \in {"answer", "ackConnected", "ackRing"} => link[l] = "none")
  BY <1>3, <1>6 DEF PlanFits, Intents
<1>10. st[l] \in {"disconnected", "calling", "answering", "inCall", "ending", "failed"}
       /\ (st[p] = "ringing" \/ Has(todo, Intent(p, "ring")) => st[l] = "calling")
       /\ (i \in {"answer", "endCall"} =>
             st[p] # "ringing" /\ ~ Has(todo, Intent(p, "ring")))
  BY <1>4, <1>6 DEF PhoneFits, PlanFits
<1>11. op \in Ops /\ op.by = "P" /\ ~ op.doomed
       /\ (i \in {"answer", "ackConnected", "ackRing", "endCall"} => PhoneOp(op) /\ op.m = i)
  <2>1. op \in Ops /\ op.by = "P"  BY <1>3, WorkOfType DEF TypeOK
  <2>2. op = [TransportWork(l, i, "P") EXCEPT !.doomed = FALSE]
    BY DEF WorkOf
  <2>3. CASE i = "answer"
    <3>1. TransportWork(l, i, "P") = Op("answer", "inCall", "P", TRUE)
      BY <2>3 DEF TransportWork
    <3>2. QED  BY <2>1, <2>2, <2>3, <3>1 DEF Op, PhoneOp, Kind
  <2>4. CASE i = "endCall"
    <3>1. TransportWork(l, i, "P") = Op("endCall", "end", "P", TRUE)
      BY <2>4 DEF TransportWork
    <3>2. QED  BY <2>1, <2>2, <2>4, <3>1 DEF Op, PhoneOp, Kind
  <2>5. CASE i \in {"ackConnected", "ackRing"}
    <3>1. TransportWork(l, i, "P") = Op(i, "keep", "P", i # "ackRing")
      BY <2>5 DEF TransportWork
    <3>2. QED  BY <2>1, <2>2, <2>5, <3>1 DEF Op, PhoneOp, Kind
  <2>6. CASE i = "ackEnd"
    <3>1. TransportWork(l, i, "P") = Op("ackEnd", "connected", "P", TRUE)
      BY <2>6 DEF TransportWork
    <3>2. QED  BY <2>1, <2>2, <2>6, <3>1 DEF Op
  <2>7. QED  BY <1>9, <2>3, <2>4, <2>5, <2>6
<1> HIDE DEF op
<1>12. \/ /\ ~ isIntentLegal(st[l], i)
          /\ st'[l] = FailedIntent(l, i) /\ st'[p] = st[p] /\ tx' = tx
       \/ /\ st' = st /\ tx' = tx
       \/ /\ isIntentLegal(st[l], i)
          /\ st'[l] = Entering(l, i) /\ st'[p] = st[p]
          /\ tx'[l] = Append(q, op) /\ tx'[p] = tx[p]
  BY <1>1 DEF ExecuteIntent, SetState, SetStates, Enqueue, TypeOK, op
<1>13. Unringing(tx'[p]) /\ ~ cutoff' /\ ~ metered'
  <2>1. tx'[p] = tx[p]  BY <1>12
  <2>2. QED  BY <1>2, <1>8, <2>1 DEF PhoneInv, Unbilled
<1>14. SUFFICES /\ PhoneFits(tx'[l], st'[l], link[l])
                /\ PlanFits(l, Tail(todo), tx'[l], st'[l], link[l], st[p])
  <2>1. st'[p] = st[p]  BY <1>12
  <2>2. QED  BY <1>2, <1>13, <2>1 DEF PhoneInv, PhoneFits, PlanFits, Unbilled
<1> HIDE DEF q
<1>15. CASE st' = st /\ tx' = tx
  BY <1>4, <1>7, <1>15 DEF q
<1>16. CASE /\ ~ isIntentLegal(st[l], i)
            /\ st'[l] = FailedIntent(l, i) /\ tx' = tx
  <2>1. CASE st'[l] = st[l]  BY <1>4, <1>7, <1>16, <2>1 DEF q
  <2>2. CASE st'[l] # st[l]
    <3>1. i \in {"answer", "ackConnected", "ackRing"} /\ st'[l] = "failed"
      BY <1>9, <1>16, <2>2 DEF FailedIntent, FAIL_ON_ERROR_INTENTS
    <3>2. PhoneFits(q, "failed", link[l])
      BY <1>4, <1>5, <1>9, <3>1, FitsIdle
    <3>3. st[l] # "calling"
      BY <1>16, <3>1 DEF isIntentLegal, LegalIn
    <3>4. PlanFits(l, Tail(todo), q, "failed", link[l], st[p])
      BY <1>7, <3>3 DEF PlanFits
    <3>5. QED  BY <1>16, <3>1, <3>2, <3>4 DEF q
  <2>3. QED  BY <2>1, <2>2
<1>17. CASE /\ isIntentLegal(st[l], i)
            /\ st'[l] = Entering(l, i) /\ tx'[l] = Append(q, op)
  <2>1. i # "ackEnd"
    BY <1>10, <1>17 DEF isIntentLegal, LegalIn
  <2>2. PhoneOp(op) /\ op.m = i /\ op.by = "P" /\ op \in Ops
    BY <1>9, <1>11, <2>1
  <2>3. \/ i = "answer" /\ st[l] \in {"calling", "answering"} /\ st'[l] = "answering"
        \/ i = "endCall" /\ st'[l] = "ending"
        \/ i \in {"ackConnected", "ackRing"} /\ st'[l] = st[l]
    BY <1>9, <1>10, <1>17, <2>1 DEF isIntentLegal, LegalIn, Entering
  <2>4. PhoneFits(Append(q, op), st'[l], link[l])
    BY <1>4, <2>2, <2>3, FitsIntent
  <2>5. /\ Queued(Append(q, op), "answer") => i = "answer"
        /\ EndIssued(Append(q, op)) => i = "endCall"
    BY <1>4, <1>5, <2>2, QueuedAppend
  <2>6. i \in {"answer", "endCall"} \/ st'[l] = st[l]  BY <2>3
  <2>7. PlanFits(l, Tail(todo), Append(q, op), st'[l], link[l], st[p])
    BY <1>7, <1>10, <2>5, <2>6 DEF PlanFits
  <2>8. QED  BY <1>17, <2>4, <2>7
<1>18. QED  BY <1>12, <1>15, <1>16, <1>17

\* The drain turns to the client.
LEMMA PhonePeerIntent ==
  ASSUME TypeOK, DrainWaitsForOne, NEW l \in Legs, isSip(l), ~ isSip(Peer(l)),
         PhoneInv(l), ExecuteIntent, Head(todo).on = Peer(l)
  PROVE  PhoneInv(l)'
<1> DEFINE p == Peer(l)
           i == Head(todo).do
           op == WorkOf(p, i, "P")
<1>1. p \in Legs /\ p # l  BY DEF Peer, Legs
<1>2. /\ todo \in Seq(Action) /\ todo # <<>> /\ todo' = Tail(todo)
      /\ link' = link /\ metered' = metered /\ cutoff' = cutoff /\ phase = "exec"
  BY DEF ExecuteIntent, TypeOK, hookVars
<1>3. Head(todo) = Intent(p, i) /\ i \in Intents
  <2>1. Head(todo) \in Action  BY <1>2, TodoType
  <2>2. QED  BY <1>1, <2>1 DEF Action, Intent, Legs
<1>4. op \in Ops /\ op.goal \notin Rings
  <2>1. op \in Ops  BY <1>1, <1>3, WorkOfType DEF TypeOK
  <2>2. TransportWork(p, i, "P").goal \notin Rings
    BY <1>3 DEF TransportWork, Op, Rings, Intents
  <2>3. op.goal = TransportWork(p, i, "P").goal
    <3>1. CASE i = "connect"
      <4> DEFINE goal == IF Role[p] = "caller" THEN "connected" ELSE "keep"
      <4>1. TransportWork(p, i, "P") = Op("connect", goal, "P", FALSE)
        BY <3>1 DEF TransportWork
      <4> HIDE DEF goal
      <4>2. QED  BY <4>1 DEF WorkOf, Op
    <3>2. CASE i = "answer"
      BY <3>2 DEF WorkOf, TransportWork, Op
    <3>3. CASE i \in {"ackEnd", "endCall"}
      BY <3>3 DEF WorkOf, TransportWork, Op
    <3>4. CASE i \in {"ring", "ackConnected", "ackRing"}
      BY <3>4 DEF WorkOf, TransportWork, Op
    <3>5. QED  BY <1>3, <3>1, <3>2, <3>3, <3>4 DEF Intents
  <2>4. QED  BY <2>1, <2>2, <2>3
<1> HIDE DEF op
<1>5. /\ st'[l] = st[l] /\ tx'[l] = tx[l]
      /\ st'[p] \in {st[p], FailedIntent(p, i), Entering(p, i)}
      /\ tx'[p] = tx[p] \/ tx'[p] = Append(tx[p], op)
  BY <1>1 DEF ExecuteIntent, SetState, SetStates, Enqueue, TypeOK, op
<1>6. Unringing(tx'[p])
  BY <1>1, <1>4, <1>5, QueuedAppend DEF PhoneInv, TypeOK
<1>7. st'[p] \notin {"calling", "ringing"} \/ st'[p] = st[p] \/ (st'[p] = "ringing" /\ i = "ring")
  BY <1>5 DEF FailedIntent, Entering
<1>8. st[p] # "calling" /\ ~ cutoff  BY DEF PhoneInv, PlanFits, Unbilled
<1>9. CASE st'[p] = "ringing" /\ i = "ring"
  <2>1. PlanFits(l, todo, tx[l], st[l], link[l], st[p]) /\ Has(todo, Intent(p, "ring"))
    BY <1>2, <1>3, <1>9, HasTail DEF PhoneInv
  <2>2. /\ PlanFits(l, Tail(todo), tx[l], st[l], link[l], st[p])
        /\ \A x : Has(Tail(todo), x) => Has(todo, x)
    BY <1>2, <2>1, PlanTail, HasTail
  <2>3. PlanFits(l, Tail(todo), tx[l], st[l], link[l], "ringing")
    BY <2>1, <2>2 DEF PlanFits
  <2>4. metered' => st'[l] = "disconnected" /\ tx'[l] = <<>> /\ NothingFor(todo', l)
    BY <1>2, <1>5, PlanTail DEF PhoneInv, Unbilled
  <2>5. PhoneFits(tx[l], st[l], link[l])'  BY <1>2, <1>5 DEF PhoneInv
  <2>6. PlanFits(l, todo, tx[l], st[l], link[l], st[p])'
    BY <1>2, <1>5, <1>9, <2>3 DEF PlanFits
  <2>7. QED  BY <1>2, <1>6, <1>8, <2>4, <2>5, <2>6 DEF PhoneInv, Unbilled
<1>10. CASE ~ (st'[p] = "ringing" /\ i = "ring")
  <2>1. st'[p] # "calling" /\ (st'[p] = "ringing" => st[p] = "ringing")
    BY <1>7, <1>8, <1>10
  <2>2. link'[l] = link[l] /\ ~ cutoff'  BY <1>2, <1>8
  <2>3. QED  BY <1>2, <1>5, <1>6, <2>1, <2>2, PhoneKeeps
<1>11. QED  BY <1>9, <1>10

\* The drain asks the policy for a new pass.
LEMMA PhonePass ==
  ASSUME TypeOK, DrainWaitsForOne, NEW l \in Legs, PhoneInv(l), DrainPass
  PROVE  PhoneInv(l)'
<1> DEFINE p == Peer(l)
           R == reconcile(st, media, lastEvent)
<1>1. p \in Legs /\ p # l /\ Peer(p) = l /\ \A k \in Legs : k = l \/ k = p
  BY DEF Peer, Legs
<1>2. /\ UNCHANGED <<st, tx, link, metered, cutoff>> /\ todo' = R
      /\ phase # "wait" /\ media \in BOOLEAN
  BY DEF DrainPass, hookVars, TypeOK
<1>3. ~ EndIssued(tx[l]) /\ ~ Queued(tx[l], "answer")
  <2>1. Issued(tx[l]) = {} /\ ~ EndIssued(tx[l])  BY <1>2, NothingIssued
  <2>2. ASSUME NEW k \in DOMAIN tx[l], tx[l][k].m = "answer"  PROVE FALSE
    <3>1. tx[l][k].by = "P"  BY <2>2 DEF PhoneInv, PhoneFits, PhoneOp, Kind
    <3>2. QED  BY <2>1, <3>1 DEF Issued
  <2>3. QED  BY <2>1, <2>2 DEF Queued
<1>4. /\ st[l] \in {"disconnected", "calling", "answering", "inCall", "ending", "failed"}
      /\ st[l] = "calling" => link[l] = "none"
      /\ st[p] # "calling" /\ (st[p] = "ringing" => st[l] = "calling")
  BY DEF PhoneInv, PhoneFits, PlanFits
<1>5. \A x : Has(R, x) => Asked(st, x)  BY <1>2, ReconcileAsks
<1>6. ~ Has(R, Intent(l, "connect")) /\ ~ Has(R, Intent(l, "ring"))
  <2>1. ASSUME Has(R, Intent(l, "connect"))  PROVE FALSE
    <3>1. Asked(st, Intent(l, "connect"))  BY <1>5, <2>1
    <3>2. isCaller(st[p]) /\ st[l] = "disconnected"
      BY <3>1 DEF Asked, Intent, Media, Legs
    <3>3. QED  BY <1>4, <3>2 DEF isCaller
  <2>2. ASSUME Has(R, Intent(l, "ring"))  PROVE FALSE
    <3>1. Asked(st, Intent(l, "ring"))  BY <1>5, <2>2
    <3>2. (isCaller(st[p]) /\ canBeRung(st[l])) \/ st[p] = "calling"
      BY <3>1 DEF Asked, Intent, Media, Legs
    <3>3. QED  BY <1>4, <3>2 DEF isCaller, canBeRung, RUNGABLE_STATES
  <2>3. QED  BY <2>1, <2>2
<1>7. ASSUME NEW i \in {"answer", "ackConnected", "ackRing"}, Has(R, Intent(l, i))
      PROVE  st[l] = "calling" /\ (i = "answer" => st[p] = "inCall")
  <2>1. Asked(st, Intent(l, i))  BY <1>5, <1>7
  <2>2. isCaller(st[l]) /\ (i = "answer" => st[p] = "inCall")
    BY <1>7, <2>1 DEF Asked, Intent, Media, Legs
  <2>3. QED  BY <1>4, <2>2 DEF isCaller
<1>8. ASSUME Has(R, Intent(p, "ring"))
      PROVE  st[l] = "calling" /\ canBeRung(st[p])
  <2>1. Asked(st, Intent(p, "ring"))  BY <1>5, <1>8
  <2>2. (isCaller(st[l]) /\ canBeRung(st[p])) \/ st[p] = "calling"
    BY <1>1, <2>1 DEF Asked, Intent, Media, Legs
  <2>3. QED  BY <1>4, <2>2 DEF isCaller
<1>9. ASSUME Has(R, Intent(l, "endCall"))
       PROVE  st[p] # "ringing" /\ ~ Has(R, Intent(p, "ring")) /\ st[l] # "disconnected"
  <2>1. Asked(st, Intent(l, "endCall"))  BY <1>5, <1>9
  <2>2. l \in toEnd(st)  BY <2>1 DEF Asked, Intent, Media, Legs
  <2>3. st[p] # "ringing" /\ st[l] # "disconnected"
    BY <2>2 DEF toEnd, isTeardown, TEARDOWN_STATES, callViable, CALL_VIABLE_STATES,
       needsEnding, ACTIVE_CALL_STATES
  <2>4. QED  BY <1>1, <1>2, <1>9, <2>3, ReconcileEndsAlone
<1>10. PlanFits(l, R, tx[l], st[l], link[l], st[p])
  <2>1. AnswerLast(R, l)  BY <1>2, ReconcileAnswersLast
  <2>2. \A i \in {"answer", "ackConnected", "ackRing"} :
          Has(R, Intent(l, i)) => link[l] = "none"
    BY <1>4, <1>7
  <2>3. Has(R, Intent(l, "answer")) =>
          st[p] # "ringing" /\ ~ Has(R, Intent(p, "ring"))
    BY <1>7, <1>8 DEF canBeRung, RUNGABLE_STATES
  <2> HIDE DEF R
  <2>4. QED  BY <1>3, <1>4, <1>6, <1>8, <1>9, <2>1, <2>2, <2>3 DEF PlanFits
<1>11. st[l] = "disconnected" => NothingFor(R, l)
  <2>1. SUFFICES ASSUME st[l] = "disconnected", NEW k \in DOMAIN R, R[k].on = l
                 PROVE  FALSE
    BY DEF NothingFor
  <2>2. Has(R, R[k])  BY DEF Has
  <2>3. Asked(st, R[k])  BY <1>5, <2>2
  <2>4. ASSUME NEW i \in {"connect", "ring", "answer", "ackConnected", "ackRing",
                          "endCall"}, R[k] = Intent(l, i)
        PROVE  FALSE
    BY <1>6, <1>7, <1>9, <2>1, <2>2, <2>4
  <2> HIDE DEF R
  <2>5. R[k] # Intent(l, "ackEnd") \/ st[l] # "endRequested"  BY <2>1
  <2>6. \A j \in Legs : \A i : R[k] = Intent(j, i) => j = l  BY <2>1 DEF Intent
  <2>7. \A op : R[k] # Media(op)  BY <2>1 DEF Media, Legs
  <2>8. QED  BY <2>1, <2>3, <2>4, <2>6, <2>7 DEF Asked
<1>12. PlanFits(l, todo, tx[l], st[l], link[l], st[p])'
  BY <1>2, <1>10 DEF PlanFits
<1>13. QED  BY <1>2, <1>11, <1>12 DEF PhoneInv, Unbilled

\* Before the first event nothing happens but the loss of a channel.
LEMMA UntouchedStep ==
  ASSUME TypeOK, DialogInv, [Next]_vars, nIngress' = 0
  PROVE  Untouched'
<1>1. ~ Ingress
  BY IngressDelivers DEF IsDelivery, Deliver, TypeOK
<1>2. nIngress = 0
  BY <1>1
     DEF Next, Drain, DrainPass, ExecuteIntent, ExecuteMedia, EndPass,
         DrainEnd, MediaDone, Complete, TxOk, TxNoOpenDc, TxError, Completes,
         LoseChannel, RegistryDestroy, RotateStart, Retire, Dispose, vars
<1>3. Untouched  BY <1>2 DEF DialogInv
<1>4. UNCHANGED <<phase, dirty, retiring, disposed, st, tx>>
  BY <1>1, <1>2, <1>3
     DEF Untouched, Next, Drain, DrainPass, ExecuteIntent, ExecuteMedia, EndPass,
         DrainEnd, MediaDone, Complete, TxOk, TxNoOpenDc, TxError, Completes,
         LoseChannel, RegistryDestroy, RotateStart, Retire, CanRetire, vars,
         polyVars, lifeVars
<1>5. QED  BY <1>3, <1>4 DEF Untouched

\* What a telephone leg is does not depend on the step that is taken.
LEMMA PhoneNext ==
  ASSUME OnlyCalled, OneTelephone, TypeOK, DrainWaitsForOne, DialogInv,
         [Next]_vars, ~ disposed', NEW l \in Legs, isSip(l)
  PROVE  PhoneInv(l)'
<1> DEFINE p == Peer(l)
<1>1. p \in Legs /\ p # l /\ \A k \in Legs : k = l \/ k = p  BY DEF Peer, Legs
<1>2. ~ disposed
  <2>1. Ingress => UNCHANGED disposed
    BY IngressDelivers DEF IsDelivery, Deliver
  <2>2. QED
    BY <2>1
       DEF Next, Drain, DrainPass, ExecuteIntent, ExecuteMedia, EndPass,
           DrainEnd, MediaDone, Complete, TxOk, TxNoOpenDc, TxError, Completes,
           LoseChannel, RegistryDestroy, RotateStart, Retire, Dispose, lifeVars,
           vars
<1>3. PhoneInv(l) /\ ~ removed  BY <1>2 DEF DialogInv
<1>4. ~ cutoff /\ st[p] # "calling" /\ Unringing(tx[p]) /\ ~ isSip(p)
  BY <1>3 DEF PhoneInv, PlanFits, Unbilled, OneTelephone
<1>5. CASE Ingress
  BY <1>2, <1>3, <1>4, <1>5, IngressOfTwo, PhoneClientEvent, PhoneInbound, PhoneBye
<1>6. CASE ExecuteIntent
  <2>1. Head(todo).on = l \/ Head(todo).on = p
    BY <1>1, <1>6 DEF ExecuteIntent
  <2>2. QED  BY <1>3, <1>4, <1>6, <2>1, PhoneIntent, PhonePeerIntent
<1>7. ASSUME NEW k \in Legs, Complete(k)  PROVE PhoneInv(l)'
  BY <1>1, <1>3, <1>7, PhoneCompletes, PhonePeerCompletes
<1>8. CASE DrainPass  BY <1>3, <1>8, PhonePass
<1>9. ASSUME UNCHANGED <<st, tx, metered>>, link'[l] = link[l], ~ cutoff',
             \/ todo' = todo
             \/ todo # <<>> /\ todo' = Tail(todo)
      PROVE  PhoneInv(l)'
  BY <1>3, <1>4, <1>9, PhoneKeeps
<1>10. CASE ExecuteMedia \/ MediaDone
  BY <1>4, <1>9, <1>10 DEF ExecuteMedia, MediaDone, hookVars
<1>11. ASSUME NEW k \in Legs, LoseChannel(k)  PROVE PhoneInv(l)'
  <2>1. k # l  BY <1>11 DEF LoseChannel
  <2>2. link'[l] = link[l]  BY <1>11, <2>1 DEF LoseChannel, TypeOK
  <2>3. QED  BY <1>4, <1>9, <1>11, <2>2 DEF LoseChannel, polyVars, hookVars
<1>12. CASE DrainEnd
  <2>1. ~ cutoff'
    <3>1. metered => ~ BothInCall(st)
      BY <1>3 DEF PhoneInv, Unbilled, BothInCall
    <3>2. QED  BY <1>4, <1>12, <3>1 DEF DrainEnd, SettleCallActivity
  <2>2. QED  BY <1>9, <1>12, <2>1 DEF DrainEnd
<1>13. CASE EndPass
  <2>1. /\ st' = Recover(Recover(st, "a"), "b")
        /\ UNCHANGED <<tx, link, todo, metered, cutoff>> /\ phase = "exec"
    BY <1>13 DEF EndPass, SetStates, hookVars
  <2>2. \A k \in Legs :
          st'[k] = st[k] \/ (st[k] = "failed" /\ st'[k] = "disconnected")
    BY <2>1 DEF Recover, TypeOK, Legs
  <2>3. CASE st'[l] = st[l]
    <3>1. st'[p] # "calling" /\ (st'[p] = "ringing" => st[p] = "ringing")
      BY <1>1, <1>4, <2>2
    <3>2. QED  BY <1>3, <1>4, <2>1, <2>3, <3>1, PhoneKeeps
  <2>4. CASE st[l] = "failed" /\ st'[l] = "disconnected"
    <3>1. ~ Queued(tx[l], "answer")
      BY <1>3, <2>4 DEF PhoneInv, PhoneFits
    <3>2. PhoneFits(tx[l], "disconnected", link[l])
      BY <1>3, <2>4, <3>1, FitsIdle DEF PhoneInv
    <3>3. st[p] # "ringing" /\ ~ Has(todo, Intent(p, "ring"))
      BY <1>3, <2>4 DEF PhoneInv, PlanFits
    <3>4. st'[p] \notin {"calling", "ringing"}  BY <1>1, <1>4, <2>2, <3>3
    <3>5. PlanFits(l, todo, tx[l], "disconnected", link[l], st'[p])
      BY <1>3, <3>3, <3>4 DEF PhoneInv, PlanFits
    <3>6. PhoneFits(tx[l], st[l], link[l])'  BY <2>1, <2>4, <3>2
    <3>7. PlanFits(l, todo, tx[l], st[l], link[l], st[p])'
      BY <2>1, <2>4, <3>5 DEF PlanFits
    <3>8. ~ metered'  BY <1>3, <2>1, <2>4 DEF PhoneInv, Unbilled
    <3>9. QED  BY <1>4, <2>1, <3>6, <3>7, <3>8 DEF PhoneInv, Unbilled
  <2>5. QED  BY <2>2, <2>3, <2>4
<1>14. ~ RotateStart  BY DEF OnlyCalled, RotateStart
<1>15. ~ RegistryDestroy /\ \A why \in RetireReasons : ~ Retire(why)
  BY DEF RegistryDestroy, Retire, Dispose
<1>16. CASE UNCHANGED vars
  BY <1>4, <1>9, <1>16 DEF vars, polyVars, hookVars
<1>17. QED
  BY <1>5, <1>6, <1>7, <1>8, <1>10, <1>11, <1>12, <1>13, <1>14, <1>15, <1>16
     DEF Next, Drain

LEMMA InitDialog ==
  ASSUME OneTelephone, Init  PROVE DialogInv
<1>1. ~ removed /\ Untouched  BY DEF Init, Untouched
<1>2. ASSUME NEW l \in Legs, isSip(l)  PROVE PhoneInv(l)
  <2> DEFINE p == Peer(l)
  <2>1. p \in Legs  BY DEF Peer, Legs
  <2>2. st[l] = "disconnected" /\ st[p] = "disconnected" /\ tx[l] = <<>> /\ tx[p] = <<>>
        /\ todo = <<>> /\ ~ cutoff
    BY <2>1 DEF Init
  <2>3. link[l] = "none"  BY <1>2 DEF Init, isSip
  <2>4. \A m : ~ Queued(<<>>, m)  BY DEF Queued
  <2>5. Unringing(<<>>) /\ ~ EndIssued(<<>>) /\ NothingFor(<<>>, l)
    BY DEF Unringing, EndIssued, NothingFor
  <2>6. PhoneFits(<<>>, "disconnected", "none")  BY <2>4 DEF PhoneFits
  <2>7. PlanFits(l, <<>>, <<>>, "disconnected", "none", "disconnected")
    BY <2>4, <2>5, HasEmpty DEF PlanFits, AnswerLast
  <2>8. QED
    BY <2>2, <2>3, <2>5, <2>6, <2>7 DEF PhoneInv, Unbilled
<1>3. QED  BY <1>1, <1>2 DEF DialogInv

LEMMA DialogStep ==
  ASSUME OnlyCalled, OneTelephone, TypeOK, DrainWaitsForOne, DialogInv, [Next]_vars
  PROVE  DialogInv'
<1>1. removed' => disposed'
  <2>1. Ingress => UNCHANGED <<disposed, removed>>
    BY IngressDelivers DEF IsDelivery, Deliver
  <2>2. QED
    BY <2>1
       DEF DialogInv, Next, Drain, DrainPass, ExecuteIntent, ExecuteMedia, EndPass,
           DrainEnd, MediaDone, Complete, TxOk, TxNoOpenDc, TxError, Completes,
           LoseChannel, RegistryDestroy, RotateStart, Retire, Dispose, lifeVars,
           vars
<1>2. ~ disposed' => \A l \in Legs : isSip(l) => PhoneInv(l)'
  BY PhoneNext
<1>3. nIngress' = 0 => Untouched'  BY UntouchedStep
<1>4. QED  BY <1>1, <1>2, <1>3 DEF DialogInv, isSip

\* In a session whose client calls nobody the dialog of the telephone leg is up,
\* once everything has settled, exactly when the leg is in call, in whatever
\* order offers, answers, ends, cancels, losses and failures came in and however
\* long they queued (SipLeg.js, tryInboundReuse, attachSbcByeHandler).
THEOREM DialogFollowsTheCall ==
  ASSUME OnlyCalled, OneTelephone
  PROVE  Spec => []DialogMatchesCall
<1>1. Init => DialogInv
  BY InitDialog
<1>2. TypeOK /\ DrainWaitsForOne /\ DialogInv /\ [Next]_vars => DialogInv'
  BY DialogStep
<1>3. DialogInv => DialogMatchesCall
  <2>1. SUFFICES ASSUME DialogInv, Settled, NEW l \in Legs, isSip(l)
                 PROVE  link[l] = "open" <=> st[l] = "inCall"
    BY DEF DialogMatchesCall
  <2>2. PhoneFits(tx[l], st[l], link[l]) /\ tx[l] = <<>>
    BY <2>1 DEF DialogInv, PhoneInv, Settled
  <2>3. ~ Queued(tx[l], "endCall")  BY <2>2 DEF Queued
  <2>4. QED  BY <2>2, <2>3 DEF PhoneFits
<1>4. QED
  BY <1>1, <1>2, <1>3, TypeCorrect, OneOperationAwaited, PTL DEF Spec
==============================================================================

# arnacon-webrtc-service: a TLA+ development

The service connects WebRTC clients (over data channels, HTTP and push
notifications) with each other and with telephones (over SIP, through an SBC).
It is one Node.js process: no threads, but every `await` lets other messages in,
and most of what can go wrong here goes wrong between two awaits. These modules
model the coordination of a call: who is told what, in which order, and what is
left when it is over; and what a call depends on besides: its route, its
notification, its audio line, its minutes. Samples, the text of an SDP and remote
services are abstracted.

All source paths below are relative to `src/webRTCservice/`.

## 1. Inventory

| Component | State | Operations | Correct when |
|---|---|---|---|
| Call states and legality (`modules/calls/poly/states.js`, `LegStateBehavior.js`, `ports.js`) | none (tables) | classify a state; is an intent legal in it | classes and legality agree with the rules |
| Reconcile policy (`poly/ReconcileRules.js`) | none (pure) | two leg states, media, last event → list of actions | only legal intents; a waiting caller is served |
| PolySession and its legs (`poly/PolySession.js`, `SessionLeg.js`, `legs/`) | two leg states, signaling chains, dirty and running flags, media handle, call-active flag | ingress events, drain, recovery, media, hooks, rotate, dispose | nobody is in a call alone; media and billing follow the call; an end is answered; a disposed session is empty |
| Negotiation (`poly/negotiation/`), client media leg (`modules/media/`) | peer connection, transceivers, sender identity, held answer, open offers | connect, ring, answer, end, apply an offer or answer, recover | one audio line; each call under a new identity; an answer fits its offer |
| SIP client and runtime (`modules/gateways/sip/`) | dialog, cancelled and ended marks | INVITE, answer, BYE, remote BYE | a dialog lives as long as its leg is in call |
| Registry (`poly/PolySessionRegistry.js`) | sessions by pair; `byEndpoint` is written and never read | resolve, destroy | nothing alive is missing from it |
| Session store, pair resolution, offer intake, rotation (`modules/runtime/`, `modules/calls/webrtc/`) | sessions by id, connection of each | classify an offer, take over, rotate, drop | one session per pair; the old one ends, one new one starts |
| Inbound flow (`modules/calls/inbound/InboundCallFlow.js`) | `pendingInboundCalls` is written and never read | make a session, invite, seed the PolySession | the session invited is the one seeded |
| Transfers (REFER, `webRTCmanager.js`) | a state and a timer per transfer, a mark on the session | invite, accept, commit, reject, time out | every transfer is settled; a marked session has its state |
| Wiring (`webRTCmanager.js`) | sessions, timers | data channel and HTTP handlers, transport loss, hooks, guard | each handler leaves a pair as it promises |
| Multiring (`modules/calls/webrtc/MultiringCoordinator.js`) | groups, candidates, five indexes, timer | start, answer, decline, pickup, hand-off, loss | one winner; no call hangs; nothing is left behind |
| Minute counter (`modules/callFeatures/minuteCounter/`) | seconds per identity and month, in a file | check, start, finish, cutoff | no seconds lost, none charged twice, the limit kept |
| Provisioning (`modules/routing/LightPbxProvisionReader.js`) | route, miss, highest revision | look a key up on the chain | no older revision, no stale or unsound route is served |
| Notification plan (`modules/gateways/notification/`, `blockchain/`) | values bound so far, position in the plan | find provider, wallet and plan; run its steps | sent means delivered; nothing is sent twice without need |
| Call registry and state machine (`modules/calls/`) | calls by session | register, remove | nothing asks it: `callRuntime` is null (`webRTCmanager.js:687`) |
| IVR, OpenAI agents | | | not connected: `webRTCmanager.js:741` drops IVR playback, and no module of the agents is required |
| HTTP server, messaging, per-customer services | per request | | |

How they interact. A wire message reaches `webRTCmanager.js`, which finds the
pair's PolySession in the registry and delivers a leg event (`onIngress`). The
leg applies it, behind a promise chain where it needs the transport, and each
change of state wakes the drain, which asks the policy for actions and awaits
them one by one on the legs. The legs call the negotiation; its callbacks (a
channel opens, a BYE arrives, a transport is lost) come back as ingress. Hooks
attached by the manager start and finish the minute counter. An offer, a
transfer, a cancel or the loss of a transport replaces or removes the session of
the pair in several awaited steps. A ring group works beside this on connections
of its own, until the first pickup, which creates the PolySession and hands the
connection over. The provision is read before a telephone's call is routed, the
notification plan is run to wake a callee.

Hard behaviours. (1) State read before an await and written after it, on a leg or
a session that another message changed meanwhile. (2) A drain that must neither
stop short nor run for ever. (3) End, end-call offer and end-call answer share one
wire action. (4) Timers (cutoff, no answer, transfer, lookup) against the event
they time out. (5) Failure of one step of several. (6) Disposal with operations in
flight. (7) Indexes that several calls share. (8) One audio line reused by call
after call. `PROJECT.json` lists the hazards line by line, with the properties that watch
each; a hazard without one has a note, which names the property that states it and is
violated (section 6) or says what the models leave out.

## 2. Modules

| Module | Models |
|---|---|
| `LegStates` | leg states, their classes, the intents and the LEGALITY table |
| `ReconcileRules` | the rule table, one operator per block of `reconcile` |
| `ReconcilePolicy` | abstract use of the rules: the legs may be in any states, media and event anything |
| `PolySession`, `MCPolySession` | mediator, legs and the transports below them for one pair |
| `AudioLine` | one client's negotiation over one connection that call after call reuses |
| `PairSessions` | the sessions and PolySessions of one pair: offers, rotation, cancel, transport loss, inbound calls, transfers |
| `Multiring`, `MCMultiring` | a ring group and the hand-off to its winner |
| `Ledger` | what metering promises: an abstract ledger |
| `MinuteCounter`, `MCMinuteCounter` | the minute counter and its calls; implements `Ledger` |
| `ProvisionReader`, `MCProvisionReader` | overlapping reads of a provision that changes |
| `NotificationPlan`, `MCNotificationPlan` | finding and running a downloaded notification plan |
| `*_proofs` | theorems about the module of that name; those about `ReconcilePolicy` are in `ReconcileRules_proofs` |

They compose by abstraction. `ReconcileRules` is used as it is by `PolySession`,
and `ReconcilePolicy` shows what it promises on any snapshot. `PairSessions` takes
the inside of a PolySession for granted (it is live, being disposed of, or
disposed) and is about which of them the registry holds; `PolySession` has its
creation and disposal as events. `AudioLine` takes the coordinator for anyone who
issues legal intents to one leg, one at a time; `PolySession` is about which ones.
`MinuteCounter` has the hooks of a call where `PolySession` has the fact that
they ran (`BillingMatchesCall`).

**PolySession.** `st` is the state of the legs, `tx` the signaling chain of each
(`_signalingChain`; the head is in flight), `link` the transport of each,
`phase`, `todo`, `cur`, `dirty`, `passes` the drain, the rest as commented at
VARIABLES. A handler up to its first await is one action; the end of an awaited
operation with the code after it is one action (`TxOk`, `TxNoOpenDc`, `TxError`);
the drain is one action per pass start, per action and per pass end, which no
event can interrupt, because between them there are only microtasks
(`MicrotasksDone`). Two handlers of one client are thus ordered as the wire
delivered them, everything else interleaves freely. Roles distinguish a caller
(its connection exists), a callee woken by a notification, a callee that adopts
the session the inbound flow invited, and a SIP leg.

**AudioLine.** `chain` is the leg's signaling chain with its first operation in
flight, `sig` the offer/answer state of the connection, `lines` its audio
transceivers (mid, direction, track, identity), `held` the answer kept for the
pickup, `up` and `down` the data channel, which is reliable and in order. The
connection (werift) is external and modelled as the code uses it: an offer while
ours is open is refused, an offer under an unknown mid adds a line, and
`replaceTrack(null)` does nothing. The client takes its own offer back when ours
arrives and declines over HTTP. A third failing attempt of the recovery from a
mapping error is not modelled, nor a leg bridged again after its media was taken
down in the middle of a call. Some properties are promised only where nothing
crossed: `crossed` remembers that an offer was refused, an answer was taken for
that to another offer, or an operation set a state although the state had changed
since it was asked for, also where it has changed back: such a completion overwrites
what a newer operation, asked for in the meantime, was asked for in.

**PairSessions.** `ops[i]` says what handler i waits for (`at`) with the session,
connection and id it has read; a handler runs to its next await in one action. A
session has its connection and its mark `referTransfer`; `transfers` is
`referTransferStates` with the timer. Handlers of one pair interleave at every
await, as HTTP requests, channel messages and timers do.

**Multiring.** A candidate is a pair of call and target. `job` is how far
`_createCandidate` got, `status` the candidate's own, `pc` its connection, then
the indexes by name. Every path of the code that closes candidates or groups goes
through `closeCandidate` and `_finishGroup`; `Teardown` is their combined effect.
Wallets of one group are distinct, as a provisioned group's are, and a repeated
HTTP answer while the first is being applied is not distinguished from a failed
one. A failed offer leaves its connection to the host session.

**MinuteCounter.** A call is a line; `meter` is when its counter started, `cutoff`
when its timer fires, the entry of an identity is total, month and cap, read from
a file and written back. `Ledger` knows only what is spent by whom, and
when a call began. Time is a counter up to `Horizon`; seconds and minutes are
not distinguished.

**ProvisionReader.** One action per step between awaits: a lookup starts, its
answer comes (in any order, even after its caller has timed out) or fails; `Write`
is the owner's. Identities share nothing, so `provisionCache`, `missCache` and
`highest` are the reader's maps for one of them; `served` is what the step gave a
caller and `top` the highest revision that was ever served.

**NotificationPlan.** A plan is a sequence of steps; what a
placeholder holds is its raw text, a value that matches the conditions, another, or
nothing. A request is refused, is accepted although it looks failed, or is accepted
with or without the field that is to be extracted. What was sent, missed and accepted
is kept in history variables.

## 3. Runs

| Run | Instance | Shows |
|---|---|---|
| `policy` | all 15 × 15 leg states, media, event | no rule asks for an illegal intent; no caller is left waiting for a leg at rest |
| `web_calls` | two clients; offer, answer, stray answer, end, cancel, reject, lost callee, HTTP cancel, destroy; 6 events, one fault | nobody in a call alone, media follows the call, every end answered, no failed leg left, no invite awaited that was not sent, the drain converges |
| `telephone_in` | telephone and client; inbound call, answer, end, BYE, reject, transport lost or failed; 8 events, one fault | dialog up exactly when the SIP leg is in call |
| `prepaid` | client and telephone, metered, cutoff at any time; offer, end, BYE, rotation, lost client; 6 events | billing exactly while both are in call; a disposed session is empty; disposal is reached |
| `sessions` | one pair, two handlers at a time, 2 sessions, 2 PolySessions, 2 transfers | nothing alive is lost from the registry; a marked session has its transfer; transfers are settled |
| `audio` | 2 offers and rings, one SDP error, one mid | one audio line, new identity per call, answers that fit, media as described, ends settled |
| `multiring` | two calls of one number, to two clients and to one of them | indexes, host session, nothing hangs, first pickup final and not undone, every call settled |
| `metering` | 2 lines of one identity, 1 of another that is capped; month of 2, horizon 3, a file fault, a restart | implements the ledger; the counter runs only in a call; one line keeps the limit |
| `provisions` | 2 readers, 2 keys, 3 revisions, 2 writes, lookups that outlive their caller | no older revision, no stale miss or route, no unsound route |
| `notification` | every plan of up to 3 steps over one placeholder, 2 domains | sent means accepted; repeated only in doubt; unbound text only after a miss; every plan ends |
| `hangup_lost`, `ghost_call` | smallest instance that shows it | a place where the code does not do what its comments or tests say (section 6) |

The types and `DrainWaitsForOne` of the roles with a telephone are left to the
proofs, which cover every role.

Bounds. `MaxIngress` bounds the events of a behaviour: a whole call is four of
them (offer, answer, end, end-call answer), so six to eight are a call and most
of another in the same session, or a call with several collisions. `MaxQueue`
is the number of operations a leg may still hold when an event arrives: 1, an
event behind one operation in flight, is the collision the awaits allow; deeper
queues add only repetitions of it and are explored by the drain's own operations,
which the bound does not limit. `MaxFaults` is 1: every property about failure is
about one failed step. `MaxPasses` is the code's own limit of 50, except in
`web_calls`, where 9 makes `Converges` say more: no drain there needs nine passes.
Transport openings are answers to an invite and are not bounded. Multiring needs
no bound: calls and targets are finite and each connection lives once. In
`sessions`, two handlers are what a race takes, two sessions the old and the new
one; a third would be replaced as the second is. In `audio`, two offers are a call
and a redial, or a call and a restart, or a collision; the invariants hold with three
too (2.5 million states), and those that presuppose that nothing crossed, without
errors, with six (11 million such states). In `metering` a month of 2 within a
horizon of 3 puts its end before, into and after a call. In `provisions` the
lookup lives one tick longer than its caller waits, which lets it answer behind
another; readers and keys are interchangeable, hence the symmetry. Three steps of
a plan are a push, a condition that skips it and what comes after.

A pass means: no counterexample within these instances. Their events leave out what
the code is known to fail at (section 6): `web_calls` has no dead caller's channel,
`telephone_in` no calls of the client back to the telephone, `prepaid` no cancel or
destroy, `audio` one mid. Deadlock is not checked, since a call that is over, or whose
clients do nothing, legitimately stops.

Fairness. `PolySession`: the drain's microtasks run; an operation on a chain ends
(an INVITE has a 30 second timer, the SDP engine is local, notifications are
bounded requests); a handler that waits goes on when what it waits for is there.
`Multiring`: the service goes on with each call (its offers, its timer, its
hand-off). `PairSessions`: an armed timer fires and reports, and each await of a
handler ends, for the same reasons. `AudioLine`: an operation settles, the channel
delivers and the client's SDP engine answers an end (the property is about a
client that is there), the coordinator does what a change of state made due.
`NotificationPlan`: lookups and requests end, as they have timeouts. No fairness is
assumed of people, telephones or faults. `MinuteCounter` and `ProvisionReader` have
safety properties only.

## 4. Proofs

For every value of the constants (roles, events, bounds, groups, lines, plans):

- `ReconcileLegal`: for any leg states, media and event, each action of the
  policy is one the leg accepts. By cases over the blocks of the rule table: each
  block's guard selects states in which LEGALITY admits the intent.
- `PolicyIsLegal`: hence `IntentsLegal` always holds.
- PolySession, `TypeCorrect`: one lemma per action; the lemmas about the helpers
  (`WorkOfType`, `LandingType`, `DeliverType`, ...) give what each returns.
  `TypeOK` is inductive by itself, given `ReconcileLegal`'s type.
- `OneOperationAwaited`: `DrainWaitsForOne`, the drain waits for exactly the
  operation it issued. Inductive together with `TypeOK`: only the drain appends an
  operation marked as P's, only in phase "exec", which then becomes "wait", and
  only the completion of that operation leaves "wait".
- What a PolySession rests in: `NobodyIsLeftInCall`, `MediaFollowsTheCall`,
  `EveryEndIsAcknowledged`, `FailedLegsRecover`. A settled state says nothing by itself;
  the invariant (`SnapshotHolds`) is about the pass under way. Every change of a leg
  makes the drain dirty, so while the session is calm (not dirty, not disposed) the
  legs are in the states of the last snapshot, and what the policy asked for on it is
  still to be executed, is awaited, or was executed without changing a state
  (`Snapshot`). The rules give what is owed (lemmas of ReconcileRules_proofs: who is
  to be ended has an `endCall`, a bridge is asked for only within a call or behind an
  answer, ...), and
  an executed `endCall` or acknowledgement does change a state (`ExecuteIntentSnapshot`,
  `CompleteSnapshot`), so in a settled session nothing is owed. `CalmStep` reduces the
  steps to the few that keep a session calm. The four assume `[]Converges`: a drain cut
  off by its pass limit stops with work owed. The code does not promise that this never
  happens (section 6 has a session that reaches the limit), so it is an hypothesis of
  the theorems and a property of the run `web_calls`.
- `BillingFollowsTheCall`: the counter runs exactly when the last settled drain saw both
  legs in call. It needs no `[]Converges`, as the end of a drain compares the states,
  not the snapshot. Its hypothesis, `OutboundOnly \/ ~ Metered`, leaves out the sessions
  in which an inbound call exchanges the hooks while the counter runs, where the
  property fails (section 6).
- `ConnectingLegIsInvited`: no operation of a chain leaves its leg in connecting and only
  the drain's own brings a transport up (`ChainsSound`), and a leg in connecting has a
  connect queued or its channel outstanding (`InviteInv`). Legs that adopted a session
  are left out: they fail (section 6).
- `RetiredSessionIsEmpty`: a disposed session is empty (`RetiredInv`), because what still
  completes in its chains brings no transport up: that is work of the drain
  (`ChainsSound`), and the drain waits for nothing (`DrainWaitsForOne`). Its hypothesis leaves out the cancel
  over HTTP and the destruction by the registry, which dispose of a session without
  waiting for it and fail (section 6).
- `DialogFollowsTheCall`: the dialog of a telephone leg is up exactly when the leg is in
  call (`DialogMatchesCall`), for any faults, bounds and queue, in sessions whose client
  calls nobody (`OnlyCalled`; `OneTelephone`: no session joins two telephones, as the
  registry makes none). At rest chain and plan are empty; under way, `DialogInv` has to
  say what they may hold: dialog and state may differ only behind an end that is
  queued; an answer waits only on a leg in answering with nothing else for
  it behind (`ReconcileAnswersLast`: the policy names a leg after its answer in no
  pass), an INVITE only on a leg without a dialog (`PhoneFits`); and a client rings only
  while the telephone calls, so that what it answers is that call (`PlanFits`). With calls in
  both directions the property fails (section 6). Rotations are left out because the end
  they queue behind an answer is not the policy's, and the invariant does not cover it;
  TLC finds no failure with them (7 events, 9.2 million states).
- `CallersAreServed`: `CallerIsServed` on every snapshot, by cases over the state of the
  caller's peer; for each state at rest one block of the rule table answers.
- Multiring: `TypeCorrect`, `IndexesAreRight`, `HostIsRight`, `CallsDoNotHang`, all
  from the inductive invariant `Ind`, which adds to the properties what they need of
  each other: a call that has not come in has nothing, a candidate whose offer is not
  made is in no index (else registering it could make an index point at a closed
  one), the winner was tracked, and the hand-off begins with the pickup and ends with
  the group. `TeardownKeeps` treats every way of closing candidates at once.
  `FirstPickupWins` and `PickupSurvives` are about single steps.
- PairSessions: `TypeCorrect`, `RegistryStaysSound` and `ControllersHaveState`. Each is
  inductive with the types. For the registry, `DropKeepsSound`, `ResolveKeepsSound`
  and `RotatedKeepsSound` say what the three ways of changing it do, and
  `WaitKeepsRotations` that no other handler's step ends a rotation; for the
  transfers, `MarksKept` treats every step that marks no session.
- MinuteCounter: `CounterIsSound` (`CounterRunsInCall`, inductive with the types) and
  `LedgerIsKept`, the refinement: the initial books are the ledger's
  (`InitRefines`), and each step is a ledger step or leaves the books alone
  (`NextRefines`): a read is a stutter (`ReadingIsInvisible`) because what is read is
  what was written (`ReadingSeesLedger`), and a finish is the ledger's end of a call
  with the same charge (`FinishCharges`). `SoleLineSpendsItsLimit` (`SoleLineWithinLimit`)
  adds what the line can still be charged with (`Spends`): a ringing line is below its
  limit, and the account with what the call has taken or may take until its cutoff is
  not above it; no other line touches the account (`OthersSpendElsewhere`), a new month
  only empties it, and the rounding of the last call adds the one second.
- AudioLine: `OneLineForEveryCall` (`OneAudioLine`, however many calls, restarts, repairs
  and SDP errors the connection sees) from `LineInv`: the types, in which the connection has at
  most one line, under no mid yet or under 1, and every offer of the client names mid 1;
  and that an offer which is being answered has its line, else answering could attach a
  second. Each way of changing the lines keeps one (`AttachedOne`, `RepairedOne`, ...),
  and an operation that fails leaves them as they were or finds them. Its hypothesis,
  `OneMid`, is that the client offers its audio under the mid our own offers give it; with
  two mids the property fails (section 6). `RingsAreFresh` (`RingIsFresh`, the half of
  `FreshIdentity` that holds whatever crossed) from `RingInv` beside it: every identity in use was minted (`AllMinted`); a ring that is
  about to be sent is the operation that runs, and its identity lies above all that the
  client knows or will hear (`RingAhead`); once sent, it lies above what the client knows
  and what comes before it (`RingOrder`), so that a pickup never tells it an old one.
- ProvisionReader: `RevisionsNeverGoBack` and `ServedRoutesAreSound` from `Inv`: what is
  cached is sound and no newer than the highest revision seen, nothing newer than that
  was ever served, and what a lookup brings was published. `MissesAreRecent` and
  `RoutesAreRecent` from `TimeInv`, which gives every read the moment its lookup was
  started and bounds it by the call's life, and every cached answer an end no later
  than its moment, that life and the cache's own together.
- NotificationPlan: `SentIsAccepted`, `NoNeedlessDuplicate`, `PlaceholdersAreReplaced` from
  `IInv`: the plan runs forward (`RunsForward`), the requests behind it were accepted
  (`RequestsAccepted`), at most twice and then in doubt (`AcceptedCount`), and what was
  bound without a miss stays bound (`BoundStays`).

The only assumptions are the `ASSUME`s of the modules (roles are roles, bounds are
naturals, ring groups are nonempty sets of targets, published routes have
revisions, `None` is fresh), which TLC evaluates in the runs.

Only model-checked: `Converges`, which needs a measure over every way events and
completions interleave with passes and holds for the events of its run, not for all
(section 6); `AnswerFits`, `BridgedIsDescribed` and, of `FreshIdentity`, what it says of answers
(section 7), with the larger bounds of section 3; and all liveness, which is out of the
prover's reach.

## 5. Not modelled

SDP text, codecs, RTP, ICE, DTMF and hold events, which change no leg state;
message relay, HTTP parsing, signatures and the verification of tokens; outcome
reports of calls; remote services except for what they may answer; the strategies
and the router API, which dispatch without state; the per-customer services, which
are configuration and routing decisions. IVR and the OpenAI agents are not
connected to the program, and nothing asks the Call registry (section 1). Of the
SIP client, the time between the start of an INVITE and its registration with the
session, and the retry after SIP_PC2_NOT_CONNECTED, are folded into the one
operation. Several pairs of one endpoint are not composed.

## 6. Where the code and its text disagree

Two are runs whose counterexample TLC prints:

- `hangup_lost`: a client's end that arrives while its answer is being sent is
  overwritten by the answer's completion; the call goes on.
- `ghost_call`: a cancel that arrives while a ring of the pair waits for its
  destination removes the session, and the ring then creates the PolySession of a
  session that is gone ("A cancel MUST always leave the pair truly empty",
  `webRTCmanager.js:2657`).

Five more have a configuration beside them, `tlc -config <name>.cfg <module>`, which
prints the counterexample:

- `cutoff_dialog` (`MCPolySession`, `DialogMatchesCall`): the prepaid cutoff ends the SIP
  leg with `ackEnd`, a no-op for SIP, so no BYE is sent and the telephone stays off
  the hook (`webRTCmanager.js:2144`).
- `multiring_cut_off` (`MCMultiring`, `EveryTargetIsHeard`): one client's decline or loss
  ends the whole call while the offer for another is still being made
  (`MultiringCoordinator.js:349`; the test at `MultiringCoordinator.test.js:185` has the
  call go on).
- `multiring_lost_pair` (`MCMultiring`, `RingingIsAuthenticated`): a second call of the
  same number to the same client takes away the pair by which the first call's answer
  is authenticated (`MultiringCoordinator.js:107`).
- `overdraft` (`MCMinuteCounter`, `EveryTalkIsCapped`): of two calls of one identity let
  through together, the one that is answered when nothing is left gets no cutoff,
  because the timer is armed only for a positive remainder (`webRTCmanager.js:2136`,
  against the comment at 2107).
- `glare` (`AudioLine`, `GlareIsAccepted`): an offer of the client that arrives while ours
  is open is to be accepted (`SessionLeg.js:214`), but the SDP engine refuses it and
  nothing rolls ours back; the sender's identity has been rotated for it by then.

A winner that hangs up during the hand-off closes its candidate, but the group is not
finished and the hand-off completes anyway (`MultiringCoordinator.js:373`):
`HandedOffIsConnected` under the constants of `multiring_cut_off`. Each of the following
is reproduced by an `MCPolySession` configuration with the role and events given
(`Metered = FALSE`, no fault, at most 6 events unless said, `MaxQueue = 1`) and the
property named, all of which are in `PolySession`.

| What | Role, events | Property |
|---|---|---|
| A second call answered within one drain runs on the first one's `onCallStart` (`PolySession.js:230`) | WebToSip, metered; offer end bye | `BillingBracketed` |
| The counter outlives its call when an inbound call exchanges the hooks (`webRTCmanager.js:2466`) | WebToSip, metered; offer inbound cancel | `BillingStops` |
| A callee lost while ending rests in ENDING (`SessionLeg.js:196`) | WebToWeb; offer answer end calleeClose | `LostCalleeSettles` |
| A caller whose channel is dead is connected and rung up to the pass limit (`SessionLeg.js:86`) | WebToWeb; offer lose, one fault | `Converges` |
| A callee that adopted its session waits for a channel that is open already (`createPolyCore.js:49`) | SipToWeb; offer end answer | `InviteOutstanding` |
| A cancel over HTTP overtakes an offer, whose call is then answered (`webRTCmanager.js:2668`) | WebToSip; offer httpCancel | `RetiredIsEmpty` |
| The same on a dead channel: the dialog is not closed (`webRTCmanager.js:2690`) | WebToSip; offer httpCancel lose, one fault | `RetiredIsEmpty` |
| A BYE handled behind the next INVITE leaves a dialog nobody owns (`SessionLeg.js:310`) | SipToWeb; offer answer end bye, 8 events | `DialogMatchesCall` |
| A second offer in a call leaves the caller unanswered (`ReconcileRules.js:41`) | WebToSip; offer | `PolicyIsSatisfied` |
| A session destroyed in mid-drain gets a bridge or an invite afterwards (`PolySessionRegistry.js:95`) | WebToSip; offer destroy | `RetiredIsEmpty` |

Smaller ones, seen in the source; those of the first two paragraphs are part of the
models.

Legs and audio. An `ackEnd` that fails leaves its leg in END_REQUESTED, as does one
whose SDP meets an open offer of ours. A reject on a closed channel leaves
REJECTING. The completion of a pickup or an offer overwrites an END_REQUESTED or
RINGING that came meanwhile, also when the leg was acknowledged, rung and ended again
since: the peer's pickup then sends the answer of the older offer under the call of
the ring (four offers; why `crossed` ages operations instead of comparing states). A bare end of the client while it rings leaves our offer
open, so its next offer is refused. An offer under another mid adds a second audio
line with the real SDP engine (`Mids = {1, 2}` violates `OneAudioLine`; the test
`WebRtcNegotiation.test.js:1012` uses a fake connection), and `replaceTrack(null)`,
meant to silence the sender, does nothing there. A candidate tracked after its group
was finished is never untracked; a late HTTP answer falls back to a candidate of
another call of the same number. The cutoff timer is not cleared by `dispose`.

Sessions and transfers. The timer of a transfer whose session was replaced destroys
the session that is then under the id; the late close of an old connection fails the
transfer of the fresh session (`webRTCmanager.js:2764`), and its `destroySession` after
several awaits can hit a session made since, against the comment at 2770. A rotation
does not destroy the runtime's session, because `callRuntime` is null
(`webRTCmanager.js:687`; the comment at `WebRtcOfferUseCase.js:200` says it does). A
transfer may be reported both failed and committed; two invitations can mark one
session.

Outside the models. `session.sipConnection` is set only after the user agent has
started and registered (`SipClient.js:111`, `154`): a hangup before that closes nothing
and the INVITE goes out. `isTerminalForSipEvents` is constant (`webRTCmanager.js:712`). When
`openInboundSipSession` times out, it closes neither agent nor registration nor
invitation. `destroySession` does not close SIP. `services/secnum.js:388` and `534` bypass
the LightPBX lookup its tests expect. The call monitor keeps the finished attempt of a
reused WebRTC call, so the second call is never reported (`webRTCmanager.js:2183`, `954`);
an attempt begun over one not yet reported overwrites it.

## 7. Plan

Done: 1. the policy and its proofs; 2. PolySession with type correctness,
`DrainWaitsForOne`, what its sessions rest in and `DialogMatchesCall` proved; 3. Multiring with its invariants proved; 4. the minute
counter and its refinement of a ledger, proved; 5. the sessions, rotations and
transfers of one pair, with their invariants proved; 6. the inbound flow, as part of
5; 7. the audio line, of which `OneAudioLine` and
`RingIsFresh` are proved; 8. the provision reader, proved; 9. notification plans, proved.

Left, in this order:

10. AudioLine: `AnswerFits`, the answers of `FreshIdentity`, and `BridgedIsDescribed`. Their
    invariant has to say which call each identity and each held answer belongs to, over
    everything the two sides have said and not yet handled: where no offer of ours is open,
    nothing of it answers one, and nothing but the client's open offer or end is on its way.
    The types and the identities of `AudioLine_proofs` are the base.
11. `Call`: the abstract call of two parties (idle, setting up, up, ending), and
    PolySession, restricted to one call, shown to implement it by a mapping of `st`.
12. The single-call guard over the pairs of one endpoint, on top of PairSessions.
13. The SIP client in full: the window before registration, the retry of an INVITE.

------------------------------- MODULE Multiring -------------------------------
(***************************************************************************)
(* MultiringCoordinator.js and the winner handoff of webRTCmanager.js: a   *)
(* telephone calls a group of clients, every one is invited, and the first *)
(* who picks up over its data channel gets the call.                       *)
(*                                                                         *)
(* A group is one inbound call, a target one client of the ring group, and *)
(* a candidate the pair <<group, target>>.  All groups of an instance come *)
(* from the same telephone number, so that their candidates for one target *)
(* share a signaling id and an authentication pair.                        *)
(*                                                                         *)
(* A step is what runs between two awaits.  Awaited are the making of the  *)
(* offer (outboundLegFactory.create), the notification, the application of *)
(* an answer, and the four steps of the handoff.                           *)
(***************************************************************************)
EXTENDS Naturals, FiniteSets

CONSTANTS
  Groups,    \* inbound calls
  Targets,   \* clients, each with its own wallet
  RingGroup, \* [Groups -> SUBSET Targets]: whom a call is routed to (decision.targets)
  None       \* no group, no target

ASSUME NoneAssumption == None \notin Groups \cup Targets
ASSUME RingGroupAssumption == RingGroup \in [Groups -> SUBSET Targets \ {{}}]

Candidates == {c \in Groups \X Targets : c[2] \in RingGroup[c[1]]}

VARIABLES
  stage,      \* startInbound: new, inviting (Promise.all), open, refused
  host,       \* groups whose host session is in the SessionStore
  finished,   \* group.finished
  winner,     \* group.winner
  timer,      \* groups whose no-answer timer is armed
  job,        \* _createCandidate: none, creating, notifying, invited, failed
  status,     \* candidate.status, "absent" before the candidate is tracked
  pc,         \* its connection: none, offered, applying, answered, open, closed
  byNonce,    \* byCallNonceAndEndpoint
  byPc,       \* byPeerConnection
  bySignaling,\* bySignalingSession: the group whose candidate a target has
  pair,       \* sessionsByUser: the host session a caller-target pair has
  handoff     \* handoffMultiringWinner: where it stands

callVars == <<stage, timer, winner, handoff>>
indexVars == <<byNonce, byPc, bySignaling, pair>>
vars == <<callVars, host, finished, job, status, pc, indexVars>>

Init ==
  /\ stage = [g \in Groups |-> "new"]
  /\ host = {} /\ finished = {} /\ timer = {}
  /\ winner = [g \in Groups |-> None]
  /\ job = [c \in Candidates |-> "none"]
  /\ status = [c \in Candidates |-> "absent"]
  /\ pc = [c \in Candidates |-> "none"]
  /\ byNonce = {} /\ byPc = {}
  /\ bySignaling = [t \in Targets |-> None]
  /\ pair = [t \in Targets |-> None]
  /\ handoff = [g \in Groups |-> "none"]

CandidatesOf(g) == {c \in Candidates : c[1] = g}

\* group.candidates: filled by _trackCandidate, never emptied.
Tracked(g) == {c \in CandidatesOf(g) : status[c] # "absent"}

\* What a data channel message can find: byHostSession has the group.
Live(g) == stage[g] # "new" /\ g \notin finished

-----------------------------------------------------------------------------
(***************************************************************************)
(* Closing candidates and groups.  Every path does so through closeCandi-  *)
(* date and _finishGroup, combined here in one assignment: `losing' is the *)
(* set of candidates closed, `ends' the set of groups finished, `drops'    *)
(* the set of host sessions destroyed with the connections they carry, and *)
(* `kept' the candidates whose authentication pair outlives the group.     *)
(***************************************************************************)
Active == {c \in Candidates : status[c] \in {"ringing", "winner"}}

\* _activeCandidates is empty once `losing' are closed.
NoneLeft(g, losing) == Active \cap CandidatesOf(g) \subseteq losing

\* Mutant of Untrack: what several calls share is left alone.
UntrackOwn(cs, kept) ==
  /\ byNonce' = byNonce \ cs
  /\ byPc' = byPc \ cs
  /\ UNCHANGED <<bySignaling, pair>>

\* _untrackCandidate: a shared entry is removed only if it is the candidate's.
Untrack(cs, kept) ==
  /\ byNonce' = byNonce \ cs
  /\ byPc' = byPc \ cs
  /\ bySignaling' = [t \in Targets |->
       IF <<bySignaling[t], t>> \in cs THEN None ELSE bySignaling[t]]
  /\ pair' = [t \in Targets |->
       IF <<pair[t], t>> \in cs \ kept THEN None ELSE pair[t]]

Teardown(losing, ends, drops, kept) ==
  LET closing == losing \cap Active
  IN /\ status' = [c \in Candidates |->
                     IF c \in closing THEN "closed" ELSE status[c]]
     /\ pc' = [c \in Candidates |->
                 IF c \in closing \/ (c[1] \in drops /\ pc[c] # "none")
                   THEN "closed" ELSE pc[c]]
     /\ Untrack(closing \cup UNION {Tracked(g) : g \in ends}, kept)
     /\ finished' = finished \cup ends
     /\ host' = host \ drops

\* Mutant of GivesUp: the winner is not looked at.
GivesUpWithWinner(g) == g \notin finished

\* _cleanupNoAnswer does nothing once the group is finished or has a winner.
GivesUp(g) == g \notin finished /\ winner[g] = None

\* Mutant of Leave: the timer is cleared with every candidate that leaves.
LeaveStopsTimer(c) ==
  LET g == c[1]
  IN /\ timer' = timer \ {g}
     /\ IF NoneLeft(g, {c}) /\ GivesUp(g)
          THEN Teardown(CandidatesOf(g), {g}, {g}, {})
          ELSE Teardown({c}, {}, {}, {})

\* A candidate leaves the call; the last one to leave ends the call.
Leave(c) ==
  LET g == c[1]
  IN IF NoneLeft(g, {c}) /\ GivesUp(g)
       THEN /\ Teardown(CandidatesOf(g), {g}, {g}, {})
            /\ timer' = timer \ {g}
       ELSE Teardown({c}, {}, {}, {}) /\ UNCHANGED timer

-----------------------------------------------------------------------------
(***************************************************************************)
(* startInbound and _createCandidate.                                      *)
(***************************************************************************)

\* A call comes in: the host session is created, and so is the connection of
\* every target, up to the first await of outboundLegFactory.create.
StartInbound(g) ==
  /\ stage[g] = "new"
  /\ stage' = [stage EXCEPT ![g] = "inviting"]
  /\ host' = host \cup {g}
  /\ job' = [c \in Candidates |-> IF c[1] = g THEN "creating" ELSE job[c]]
  /\ pc' = [c \in Candidates |-> IF c[1] = g THEN "offered" ELSE pc[c]]
  /\ UNCHANGED <<finished, winner, timer, status, indexVars, handoff>>

\* The offer is made: the candidate is tracked, whatever became of its group,
\* and the notification is sent.
CreateOk(c) ==
  /\ job[c] = "creating"
  /\ job' = [job EXCEPT ![c] = "notifying"]
  /\ status' = [status EXCEPT ![c] = "ringing"]
  /\ byNonce' = byNonce \cup {c}
  /\ byPc' = byPc \cup {c}
  /\ bySignaling' = [bySignaling EXCEPT ![c[2]] = c[1]]
  /\ pair' = [pair EXCEPT ![c[2]] = c[1]]
  /\ UNCHANGED <<callVars, host, finished, pc>>

\* The offer cannot be made: the connection is left to the host session.
CreateFail(c) ==
  /\ job[c] = "creating"
  /\ job' = [job EXCEPT ![c] = "failed"]
  /\ UNCHANGED <<callVars, host, finished, status, pc, indexVars>>

NotifyOk(c) ==
  /\ job[c] = "notifying"
  /\ job' = [job EXCEPT ![c] = "invited"]
  /\ UNCHANGED <<callVars, host, finished, status, pc, indexVars>>

\* Mutant of NotifyFail: the candidate is only marked.
NotifyFailMarks(c) ==
  /\ job[c] = "notifying"
  /\ job' = [job EXCEPT ![c] = "failed"]
  /\ status' = [status EXCEPT ![c] = "failed"]
  /\ UNCHANGED <<callVars, host, finished, pc, indexVars>>

\* The notification fails: the candidate is closed, the group goes on.
NotifyFail(c) ==
  /\ job[c] = "notifying"
  /\ job' = [job EXCEPT ![c] = "failed"]
  /\ Teardown({c}, {}, {}, {})
  /\ UNCHANGED callVars

AllInvited(g) ==
  /\ stage[g] = "inviting"
  /\ \A c \in CandidatesOf(g) : job[c] \in {"invited", "failed"}

\* Promise.all resolves: with no candidate at all the call is refused; otherwise
\* the no-answer timer is armed, whatever happened since.
StartDone(g) ==
  /\ AllInvited(g)
  /\ \/ /\ \A c \in CandidatesOf(g) : job[c] = "failed"
        /\ stage' = [stage EXCEPT ![g] = "refused"]
        /\ IF GivesUp(g) THEN Teardown(CandidatesOf(g), {g}, {g}, {})
           ELSE UNCHANGED <<host, finished, status, pc, indexVars>>
        /\ UNCHANGED timer
     \/ /\ \E c \in CandidatesOf(g) : job[c] = "invited"
        /\ stage' = [stage EXCEPT ![g] = "open"]
        /\ timer' = timer \cup {g}
        /\ UNCHANGED <<host, finished, status, pc, indexVars>>
  /\ UNCHANGED <<winner, handoff, job>>

\* Mutant of Timeout: the host session is left behind.
TimeoutKeepsHost(g) ==
  /\ g \in timer
  /\ timer' = timer \ {g}
  /\ IF GivesUp(g) THEN Teardown(CandidatesOf(g), {g}, {}, {})
     ELSE UNCHANGED <<host, finished, status, pc, indexVars>>
  /\ UNCHANGED <<stage, winner, handoff, job>>

\* The no-answer timer fires.
Timeout(g) ==
  /\ g \in timer
  /\ timer' = timer \ {g}
  /\ IF GivesUp(g) THEN Teardown(CandidatesOf(g), {g}, {g}, {})
     ELSE UNCHANGED <<host, finished, status, pc, indexVars>>
  /\ UNCHANGED <<stage, winner, handoff, job>>

-----------------------------------------------------------------------------
(***************************************************************************)
(* Signals over HTTP.                                                      *)
(***************************************************************************)

\* _candidateForOffer: by the call nonce the client echoes, else by the signal-
\* ing id, else any group that rings the client.
CandidateFor(nonce, t) ==
  IF <<nonce, t>> \in byNonce THEN {<<nonce, t>>}
  ELSE IF bySignaling[t] # None THEN {<<bySignaling[t], t>>}
  ELSE {c \in Candidates : c[2] = t /\ Live(c[1]) /\ status[c] = "ringing"}

\* A client has the nonce of a call that was notified to it, or sends none.
NonceOf(t) == {None} \cup {c[1] : c \in {d \in Candidates :
                             d[2] = t /\ job[d] \in {"notifying", "invited"}}}

\* An answer is authenticated against the session of the pair (resolveSession)
\* and applied once; a repeat meets a connection that has its answer.
HttpAnswer(t) ==
  /\ pair[t] \in host
  /\ \E nonce \in NonceOf(t) : \E c \in CandidateFor(nonce, t) :
       /\ status[c] = "ringing" /\ pc[c] = "offered"
       /\ pc' = [pc EXCEPT ![c] = "applying"]
  /\ UNCHANGED <<callVars, host, finished, job, status, indexVars>>

\* The answer is applied, or fails to apply and can be sent again.
HttpAnswerApplied(c) ==
  /\ pc[c] = "applying"
  /\ pc' \in {[pc EXCEPT ![c] = s] : s \in {"answered", "offered"}}
  /\ UNCHANGED <<callVars, host, finished, job, status, indexVars>>

\* A client rejects or cancels.
HttpDecline(t) ==
  /\ \E nonce \in NonceOf(t) : \E c \in CandidateFor(nonce, t) :
       status[c] = "ringing" /\ Leave(c)
  /\ UNCHANGED <<stage, winner, handoff, job>>

-----------------------------------------------------------------------------
(***************************************************************************)
(* The data channels of the candidates.                                    *)
(***************************************************************************)

\* ICE and DTLS complete.  handleDataChannelOpen sets a flag nobody reads.
ChannelOpens(c) ==
  /\ pc[c] = "answered"
  /\ pc' = [pc EXCEPT ![c] = "open"]
  /\ UNCHANGED <<callVars, host, finished, job, status, indexVars>>

\* Mutant of PickUp: the last to answer wins.
PickUpLast(c) ==
  LET g == c[1]
  IN /\ pc[c] = "open" /\ Live(g) /\ status[c] \in {"ringing", "winner"}
     /\ winner' = [winner EXCEPT ![g] = c[2]]
     /\ handoff' = [handoff EXCEPT ![g] = "resolve"]
     /\ timer' = timer \ {g}
     /\ Teardown(CandidatesOf(g) \ {c}, {}, {}, {})
     /\ UNCHANGED <<stage, job>>

\* A client picks up: the first one wins, all others of the group are closed and
\* the handoff begins; one that rang on is closed now.
PickUp(c) ==
  LET g == c[1]
  IN /\ pc[c] = "open" /\ Live(g) /\ status[c] = "ringing"
     /\ IF winner[g] = None
          THEN /\ winner' = [winner EXCEPT ![g] = c[2]]
               /\ handoff' = [handoff EXCEPT ![g] = "resolve"]
               /\ timer' = timer \ {g}
               /\ LET lost == (Active \cap CandidatesOf(g)) \ {c}
                  IN /\ status' = [d \in Candidates |->
                            IF d = c THEN "winner"
                            ELSE IF d \in lost THEN "closed" ELSE status[d]]
                     /\ pc' = [d \in Candidates |->
                                 IF d \in lost THEN "closed" ELSE pc[d]]
                     /\ Untrack(lost, {})
               /\ UNCHANGED <<host, finished>>
          ELSE /\ Teardown({c}, {}, {}, {})
               /\ UNCHANGED <<winner, handoff, timer>>
     /\ UNCHANGED <<stage, job>>

\* A client hangs up, rejects or cancels over its channel, the winner included.
HangUp(c) ==
  /\ pc[c] = "open" /\ Live(c[1]) /\ c \in Active
  /\ Leave(c)
  /\ UNCHANGED <<stage, winner, handoff, job>>

\* failHandoff does nothing once the group is finished.
FailHandoff(g) ==
  IF g \in finished THEN UNCHANGED <<host, finished, status, pc, indexVars, timer>>
  ELSE /\ Teardown(CandidatesOf(g), {g}, {g}, {})
       /\ timer' = timer \ {g}

\* A connection is lost, which is reported once some connection of the call was
\* up (everConnected) and only while the candidate is tracked.
TransportClosed(c) ==
  /\ pc[c] \in {"offered", "applying", "answered", "open"}
  /\ \E d \in CandidatesOf(c[1]) : pc[d] = "open"
  /\ c \in byPc
  /\ IF status[c] = "winner" THEN FailHandoff(c[1]) ELSE Leave(c)
  /\ UNCHANGED <<stage, winner, handoff, job>>

-----------------------------------------------------------------------------
(***************************************************************************)
(* handoffMultiringWinner.                                                 *)
(***************************************************************************)
NextStep == [resolve |-> "open", open |-> "offer", offer |-> "answer",
             answer |-> "done"]

\* An await of the handoff settles.  The old PolySession was destroyed: the host
\* gets the winner's identity.  The transport was opened or the offer handled:
\* the group must still be there, and the pickup needs a connection.  The pickup
\* was handled, the SIP call answered: the handoff is complete.
HandoffStep(g) ==
  LET w == <<g, winner[g]>>
  IN /\ handoff[g] \in DOMAIN NextStep
     /\ handoff[g] # "resolve" => g \notin finished
     /\ handoff[g] = "offer" => pc[w] # "closed"
     /\ handoff' = [handoff EXCEPT ![g] = NextStep[@]]
     /\ IF handoff[g] = "answer"
          THEN /\ Teardown({}, {g}, {}, {w})
               /\ timer' = timer \ {g}
          ELSE /\ pair' = IF handoff[g] = "resolve"
                            THEN [pair EXCEPT ![w[2]] = g] ELSE pair
               /\ UNCHANGED <<timer, host, finished, status, pc,
                              byNonce, byPc, bySignaling>>
     /\ UNCHANGED <<stage, winner, job>>

\* An await of the handoff throws, or the group was found finished.
HandoffThrows(g) ==
  /\ handoff[g] \in DOMAIN NextStep
  /\ handoff' = [handoff EXCEPT ![g] = "failing"]
  /\ UNCHANGED <<stage, timer, winner, host, finished, job, status, pc, indexVars>>

\* Mutant of HandoffFailed: only the PolySession is destroyed.
HandoffFailedKeepsCall(g) ==
  /\ handoff[g] = "failing"
  /\ handoff' = [handoff EXCEPT ![g] = "failed"]
  /\ UNCHANGED <<stage, winner, job, timer, host, finished, status, pc, indexVars>>

\* The PolySession of the failed handoff is destroyed, then the call.
HandoffFailed(g) ==
  /\ handoff[g] = "failing"
  /\ handoff' = [handoff EXCEPT ![g] = "failed"]
  /\ FailHandoff(g)
  /\ UNCHANGED <<stage, winner, job>>

-----------------------------------------------------------------------------
Settle(c) == CreateOk(c) \/ CreateFail(c) \/ NotifyOk(c) \/ NotifyFail(c)

Handoff(g) == HandoffStep(g) \/ HandoffThrows(g) \/ HandoffFailed(g)

Client(c) == ChannelOpens(c) \/ PickUp(c) \/ HangUp(c) \/ TransportClosed(c)

\* The continuation of Promise.all is a microtask: it precedes any other event.
Next ==
  \/ \E g \in Groups : StartDone(g)
  \/ /\ \A g \in Groups : ~ AllInvited(g)
     /\ \/ \E g \in Groups : StartInbound(g) \/ Timeout(g) \/ Handoff(g)
        \/ \E t \in Targets : HttpAnswer(t) \/ HttpDecline(t)
        \/ \E c \in Candidates : Settle(c) \/ HttpAnswerApplied(c) \/ Client(c)

\* What the service itself does for its calls: making offers and notifying are
\* bounded requests, the timer is a timer, the handoff consists of bounded steps.
Work ==
  \/ \E g \in Groups : StartDone(g) \/ Timeout(g) \/ Handoff(g)
  \/ \E c \in Candidates : Settle(c)

\* The service goes on with what it has to do; clients may do nothing.
Fairness == WF_vars(Work)

Spec == Init /\ [][Next]_vars /\ Fairness

-----------------------------------------------------------------------------
(***************************************************************************)
(* Properties.                                                             *)
(***************************************************************************)

\* Every variable keeps its kind.
TypeOK ==
  /\ stage \in [Groups -> {"new", "inviting", "open", "refused"}]
  /\ host \subseteq Groups /\ finished \subseteq Groups /\ timer \subseteq Groups
  /\ winner \in [Groups -> Targets \cup {None}]
  /\ job \in [Candidates -> {"none", "creating", "notifying", "invited", "failed"}]
  /\ status \in [Candidates -> {"absent", "ringing", "winner", "closed"}]
  /\ pc \in [Candidates ->
               {"none", "offered", "applying", "answered", "open", "closed"}]
  /\ byNonce \subseteq Candidates /\ byPc \subseteq Candidates
  /\ bySignaling \in [Targets -> Groups \cup {None}]
  /\ pair \in [Targets -> Groups \cup {None}]
  /\ handoff \in [Groups -> {"none", "done", "failing", "failed"} \cup DOMAIN NextStep]

\* As long as a call lives, its indexes hold exactly the candidates that still
\* ring or won, and what several calls share never points at a closed one: a
\* signal reaches the candidate it is for, and none reaches a closed candidate.
\* (The handoff registers the winner's pair again, even if it has hung up.)
IndexesMatch ==
  \A c \in Candidates : Live(c[1]) =>
    /\ c \in Active <=> c \in byNonce
    /\ c \in Active <=> c \in byPc
    /\ bySignaling[c[2]] = c[1] => c \in Active
    /\ pair[c[2]] = c[1] => c \in Active \/ winner[c[1]] = c[2]

\* The session of the telephone call lives exactly as long as its group, and on
\* after a handoff: it is neither left behind nor taken away under a call.
HostMatchesGroup ==
  \A g \in Groups : stage[g] # "new" =>
    (g \in host <=> g \notin finished \/ handoff[g] = "done")

\* The first to pick up keeps the call, and whoever else picked up does not.
WinnerIsFinal ==
  [][\A g \in Groups : winner[g] # None => winner'[g] = winner[g]]_vars

\* A call that was picked up is ended neither by the no-answer timer, which may
\* be armed after the pickup, nor by a late decline of another client.
PickedUpCallSurvives ==
  [][\A g \in Groups : winner[g] # None /\ g \in host \ host' =>
       ~ Timeout(g) /\ ~ \E t \in Targets : HttpDecline(t)]_vars

\* A call never hangs: while it lives its targets are still being invited, or the
\* no-answer timer is armed, or the handoff to the winner is under way, and each
\* of these ends it or leads to the next (Fairness), whatever the clients do.
CallWillEnd ==
  \A g \in Groups : Live(g) =>
    \/ stage[g] = "inviting" /\ handoff[g] = "none"
    \/ g \in timer /\ handoff[g] = "none"
    \/ winner[g] # None /\ handoff[g] \in {"resolve", "open", "offer", "answer", "failing"}

\* Every call comes to an end or is handed over, whatever its clients do: no failed
\* offer, lost notification, late timer or failed handoff leaves it for ever.
EveryCallIsSettled == <>[](\A g \in Groups : ~ Live(g))

\* A call ends without a pickup only when every target was invited: one client's
\* decline or loss does not take the call from another.
EveryTargetIsHeard ==
  \A c \in Candidates :
    c[1] \in finished /\ winner[c[1]] = None => job[c] # "creating"

\* The pair of every client that rings leads to a host session, by which its
\* answer is authenticated.
RingingIsAuthenticated ==
  \A c \in Candidates : Live(c[1]) /\ status[c] = "ringing" => pair[c[2]] \in host

-----------------------------------------------------------------------------
(***************************************************************************)
(* What one would expect as well, and the code does not do (README.md, 6). *)
(***************************************************************************)

\* The candidate the call is handed to is still connected (handoffMultiringWinner
\* looks at group.finished after every step for this).
HandedOffIsConnected ==
  [][\A g \in Groups : handoff[g] = "answer" /\ handoff'[g] = "done" =>
       pc[<<g, winner[g]>>] = "open"]_vars
==============================================================================

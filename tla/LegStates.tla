------------------------------ MODULE LegStates ------------------------------
(***************************************************************************)
(* The vocabulary of one side of a call: the states a SessionLeg may be in *)
(* (calls/poly/states.js), the intents the coordinator may issue to it and *)
(* the states in which each intent is legal (LegStateBehavior.js).         *)
(***************************************************************************)

Legs == {"a", "b"}

Peer(l) == IF l = "a" THEN "b" ELSE "a"

LegState == {"disconnected", "connecting", "connected", "calling", "ringing",
             "answering", "inCall", "endRequested", "ending", "ended",
             "canceling", "canceled", "rejecting", "rejected", "failed"}

TEARDOWN_STATES == {"endRequested", "ending", "canceling", "rejecting", "failed"}

CALL_VIABLE_STATES == {"calling", "ringing", "answering", "inCall"}

ACTIVE_CALL_STATES == {"calling", "ringing", "answering", "inCall", "ending"}

RUNGABLE_STATES == {"connected", "ended", "canceled", "rejected"}

isTeardown(s) == s \in TEARDOWN_STATES

isActiveCall(s) == s \in ACTIVE_CALL_STATES

\* A peer worth ending holds a live call and is not already tearing down.
needsEnding(s) == s \in ACTIVE_CALL_STATES /\ s \notin TEARDOWN_STATES

\* Mutant of canBeRung: a leg that declined the last call is not rung again.
canBeRungConnected(s) == s \in {"connected", "ended", "canceled"}

canBeRung(s) == s \in RUNGABLE_STATES

callViable(s) == s \in CALL_VIABLE_STATES

\* SessionLeg._isTerminal: a settled end of life.
isTerminal(s) == s \in {"ended", "canceled", "rejected", "failed"}

\* The intents the reconcile policy issues. The port also names cancel and
\* reject, which no rule emits: those two reach a leg only as client ingress.
Intents == {"connect", "ring", "ackConnected", "ackRing", "answer", "ackEnd",
            "endCall"}

\* LEGALITY, read the other way round: the states in which an intent is legal.
LegalIn(i) ==
  CASE i = "connect" -> {"disconnected", "connecting", "connected", "ended",
                         "canceled", "rejected", "failed"}
    [] i = "ring" -> {"connected", "calling", "ringing", "ended", "canceled",
                      "rejected"}
    [] i \in {"ackConnected", "ackRing"} -> {"calling", "ringing"}
    [] i = "answer" -> {"calling", "ringing", "answering"}
    [] i = "ackEnd" -> {"endRequested"}
    [] i = "endCall" -> {"connecting", "connected", "calling", "ringing",
                         "answering", "inCall", "endRequested", "ending"}

isIntentLegal(s, i) == s \in LegalIn(i)
==============================================================================

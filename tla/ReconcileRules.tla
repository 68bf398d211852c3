--------------------------- MODULE ReconcileRules ----------------------------
(***************************************************************************)
(* The pure policy of calls/poly/ReconcileRules.js: from the states of the *)
(* two legs, whether media is bridged and the state named by the event     *)
(* that triggered the pass, the ordered list of actions to perform.        *)
(*                                                                         *)
(* An action is a record: `on' is the leg it addresses, or "media"; `do'   *)
(* is the intent, or the media operation.  The initiator an intent carries *)
(* is dropped: it only reaches signaling payloads.                         *)
(***************************************************************************)
EXTENDS LegStates, Sequences

Intent(l, i) == [on |-> l, do |-> i]

Media(op) == [on |-> "media", do |-> op]

Action == [on : Legs, do : Intents] \cup
          [on : {"media"}, do : {"connect", "disconnect"}]

\* The actions a leg accepts: the media ones, and the intents its state allows.
LegalActions(s) ==
  {act \in Action : act.on \in Legs => isIntentLegal(s[act.on], act.do)}

\* The one-element list when the condition holds.
When(cond, act) == IF cond THEN <<act>> ELSE <<>>

isCaller(s) == s \in {"calling", "ringing"}

BothInCall(s) == \A l \in Legs : s[l] = "inCall"

\* A leg that starts a fresh call while its peer finishes the previous one.
isSoftEndingVsFreshCall(t, o) == t = "ending" /\ o = "calling"

\* Mutant of toEnd: a leg may stay in a call whose peer has none.
toEndOnlyTeardown(s) ==
  {l \in Legs : /\ isTeardown(s[Peer(l)])
                /\ needsEnding(s[l])
                /\ ~ isSoftEndingVsFreshCall(s[Peer(l)], s[l])}

\* Mutant of toEnd: whoever is not itself tearing down is ended.
toEndAnyState(s) ==
  {l \in Legs : isTeardown(s[Peer(l)]) /\ ~ isTeardown(s[l])}

\* The legs whose call can no longer work.
toEnd(s) ==
  {l \in Legs :
     \/ /\ isTeardown(s[Peer(l)])
        /\ needsEnding(s[l])
        /\ ~ isSoftEndingVsFreshCall(s[Peer(l)], s[l])
     \/ s[l] = "inCall" /\ ~ callViable(s[Peer(l)])}

\* Mutant of TeardownActions: media stays up when a call ends.
TeardownActionsKeepMedia(s, media) ==
  When(s["a"] = "endRequested", Intent("a", "ackEnd"))
    \o When(s["b"] = "endRequested", Intent("b", "ackEnd"))
    \o When("b" \in toEnd(s), Intent("b", "endCall"))
    \o When("a" \in toEnd(s), Intent("a", "endCall"))

\* Mutant of TeardownActions: an end is acknowledged only if there is a peer
\* left to end.
TeardownActionsAckWithPeer(s, media) ==
  When(media /\ ~ BothInCall(s), Media("disconnect"))
    \o When(s["a"] = "endRequested" /\ "b" \in toEnd(s), Intent("a", "ackEnd"))
    \o When(s["b"] = "endRequested" /\ "a" \in toEnd(s), Intent("b", "ackEnd"))
    \o When("b" \in toEnd(s), Intent("b", "endCall"))
    \o When("a" \in toEnd(s), Intent("a", "endCall"))

\* Priority 1: drop media, acknowledge a client's end, end the other leg.
TeardownActions(s, media) ==
  When(media /\ ~ BothInCall(s), Media("disconnect"))
    \o When(s["a"] = "endRequested", Intent("a", "ackEnd"))
    \o When(s["b"] = "endRequested", Intent("b", "ackEnd"))
    \o When("b" \in toEnd(s), Intent("b", "endCall"))
    \o When("a" \in toEnd(s), Intent("a", "endCall"))

\* A new caller waits for its peer to finish an end-call renegotiation.
SoftWait(s) == \E l \in Legs : s[l] = "calling" /\ s[Peer(l)] = "ending"

\* Acknowledge a fresh ring; only the CALLING event itself triggers it.
AckConnectedActions(s, ev) ==
  When(ev = "calling" /\ s["a"] = "calling", Intent("a", "ackConnected"))
    \o When(ev = "calling" /\ s["b"] = "calling", Intent("b", "ackConnected"))

\* Tell the caller that the peer started to ring.
AckRingActions(s, ev) ==
  When(ev = "ringing" /\ s["a"] = "ringing" /\ isCaller(s["b"]),
       Intent("b", "ackRing"))
    \o When(ev = "ringing" /\ s["b"] = "ringing" /\ isCaller(s["a"]),
            Intent("a", "ackRing"))

\* The leg l is in call while its peer still calls or rings: a pickup.
PickupActions(s, media, l) ==
  IF s[l] = "inCall" /\ isCaller(s[Peer(l)])
    THEN <<Intent(Peer(l), "answer")>> \o When(~ media, Media("connect"))
    ELSE <<>>

\* The leg l wants a call: bring its peer's transport up, or ring it.
PresentActions(s, l) ==
  When(isCaller(s[l]) /\ s[Peer(l)] = "disconnected", Intent(Peer(l), "connect"))
    \o When(isCaller(s[l]) /\ canBeRung(s[Peer(l)]), Intent(Peer(l), "ring"))

\* Priority 2 and 3.  The code returns after the first rule that applies; the
\* rules below have disjoint conditions, so concatenating them is the same.
ProgressActions(s, media) ==
  IF s["a"] = "calling" /\ s["b"] = "calling"
    THEN <<Intent("b", "ring")>>
    ELSE PickupActions(s, media, "a") \o PickupActions(s, media, "b")
           \o PresentActions(s, "a") \o PresentActions(s, "b")
           \o When(BothInCall(s) /\ ~ media, Media("connect"))

reconcile(s, media, ev) ==
  IF TeardownActions(s, media) # <<>> THEN TeardownActions(s, media)
  ELSE IF SoftWait(s) THEN AckConnectedActions(s, ev)
  ELSE AckConnectedActions(s, ev) \o AckRingActions(s, ev)
         \o ProgressActions(s, media)
==============================================================================

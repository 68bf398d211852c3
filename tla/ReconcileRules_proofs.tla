------------------------ MODULE ReconcileRules_proofs ------------------------
(***************************************************************************)
(* What the policy can answer: for every snapshot and every event, a list  *)
(* of actions that the legs accept in that snapshot, and never the empty   *)
(* one to a caller that nothing else would serve.                          *)
(***************************************************************************)
EXTENDS ReconcilePolicy, SequenceTheorems, TLAPS

\* An optional action is a list over S when the action, if issued, is in S.
LEMMA WhenSeq ==
  ASSUME NEW S, NEW act, NEW cond \in BOOLEAN, cond => act \in S
  PROVE  When(cond, act) \in Seq(S)
<1>1. CASE cond
  <2>1. <<act>> \in Seq(S)  BY <1>1, SMT
  <2>2. QED  BY <1>1, <2>1 DEF When
<1>2. CASE ~ cond
  BY <1>2, EmptySeq DEF When
<1>3. QED  BY <1>1, <1>2

\* Lists over S stay lists over S when they are concatenated.
LEMMA ConcatSeq ==
  ASSUME NEW S, NEW p \in Seq(S), NEW q \in Seq(S)
  PROVE  p \o q \in Seq(S)
BY ConcatProperties

\* An intent to a leg whose state allows it is a legal action, and so is a media
\* action in any state.
LEMMA LegalIntent ==
  ASSUME NEW s, NEW l \in Legs, NEW i \in Intents, isIntentLegal(s[l], i)
  PROVE  Intent(l, i) \in LegalActions(s)
BY DEF Intent, LegalActions, Action, Legs

LEMMA LegalMedia ==
  ASSUME NEW s, NEW op \in {"connect", "disconnect"}
  PROVE  Media(op) \in LegalActions(s)
BY DEF Media, LegalActions, Action, Legs

-----------------------------------------------------------------------------
\* Tearing a call down: acks only of a requested end, ends only of live calls.
LEMMA TeardownLegal ==
  ASSUME NEW s, NEW media \in BOOLEAN
  PROVE  TeardownActions(s, media) \in Seq(LegalActions(s))
<1> DEFINE S == LegalActions(s)
<1>1. When(media /\ ~ BothInCall(s), Media("disconnect")) \in Seq(S)
  BY LegalMedia, WhenSeq DEF BothInCall
<1>2. ASSUME NEW l \in Legs
      PROVE  When(s[l] = "endRequested", Intent(l, "ackEnd")) \in Seq(S)
  <2>1. s[l] = "endRequested" => Intent(l, "ackEnd") \in S
    BY LegalIntent DEF Intents, isIntentLegal, LegalIn
  <2>2. QED  BY <2>1, WhenSeq
<1>3. ASSUME NEW l \in Legs
      PROVE  When(l \in toEnd(s), Intent(l, "endCall")) \in Seq(S)
  <2>1. l \in toEnd(s) => isIntentLegal(s[l], "endCall")
    BY DEF toEnd, needsEnding, ACTIVE_CALL_STATES, TEARDOWN_STATES,
           isIntentLegal, LegalIn
  <2>2. l \in toEnd(s) => Intent(l, "endCall") \in S
    BY <2>1, LegalIntent DEF Intents
  <2>3. (l \in toEnd(s)) \in BOOLEAN  OBVIOUS
  <2>4. QED  BY <2>2, <2>3, WhenSeq, Zenon
<1>4. QED
  BY <1>1, <1>2, <1>3, ConcatSeq DEF TeardownActions, Legs

\* Acknowledging a ring to its caller.
LEMMA AckConnectedLegal ==
  ASSUME NEW s, NEW ev
  PROVE  AckConnectedActions(s, ev) \in Seq(LegalActions(s))
<1>1. ASSUME NEW l \in Legs
      PROVE  When(ev = "calling" /\ s[l] = "calling", Intent(l, "ackConnected"))
               \in Seq(LegalActions(s))
  <2>1. s[l] = "calling" => Intent(l, "ackConnected") \in LegalActions(s)
    BY LegalIntent DEF Intents, isIntentLegal, LegalIn
  <2>2. QED  BY <2>1, WhenSeq
<1>2. QED  BY <1>1, ConcatSeq DEF AckConnectedActions, Legs

\* Telling a caller that its peer rings.
LEMMA AckRingLegal ==
  ASSUME NEW s, NEW ev
  PROVE  AckRingActions(s, ev) \in Seq(LegalActions(s))
<1>1. ASSUME NEW l \in Legs, NEW k \in Legs
      PROVE  When(ev = "ringing" /\ s[k] = "ringing" /\ isCaller(s[l]),
                  Intent(l, "ackRing")) \in Seq(LegalActions(s))
  <2>1. isCaller(s[l]) => Intent(l, "ackRing") \in LegalActions(s)
    BY LegalIntent DEF Intents, isIntentLegal, LegalIn, isCaller
  <2>2. QED  BY <2>1, WhenSeq DEF isCaller
<1>2. QED  BY <1>1, ConcatSeq DEF AckRingActions, Legs

\* Glare, pickup, presenting a call, and the steady state.
LEMMA ProgressLegal ==
  ASSUME NEW s, NEW media \in BOOLEAN
  PROVE  ProgressActions(s, media) \in Seq(LegalActions(s))
<1> DEFINE S == LegalActions(s)
<1>1. ASSUME NEW l \in Legs  PROVE Peer(l) \in Legs
  BY DEF Legs, Peer
<1>2. CASE s["a"] = "calling" /\ s["b"] = "calling"
  <2>1. Intent("b", "ring") \in S
    BY <1>2, LegalIntent DEF Legs, Intents, isIntentLegal, LegalIn
  <2>2. <<Intent("b", "ring")>> \in Seq(S)  BY <2>1, SMT
  <2>3. QED  BY <1>2, <2>2 DEF ProgressActions
<1>3. CASE ~ (s["a"] = "calling" /\ s["b"] = "calling")
  <2>1. ASSUME NEW l \in Legs  PROVE PickupActions(s, media, l) \in Seq(S)
    <3>1. CASE s[l] = "inCall" /\ isCaller(s[Peer(l)])
      <4>1. Intent(Peer(l), "answer") \in S
        BY <1>1, <3>1, LegalIntent DEF Intents, isIntentLegal, LegalIn, isCaller
      <4>2. <<Intent(Peer(l), "answer")>> \in Seq(S)  BY <4>1, SMT
      <4>3. When(~ media, Media("connect")) \in Seq(S)  BY LegalMedia, WhenSeq
      <4>4. QED  BY <3>1, <4>2, <4>3, ConcatSeq DEF PickupActions
    <3>2. CASE ~ (s[l] = "inCall" /\ isCaller(s[Peer(l)]))
      BY <3>2, EmptySeq DEF PickupActions
    <3>3. QED  BY <3>1, <3>2
  <2>2. ASSUME NEW l \in Legs  PROVE PresentActions(s, l) \in Seq(S)
    <3>1. s[Peer(l)] = "disconnected" => Intent(Peer(l), "connect") \in S
      BY <1>1, LegalIntent DEF Intents, isIntentLegal, LegalIn
    <3>2. canBeRung(s[Peer(l)]) => Intent(Peer(l), "ring") \in S
      BY <1>1, LegalIntent
         DEF Intents, isIntentLegal, LegalIn, canBeRung, RUNGABLE_STATES
    <3>3. When(isCaller(s[l]) /\ s[Peer(l)] = "disconnected",
               Intent(Peer(l), "connect")) \in Seq(S)
      BY <3>1, WhenSeq DEF isCaller
    <3>4. When(isCaller(s[l]) /\ canBeRung(s[Peer(l)]), Intent(Peer(l), "ring"))
            \in Seq(S)
      BY <3>2, WhenSeq DEF isCaller, canBeRung
    <3>5. QED  BY <3>3, <3>4, ConcatSeq DEF PresentActions
  <2>3. When(BothInCall(s) /\ ~ media, Media("connect")) \in Seq(S)
    BY LegalMedia, WhenSeq DEF BothInCall
  <2>4. QED  BY <1>3, <2>1, <2>2, <2>3, ConcatSeq DEF ProgressActions, Legs
<1>4. QED  BY <1>2, <1>3

-----------------------------------------------------------------------------
\* The policy never issues an intent that the LEGALITY table forbids in the
\* state its snapshot shows (ReconcileRules.reconcile, LegStateBehavior).
THEOREM ReconcileLegal ==
  ASSUME NEW s, NEW media \in BOOLEAN, NEW ev
  PROVE  reconcile(s, media, ev) \in Seq(LegalActions(s))
<1>1. AckConnectedActions(s, ev) \in Seq(LegalActions(s))  BY AckConnectedLegal
<1>2. AckRingActions(s, ev) \in Seq(LegalActions(s))  BY AckRingLegal
<1>3. ProgressActions(s, media) \in Seq(LegalActions(s))  BY ProgressLegal
<1>4. TeardownActions(s, media) \in Seq(LegalActions(s))  BY TeardownLegal
<1>5. QED  BY <1>1, <1>2, <1>3, <1>4, ConcatSeq DEF reconcile

\* In particular the policy answers with a list of actions.
LEMMA ReconcileType ==
  ASSUME NEW s, NEW media \in BOOLEAN, NEW ev
  PROVE  reconcile(s, media, ev) \in Seq(Action)
<1>1. LegalActions(s) \subseteq Action  BY DEF LegalActions
<1>2. Seq(LegalActions(s)) \subseteq Seq(Action)  BY <1>1, SMT
<1>3. QED  BY <1>2, ReconcileLegal

-----------------------------------------------------------------------------
(***************************************************************************)
(* What a list of actions holds, and what the policy's answer holds.       *)
(***************************************************************************)

\* The list q holds the action act.
Has(q, act) == \E k \in DOMAIN q : q[k] = act

LEMMA HasEmpty ==
  ASSUME NEW act  PROVE ~ Has(<<>>, act)
BY DEF Has

LEMMA HasWhen ==
  ASSUME NEW cond \in BOOLEAN, NEW act, NEW x
  PROVE  Has(When(cond, act), x) <=> cond /\ x = act
<1>1. CASE cond
  <2>1. DOMAIN <<act>> = {1} /\ <<act>>[1] = act  BY SMT
  <2>2. QED  BY <1>1, <2>1 DEF Has, When
<1>2. CASE ~ cond  BY <1>2, HasEmpty DEF When
<1>3. QED  BY <1>1, <1>2

LEMMA HasConcat ==
  ASSUME NEW S, NEW p \in Seq(S), NEW q \in Seq(S), NEW act
  PROVE  Has(p \o q, act) <=> Has(p, act) \/ Has(q, act)
<1>1. /\ DOMAIN (p \o q) = 1 .. Len(p) + Len(q)
      /\ DOMAIN p = 1 .. Len(p) /\ Len(p) \in Nat
      /\ DOMAIN q = 1 .. Len(q) /\ Len(q) \in Nat
  BY SMT
<1>2. \A k \in 1 .. Len(p) + Len(q) :
        (p \o q)[k] = IF k <= Len(p) THEN p[k] ELSE q[k - Len(p)]
  BY ConcatProperties
<1>3. ASSUME NEW k \in DOMAIN p, p[k] = act  PROVE Has(p \o q, act)
  <2>1. k \in 1 .. Len(p) + Len(q) /\ k <= Len(p)  BY <1>1, <1>3
  <2>2. QED  BY <1>1, <1>2, <1>3, <2>1 DEF Has
<1>4. ASSUME NEW k \in DOMAIN q, q[k] = act  PROVE Has(p \o q, act)
  <2>1. k + Len(p) \in 1 .. Len(p) + Len(q) /\ ~ (k + Len(p) <= Len(p))
        /\ (k + Len(p)) - Len(p) = k
    BY <1>1, <1>4
  <2>2. (p \o q)[k + Len(p)] = act  BY <1>2, <1>4, <2>1
  <2>3. QED  BY <1>1, <2>1, <2>2 DEF Has
<1>5. ASSUME NEW k \in 1 .. Len(p) + Len(q), (p \o q)[k] = act
      PROVE  Has(p, act) \/ Has(q, act)
  <2>1. CASE k <= Len(p)
    <3>1. p[k] = act /\ k \in DOMAIN p  BY <1>1, <1>2, <1>5, <2>1
    <3>2. QED  BY <3>1 DEF Has
  <2>2. CASE ~ (k <= Len(p))
    <3>1. q[k - Len(p)] = act  BY <1>2, <1>5, <2>2
    <3>2. k - Len(p) \in DOMAIN q  BY <1>1, <1>5, <2>2
    <3>3. QED  BY <3>1, <3>2 DEF Has
  <2>3. QED  BY <2>1, <2>2
<1>6. QED  BY <1>1, <1>3, <1>4, <1>5 DEF Has

LEMMA HasTail ==
  ASSUME NEW S, NEW q \in Seq(S), q # <<>>, NEW act
  PROVE  Has(q, act) <=> Head(q) = act \/ Has(Tail(q), act)
<1>1. /\ DOMAIN q = 1 .. Len(q) /\ Len(q) \in Nat \ {0} /\ Head(q) = q[1]
      /\ DOMAIN Tail(q) = 1 .. Len(q) - 1
      /\ \A k \in 1 .. Len(q) - 1 : Tail(q)[k] = q[k + 1]
  BY SMT
<1>2. ASSUME NEW k \in DOMAIN Tail(q), Tail(q)[k] = act  PROVE Has(q, act)
  <2>1. q[k + 1] = act /\ k + 1 \in DOMAIN q  BY <1>1, <1>2
  <2>2. QED  BY <2>1 DEF Has
<1>3. ASSUME NEW k \in DOMAIN q, q[k] = act, k # 1  PROVE Has(Tail(q), act)
  <2>1. k - 1 \in 1 .. Len(q) - 1 /\ (k - 1) + 1 = k  BY <1>1, <1>3
  <2>2. Tail(q)[k - 1] = act  BY <1>1, <1>3, <2>1
  <2>3. QED  BY <1>1, <2>1, <2>2 DEF Has
<1>4. Head(q) = act => Has(q, act)
  <2>1. 1 \in DOMAIN q  BY <1>1
  <2>2. QED  BY <1>1, <2>1 DEF Has
<1>5. QED  BY <1>1, <1>2, <1>3, <1>4 DEF Has

\* A list that bridges media does so between two legs in call, or answers the
\* caller first.
AnswersBefore(q, s, k) ==
  \E j \in 1 .. (k - 1), l \in Legs :
    isCaller(s[l]) /\ q[j] = Intent(l, "answer")

Guarded(q, s) ==
  \A k \in DOMAIN q :
    q[k] = Media("connect") => BothInCall(s) \/ AnswersBefore(q, s, k)

LEMMA GuardedWithout ==
  ASSUME NEW q, NEW s, ~ Has(q, Media("connect"))
  PROVE  Guarded(q, s)
BY DEF Guarded, Has

LEMMA GuardedInCall ==
  ASSUME NEW q, NEW s, BothInCall(s)  PROVE Guarded(q, s)
BY DEF Guarded

LEMMA GuardedConcat ==
  ASSUME NEW S, NEW p \in Seq(S), NEW q \in Seq(S), NEW s,
         Guarded(p, s), Guarded(q, s)
  PROVE  Guarded(p \o q, s)
<1>1. /\ DOMAIN (p \o q) = 1 .. Len(p) + Len(q)
      /\ DOMAIN p = 1 .. Len(p) /\ Len(p) \in Nat
      /\ DOMAIN q = 1 .. Len(q) /\ Len(q) \in Nat
  BY SMT
<1>2. \A k \in 1 .. Len(p) + Len(q) :
        (p \o q)[k] = IF k <= Len(p) THEN p[k] ELSE q[k - Len(p)]
  BY ConcatProperties
<1>3. SUFFICES ASSUME NEW k \in 1 .. Len(p) + Len(q), ~ BothInCall(s),
                      (p \o q)[k] = Media("connect")
               PROVE  AnswersBefore(p \o q, s, k)
  BY <1>1 DEF Guarded
<1>4. CASE k <= Len(p)
  <2>1. p[k] = Media("connect") /\ k \in DOMAIN p  BY <1>1, <1>2, <1>3, <1>4
  <2>2. PICK j \in 1 .. (k - 1), l \in Legs :
          isCaller(s[l]) /\ p[j] = Intent(l, "answer")
    BY <1>3, <2>1 DEF Guarded, AnswersBefore
  <2>3. (p \o q)[j] = p[j]
    <3>1. j \in 1 .. Len(p) + Len(q) /\ j <= Len(p)  BY <1>1, <1>4, <2>2
    <3>2. QED  BY <1>2, <3>1
  <2>4. QED  BY <2>2, <2>3 DEF AnswersBefore
<1>5. CASE ~ (k <= Len(p))
  <2> DEFINE m == k - Len(p)
  <2>1. q[m] = Media("connect") /\ m \in DOMAIN q
    BY <1>1, <1>2, <1>3, <1>5
  <2>2. PICK j \in 1 .. (m - 1), l \in Legs :
          isCaller(s[l]) /\ q[j] = Intent(l, "answer")
    BY <1>3, <2>1 DEF Guarded, AnswersBefore
  <2>3. /\ j + Len(p) \in 1 .. (k - 1) /\ j + Len(p) \in 1 .. Len(p) + Len(q)
        /\ ~ (j + Len(p) <= Len(p)) /\ (j + Len(p)) - Len(p) = j
    BY <1>1, <1>5, <2>1, <2>2
  <2>4. (p \o q)[j + Len(p)] = q[j]  BY <1>2, <2>3
  <2>5. QED  BY <2>2, <2>3, <2>4 DEF AnswersBefore
<1>6. QED  BY <1>4, <1>5

\* What is left of a guarded list is guarded unless the answer was given.
LEMMA GuardedTail ==
  ASSUME NEW S, NEW q \in Seq(S), q # <<>>, NEW s, Guarded(q, s),
         \A l \in Legs : isCaller(s[l]) => Head(q) # Intent(l, "answer")
  PROVE  Guarded(Tail(q), s)
<1>1. /\ DOMAIN q = 1 .. Len(q) /\ Len(q) \in Nat \ {0} /\ Head(q) = q[1]
      /\ DOMAIN Tail(q) = 1 .. Len(q) - 1
      /\ \A k \in 1 .. Len(q) - 1 : Tail(q)[k] = q[k + 1]
  BY SMT
<1>2. SUFFICES ASSUME NEW k \in 1 .. Len(q) - 1, ~ BothInCall(s),
                      Tail(q)[k] = Media("connect")
               PROVE  AnswersBefore(Tail(q), s, k)
  BY <1>1 DEF Guarded
<1>3. k + 1 \in DOMAIN q /\ q[k + 1] = Media("connect")  BY <1>1, <1>2
<1>4. PICK j \in 1 .. ((k + 1) - 1), l \in Legs :
        isCaller(s[l]) /\ q[j] = Intent(l, "answer")
  BY <1>2, <1>3 DEF Guarded, AnswersBefore
<1>5. j # 1  BY <1>1, <1>4
<1>6. j - 1 \in 1 .. (k - 1) /\ j - 1 \in 1 .. Len(q) - 1 /\ (j - 1) + 1 = j
  BY <1>1, <1>2, <1>4, <1>5
<1>7. Tail(q)[j - 1] = q[j]  BY <1>1, <1>6
<1>8. QED  BY <1>4, <1>6, <1>7 DEF AnswersBefore

\* The lists the rules are built from are lists of actions.
LEMMA TeardownType ==
  ASSUME NEW s, NEW media \in BOOLEAN
  PROVE  TeardownActions(s, media) \in Seq(Action)
<1>1. LegalActions(s) \subseteq Action  BY DEF LegalActions
<1>2. QED  BY <1>1, TeardownLegal, SeqMonotonic

LEMMA IntentAction ==
  ASSUME NEW l \in Legs, NEW i \in Intents
  PROVE  Intent(l, i) \in Action
BY DEF Intent, Action

LEMMA MediaAction ==
  ASSUME NEW op \in {"connect", "disconnect"}
  PROVE  Media(op) \in Action
BY DEF Media, Action

\* What a teardown consists of.
LEMMA TeardownHas ==
  ASSUME NEW s, NEW media \in BOOLEAN, NEW x
  PROVE  Has(TeardownActions(s, media), x) <=>
           \/ x = Media("disconnect") /\ media /\ ~ BothInCall(s)
           \/ \E l \in Legs : x = Intent(l, "ackEnd") /\ s[l] = "endRequested"
           \/ \E l \in Legs : x = Intent(l, "endCall") /\ l \in toEnd(s)
<1> DEFINE p0 == When(media /\ ~ BothInCall(s), Media("disconnect"))
           p1 == When(s["a"] = "endRequested", Intent("a", "ackEnd"))
           p2 == When(s["b"] = "endRequested", Intent("b", "ackEnd"))
           p3 == When("b" \in toEnd(s), Intent("b", "endCall"))
           p4 == When("a" \in toEnd(s), Intent("a", "endCall"))
<1>1. /\ (media /\ ~ BothInCall(s)) \in BOOLEAN
      /\ ("a" \in toEnd(s)) \in BOOLEAN /\ ("b" \in toEnd(s)) \in BOOLEAN
  BY DEF BothInCall
<1>2. /\ p0 \in Seq(Action) /\ p1 \in Seq(Action) /\ p2 \in Seq(Action)
      /\ p3 \in Seq(Action) /\ p4 \in Seq(Action)
  <2>1. /\ Media("disconnect") \in Action
        /\ \A l \in Legs : /\ Intent(l, "ackEnd") \in Action
                           /\ Intent(l, "endCall") \in Action
    BY MediaAction, IntentAction DEF Intents
  <2>2. QED  BY <1>1, <2>1, WhenSeq DEF Legs
<1>3. /\ Has(p0, x) <=> media /\ ~ BothInCall(s) /\ x = Media("disconnect")
      /\ Has(p1, x) <=> s["a"] = "endRequested" /\ x = Intent("a", "ackEnd")
      /\ Has(p2, x) <=> s["b"] = "endRequested" /\ x = Intent("b", "ackEnd")
      /\ Has(p3, x) <=> "b" \in toEnd(s) /\ x = Intent("b", "endCall")
      /\ Has(p4, x) <=> "a" \in toEnd(s) /\ x = Intent("a", "endCall")
  BY <1>1, HasWhen
<1>4. TeardownActions(s, media) = p0 \o p1 \o p2 \o p3 \o p4
  BY DEF TeardownActions
<1> HIDE DEF p0, p1, p2, p3, p4
<1> DEFINE r1 == p0 \o p1
           r2 == r1 \o p2
           r3 == r2 \o p3
           r4 == r3 \o p4
<1>5. TeardownActions(s, media) = r4  BY <1>4
<1>6. Has(r4, x) <=>
        Has(p0, x) \/ Has(p1, x) \/ Has(p2, x) \/ Has(p3, x) \/ Has(p4, x)
  <2>1. r1 \in Seq(Action) /\ (Has(r1, x) <=> Has(p0, x) \/ Has(p1, x))
    BY <1>2, HasConcat, ConcatSeq
  <2> HIDE DEF r1
  <2>2. r2 \in Seq(Action) /\ (Has(r2, x) <=> Has(r1, x) \/ Has(p2, x))
    BY <1>2, <2>1, HasConcat, ConcatSeq
  <2> HIDE DEF r2
  <2>3. r3 \in Seq(Action) /\ (Has(r3, x) <=> Has(r2, x) \/ Has(p3, x))
    BY <1>2, <2>2, HasConcat, ConcatSeq
  <2> HIDE DEF r3
  <2>4. Has(r4, x) <=> Has(r3, x) \/ Has(p4, x)
    BY <1>2, <2>3, HasConcat
  <2>5. QED  BY <2>1, <2>2, <2>3, <2>4
<1> HIDE DEF r4
<1>7. QED  BY <1>3, <1>5, <1>6 DEF Legs

\* The answer of the policy holds what a teardown asks for.
LEMMA ReconcileTearsDown ==
  ASSUME NEW s, NEW media \in BOOLEAN, NEW ev, NEW x,
         Has(TeardownActions(s, media), x)
  PROVE  Has(reconcile(s, media, ev), x)
<1>1. TeardownActions(s, media) # <<>>  BY HasEmpty
<1>2. QED  BY <1>1 DEF reconcile

\* When no teardown is due, nobody is in call next to a leg without one.
LEMMA NoTeardown ==
  ASSUME NEW s, NEW media \in BOOLEAN, TeardownActions(s, media) = <<>>
  PROVE  /\ toEnd(s) = {}
         /\ \A l \in Legs : s[l] # "endRequested"
         /\ media => BothInCall(s)
<1>1. \A x : ~ Has(TeardownActions(s, media), x)  BY HasEmpty
<1>2. \A x : ~ (\/ x = Media("disconnect") /\ media /\ ~ BothInCall(s)
                \/ \E l \in Legs : x = Intent(l, "ackEnd") /\ s[l] = "endRequested"
                \/ \E l \in Legs : x = Intent(l, "endCall") /\ l \in toEnd(s))
  BY <1>1, TeardownHas
<1>3. QED  BY <1>2 DEF toEnd

\* An optional intent never bridges media.
LEMMA WhenIntentHasNoMedia ==
  ASSUME NEW cond \in BOOLEAN, NEW l \in Legs, NEW i, NEW op
  PROVE  ~ Has(When(cond, Intent(l, i)), Media(op))
<1>1. Intent(l, i) # Media(op)  BY DEF Intent, Media, Legs
<1>2. QED  BY <1>1, HasWhen

LEMMA PickupType ==
  ASSUME NEW s, NEW media \in BOOLEAN, NEW l \in Legs
  PROVE  PickupActions(s, media, l) \in Seq(Action)
<1>1. Peer(l) \in Legs  BY DEF Peer, Legs
<1>2. Intent(Peer(l), "answer") \in Action /\ Media("connect") \in Action
  BY <1>1, IntentAction, MediaAction DEF Intents
<1>3. <<Intent(Peer(l), "answer")>> \in Seq(Action)  BY <1>2, SMT
<1>4. When(~ media, Media("connect")) \in Seq(Action)  BY <1>2, WhenSeq
<1>5. <<>> \in Seq(Action)  BY EmptySeq
<1>6. QED  BY <1>3, <1>4, <1>5, ConcatSeq DEF PickupActions

\* What presenting a call consists of.
LEMMA PresentHas ==
  ASSUME NEW s, NEW l \in Legs
  PROVE  /\ PresentActions(s, l) \in Seq(Action)
         /\ \A x : Has(PresentActions(s, l), x) <=>
              /\ isCaller(s[l])
              /\ \/ s[Peer(l)] = "disconnected" /\ x = Intent(Peer(l), "connect")
                 \/ canBeRung(s[Peer(l)]) /\ x = Intent(Peer(l), "ring")
<1> DEFINE c == isCaller(s[l]) /\ s[Peer(l)] = "disconnected"
           r == isCaller(s[l]) /\ canBeRung(s[Peer(l)])
           p == When(c, Intent(Peer(l), "connect"))
           q == When(r, Intent(Peer(l), "ring"))
<1>1. Peer(l) \in Legs  BY DEF Peer, Legs
<1>2. Intent(Peer(l), "connect") \in Action /\ Intent(Peer(l), "ring") \in Action
  BY <1>1, IntentAction DEF Intents
<1>3. c \in BOOLEAN /\ r \in BOOLEAN  BY DEF isCaller, canBeRung
<1> HIDE DEF c, r
<1>4. p \in Seq(Action) /\ q \in Seq(Action)  BY <1>2, <1>3, WhenSeq
<1>5. \A x : /\ Has(p, x) <=> c /\ x = Intent(Peer(l), "connect")
             /\ Has(q, x) <=> r /\ x = Intent(Peer(l), "ring")
  BY <1>3, HasWhen
<1>6. PresentActions(s, l) = p \o q  BY DEF PresentActions, c, r
<1> HIDE DEF p, q
<1>7. PresentActions(s, l) \in Seq(Action)
      /\ \A x : Has(PresentActions(s, l), x) <=> Has(p, x) \/ Has(q, x)
  BY <1>4, <1>6, ConcatSeq, HasConcat
<1>8. QED  BY <1>5, <1>7 DEF c, r

\* The steps of a call are part of what the policy asks for, unless both sides
\* call at once.
LEMMA ProgressHas ==
  ASSUME NEW s, NEW media \in BOOLEAN, NEW l \in Legs, NEW x,
         ~ (s["a"] = "calling" /\ s["b"] = "calling"),
         Has(PickupActions(s, media, l), x) \/ Has(PresentActions(s, l), x)
  PROVE  Has(ProgressActions(s, media), x)
<1> DEFINE p == PickupActions(s, media, "a") \o PickupActions(s, media, "b")
           q == p \o PresentActions(s, "a")
           r == q \o PresentActions(s, "b")
           m == When(BothInCall(s) /\ ~ media, Media("connect"))
<1>1. ProgressActions(s, media) = r \o m  BY DEF ProgressActions
<1>2. m \in Seq(Action)
  <2>1. (BothInCall(s) /\ ~ media) \in BOOLEAN  BY DEF BothInCall
  <2>2. QED  BY <2>1, MediaAction, WhenSeq
<1> HIDE DEF m
<1>3. p \in Seq(Action) /\ (Has(p, x) <=> \/ Has(PickupActions(s, media, "a"), x)
                                        \/ Has(PickupActions(s, media, "b"), x))
  BY PickupType, HasConcat, ConcatSeq DEF Legs
<1> HIDE DEF p
<1>4. q \in Seq(Action) /\ (Has(q, x) <=> Has(p, x) \/ Has(PresentActions(s, "a"), x))
  BY <1>3, PresentHas, HasConcat, ConcatSeq DEF Legs
<1> HIDE DEF q
<1>5. r \in Seq(Action) /\ (Has(r, x) <=> Has(q, x) \/ Has(PresentActions(s, "b"), x))
  BY <1>4, PresentHas, HasConcat, ConcatSeq DEF Legs
<1> HIDE DEF r
<1>6. Has(r \o m, x) <=> Has(r, x) \/ Has(m, x)
  BY <1>2, <1>5, HasConcat
<1>7. QED  BY <1>1, <1>3, <1>4, <1>5, <1>6 DEF Legs

\* Without a teardown and a soft wait the answer holds the steps of a call.
LEMMA ReconcileProgresses ==
  ASSUME NEW s, NEW media \in BOOLEAN, NEW ev, NEW x,
         TeardownActions(s, media) = <<>>, ~ SoftWait(s),
         Has(ProgressActions(s, media), x)
  PROVE  Has(reconcile(s, media, ev), x)
<1> DEFINE S == LegalActions(s)
           p == AckConnectedActions(s, ev)
           q == AckRingActions(s, ev)
           r == ProgressActions(s, media)
<1>1. p \in Seq(S) /\ q \in Seq(S) /\ r \in Seq(S)
  BY AckConnectedLegal, AckRingLegal, ProgressLegal
<1>2. reconcile(s, media, ev) = p \o q \o r  BY DEF reconcile
<1>3. Has(r, x)  OBVIOUS
<1> HIDE DEF S, p, q, r
<1> DEFINE t == p \o q
<1>4. t \in Seq(S)  BY <1>1, ConcatSeq
<1>5. reconcile(s, media, ev) = t \o r  BY <1>2
<1> HIDE DEF t
<1>6. Has(t \o r, x)  BY <1>1, <1>3, <1>4, HasConcat
<1>7. QED  BY <1>5, <1>6

\* What a pickup consists of: the answer, then the bridge.
LEMMA PickupGuarded ==
  ASSUME NEW s, NEW media \in BOOLEAN, NEW l \in Legs
  PROVE  Guarded(PickupActions(s, media, l), s)
<1> DEFINE q == PickupActions(s, media, l)
<1>1. Peer(l) \in Legs  BY DEF Peer, Legs
<1>2. CASE ~ (s[l] = "inCall" /\ isCaller(s[Peer(l)]))
  BY <1>2, HasEmpty, GuardedWithout DEF PickupActions
<1>3. CASE s[l] = "inCall" /\ isCaller(s[Peer(l)])
  <2>1. q = <<Intent(Peer(l), "answer")>> \o When(~ media, Media("connect"))
    BY <1>3 DEF PickupActions
  <2>2. q[1] = Intent(Peer(l), "answer")
    BY <2>1, SMT DEF When
  <2>3. DOMAIN q \subseteq 1 .. 2
    BY <2>1, SMT DEF When
  <2> HIDE DEF q
  <2>4. Intent(Peer(l), "answer") # Media("connect")
    BY <1>1 DEF Intent, Media, Legs
  <2>5. SUFFICES ASSUME NEW k \in DOMAIN q, q[k] = Media("connect")
                 PROVE  AnswersBefore(q, s, k)
    BY DEF Guarded, q
  <2>6. 1 \in 1 .. (k - 1)  BY <2>2, <2>3, <2>4, <2>5
  <2>7. QED  BY <1>1, <1>3, <2>2, <2>6 DEF AnswersBefore
<1>4. QED  BY <1>2, <1>3

\* The policy bridges media only between two legs in call or after an answer.
LEMMA ReconcileGuarded ==
  ASSUME NEW s, NEW media \in BOOLEAN, NEW ev
  PROVE  Guarded(reconcile(s, media, ev), s)
<1> DEFINE S == LegalActions(s)
<1>1. Guarded(TeardownActions(s, media), s)
  <2>1. Media("connect") # Media("disconnect")  BY DEF Media
  <2>2. \A l \in Legs : \A i : Media("connect") # Intent(l, i)
    BY DEF Media, Intent, Legs
  <2>3. QED  BY <2>1, <2>2, TeardownHas, GuardedWithout
<1>2. AckConnectedActions(s, ev) \in Seq(S) /\ Guarded(AckConnectedActions(s, ev), s)
  <2>1. ASSUME NEW l \in Legs
        PROVE  /\ When(ev = "calling" /\ s[l] = "calling", Intent(l, "ackConnected"))
                    \in Seq(S)
               /\ ~ Has(When(ev = "calling" /\ s[l] = "calling",
                             Intent(l, "ackConnected")), Media("connect"))
    <3>1. s[l] = "calling" => Intent(l, "ackConnected") \in S
      BY LegalIntent DEF Intents, isIntentLegal, LegalIn
    <3>2. QED  BY <3>1, WhenSeq, WhenIntentHasNoMedia
  <2>2. ~ Has(AckConnectedActions(s, ev), Media("connect"))
    BY <2>1, HasConcat DEF AckConnectedActions, Legs
  <2>3. QED  BY <2>2, GuardedWithout, AckConnectedLegal
<1>3. AckRingActions(s, ev) \in Seq(S) /\ Guarded(AckRingActions(s, ev), s)
  <2>1. ASSUME NEW l \in Legs, NEW k \in Legs
        PROVE  /\ When(ev = "ringing" /\ s[k] = "ringing" /\ isCaller(s[l]),
                       Intent(l, "ackRing")) \in Seq(S)
               /\ ~ Has(When(ev = "ringing" /\ s[k] = "ringing" /\ isCaller(s[l]),
                             Intent(l, "ackRing")), Media("connect"))
    <3>1. isCaller(s[l]) => Intent(l, "ackRing") \in S
      BY LegalIntent DEF Intents, isIntentLegal, LegalIn, isCaller
    <3>2. (ev = "ringing" /\ s[k] = "ringing" /\ isCaller(s[l])) \in BOOLEAN
      BY DEF isCaller
    <3>3. QED  BY <3>1, <3>2, WhenSeq, WhenIntentHasNoMedia
  <2>2. ~ Has(AckRingActions(s, ev), Media("connect"))
    BY <2>1, HasConcat DEF AckRingActions, Legs
  <2>3. QED  BY <2>2, GuardedWithout, AckRingLegal
<1>4. ProgressActions(s, media) \in Seq(S) /\ Guarded(ProgressActions(s, media), s)
  <2>1. CASE BothInCall(s)  BY <2>1, GuardedInCall, ProgressLegal
  <2>2. CASE s["a"] = "calling" /\ s["b"] = "calling"
    <3>1. ProgressActions(s, media) = When(TRUE, Intent("b", "ring"))
      BY <2>2 DEF ProgressActions, When
    <3>2. ~ Has(When(TRUE, Intent("b", "ring")), Media("connect"))
      BY WhenIntentHasNoMedia DEF Legs
    <3>3. QED  BY <3>1, <3>2, GuardedWithout, ProgressLegal
  <2>3. CASE ~ BothInCall(s) /\ ~ (s["a"] = "calling" /\ s["b"] = "calling")
    <3>1. ASSUME NEW l \in Legs
          PROVE  PickupActions(s, media, l) \in Seq(Action)
      BY PickupType
    <3>2. ASSUME NEW l \in Legs
          PROVE  PresentActions(s, l) \in Seq(Action) /\ Guarded(PresentActions(s, l), s)
      <4>1. \A k, i : Intent(k, i) # Media("connect") \/ k \notin Legs
        BY DEF Intent, Media, Legs
      <4>2. Peer(l) \in Legs  BY DEF Peer, Legs
      <4>3. ~ Has(PresentActions(s, l), Media("connect"))
        BY <4>1, <4>2, PresentHas
      <4>4. QED  BY <4>3, PresentHas, GuardedWithout
    <3>3. When(BothInCall(s) /\ ~ media, Media("connect")) = <<>>
      BY <2>3 DEF When
    <3>4. /\ <<>> \in Seq(Action) /\ Guarded(<<>>, s)
      BY EmptySeq, HasEmpty, GuardedWithout
    <3> DEFINE p == PickupActions(s, media, "a") \o PickupActions(s, media, "b")
               q == p \o PresentActions(s, "a")
               r == q \o PresentActions(s, "b")
    <3>5. ProgressActions(s, media) = r \o <<>>
      BY <2>3, <3>3 DEF ProgressActions
    <3>6. p \in Seq(Action) /\ Guarded(p, s)
      BY <3>1, PickupGuarded, GuardedConcat, ConcatSeq DEF Legs
    <3> HIDE DEF p
    <3>7. q \in Seq(Action) /\ Guarded(q, s)
      BY <3>2, <3>6, GuardedConcat, ConcatSeq DEF Legs
    <3> HIDE DEF q
    <3>8. r \in Seq(Action) /\ Guarded(r, s)
      BY <3>2, <3>7, GuardedConcat, ConcatSeq DEF Legs
    <3> HIDE DEF r
    <3>9. QED
      BY <3>4, <3>5, <3>8, GuardedConcat, ProgressLegal
  <2>4. QED  BY <2>1, <2>2, <2>3
<1>5. QED
  BY <1>1, <1>2, <1>3, <1>4, GuardedConcat, ConcatSeq DEF reconcile

\* The actions a pass may hold, and the states of the legs it holds them for.
Asked(s, x) ==
  \/ \E k \in Legs :
       \/ x = Intent(k, "ackEnd") /\ s[k] = "endRequested"
       \/ x = Intent(k, "endCall") /\ k \in toEnd(s)
       \/ x \in {Intent(k, "ackConnected"), Intent(k, "ackRing")} /\ isCaller(s[k])
       \/ x = Intent(k, "answer") /\ s[Peer(k)] = "inCall" /\ isCaller(s[k])
       \/ /\ x = Intent(k, "connect")
          /\ isCaller(s[Peer(k)]) /\ s[k] = "disconnected"
       \/ /\ x = Intent(k, "ring")
          /\ \/ isCaller(s[Peer(k)]) /\ canBeRung(s[k])
             \/ s[Peer(k)] = "calling" /\ s[k] = "calling"
  \/ \E op \in {"connect", "disconnect"} : x = Media(op)

\* What the acknowledgements of a call consist of.
LEMMA AckHas ==
  ASSUME NEW s, NEW ev, NEW x,
         \/ Has(AckConnectedActions(s, ev), x)
         \/ Has(AckRingActions(s, ev), x)
  PROVE  \E k \in Legs :
           isCaller(s[k]) /\ x \in {Intent(k, "ackConnected"), Intent(k, "ackRing")}
<1> DEFINE p == When(ev = "calling" /\ s["a"] = "calling", Intent("a", "ackConnected"))
           q == When(ev = "calling" /\ s["b"] = "calling", Intent("b", "ackConnected"))
           r == When(ev = "ringing" /\ s["a"] = "ringing" /\ isCaller(s["b"]),
                     Intent("b", "ackRing"))
           t == When(ev = "ringing" /\ s["b"] = "ringing" /\ isCaller(s["a"]),
                     Intent("a", "ackRing"))
<1>1. /\ isCaller(s["a"]) \in BOOLEAN /\ isCaller(s["b"]) \in BOOLEAN
      /\ \A l \in Legs, i \in Intents : Intent(l, i) \in Action
  BY IntentAction DEF isCaller
<1>2. p \in Seq(Action) /\ q \in Seq(Action) /\ r \in Seq(Action) /\ t \in Seq(Action)
  BY <1>1, WhenSeq DEF Legs, Intents
<1>3. /\ Has(p, x) => s["a"] = "calling" /\ x = Intent("a", "ackConnected")
      /\ Has(q, x) => s["b"] = "calling" /\ x = Intent("b", "ackConnected")
      /\ Has(r, x) => isCaller(s["b"]) /\ x = Intent("b", "ackRing")
      /\ Has(t, x) => isCaller(s["a"]) /\ x = Intent("a", "ackRing")
  BY <1>1, HasWhen
<1>4. Has(p \o q, x) \/ Has(r \o t, x)
  BY DEF AckConnectedActions, AckRingActions
<1> HIDE DEF p, q, r, t
<1>5. Has(p, x) \/ Has(q, x) \/ Has(r, x) \/ Has(t, x)
  BY <1>2, <1>4, HasConcat
<1>6. QED  BY <1>3, <1>5 DEF Legs, isCaller

\* A pickup answers the peer of a leg in call; the rest of it is media.
LEMMA PickupHas ==
  ASSUME NEW s, NEW media \in BOOLEAN, NEW l \in Legs, NEW x,
         Has(PickupActions(s, media, l), x)
  PROVE  /\ s[l] = "inCall" /\ isCaller(s[Peer(l)])
         /\ x = Intent(Peer(l), "answer") \/ x = Media("connect")
<1>1. s[l] = "inCall" /\ isCaller(s[Peer(l)])
  BY HasEmpty DEF PickupActions
<1>2. Peer(l) \in Legs  BY DEF Peer, Legs
<1>3. Intent(Peer(l), "answer") \in Action /\ Media("connect") \in Action
  BY <1>2, IntentAction, MediaAction DEF Intents
<1> DEFINE p == <<Intent(Peer(l), "answer")>>
           q == When(~ media, Media("connect"))
<1>4. p \in Seq(Action) /\ q \in Seq(Action)
  <2>1. p \in Seq(Action)  BY <1>3, SMT
  <2>2. q \in Seq(Action)  BY <1>3, WhenSeq
  <2>3. QED  BY <2>1, <2>2
<1>5. PickupActions(s, media, l) = p \o q  BY <1>1 DEF PickupActions
<1>6. Has(p, x) <=> x = Intent(Peer(l), "answer")
  BY HasWhen DEF When
<1>7. Has(q, x) <=> ~ media /\ x = Media("connect")  BY HasWhen
<1> HIDE DEF p, q
<1>8. Has(p, x) \/ Has(q, x)  BY <1>4, <1>5, HasConcat
<1>9. QED  BY <1>1, <1>6, <1>7, <1>8

\* What the steps of a call consist of.
LEMMA ProgressAsks ==
  ASSUME NEW s, NEW media \in BOOLEAN, NEW x, Has(ProgressActions(s, media), x)
  PROVE  Asked(s, x)
<1>1. \A l \in Legs : Peer(l) \in Legs /\ Peer(Peer(l)) = l  BY DEF Peer, Legs
<1>2. CASE s["a"] = "calling" /\ s["b"] = "calling"
  <2>1. ProgressActions(s, media) = When(TRUE, Intent("b", "ring"))
    BY <1>2 DEF ProgressActions, When
  <2>2. x = Intent("b", "ring")  BY <2>1, HasWhen
  <2>3. "b" \in Legs /\ Peer("b") = "a"  BY DEF Legs, Peer
  <2>4. QED  BY <1>2, <2>2, <2>3 DEF Asked
<1>3. CASE ~ (s["a"] = "calling" /\ s["b"] = "calling")
  <2> DEFINE p == PickupActions(s, media, "a") \o PickupActions(s, media, "b")
             q == p \o PresentActions(s, "a")
             r == q \o PresentActions(s, "b")
             m == When(BothInCall(s) /\ ~ media, Media("connect"))
  <2>1. ProgressActions(s, media) = r \o m  BY <1>3 DEF ProgressActions
  <2>2. m \in Seq(Action) /\ (Has(m, x) => x = Media("connect"))
    <3>1. (BothInCall(s) /\ ~ media) \in BOOLEAN  BY DEF BothInCall
    <3>2. QED  BY <3>1, MediaAction, WhenSeq, HasWhen
  <2> HIDE DEF m
  <2>3. p \in Seq(Action) /\ (Has(p, x) <=> \/ Has(PickupActions(s, media, "a"), x)
                                          \/ Has(PickupActions(s, media, "b"), x))
    BY PickupType, HasConcat, ConcatSeq DEF Legs
  <2> HIDE DEF p
  <2>4. q \in Seq(Action) /\ (Has(q, x) <=> Has(p, x) \/ Has(PresentActions(s, "a"), x))
    BY <2>3, PresentHas, HasConcat, ConcatSeq DEF Legs
  <2> HIDE DEF q
  <2>5. r \in Seq(Action) /\ (Has(r, x) <=> Has(q, x) \/ Has(PresentActions(s, "b"), x))
    BY <2>4, PresentHas, HasConcat, ConcatSeq DEF Legs
  <2> HIDE DEF r
  <2>6. \/ \E l \in Legs : Has(PickupActions(s, media, l), x)
        \/ \E l \in Legs : Has(PresentActions(s, l), x)
        \/ x = Media("connect")
    BY <2>1, <2>2, <2>3, <2>4, <2>5, HasConcat DEF Legs
  <2>7. CASE \E l \in Legs : Has(PickupActions(s, media, l), x)
    BY <1>1, <2>7, PickupHas DEF Asked
  <2>8. CASE \E l \in Legs : Has(PresentActions(s, l), x)
    BY <1>1, <2>8, PresentHas DEF Asked
  <2>9. QED  BY <2>6, <2>7, <2>8 DEF Asked
<1>4. QED  BY <1>2, <1>3

\* What a pass consists of.
LEMMA ReconcileAsks ==
  ASSUME NEW s, NEW media \in BOOLEAN, NEW ev, NEW x,
         Has(reconcile(s, media, ev), x)
  PROVE  Asked(s, x)
<1>1. CASE TeardownActions(s, media) # <<>>
  <2>1. Has(TeardownActions(s, media), x)  BY <1>1 DEF reconcile
  <2>2. QED  BY <2>1, TeardownHas DEF Asked
<1>2. CASE TeardownActions(s, media) = <<>> /\ SoftWait(s)
  <2>1. Has(AckConnectedActions(s, ev), x)  BY <1>2 DEF reconcile
  <2>2. QED  BY <2>1, AckHas DEF Asked
<1>3. CASE TeardownActions(s, media) = <<>> /\ ~ SoftWait(s)
  <2> DEFINE S == LegalActions(s)
             p == AckConnectedActions(s, ev)
             q == AckRingActions(s, ev)
             r == ProgressActions(s, media)
             t == p \o q
  <2>1. p \in Seq(S) /\ q \in Seq(S) /\ r \in Seq(S)
    BY AckConnectedLegal, AckRingLegal, ProgressLegal
  <2>2. reconcile(s, media, ev) = t \o r  BY <1>3 DEF reconcile
  <2>3. \/ Has(p, x) \/ Has(q, x) => Asked(s, x)
    BY AckHas DEF Asked
  <2>4. Has(r, x) => Asked(s, x)  BY ProgressAsks
  <2> HIDE DEF S, p, q, r
  <2>5. t \in Seq(S) /\ (Has(t, x) <=> Has(p, x) \/ Has(q, x))
    BY <2>1, ConcatSeq, HasConcat
  <2> HIDE DEF t
  <2>6. Has(t \o r, x) <=> Has(t, x) \/ Has(r, x)
    BY <2>1, <2>5, HasConcat
  <2>7. QED  BY <2>2, <2>3, <2>4, <2>5, <2>6
<1>4. QED  BY <1>1, <1>2, <1>3

\* A pass that ends a leg rings nobody.
LEMMA ReconcileEndsAlone ==
  ASSUME NEW s, NEW media \in BOOLEAN, NEW ev, NEW k \in Legs, NEW l \in Legs,
         Has(reconcile(s, media, ev), Intent(k, "endCall"))
  PROVE  ~ Has(reconcile(s, media, ev), Intent(l, "ring"))
<1>1. k \in toEnd(s)
  <2>1. Asked(s, Intent(k, "endCall"))  BY ReconcileAsks
  <2>2. QED  BY <2>1 DEF Asked, Intent, Media, Legs
<1>2. TeardownActions(s, media) # <<>>
  <2>1. Has(TeardownActions(s, media), Intent(k, "endCall"))
    BY <1>1, TeardownHas
  <2>2. QED  BY <2>1, HasEmpty
<1>3. reconcile(s, media, ev) = TeardownActions(s, media)  BY <1>2 DEF reconcile
<1>4. QED  BY <1>3, TeardownHas DEF Intent, Media, Legs

\* Nothing in a list addresses the leg l once it holds the answer of l.
AnswerLast(q, l) ==
  \A j, k \in DOMAIN q : j < k /\ q[j] = Intent(l, "answer") => q[k].on # l

LEMMA AnswerLastWithout ==
  ASSUME NEW q, NEW l, ~ Has(q, Intent(l, "answer"))  PROVE AnswerLast(q, l)
BY DEF AnswerLast, Has

LEMMA AnswerLastConcat ==
  ASSUME NEW S, NEW p \in Seq(S), NEW q \in Seq(S), NEW l,
         ~ Has(p, Intent(l, "answer")), AnswerLast(q, l)
  PROVE  AnswerLast(p \o q, l)
<1>1. /\ DOMAIN (p \o q) = 1 .. Len(p) + Len(q)
      /\ DOMAIN p = 1 .. Len(p) /\ Len(p) \in Nat
      /\ DOMAIN q = 1 .. Len(q) /\ Len(q) \in Nat
  BY SMT
<1>2. \A k \in 1 .. Len(p) + Len(q) :
        (p \o q)[k] = IF k <= Len(p) THEN p[k] ELSE q[k - Len(p)]
  BY ConcatProperties
<1>3. SUFFICES ASSUME NEW j \in 1 .. Len(p) + Len(q), NEW k \in 1 .. Len(p) + Len(q),
                      j < k, (p \o q)[j] = Intent(l, "answer")
               PROVE  (p \o q)[k].on # l
  BY <1>1 DEF AnswerLast
<1>4. ~ (j <= Len(p))
  <2>1. ASSUME j <= Len(p)  PROVE FALSE
    <3>1. p[j] = Intent(l, "answer") /\ j \in DOMAIN p
      BY <1>1, <1>2, <1>3, <2>1
    <3>2. QED  BY <3>1 DEF Has
  <2>2. QED  BY <2>1
<1>5. ~ (k <= Len(p)) /\ j - Len(p) \in DOMAIN q /\ k - Len(p) \in DOMAIN q
      /\ j - Len(p) < k - Len(p)
  BY <1>1, <1>3, <1>4
<1>6. q[j - Len(p)] = Intent(l, "answer") /\ (p \o q)[k] = q[k - Len(p)]
  BY <1>2, <1>3, <1>4, <1>5
<1>7. QED  BY <1>5, <1>6 DEF AnswerLast

LEMMA AnswerLastTail ==
  ASSUME NEW S, NEW q \in Seq(S), q # <<>>, NEW l, AnswerLast(q, l)
  PROVE  /\ AnswerLast(Tail(q), l)
         /\ Head(q) = Intent(l, "answer") =>
              \A k \in DOMAIN Tail(q) : Tail(q)[k].on # l
<1>1. /\ DOMAIN q = 1 .. Len(q) /\ Len(q) \in Nat \ {0} /\ Head(q) = q[1]
      /\ DOMAIN Tail(q) = 1 .. Len(q) - 1
      /\ \A k \in 1 .. Len(q) - 1 : Tail(q)[k] = q[k + 1]
  BY SMT
<1>2. \A k \in 1 .. Len(q) - 1 : k + 1 \in 1 .. Len(q) /\ 1 < k + 1
  BY <1>1
<1>3. \A j, k \in 1 .. Len(q) - 1 : j < k => j + 1 < k + 1  BY <1>1
<1>4. 1 \in 1 .. Len(q)  BY <1>1
<1>5. QED  BY <1>1, <1>2, <1>3, <1>4 DEF AnswerLast

\* The answer of a pickup is the last thing a pass asks of the caller.
LEMMA ReconcileAnswersLast ==
  ASSUME NEW s, NEW media \in BOOLEAN, NEW ev, NEW l \in Legs
  PROVE  AnswerLast(reconcile(s, media, ev), l)
<1> DEFINE x == Intent(l, "answer")
           R == reconcile(s, media, ev)
           S == LegalActions(s)
<1>1. CASE ~ Has(R, x)  BY <1>1, AnswerLastWithout
<1>2. CASE Has(R, x)
  <2>1. Peer(l) \in Legs /\ Peer(Peer(l)) = l  BY DEF Peer, Legs
  <2>2. s[Peer(l)] = "inCall" /\ isCaller(s[l])
    <3>1. Asked(s, x)  BY <1>2, ReconcileAsks
    <3>2. QED  BY <3>1 DEF Asked, Intent, Media, Legs
  <2>3. TeardownActions(s, media) = <<>>
    <3>1. ~ Has(TeardownActions(s, media), x)
      BY TeardownHas DEF Intent, Media, Legs
    <3>2. QED  BY <1>2, <3>1 DEF reconcile
  <2>4. ~ Has(AckConnectedActions(s, ev), x) /\ ~ Has(AckRingActions(s, ev), x)
    BY AckHas DEF Intent, Legs
  <2>5. R = AckConnectedActions(s, ev) \o AckRingActions(s, ev)
              \o ProgressActions(s, media)
    BY <1>2, <2>3, <2>4 DEF reconcile
  <2>6. ProgressActions(s, media) = PickupActions(s, media, Peer(l))
    <3>1. s[l] # "inCall" /\ ~ BothInCall(s)  BY <2>2 DEF isCaller, BothInCall
    <3>2. PickupActions(s, media, l) = <<>>  BY <3>1 DEF PickupActions
    <3>3. PresentActions(s, l) = <<>>
      BY <2>2 DEF PresentActions, When, canBeRung, RUNGABLE_STATES
    <3>4. PresentActions(s, Peer(l)) = <<>>
      BY <2>2 DEF PresentActions, When, isCaller
    <3>5. When(BothInCall(s) /\ ~ media, Media("connect")) = <<>>
      BY <3>1 DEF When
    <3>6. PickupActions(s, media, Peer(l)) \in Seq(Action)  BY <2>1, PickupType
    <3>7. \A u \in Seq(Action) : <<>> \o u = u /\ u \o <<>> = u  BY SMT
    <3>8. ~ (s["a"] = "calling" /\ s["b"] = "calling")
      BY <2>1, <2>2 DEF Legs
    <3>9. CASE l = "a"
      <4>1. Peer(l) = "b"  BY <3>9 DEF Peer
      <4> DEFINE u == PickupActions(s, media, "b")
      <4>2. /\ PickupActions(s, media, "a") = <<>> /\ u \in Seq(Action)
            /\ PresentActions(s, "a") = <<>> /\ PresentActions(s, "b") = <<>>
        BY <3>2, <3>3, <3>4, <3>6, <3>9, <4>1
      <4>3. ProgressActions(s, media) = <<>> \o u \o <<>> \o <<>> \o <<>>
        BY <3>5, <3>8, <4>2 DEF ProgressActions
      <4> HIDE DEF u
      <4>4. ProgressActions(s, media) = u  BY <3>7, <4>2, <4>3
      <4>5. QED  BY <4>1, <4>4 DEF u
    <3>10. CASE l = "b"
      <4>1. Peer(l) = "a"  BY <3>10 DEF Peer
      <4> DEFINE u == PickupActions(s, media, "a")
      <4>2. /\ PickupActions(s, media, "b") = <<>> /\ u \in Seq(Action)
            /\ PresentActions(s, "a") = <<>> /\ PresentActions(s, "b") = <<>>
        BY <3>2, <3>3, <3>4, <3>6, <3>10, <4>1
      <4>3. ProgressActions(s, media) = u \o <<>> \o <<>> \o <<>> \o <<>>
        BY <3>5, <3>8, <4>2 DEF ProgressActions
      <4> HIDE DEF u
      <4>4. ProgressActions(s, media) = u  BY <3>7, <4>2, <4>3
      <4>5. QED  BY <4>1, <4>4 DEF u
    <3>11. QED  BY <3>9, <3>10 DEF Legs
  <2>7. AnswerLast(PickupActions(s, media, Peer(l)), l)
    <3> DEFINE q == PickupActions(s, media, Peer(l))
    <3>1. q = <<Intent(l, "answer")>> \o When(~ media, Media("connect"))
      BY <2>1, <2>2 DEF PickupActions
    <3>2. DOMAIN q \subseteq 1 .. 2 /\ (2 \in DOMAIN q => q[2] = Media("connect"))
      BY <3>1, SMT DEF When
    <3>3. Media("connect").on # l  BY DEF Media, Legs
    <3> HIDE DEF q
    <3>4. \A j, k \in DOMAIN q : j < k => k = 2  BY <3>2, SMT
    <3>5. AnswerLast(q, l)  BY <3>2, <3>3, <3>4 DEF AnswerLast
    <3>6. QED  BY <3>5 DEF q
  <2> HIDE DEF x
  <2> DEFINE p == AckConnectedActions(s, ev)
             q == AckRingActions(s, ev)
             r == ProgressActions(s, media)
             t == p \o q
  <2>8. p \in Seq(S) /\ q \in Seq(S) /\ r \in Seq(S)
    BY AckConnectedLegal, AckRingLegal, ProgressLegal
  <2>9. R = t \o r /\ ~ Has(p, x) /\ ~ Has(q, x) /\ AnswerLast(r, l)
    BY <2>4, <2>5, <2>6, <2>7
  <2> HIDE DEF S, p, q, r, R
  <2>10. t \in Seq(S) /\ ~ Has(t, x)  BY <2>8, <2>9, ConcatSeq, HasConcat
  <2> HIDE DEF t
  <2>11. AnswerLast(t \o r, l)  BY <2>8, <2>9, <2>10, AnswerLastConcat DEF x
  <2>12. QED  BY <2>9, <2>11 DEF R
<1>3. QED  BY <1>1, <1>2

\* Between two legs in call the policy asks for the bridge and nothing else.
LEMMA ReconcileInCall ==
  ASSUME NEW s, NEW media \in BOOLEAN, NEW ev, BothInCall(s)
  PROVE  reconcile(s, media, ev) = When(~ media, Media("connect"))
<1>1. s["a"] = "inCall" /\ s["b"] = "inCall" /\ Peer("a") = "b" /\ Peer("b") = "a"
  BY DEF BothInCall, Legs, Peer
<1>2. toEnd(s) = {}
  BY <1>1 DEF toEnd, Legs, isTeardown, TEARDOWN_STATES, callViable,
              CALL_VIABLE_STATES
<1>3. TeardownActions(s, media) = <<>>
  BY <1>1, <1>2, SMT DEF TeardownActions, When
<1>4. ~ SoftWait(s)  BY <1>1 DEF SoftWait, Legs
<1>5. AckConnectedActions(s, ev) = <<>> /\ AckRingActions(s, ev) = <<>>
  BY <1>1, SMT DEF AckConnectedActions, AckRingActions, When
<1>6. /\ PickupActions(s, media, "a") = <<>> /\ PickupActions(s, media, "b") = <<>>
      /\ PresentActions(s, "a") = <<>> /\ PresentActions(s, "b") = <<>>
  BY <1>1, SMT DEF PickupActions, PresentActions, When, isCaller
<1>7. When(~ media, Media("connect")) \in Seq(Action)
  BY MediaAction, WhenSeq
<1>8. ProgressActions(s, media) = When(~ media, Media("connect"))
  <2>1. ProgressActions(s, media) =
          <<>> \o <<>> \o <<>> \o <<>> \o When(~ media, Media("connect"))
    BY <1>1, <1>6 DEF ProgressActions, When
  <2>2. <<>> \o <<>> \o <<>> \o <<>> = <<>>  BY SMT
  <2>3. QED  BY <1>7, <2>1, <2>2, ConcatEmptySeq
<1>9. <<>> \o <<>> = <<>>  BY SMT
<1>10. QED
  BY <1>3, <1>4, <1>5, <1>7, <1>8, <1>9, ConcatEmptySeq DEF reconcile

-----------------------------------------------------------------------------
(***************************************************************************)
(* What the policy promises on every snapshot it can be asked about.       *)
(***************************************************************************)

\* The policy never issues an intent that the LEGALITY table forbids in the
\* state its snapshot shows (ReconcileRules.reconcile, LegStateBehavior).
THEOREM PolicyIsLegal == SnapshotSpec => []IntentsLegal
<1>1. SnapshotInit => bridged \in BOOLEAN
  BY DEF SnapshotInit
<1>2. bridged \in BOOLEAN /\ [SnapshotNext]_snapshotVars => (bridged \in BOOLEAN)'
  BY DEF SnapshotNext, MediaChange, LegChange, snapshotVars
<1>3. bridged \in BOOLEAN => IntentsLegal
  BY ReconcileLegal DEF IntentsLegal
<1>4. QED
  BY <1>1, <1>2, <1>3, PTL DEF SnapshotSpec

-----------------------------------------------------------------------------
\* A caller next to a leg at rest, or next to one that picked up or is being
\* torn down, makes the policy act.
LEMMA CallerServed ==
  ASSUME shown \in [Legs -> LegState], bridged \in BOOLEAN, NEW l \in Legs,
         isCaller(shown[l]), reconcile(shown, bridged, trigger) = <<>>
  PROVE  shown[Peer(l)] \in {"connecting", "calling", "ringing", "answering", "ending"}
<1> DEFINE k == Peer(l)
<1>1. k \in Legs /\ Peer(k) = l /\ (\A j \in Legs : j = l \/ j = k)
  BY DEF Peer, Legs
<1>2. shown[k] \in LegState  BY <1>1
<1>3. \A x : ~ Has(reconcile(shown, bridged, trigger), x)  BY HasEmpty
<1>4. TeardownActions(shown, bridged) = <<>>  BY DEF reconcile
<1>5. shown[k] \notin {"endRequested", "canceling", "rejecting", "failed"}
  <2>1. l \notin toEnd(shown)  BY <1>4, NoTeardown
  <2>2. QED
    BY <1>1, <2>1 DEF toEnd, isTeardown, needsEnding, isSoftEndingVsFreshCall,
       isCaller, TEARDOWN_STATES, ACTIVE_CALL_STATES
<1>6. SUFFICES ASSUME shown[k] \in {"disconnected", "connected", "ended", "canceled",
                                 "rejected", "inCall"}
               PROVE  FALSE
  BY <1>2, <1>5 DEF LegState
<1>7. ~ SoftWait(shown)  BY <1>1, <1>6 DEF SoftWait
<1>8. ~ (shown["a"] = "calling" /\ shown["b"] = "calling")
  BY <1>1, <1>6 DEF Legs
<1>9. \A x : ~ Has(ProgressActions(shown, bridged), x)
  BY <1>3, <1>4, <1>7, ReconcileProgresses
<1>10. CASE shown[k] = "disconnected"
  <2>1. Has(PresentActions(shown, l), Intent(k, "connect"))
    BY <1>10, PresentHas
  <2>2. QED  BY <1>8, <1>9, <2>1, ProgressHas
<1>11. CASE shown[k] \in {"connected", "ended", "canceled", "rejected"}
  <2>1. Has(PresentActions(shown, l), Intent(k, "ring"))
    BY <1>11, PresentHas DEF canBeRung, RUNGABLE_STATES
  <2>2. QED  BY <1>8, <1>9, <2>1, ProgressHas
<1>12. CASE shown[k] = "inCall"
  <2>1. PickupActions(shown, bridged, k)
          = <<Intent(l, "answer")>> \o When(~ bridged, Media("connect"))
    BY <1>1, <1>12 DEF PickupActions
  <2>2. Has(PickupActions(shown, bridged, k), Intent(l, "answer"))
    <3> DEFINE q == PickupActions(shown, bridged, k)
    <3>1. 1 \in DOMAIN q /\ q[1] = Intent(l, "answer")
      BY <2>1, SMT DEF When
    <3>2. QED  BY <3>1 DEF Has
  <2>3. QED  BY <1>1, <1>8, <1>9, <2>2, ProgressHas
<1>13. QED  BY <1>6, <1>10, <1>11, <1>12

\* A caller for which the policy has nothing to do waits for a peer that is on
\* its way, never for a leg at rest, which nothing would wake: the rules of
\* ReconcileRules.reconcile leave out no state of the peer.
THEOREM CallersAreServed == SnapshotSpec => []CallerIsServed
<1> DEFINE Typed == shown \in [Legs -> LegState] /\ bridged \in BOOLEAN
<1>1. SnapshotInit => Typed
  BY DEF SnapshotInit, LegState
<1>2. Typed /\ [SnapshotNext]_snapshotVars => Typed'
  BY DEF SnapshotNext, MediaChange, LegChange, snapshotVars
<1>3. Typed => CallerIsServed
  BY CallerServed DEF CallerIsServed
<1>4. QED
  BY <1>1, <1>2, <1>3, PTL DEF SnapshotSpec
==============================================================================

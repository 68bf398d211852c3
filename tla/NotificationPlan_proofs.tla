----------------------- MODULE NotificationPlan_proofs -----------------------
(***************************************************************************)
(* What a notification reported as sent stands for, for every plan a       *)
(* provider contract may return.  The inductive invariant says that the    *)
(* steps run lie before the one being executed, that each request among    *)
(* them was accepted, and how often the pending one may have been.         *)
(***************************************************************************)
EXTENDS NotificationPlan, TLAPS

\* The steps run lie before the one being executed, which counts once started.
RunsForward ==
  /\ \A i \in ran : i <= at
  /\ stage \in {"run", "provider", "mapping", "owner", "ens", "plan"} =>
       \A i \in ran : i < at
  /\ stage = "await" => at \in ran /\ Step.kind \in {"query", "push"}
  /\ stage \in {"provider", "mapping", "owner", "ens", "plan"} =>
       ran = {} /\ raw = {} /\ last = 0

\* Every request before the step being executed was accepted; the last push that
\* succeeded is one of them.
RequestsAccepted ==
  /\ \A i \in ran : i < at /\ plan[i].kind \in {"query", "push"} => accepted[i] > 0
  /\ last # 0 => last \in ran /\ last < at /\ plan[last].kind = "push"

\* How often a request may have been accepted so far.
AcceptedCount ==
  /\ \A i \in 1 .. Len(plan) : i \notin ran => accepted[i] = 0
  /\ stage = "await" /\ url = "url" => accepted[at] = 0
  /\ stage = "await" /\ url = "fallback" =>
       /\ Step.fallback /\ accepted[at] < 2
       /\ accepted[at] = 1 => at \in inDoubt
  /\ TwiceOnlyInDoubt

\* A step that binds a placeholder and did not miss has bound it for good.
BoundStays ==
  /\ \A i \in ran :
       /\ i < at /\ i \notin missed /\ plan[i].sets # NoKey
       /\ plan[i].kind \in {"compute", "encode", "extract", "query"}
       => value[plan[i].sets] # "raw"
  /\ \A i \in raw : plan[i].uses \in Keys
  /\ RawOnlyAfterMiss

IInv ==
  /\ TypeOK /\ RunsForward /\ RequestsAccepted /\ AcceptedCount /\ BoundStays
  /\ SentMeansAccepted

\* A step of the plan, by the assumption on the plans.
LEMMA PlanSteps ==
  ASSUME TypeOK
  PROVE  /\ plan \in Seq(Steps) /\ Len(plan) \in Nat
         /\ \A i \in 1 .. Len(plan) : plan[i] \in Steps
BY PlansAssumption DEF TypeOK

LEMMA InitIInv == Init => IInv
BY PlansAssumption
   DEF Init, IInv, TypeOK, RunsForward, RequestsAccepted, AcceptedCount,
       BoundStays, SentMeansAccepted, TwiceOnlyInDoubt, RawOnlyAfterMiss, Values, Step

\* The lookups touch nothing but their stage.
LEMMA LookupsKeepIInv ==
  ASSUME IInv, FindProvider \/ ResolveWallet \/ ResolveEns
  PROVE  IInv'
<1>1. /\ stage \in {"provider", "mapping", "owner", "ens"}
      /\ stage' \in {"provider", "mapping", "owner", "ens", "plan", "failed"}
      /\ domain' \in 0 .. MaxDomains
      /\ UNCHANGED <<plan, at, url, value, last, ran, missed, raw, accepted, inDoubt>>
  BY PlansAssumption
     DEF FindProvider, ResolveWallet, ResolveEns, IInv, TypeOK, lookup, history
<1>2. ran = {} /\ raw = {} /\ last = 0
  BY <1>1 DEF IInv, RunsForward
<1>3. TypeOK'
  BY <1>1 DEF IInv, TypeOK
<1>4. RunsForward' /\ RequestsAccepted' /\ SentMeansAccepted'
  BY <1>1, <1>2 DEF RunsForward, RequestsAccepted, SentMeansAccepted
<1>5. AcceptedCount'
  BY <1>1 DEF IInv, AcceptedCount, TwiceOnlyInDoubt
<1>6. BoundStays'
  BY <1>1, <1>2 DEF BoundStays, RawOnlyAfterMiss
<1>. QED BY <1>3, <1>4, <1>5, <1>6 DEF IInv

\* The plan arrives.
LEMMA FetchKeepsIInv == ASSUME IInv, FetchPlan PROVE IInv'
<1>1. CASE stage' = "failed" /\ UNCHANGED <<plan, accepted>>
  BY <1>1 DEF FetchPlan, IInv, TypeOK, RunsForward, RequestsAccepted,
       AcceptedCount, BoundStays, SentMeansAccepted, TwiceOnlyInDoubt,
       RawOnlyAfterMiss, Step
<1>2. CASE /\ plan' \in Plans \ {<<>>} /\ stage' = "run"
           /\ accepted' = [i \in 1 .. Len(plan') |-> 0]
  <2>1. Len(plan') \in Nat
    BY <1>2, PlansAssumption
  <2>2. TypeOK'
    BY <1>2, <2>1 DEF FetchPlan, IInv, TypeOK, RunsForward
  <2>. QED
    BY <1>2, <2>1, <2>2 DEF FetchPlan, IInv, TypeOK, RunsForward,
       RequestsAccepted, AcceptedCount, BoundStays, SentMeansAccepted,
       TwiceOnlyInDoubt, RawOnlyAfterMiss, Step
<1>. QED BY <1>1, <1>2 DEF FetchPlan

\* What a step that sends nothing leaves: the requests of the plan as they were.
LEMMA LocalStepKeepsIInv ==
  ASSUME IInv, Executes({"compute", "encode", "extract", "condition"}),
         at' \in Nat, at' > at \/ (at' = at /\ stage' = "failed"),
         stage' \in {"run", "failed"}, stage' = "run" => at' > at,
         value' \in [Keys -> Values],
         \A k \in Keys : value[k] # "raw" => value'[k] # "raw",
         missed' \in {missed, missed \cup {at}},
         at' > at /\ at \notin missed' /\ Step.sets # NoKey
           /\ Step.kind # "condition" => value'[Step.sets] # "raw",
         UNCHANGED <<lookup, url, last, raw, accepted, inDoubt>>
  PROVE  IInv'
<1>1. Step \in Steps /\ at \in 1 .. Len(plan)
  BY PlanSteps DEF IInv, TypeOK, Executes, Step
<1>2. TypeOK'
  BY <1>1, PlanSteps DEF IInv, TypeOK, Executes, lookup
<1>3. RunsForward'
  BY <1>1 DEF IInv, TypeOK, RunsForward, Executes, lookup, Step
<1>4. RequestsAccepted'
  BY <1>1, PlanSteps DEF IInv, TypeOK, RunsForward, RequestsAccepted, Executes,
     lookup, Step
<1>5. AcceptedCount'
  BY <1>1, PlanSteps DEF IInv, TypeOK, AcceptedCount, TwiceOnlyInDoubt,
     Executes, lookup
<1>6. BoundStays'
  <2>1. \A i \in raw : i < at /\ i \in 1 .. Len(plan)
    BY PlanSteps DEF IInv, TypeOK, RunsForward, Executes
  <2>2. RawOnlyAfterMiss'
    BY <1>1, <2>1 DEF IInv, TypeOK, BoundStays, RawOnlyAfterMiss, Executes, lookup
  <2>3. \A i \in ran' : i \in 1 .. Len(plan) /\ plan[i] \in Steps
    BY <1>1, PlanSteps DEF IInv, TypeOK, Executes
  <2>4. ASSUME NEW i \in ran', i < at', i \notin missed', plan[i].sets # NoKey,
               plan[i].kind \in {"compute", "encode", "extract", "query"}
        PROVE  value'[plan[i].sets] # "raw"
    <3>1. CASE i = at
      BY <2>4, <3>1 DEF Step
    <3>2. CASE i # at
      <4>1. i \in ran /\ i < at /\ i \notin missed
        BY <2>4, <3>2 DEF IInv, RunsForward, Executes
      <4>2. value[plan[i].sets] # "raw"
        BY <4>1, <2>4 DEF IInv, BoundStays
      <4>3. plan[i].sets \in Keys
        BY <2>3, <2>4 DEF Steps
      <4>. QED BY <4>2, <4>3
    <3>. QED BY <3>1, <3>2
  <2>. QED BY <2>2, <2>4 DEF BoundStays, IInv, lookup
<1>. QED
  BY <1>2, <1>3, <1>4, <1>5, <1>6 DEF IInv, SentMeansAccepted

\* Binding makes a placeholder bound, and leaves the others alone.
LEMMA BindBinds ==
  ASSUME IInv, Step \in Steps, NEW v \in Values \ {"raw"}, Bind(v)
  PROVE  /\ value' \in [Keys -> Values]
         /\ \A k \in Keys : value[k] # "raw" => value'[k] # "raw"
         /\ Step.sets # NoKey => value'[Step.sets] # "raw"
BY DEF IInv, TypeOK, Bind, Steps

LEMMA ComputeKeepsIInv == ASSUME IInv, Compute PROVE IInv'
<1>1. Step \in Steps /\ at \in Nat
  BY PlanSteps DEF IInv, TypeOK, Compute, Executes, Step
<1>2. PICK v \in Values \ {"raw"} : Bind(v)
  BY DEF Compute
<1>. QED
  BY <1>1, <1>2, BindBinds, LocalStepKeepsIInv DEF Compute, Executes, IInv, TypeOK

LEMMA EncodeKeepsIInv == ASSUME IInv, Encode PROVE IInv'
<1>1. Step \in Steps /\ at \in Nat
  BY PlanSteps DEF IInv, TypeOK, Encode, Executes, Step
<1>2. CASE (\E v \in {"match", "other"} : Bind(v)) /\ at' = at + 1 /\ UNCHANGED stage
  <2>1. PICK v \in Values \ {"raw"} : Bind(v)
    BY <1>2 DEF Values
  <2>. QED
    BY <1>1, <1>2, <2>1, BindBinds, LocalStepKeepsIInv
    DEF Encode, Executes, IInv, TypeOK
<1>3. CASE stage' = "failed" /\ UNCHANGED <<value, at>>
  BY <1>1, <1>3, LocalStepKeepsIInv DEF Encode, Executes, IInv, TypeOK
<1>. QED BY <1>2, <1>3 DEF Encode

LEMMA ExtractKeepsIInv == ASSUME IInv, Extract PROVE IInv'
<1>1. Step \in Steps /\ at \in Nat
  BY PlanSteps DEF IInv, TypeOK, Extract, Executes, Step
<1>2. CASE (\E v \in Values \ {"raw"} : Bind(v)) /\ UNCHANGED missed
  <2>1. PICK v \in Values \ {"raw"} : Bind(v)
    BY <1>2
  <2>. QED
    BY <1>1, <1>2, <2>1, BindBinds, LocalStepKeepsIInv
    DEF Extract, Executes, IInv, TypeOK
<1>3. CASE missed' = missed \cup {at} /\ UNCHANGED value
  BY <1>1, <1>3, LocalStepKeepsIInv DEF Extract, Executes, IInv, TypeOK
<1>. QED BY <1>2, <1>3 DEF Extract

LEMMA ConditionKeepsIInv == ASSUME IInv, Condition PROVE IInv'
<1>1. Step \in Steps /\ at \in Nat
  BY PlanSteps DEF IInv, TypeOK, Condition, Executes, Step
<1>2. SkipCount(Step) \in Nat
  BY <1>1 DEF SkipCount, Steps
<1>3. /\ Executes({"compute", "encode", "extract", "condition"})
      /\ Step.kind = "condition"
  BY DEF Condition, Executes
<1>4. /\ at' \in Nat /\ at' > at /\ stage' = "run" /\ value' = value
      /\ value' \in [Keys -> Values] /\ missed' = missed
      /\ UNCHANGED <<lookup, url, last, raw, accepted, inDoubt>>
  BY <1>1, <1>2 DEF Condition, Executes, IInv, TypeOK
<1>. QED BY <1>3, <1>4, LocalStepKeepsIInv

LEMMA ReturnKeepsIInv == ASSUME IInv, Return PROVE IInv'
<1>1. at \in 1 .. Len(plan) /\ Len(plan) \in Nat
  BY PlanSteps DEF IInv, TypeOK, Return, Executes
<1>2. TypeOK'
  BY <1>1 DEF IInv, TypeOK, Return, Executes, lookup
<1>3. RunsForward' /\ SentMeansAccepted'
  BY <1>1 DEF IInv, TypeOK, RunsForward, SentMeansAccepted, Return, Executes,
     lookup, Step
<1>4. RequestsAccepted' /\ AcceptedCount' /\ BoundStays'
  BY <1>1 DEF IInv, TypeOK, RunsForward, RequestsAccepted, AcceptedCount,
     BoundStays, TwiceOnlyInDoubt, RawOnlyAfterMiss, Return, Executes, lookup, Step
<1>. QED BY <1>2, <1>3, <1>4 DEF IInv

\* A request starts: its step has not been run before.
LEMMA RequestKeepsIInv == ASSUME IInv, Request PROVE IInv'
<1>1. at \in 1 .. Len(plan) /\ Len(plan) \in Nat /\ Step \in Steps
  BY PlanSteps DEF IInv, TypeOK, Request, Executes, Step
<1>2. at \notin ran
  BY <1>1 DEF IInv, RunsForward, Request, Executes
<1>3. TypeOK'
  BY <1>1 DEF IInv, TypeOK, Request, Executes, lookup
<1>4. RunsForward' /\ SentMeansAccepted'
  BY <1>1 DEF IInv, TypeOK, RunsForward, SentMeansAccepted, Request, Executes,
     lookup, Step
<1>5. RequestsAccepted' /\ AcceptedCount'
  BY <1>1, <1>2 DEF IInv, TypeOK, RunsForward, RequestsAccepted, AcceptedCount,
     TwiceOnlyInDoubt, Request, Executes, lookup, Step
<1>6. BoundStays'
  <2>1. \A i \in ran : i < at /\ plan[i] \in Steps
    BY PlanSteps DEF IInv, TypeOK, RunsForward, Request, Executes
  <2>2. /\ plan' = plan /\ value' = value /\ missed' = missed /\ at' = at
        /\ ran' = ran \cup {at}
        /\ raw' \in {raw, raw \cup {at}}
        /\ raw' # raw => Step.uses \in Keys /\ value[Step.uses] = "raw"
    BY DEF Request, Executes, lookup
  <2>3. RawOnlyAfterMiss'
    <3>. SUFFICES ASSUME NEW i \in raw', NEW j \in ran', j < i,
                         plan[j].sets = plan[i].uses,
                         plan[j].kind \in {"compute", "encode", "extract", "query"}
                  PROVE  j \in missed
      BY <2>2 DEF RawOnlyAfterMiss
    <3>1. i \in 1 .. Len(plan) /\ i <= at
      BY <1>1, <2>1, <2>2 DEF IInv, TypeOK
    <3>2. j \in ran
      BY <1>1, <2>2, <3>1
    <3>3. CASE i \in raw
      BY <3>2, <3>3 DEF IInv, BoundStays, RawOnlyAfterMiss
    <3>4. CASE i \notin raw
      <4>1. i = at /\ plan[i].uses \in Keys /\ value[plan[i].uses] = "raw"
        BY <2>2, <3>4 DEF Step
      <4>. QED
        BY <2>1, <3>2, <4>1, PlansAssumption DEF IInv, BoundStays
    <3>. QED BY <3>3, <3>4
  <2>4. \A i \in raw' : plan'[i].uses \in Keys
    BY <2>2 DEF IInv, BoundStays, Step
  <2>. QED
    BY <1>1, <2>2, <2>3, <2>4 DEF IInv, BoundStays
<1>. QED BY <1>3, <1>4, <1>5, <1>6 DEF IInv

\* The request awaited succeeds.
LEMMA SuccessKeepsIInv ==
  ASSUME IInv, stage = "await", Accept, Succeeds,
         UNCHANGED <<lookup, ran, raw, inDoubt>>
  PROVE  IInv'
<1>1. /\ at \in 1 .. Len(plan) /\ Len(plan) \in Nat /\ Step \in Steps /\ at \in ran
      /\ Step.kind \in {"query", "push"}
  BY PlanSteps DEF IInv, TypeOK, RunsForward, Step
<1>2. /\ plan' = plan /\ ran' = ran /\ raw' = raw /\ inDoubt' = inDoubt
      /\ domain' = domain /\ url' = url /\ stage' = "run" /\ at' = at + 1
  BY DEF Succeeds, lookup
<1>3. /\ value' \in [Keys -> Values]
      /\ \A k \in Keys : value[k] # "raw" => value'[k] # "raw"
      /\ missed' \in {missed, missed \cup {at}}
      /\ last' \in {last, at}
      /\ last' = at => Step.kind = "push" \/ last = at
      /\ Step.kind = "query" /\ at \notin missed' /\ Step.sets # NoKey
           => value'[Step.sets] # "raw"
  <2>1. CASE Step.kind = "query"
    <3>1. CASE UNCHANGED value
      BY <2>1, <3>1, <1>1 DEF Succeeds, ReadReply, Bind, IInv, TypeOK, Steps
    <3>2. CASE \E v \in Values \ {"raw", "empty"} : Bind(v)
      <4>1. PICK v \in Values \ {"raw"} : Bind(v)
        BY <3>2
      <4>. QED
        BY <1>1, <2>1, <4>1, BindBinds DEF Succeeds, ReadReply
    <3>. QED BY <2>1, <3>1, <3>2 DEF Succeeds, ReadReply
  <2>2. CASE Step.kind = "push"
    BY <1>1, <2>2 DEF Succeeds, IInv, TypeOK
  <2>. QED BY <1>1, <2>1, <2>2
<1>4. /\ accepted' \in [1 .. Len(plan) -> 0 .. 2] /\ accepted'[at] > 0
      /\ \A i \in 1 .. Len(plan) : i # at => accepted'[i] = accepted[i]
      /\ accepted'[at] = 2 => accepted[at] > 0
  BY <1>1 DEF Accept, IInv, TypeOK
<1>5. TypeOK'
  BY <1>1, <1>2, <1>3, <1>4 DEF IInv, TypeOK
<1>6. RunsForward' /\ RequestsAccepted' /\ SentMeansAccepted'
  BY <1>1, <1>2, <1>3, <1>4 DEF IInv, TypeOK, RunsForward, RequestsAccepted,
     SentMeansAccepted, Step
<1>7. AcceptedCount'
  BY <1>1, <1>2, <1>4 DEF IInv, TypeOK, AcceptedCount, TwiceOnlyInDoubt, Step
<1>8. BoundStays'
  <2>1. \A i \in ran : i \in 1 .. Len(plan) /\ plan[i] \in Steps /\ i <= at
    BY PlanSteps DEF IInv, TypeOK, RunsForward
  <2>2. RawOnlyAfterMiss'
    BY <1>2, <1>3 DEF IInv, BoundStays, RawOnlyAfterMiss
  <2>3. ASSUME NEW i \in ran, i \notin missed', plan[i].sets # NoKey,
               plan[i].kind \in {"compute", "encode", "extract", "query"}
        PROVE  value'[plan[i].sets] # "raw"
    <3>1. CASE i = at
      BY <1>1, <1>3, <2>3, <3>1 DEF Step
    <3>2. CASE i # at
      <4>1. i < at /\ i \notin missed /\ plan[i].sets \in Keys
        BY <1>1, <1>3, <2>1, <2>3, <3>2 DEF Steps
      <4>. QED BY <1>3, <2>3, <4>1 DEF IInv, BoundStays
    <3>. QED BY <3>1, <3>2
  <2>. QED BY <1>2, <2>2, <2>3 DEF IInv, BoundStays
<1>. QED BY <1>5, <1>6, <1>7, <1>8 DEF IInv

\* The request awaited fails, for this service, at either URL.
LEMMA FailureKeepsIInv ==
  ASSUME IInv, stage = "await", Fails, UNCHANGED <<lookup, ran, raw>>,
         \/ Accept /\ inDoubt' = inDoubt \cup {at}
         \/ UNCHANGED <<accepted, inDoubt>>
  PROVE  IInv'
<1>1. /\ at \in 1 .. Len(plan) /\ Len(plan) \in Nat /\ Step \in Steps /\ at \in ran
  BY PlanSteps DEF IInv, TypeOK, RunsForward, Step
<1>2. /\ plan' = plan /\ ran' = ran /\ raw' = raw /\ domain' = domain /\ at' = at
      /\ last' = last /\ value' = value /\ missed' = missed
      /\ \/ Step.fallback /\ url = "url" /\ url' = "fallback" /\ stage' = "await"
         \/ ~ (Step.fallback /\ url = "url") /\ url' = url /\ stage' = "failed"
  BY DEF Fails, lookup, IInv, TypeOK
<1>3. /\ accepted' \in [1 .. Len(plan) -> 0 .. 2]
      /\ \A i \in 1 .. Len(plan) : i # at => accepted'[i] = accepted[i]
      /\ \/ accepted'[at] = accepted[at] /\ inDoubt' = inDoubt
         \/ /\ accepted'[at] = accepted[at] + 1 \/ accepted[at] = 2
            /\ inDoubt' = inDoubt \cup {at}
      /\ accepted[at] > 0 => accepted'[at] > 0
  BY <1>1 DEF Accept, IInv, TypeOK
<1>4. TypeOK'
  BY <1>1, <1>2, <1>3 DEF IInv, TypeOK
<1>5. RunsForward' /\ RequestsAccepted' /\ SentMeansAccepted'
  BY <1>1, <1>2, <1>3 DEF IInv, TypeOK, RunsForward, RequestsAccepted,
     SentMeansAccepted, Step
<1>6. AcceptedCount'
  <2>1. accepted[at] = 0 \/ (accepted[at] = 1 /\ at \in inDoubt /\ Step.fallback)
    BY <1>1 DEF IInv, TypeOK, AcceptedCount
  <2>2. url = "fallback" => Step.fallback
    BY DEF IInv, AcceptedCount
  <2>3. url = "url" => accepted[at] = 0
    BY DEF IInv, AcceptedCount
  <2>. QED
    BY <1>1, <1>2, <1>3, <2>1, <2>2, <2>3
    DEF IInv, TypeOK, AcceptedCount, TwiceOnlyInDoubt, Step
<1>7. BoundStays'
  BY <1>2 DEF IInv, BoundStays, RawOnlyAfterMiss
<1>. QED BY <1>4, <1>5, <1>6, <1>7 DEF IInv

LEMMA EndKeepsIInv == ASSUME IInv, EndOfPlan PROVE IInv'
<1>1. /\ UNCHANGED <<domain, plan, at, url, value, last, ran, missed, raw,
                     accepted, inDoubt>>
      /\ stage' = IF last = 0 THEN "failed" ELSE "sent"
  BY DEF EndOfPlan, lookup, history
<1>2. RunsForward' /\ TypeOK' /\ RequestsAccepted' /\ AcceptedCount' /\ BoundStays'
  BY <1>1 DEF EndOfPlan, IInv, TypeOK, RunsForward, RequestsAccepted,
     AcceptedCount, TwiceOnlyInDoubt, BoundStays, RawOnlyAfterMiss, Step
<1>3. \A i \in ran : i < at
  BY DEF EndOfPlan, IInv, RunsForward
<1>4. SentMeansAccepted'
  BY <1>1, <1>3 DEF IInv, RequestsAccepted, SentMeansAccepted
<1>. QED BY <1>2, <1>4 DEF IInv

LEMMA NextIInv == IInv /\ [Next]_vars => IInv'
<1>. SUFFICES ASSUME IInv, [Next]_vars PROVE IInv'
  OBVIOUS
<1>1. CASE FindProvider \/ ResolveWallet \/ ResolveEns
  BY <1>1, LookupsKeepIInv
<1>2. CASE FetchPlan
  BY <1>2, FetchKeepsIInv
<1>3. CASE Compute \/ Encode \/ Extract \/ Condition
  BY <1>3, ComputeKeepsIInv, EncodeKeepsIInv, ExtractKeepsIInv, ConditionKeepsIInv
<1>4. CASE Return \/ Request
  BY <1>4, ReturnKeepsIInv, RequestKeepsIInv
<1>5. CASE Reply
  BY <1>5, SuccessKeepsIInv, FailureKeepsIInv DEF Reply, lookup
<1>6. CASE EndOfPlan
  BY <1>6, EndKeepsIInv
<1>7. CASE UNCHANGED vars
  BY <1>7 DEF vars, history, IInv, TypeOK, RunsForward, RequestsAccepted,
     AcceptedCount, TwiceOnlyInDoubt, BoundStays, RawOnlyAfterMiss,
     SentMeansAccepted, Step
<1>. QED BY <1>1, <1>2, <1>3, <1>4, <1>5, <1>6, <1>7 DEF Next

\* sendNotification resolves only when every request of the plan it performed was
\* accepted, the last push among them, or the plan returned early.
THEOREM SentIsAccepted == Spec => []SentMeansAccepted
<1>1. IInv => SentMeansAccepted
  BY DEF IInv
<1>. QED BY InitIInv, NextIInv, <1>1, PTL DEF Spec

\* No request is accepted twice unless its first reply was lost and the step has
\* a fallback URL, whatever the plan.
THEOREM NoNeedlessDuplicate == Spec => []TwiceOnlyInDoubt
<1>1. IInv => TwiceOnlyInDoubt
  BY DEF IInv, AcceptedCount
<1>. QED BY InitIInv, NextIInv, <1>1, PTL DEF Spec

\* A placeholder that is still in a request was not found by any step before it.
THEOREM PlaceholdersAreReplaced == Spec => []RawOnlyAfterMiss
<1>1. IInv => RawOnlyAfterMiss
  BY DEF IInv, BoundStays
<1>. QED BY InitIInv, NextIInv, <1>1, PTL DEF Spec
==============================================================================

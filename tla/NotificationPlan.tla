--------------------------- MODULE NotificationPlan ---------------------------
(***************************************************************************)
(* Waking a client: sendNotification looks up the caller's provider        *)
(* contract and the callee's wallet, asks the contract for a plan, and     *)
(* executePlan interprets it (NotificationApi.js, with the lookups of      *)
(* BlockchainApi.js).  A plan is a sequence of steps: computations at this *)
(* service, extraction from a reply, conditions that skip steps, requests  *)
(* whose reply is read (query) or that are the notification (push), and an *)
(* early return.  A step may bind a placeholder that later steps use.      *)
(*                                                                         *)
(* A request can be lost, refused, or accepted with its reply lost; it is  *)
(* then tried at the step's fallback URL.  Names, bodies and headers are   *)
(* abstracted; a placeholder's value is told apart only by the conditions. *)
(***************************************************************************)
EXTENDS Naturals, Integers, Sequences, FiniteSets

CONSTANTS
  Keys,       \* the placeholders of a plan
  NoKey,      \* a step uses or binds none
  Plans,      \* the plans a provider contract may return
  MaxDomains  \* the labels of the caller's domain

\* "raw" is a placeholder that is not bound: its name stays in the text.
Values == {"raw", "match", "other", "empty"}

Kinds == {"compute", "encode", "extract", "condition", "return", "query", "push"}

\* A step of a plan: the placeholder in its text and the one it binds, whether it
\* has a fallback URL, and for a condition the values for which it holds and the
\* number of steps skipped otherwise.
Steps == [kind : Kinds, uses : Keys \cup {NoKey}, sets : Keys \cup {NoKey},
          fallback : BOOLEAN, holds : SUBSET Values, skip : {-1, 0, 1, 2}]

ASSUME PlansAssumption ==
  /\ NoKey \notin Keys
  /\ Plans \subseteq Seq(Steps)
  /\ MaxDomains \in Nat \ {0}

VARIABLES
  stage,    \* the await sendNotification is at, or how it ended
  domain,   \* the labels of the caller's domain still to be looked up
  plan,     \* the plan the contract returned
  at,       \* the step being executed
  url,      \* the URL the request of that step was sent to
  value,    \* placeholder -> its value
  last,     \* the last push that succeeded, as this service saw it
  ran,      \* history: the steps executed
  missed,   \* history: those whose field was not in the reply
  raw,      \* history: the requests sent with a placeholder not bound
  accepted, \* history: step -> how often a server accepted its request
  inDoubt   \* history: the steps whose accepted request looked failed

lookup == <<domain, plan>>
history == <<ran, missed, raw, accepted, inDoubt>>
vars == <<stage, domain, plan, at, url, value, last, history>>

Ended == stage \in {"sent", "failed"}

TypeOK ==
  /\ stage \in {"provider", "mapping", "owner", "ens", "plan", "run", "await",
                "sent", "failed"}
  /\ domain \in 0 .. MaxDomains
  /\ plan \in Plans \cup {<<>>}
  /\ at \in Nat \ {0}
  /\ url \in {"url", "fallback"}
  /\ value \in [Keys -> Values]
  /\ last \in Nat
  /\ ran \subseteq 1 .. Len(plan) /\ missed \subseteq ran /\ raw \subseteq ran
  /\ inDoubt \subseteq ran
  /\ accepted \in [1 .. Len(plan) -> 0 .. 2]
  /\ stage \in {"run", "await"} => plan # <<>>
  /\ stage = "await" => at \in 1 .. Len(plan)

Init ==
  /\ stage = "provider" /\ domain \in 0 .. MaxDomains
  /\ plan = <<>> /\ at = 1 /\ url = "url"
  /\ value = [k \in Keys |-> "raw"]
  /\ last = 0
  /\ ran = {} /\ missed = {} /\ raw = {} /\ inDoubt = {}
  /\ accepted = [i \in 1 .. 0 |-> 0]

-----------------------------------------------------------------------------
(***************************************************************************)
(* The lookups before the plan.                                            *)
(***************************************************************************)

\* The provider contract: a configured one, or the first contract registered for
\* the caller's domain or one of its parents; a lookup that throws is a miss.
\* Without one the notification fails: all domains were tried, or there is none
\* because the caller is an address or the registry is not found.  What comes
\* next depends on what is known of the callee: its wallet, its number, its name.
FindProvider ==
  /\ stage = "provider"
  /\ \/ domain > 0 /\ stage' \in {"mapping", "ens", "plan"} /\ UNCHANGED domain
     \/ domain > 0 /\ domain' = domain - 1 /\ UNCHANGED stage
     \/ domain = 0 /\ stage' = "failed" /\ UNCHANGED domain
  /\ UNCHANGED <<plan, at, url, value, last, history>>

\* The wallet by the callee's number: the mapping service names a web3 identity
\* unless the request fails or takes too long, the identity is inactive or there
\* is none, and its owner is looked up.
ResolveWallet ==
  /\ \/ stage = "mapping" /\ stage' \in {"owner", "ens"}
     \/ stage = "owner" /\ stage' \in {"plan", "ens"}
  /\ UNCHANGED <<lookup, at, url, value, last, history>>

\* The wallet by the callee's name; an error is a miss, and a miss is final.
ResolveEns ==
  /\ stage = "ens" /\ stage' \in {"plan", "failed"}
  /\ UNCHANGED <<lookup, at, url, value, last, history>>

\* The contract returns a plan, or the call fails or returns no step.
FetchPlan ==
  /\ stage = "plan"
  /\ \/ /\ plan' \in Plans \ {<<>>}
        /\ stage' = "run"
        /\ accepted' = [i \in 1 .. Len(plan') |-> 0]
     \/ stage' = "failed" /\ UNCHANGED <<plan, accepted>>
  /\ UNCHANGED <<domain, at, url, value, last, ran, missed, raw, inDoubt>>

-----------------------------------------------------------------------------
(***************************************************************************)
(* executePlan.                                                            *)
(***************************************************************************)

Step == plan[at]

\* The step at the head is of one of these kinds, and is executed now.
Executes(kinds) ==
  /\ stage = "run" /\ at <= Len(plan) /\ Step.kind \in kinds
  /\ ran' = ran \cup {at}

Bind(v) ==
  value' = IF Step.sets = NoKey THEN value ELSE [value EXCEPT ![Step.sets] = v]

\* CLIENT_GENERATE, CLIENT_ETH_SIGN: a signature that fails is the empty text.
Compute ==
  /\ Executes({"compute"})
  /\ \E v \in Values \ {"raw"} : Bind(v)
  /\ at' = at + 1
  /\ UNCHANGED <<stage, lookup, url, last, missed, raw, accepted, inDoubt>>

\* CLIENT_ABI_ENCODE, CLIENT_ABI_DECODE: an error ends the plan.
Encode ==
  /\ Executes({"encode"})
  /\ \/ (\E v \in {"match", "other"} : Bind(v)) /\ at' = at + 1 /\ UNCHANGED stage
     \/ stage' = "failed" /\ UNCHANGED <<value, at>>
  /\ UNCHANGED <<lookup, url, last, missed, raw, accepted, inDoubt>>

\* CLIENT_JSON_EXTRACT: a field that is not there leaves the placeholder as it is.
Extract ==
  /\ Executes({"extract"})
  /\ \/ (\E v \in Values \ {"raw"} : Bind(v)) /\ UNCHANGED missed
     \/ missed' = missed \cup {at} /\ UNCHANGED value
  /\ at' = at + 1
  /\ UNCHANGED <<stage, lookup, url, last, raw, accepted, inDoubt>>

\* Mutant of SkipCount: a negative count is followed.
SkipCountUnguarded(s) ==
  IF s.uses \in Keys /\ value[s.uses] \in s.holds THEN 0 ELSE s.skip

\* What a condition skips when it does not hold; only a positive count is
\* followed.
SkipCount(s) ==
  IF (s.uses \in Keys /\ value[s.uses] \in s.holds) \/ s.skip <= 0 THEN 0
  ELSE s.skip

Condition ==
  /\ Executes({"condition"})
  /\ at' = at + SkipCount(Step) + 1
  /\ UNCHANGED <<stage, lookup, url, value, last, missed, raw, accepted, inDoubt>>

Return ==
  /\ Executes({"return"})
  /\ stage' = "sent"
  /\ UNCHANGED <<lookup, at, url, value, last, missed, raw, accepted, inDoubt>>

\* The request of a step goes out, its placeholders replaced where bound.
Request ==
  /\ Executes({"query", "push"})
  /\ stage' = "await" /\ url' = "url"
  /\ raw' = IF Step.uses \in Keys /\ value[Step.uses] = "raw"
            THEN raw \cup {at} ELSE raw
  /\ UNCHANGED <<lookup, at, value, last, missed, accepted, inDoubt>>

\* The server accepts the request awaited.
Accept == accepted' = [accepted EXCEPT ![at] = IF @ < 2 THEN @ + 1 ELSE 2]

\* Mutant of ReadReply: only a reply of the first URL is read.
ReadReplyOfFirst ==
  IF url = "url"
    THEN \/ (\E v \in Values \ {"raw", "empty"} : Bind(v)) /\ UNCHANGED missed
         \/ missed' = missed \cup {at} /\ UNCHANGED value
    ELSE UNCHANGED <<value, missed>>

\* The field of a query's reply is bound; one that is missing or empty is not.
ReadReply ==
  \/ (\E v \in Values \ {"raw", "empty"} : Bind(v)) /\ UNCHANGED missed
  \/ missed' = missed \cup {at} /\ UNCHANGED value

\* Mutant of Succeeds: a step with a fallback is sent there in any case.
SucceedsTwice ==
  IF Step.fallback /\ url = "url"
    THEN stage' = stage /\ url' = "fallback" /\ UNCHANGED <<at, last, value, missed>>
    ELSE /\ stage' = "run" /\ at' = at + 1 /\ UNCHANGED url
         /\ IF Step.kind = "query" THEN ReadReply /\ UNCHANGED last
            ELSE last' = at /\ UNCHANGED <<value, missed>>

\* A reply of status 2xx: the plan goes on.
Succeeds ==
  /\ stage' = "run" /\ at' = at + 1 /\ UNCHANGED url
  /\ IF Step.kind = "query" THEN ReadReply /\ UNCHANGED last
     ELSE last' = at /\ UNCHANGED <<value, missed>>

\* Mutant of Fails: a push that fails is passed over.
FailsOn ==
  /\ IF Step.fallback /\ url = "url"
       THEN url' = "fallback" /\ UNCHANGED <<stage, at>>
       ELSE stage' = "run" /\ at' = at + 1 /\ UNCHANGED url
  /\ UNCHANGED <<last, value, missed>>

\* No reply, or one of another status: the fallback is tried, then the plan ends.
Fails ==
  /\ IF Step.fallback /\ url = "url"
       THEN url' = "fallback" /\ UNCHANGED stage
       ELSE stage' = "failed" /\ UNCHANGED url
  /\ UNCHANGED <<at, last, value, missed>>

\* executeHttpRequest returns: the request succeeded, was accepted but its reply
\* was lost or came too late, or was refused or lost.
Reply ==
  /\ stage = "await"
  /\ \/ Accept /\ Succeeds /\ UNCHANGED inDoubt
     \/ Accept /\ Fails /\ inDoubt' = inDoubt \cup {at}
     \/ Fails /\ UNCHANGED <<accepted, inDoubt>>
  /\ UNCHANGED <<lookup, ran, raw>>

\* The plan is at its end: it needs a push that succeeded.
EndOfPlan ==
  /\ stage = "run" /\ at > Len(plan)
  /\ stage' = IF last = 0 THEN "failed" ELSE "sent"
  /\ UNCHANGED <<lookup, at, url, value, last, history>>

Next ==
  \/ FindProvider \/ ResolveWallet \/ ResolveEns \/ FetchPlan
  \/ Compute \/ Encode \/ Extract \/ Condition \/ Return
  \/ Request \/ Reply \/ EndOfPlan

\* A lookup and a request end: by a reply, an error or the transport's timeout;
\* the steps between them are synchronous.
Spec == Init /\ [][Next]_vars /\ WF_vars(Next)

-----------------------------------------------------------------------------
(***************************************************************************)
(* Properties.                                                             *)
(***************************************************************************)

\* A notification reported as sent was accepted: unless the plan returned early,
\* there was a push, and every push and query performed was accepted by its
\* server (the result is that of the last push only).
SentMeansAccepted ==
  stage = "sent" =>
    \/ at \in ran /\ Step.kind = "return"
    \/ /\ last \in ran /\ plan[last].kind = "push"
       /\ \A i \in ran : plan[i].kind \in {"query", "push"} => accepted[i] > 0

\* The same request is accepted twice, a second notification for one call, only
\* when the reply to the first one was lost and the step has a fallback.
TwiceOnlyInDoubt ==
  \A i \in DOMAIN accepted :
    accepted[i] = 2 => i \in inDoubt /\ plan[i].fallback

\* A request leaves with a placeholder unreplaced only if no step that was run
\* before it and binds the placeholder found a value for it.
RawOnlyAfterMiss ==
  \A i \in raw : \A j \in ran :
    /\ j < i /\ plan[j].sets = plan[i].uses
    /\ plan[j].kind \in {"compute", "encode", "extract", "query"}
    => j \in missed

\* Every notification ends, whatever the plan's conditions skip.
PlanEnds == <>Ended
==============================================================================

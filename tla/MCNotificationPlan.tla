-------------------------- MODULE MCNotificationPlan --------------------------
(***************************************************************************)
(* All plans of up to three steps over one placeholder.                    *)
(***************************************************************************)
EXTENDS NotificationPlan

CONSTANT token

Plain(kind, uses, sets) ==
  [kind |-> kind, uses |-> uses, sets |-> sets, fallback |-> FALSE,
   holds |-> {}, skip |-> 0]

\* Comparisons of the placeholder with a text, by eq and by ne.
Conditions ==
  {[Plain("condition", token, NoKey) EXCEPT !.holds = h, !.skip = n] :
     h \in {{"match"}, Values \ {"match"}}, n \in {-1, 1, 2}}

Requests ==
  {[Plain("query", token, token) EXCEPT !.fallback = b] : b \in BOOLEAN}
    \cup {[Plain("push", token, NoKey) EXCEPT !.fallback = b] : b \in BOOLEAN}

Alphabet ==
  {Plain(kind, NoKey, token) : kind \in {"compute", "encode", "extract"}}
    \cup {Plain("return", NoKey, NoKey)} \cup Conditions \cup Requests

ShortPlans == UNION {[1 .. n -> Alphabet] : n \in 1 .. 3}
==============================================================================

--------------------------- MODULE Multiring_proofs ---------------------------
(***************************************************************************)
(* Theorems about Multiring for any calls, targets and ring groups: type   *)
(* correctness, the indexes, the host session, that no call hangs, and     *)
(* that the first pickup is final.                                         *)
(***************************************************************************)
EXTENDS Multiring, TLAPS

(***************************************************************************)
(* The inductive invariant.                                                *)
(***************************************************************************)

\* A call that has not come in has nothing.
NewIsIdle ==
  \A g \in Groups : stage[g] = "new" =>
    /\ g \notin host \cup finished \cup timer
    /\ winner[g] = None
    /\ \A c \in CandidatesOf(g) : job[c] = "none"

\* A candidate whose offer is not made yet is tracked nowhere.
Unmade == {c \in Candidates : job[c] \in {"none", "creating"}}
UnmadeIsAbsent ==
  \A c \in Unmade :
    /\ status[c] = "absent"
    /\ c \notin byNonce /\ c \notin byPc
    /\ bySignaling[c[2]] # c[1] /\ pair[c[2]] # c[1]

\* The winner is a candidate of its call that was tracked.
WinnerIsMade ==
  \A g \in Groups : winner[g] # None => <<g, winner[g]>> \in Candidates \ Unmade

\* Who counts as winner has won, and a signaling id leads to a candidate.
MarksAreTrue ==
  /\ \A c \in Candidates : status[c] = "winner" => winner[c[1]] # None
  /\ \A t \in Targets :
       bySignaling[t] # None => <<bySignaling[t], t>> \in Candidates

\* The handoff begins with the pickup and ends with the group; until then a call
\* that is open has its timer, and one that was refused is over.
Phases ==
  \A g \in Groups :
    /\ handoff[g] = "none" <=> winner[g] = None
    /\ handoff[g] \in {"done", "failed"} => g \in finished
    /\ stage[g] = "open" /\ GivesUp(g) => g \in timer
    /\ stage[g] = "refused" => ~ GivesUp(g)

Ind == /\ TypeOK /\ NewIsIdle /\ UnmadeIsAbsent /\ WinnerIsMade /\ MarksAreTrue
       /\ Phases /\ HostMatchesGroup /\ IndexesMatch

LEMMA CandidateIsPair ==
  \A c \in Candidates :
    c[1] \in Groups /\ c[2] \in Targets /\ c = <<c[1], c[2]>>
  BY DEF Candidates

LEMMA InitInd == Init => Ind
  BY NoneAssumption, CandidateIsPair
  DEF Init, Ind, TypeOK, NewIsIdle, UnmadeIsAbsent, Unmade, WinnerIsMade, MarksAreTrue, Phases,
      HostMatchesGroup, IndexesMatch, Live, CandidatesOf, NextStep

-----------------------------------------------------------------------------
(***************************************************************************)
(* What a teardown does to the candidates and their indexes, whatever it   *)
(* closes.                                                                 *)
(***************************************************************************)
CandidatesTyped ==
  /\ host \subseteq Groups /\ finished \subseteq Groups
  /\ status \in [Candidates -> {"absent", "ringing", "winner", "closed"}]
  /\ pc \in [Candidates ->
               {"none", "offered", "applying", "answered", "open", "closed"}]
  /\ byNonce \subseteq Candidates /\ byPc \subseteq Candidates
  /\ bySignaling \in [Targets -> Groups \cup {None}]
  /\ pair \in [Targets -> Groups \cup {None}]

LEMMA TeardownKeeps ==
  ASSUME Ind, UNCHANGED winner, Unmade' = Unmade,
         \A g \in Groups : stage'[g] = "new" <=> stage[g] = "new",
         NEW losing \in SUBSET Candidates, NEW ends \in SUBSET Groups,
         NEW drops \in SUBSET Groups, NEW kept \in SUBSET Candidates,
         Teardown(losing, ends, drops, kept), \A c \in kept : c[1] \in ends
  PROVE  CandidatesTyped' /\ UnmadeIsAbsent' /\ IndexesMatch' /\ MarksAreTrue'
<1> DEFINE closing == losing \cap Active
           gone == closing \cup UNION {Tracked(g) : g \in ends}
<1>1. /\ status' = [c \in Candidates |-> IF c \in closing THEN "closed" ELSE status[c]]
      /\ finished' = finished \cup ends /\ host' = host \ drops
      /\ byNonce' = byNonce \ gone /\ byPc' = byPc \ gone
      /\ bySignaling' = [t \in Targets |->
           IF <<bySignaling[t], t>> \in gone THEN None ELSE bySignaling[t]]
      /\ pair' = [t \in Targets |->
           IF <<pair[t], t>> \in gone \ kept THEN None ELSE pair[t]]
  BY DEF Teardown, Untrack
<1>2. pc' \in [Candidates ->
                 {"none", "offered", "applying", "answered", "open", "closed"}]
  BY DEF Teardown, Ind, TypeOK
<1>3. CandidatesTyped'
  BY <1>1, <1>2 DEF CandidatesTyped, Ind, TypeOK
<1>4. UnmadeIsAbsent'
  BY <1>1, CandidateIsPair, NoneAssumption
  DEF UnmadeIsAbsent, Unmade, Active, Ind, TypeOK
<1>5. ASSUME NEW c \in Candidates, Live(c[1])'
      PROVE  /\ Live(c[1]) /\ c \notin UNION {Tracked(g) : g \in ends}
             /\ c \in Active' <=> c \in Active \ closing
  BY <1>1, <1>5, CandidateIsPair DEF Live, Tracked, CandidatesOf, Active, Ind, TypeOK
<1>6. IndexesMatch'
  <2> SUFFICES ASSUME NEW c \in Candidates, Live(c[1])'
               PROVE  /\ c \in Active' <=> c \in byNonce'
                      /\ c \in Active' <=> c \in byPc'
                      /\ bySignaling'[c[2]] = c[1] => c \in Active'
                      /\ pair'[c[2]] = c[1] => c \in Active' \/ winner'[c[1]] = c[2]
    BY DEF IndexesMatch
  <2>1. /\ Live(c[1])
        /\ c \in gone <=> c \in closing
        /\ c \in Active' <=> c \in Active \ closing
    BY <1>5
  <2>2. c \notin kept
    BY <1>1, CandidateIsPair DEF Live, Ind, TypeOK
  <2>3. /\ c \in Active <=> c \in byNonce
        /\ c \in Active <=> c \in byPc
        /\ bySignaling[c[2]] = c[1] => c \in Active
        /\ pair[c[2]] = c[1] => c \in Active \/ winner[c[1]] = c[2]
    BY <2>1 DEF Ind, IndexesMatch
  <2>4. /\ c \in Active' <=> c \in byNonce'
        /\ c \in Active' <=> c \in byPc'
    BY <1>1, <2>1, <2>3
  <2>5. bySignaling'[c[2]] = c[1] => bySignaling[c[2]] = c[1] /\ c \notin gone
    BY <1>1, CandidateIsPair, NoneAssumption
  <2>6. pair'[c[2]] = c[1] => pair[c[2]] = c[1] /\ c \notin gone
    BY <1>1, <2>2, CandidateIsPair, NoneAssumption
  <2> HIDE DEF gone, closing
  <2> QED BY <1>1, <2>1, <2>3, <2>4, <2>5, <2>6
<1>7. MarksAreTrue'
  BY <1>1, CandidateIsPair, NoneAssumption
  DEF MarksAreTrue, Ind, TypeOK
<1> QED BY <1>3, <1>4, <1>6, <1>7

\* A call gives up: all its candidates are closed and its host session destroyed.
LEMMA CallEnds ==
  ASSUME Ind, NEW g \in Groups, stage[g] # "new", g \notin finished,
         Teardown(CandidatesOf(g), {g}, {g}, {}),
         UNCHANGED timer \/ timer' = timer \ {g},
         UNCHANGED <<winner, job>>,
         UNCHANGED stage \/ stage' = [stage EXCEPT ![g] = "refused"],
         \/ UNCHANGED handoff
         \/ /\ winner[g] # None
            /\ handoff' = [handoff EXCEPT ![g] = "failed"]
  PROVE  Ind'
<1>1. CandidatesTyped' /\ UnmadeIsAbsent' /\ IndexesMatch' /\ MarksAreTrue'
  BY TeardownKeeps DEF CandidatesOf, Unmade, Ind, TypeOK
<1>2. finished' = finished \cup {g} /\ host' = host \ {g}
  BY DEF Teardown
<1>3. handoff[g] # "done" /\ handoff'[g] # "done"
  BY DEF Ind, Phases, TypeOK
<1>4. TypeOK' /\ NewIsIdle' /\ WinnerIsMade' /\ MarksAreTrue'
  BY <1>1, <1>2
  DEF CandidatesTyped, TypeOK, NewIsIdle, WinnerIsMade, MarksAreTrue, Unmade, CandidatesOf, Ind
<1>5. Phases' /\ HostMatchesGroup'
  BY <1>2, <1>3 DEF Phases, HostMatchesGroup, GivesUp, TypeOK, Ind
<1> QED BY <1>1, <1>4, <1>5 DEF Ind

\* Single candidates are closed and their calls go on.
LEMMA CallGoesOn ==
  ASSUME Ind, NEW losing \in SUBSET Candidates, Teardown(losing, {}, {}, {}),
         UNCHANGED <<stage, winner, timer, handoff>>,
         \/ UNCHANGED job
         \/ \E c \in Candidates :
              job[c] = "notifying" /\ job' = [job EXCEPT ![c] = "failed"]
  PROVE  Ind'
<1>1. /\ Unmade' = Unmade
      /\ \A c \in Candidates : job'[c] = "none" <=> job[c] = "none"
      /\ job' \in [Candidates ->
                   {"none", "creating", "notifying", "invited", "failed"}]
  BY DEF Unmade, Ind, TypeOK
<1>2. CandidatesTyped' /\ UnmadeIsAbsent' /\ IndexesMatch' /\ MarksAreTrue'
  BY <1>1, TeardownKeeps
<1>3. UNCHANGED <<finished, host>>
  BY DEF Teardown
<1>4. TypeOK' /\ NewIsIdle' /\ WinnerIsMade' /\ MarksAreTrue' /\ Phases' /\ HostMatchesGroup'
  BY <1>1, <1>2, <1>3
  DEF CandidatesTyped, TypeOK, NewIsIdle, WinnerIsMade, MarksAreTrue, CandidatesOf, Phases,
      HostMatchesGroup, GivesUp, Ind
<1> QED BY <1>2, <1>4 DEF Ind

LEMMA LeaveKeeps ==
  ASSUME Ind, NEW c \in Candidates, stage[c[1]] # "new", Leave(c),
         UNCHANGED <<stage, winner, handoff, job>>
  PROVE  Ind'
<1>1. CASE NoneLeft(c[1], {c}) /\ GivesUp(c[1])
  BY <1>1, CallEnds, CandidateIsPair DEF Leave, GivesUp
<1>2. CASE ~ (NoneLeft(c[1], {c}) /\ GivesUp(c[1]))
  BY <1>2, CallGoesOn DEF Leave
<1> QED BY <1>1, <1>2

LEMMA FailHandoffKeeps ==
  ASSUME Ind, NEW g \in Groups, winner[g] # None, FailHandoff(g),
         UNCHANGED <<stage, winner, job>>,
         \/ UNCHANGED handoff
         \/ handoff[g] = "failing" /\ handoff' = [handoff EXCEPT ![g] = "failed"]
  PROVE  Ind'
<1>1. stage[g] # "new"
  BY DEF Ind, NewIsIdle
<1>2. CASE g \in finished
  <2>1. UNCHANGED <<host, finished, status, pc, indexVars, timer>>
    BY <1>2 DEF FailHandoff
  <2> QED BY <1>2, <2>1
    DEF Ind, TypeOK, NewIsIdle, UnmadeIsAbsent, Unmade, WinnerIsMade, MarksAreTrue, Phases, GivesUp,
        HostMatchesGroup, IndexesMatch, Live, Active, CandidatesOf, indexVars
<1>3. CASE g \notin finished
  BY <1>1, <1>3, CallEnds DEF FailHandoff
<1> QED BY <1>2, <1>3

-----------------------------------------------------------------------------
(***************************************************************************)
(* One lemma per action.                                                   *)
(***************************************************************************)
LEMMA StartInboundKeeps ==
  ASSUME Ind, NEW g \in Groups, StartInbound(g)
  PROVE  Ind'
<1> USE DEF StartInbound
<1>1. TypeOK'
  BY DEF Ind, TypeOK, indexVars
<1>2. \A c \in Candidates : c[1] = g => c \in Unmade /\ status[c] = "absent"
  BY DEF Ind, NewIsIdle, UnmadeIsAbsent, Unmade, CandidatesOf
<1>3. UnmadeIsAbsent' /\ WinnerIsMade' /\ MarksAreTrue'
  BY <1>2 DEF Ind, TypeOK, NewIsIdle, UnmadeIsAbsent, Unmade, WinnerIsMade, MarksAreTrue, indexVars
<1>4. NewIsIdle' /\ Phases' /\ HostMatchesGroup'
  BY CandidateIsPair
  DEF Ind, TypeOK, NewIsIdle, Phases, GivesUp, HostMatchesGroup, CandidatesOf
<1>5. IndexesMatch'
  BY <1>2 DEF Ind, TypeOK, IndexesMatch, UnmadeIsAbsent, Live, Active, indexVars
<1> QED BY <1>1, <1>3, <1>4, <1>5 DEF Ind

LEMMA CreateOkKeeps ==
  ASSUME Ind, NEW c \in Candidates, CreateOk(c)
  PROVE  Ind'
<1> USE DEF CreateOk, callVars
<1>1. TypeOK'
  BY CandidateIsPair DEF Ind, TypeOK
<1>2. NewIsIdle' /\ WinnerIsMade' /\ Phases' /\ HostMatchesGroup'
  BY DEF Ind, TypeOK, NewIsIdle, WinnerIsMade, Unmade, Phases, GivesUp,
         HostMatchesGroup, CandidatesOf
<1>3. MarksAreTrue'
  <2>1. \A d \in Candidates : status'[d] = "winner" => winner'[d[1]] # None
    BY DEF Ind, TypeOK, MarksAreTrue
  <2>2. \A t \in Targets :
          bySignaling'[t] # None => <<bySignaling'[t], t>> \in Candidates
    BY CandidateIsPair DEF Ind, TypeOK, MarksAreTrue
  <2> QED BY <2>1, <2>2 DEF MarksAreTrue
<1>4. UnmadeIsAbsent'
  BY CandidateIsPair DEF Ind, TypeOK, UnmadeIsAbsent, Unmade
<1>5. IndexesMatch'
  <2> SUFFICES ASSUME NEW d \in Candidates, Live(d[1])'
               PROVE  /\ d \in Active' <=> d \in byNonce'
                      /\ d \in Active' <=> d \in byPc'
                      /\ bySignaling'[d[2]] = d[1] => d \in Active'
                      /\ pair'[d[2]] = d[1] => d \in Active' \/ winner'[d[1]] = d[2]
    BY DEF IndexesMatch
  <2>1. /\ d \in Active <=> d \in byNonce
        /\ d \in Active <=> d \in byPc
        /\ bySignaling[d[2]] = d[1] => d \in Active
        /\ pair[d[2]] = d[1] => d \in Active \/ winner[d[1]] = d[2]
    BY DEF Ind, IndexesMatch, Live
  <2>2. d \in Active' <=> d = c \/ d \in Active
    BY DEF Active, Ind, TypeOK
  <2>3. bySignaling'[d[2]] = d[1] => d = c \/ bySignaling[d[2]] = d[1]
    BY CandidateIsPair DEF Ind, TypeOK
  <2>4. pair'[d[2]] = d[1] => d = c \/ pair[d[2]] = d[1]
    BY CandidateIsPair DEF Ind, TypeOK
  <2> QED BY <2>1, <2>2, <2>3, <2>4
<1> QED BY <1>1, <1>2, <1>3, <1>4, <1>5 DEF Ind

\* Steps of an invitation that leave the candidate as it is.
LEMMA JobKeeps ==
  ASSUME Ind, NEW c \in Candidates, CreateFail(c) \/ NotifyOk(c)
  PROVE  Ind'
<1> USE DEF CreateFail, NotifyOk, callVars, indexVars
<1>1. TypeOK' /\ UnmadeIsAbsent'
  BY DEF Ind, TypeOK, UnmadeIsAbsent, Unmade
<1>2. NewIsIdle' /\ WinnerIsMade' /\ MarksAreTrue' /\ Phases' /\ HostMatchesGroup' /\ IndexesMatch'
  BY DEF Ind, TypeOK, NewIsIdle, WinnerIsMade, MarksAreTrue, Unmade, Phases, GivesUp,
         HostMatchesGroup, IndexesMatch, Live, Active, CandidatesOf
<1> QED BY <1>1, <1>2 DEF Ind

LEMMA NotifyFailKeeps ==
  ASSUME Ind, NEW c \in Candidates, NotifyFail(c)
  PROVE  Ind'
  BY CallGoesOn DEF NotifyFail, callVars

LEMMA StartDoneKeeps ==
  ASSUME Ind, NEW g \in Groups, StartDone(g)
  PROVE  Ind'
<1> USE DEF StartDone, AllInvited
<1>1. ASSUME stage' = [stage EXCEPT ![g] = "open"], timer' = timer \cup {g},
             UNCHANGED <<host, finished, status, pc, indexVars>>
      PROVE  Ind'
  BY <1>1
  DEF Ind, TypeOK, NewIsIdle, UnmadeIsAbsent, Unmade, WinnerIsMade, MarksAreTrue, Phases, GivesUp,
      HostMatchesGroup, IndexesMatch, Live, Active, CandidatesOf, indexVars
<1>2. ASSUME stage' = [stage EXCEPT ![g] = "refused"], UNCHANGED timer,
             IF GivesUp(g) THEN Teardown(CandidatesOf(g), {g}, {g}, {})
             ELSE UNCHANGED <<host, finished, status, pc, indexVars>>
      PROVE  Ind'
  <2>1. CASE GivesUp(g)
    BY <1>2, <2>1, CallEnds DEF GivesUp
  <2>2. CASE ~ GivesUp(g)
    BY <1>2, <2>2
    DEF Ind, TypeOK, NewIsIdle, UnmadeIsAbsent, Unmade, WinnerIsMade, MarksAreTrue, Phases, GivesUp,
        HostMatchesGroup, IndexesMatch, Live, Active, CandidatesOf, indexVars
  <2> QED BY <2>1, <2>2
<1> QED BY <1>1, <1>2

\* Steps that change nothing but the connections.
LEMMA ConnectionKeeps ==
  ASSUME Ind, UNCHANGED <<callVars, host, finished, job, status, indexVars>>,
         pc' \in [Candidates ->
                    {"none", "offered", "applying", "answered", "open", "closed"}]
  PROVE  Ind'
  BY DEF callVars, indexVars, Ind, TypeOK, NewIsIdle, UnmadeIsAbsent, Unmade,
         WinnerIsMade, MarksAreTrue, Phases, GivesUp, HostMatchesGroup, IndexesMatch, Live,
         Active, CandidatesOf

LEMMA TimeoutKeeps ==
  ASSUME Ind, NEW g \in Groups, Timeout(g)
  PROVE  Ind'
<1> USE DEF Timeout
<1>1. stage[g] # "new"
  BY DEF Ind, NewIsIdle
<1>2. CASE GivesUp(g)
  BY <1>1, <1>2, CallEnds DEF GivesUp
<1>3. CASE ~ GivesUp(g)
  BY <1>3
  DEF Ind, TypeOK, NewIsIdle, UnmadeIsAbsent, Unmade, WinnerIsMade, MarksAreTrue, Phases, GivesUp,
      HostMatchesGroup, IndexesMatch, Live, Active, CandidatesOf, indexVars
<1> QED BY <1>2, <1>3

LEMMA MadeIsNotNew ==
  ASSUME Ind, NEW c \in Candidates, status[c] # "absent" \/ c \in byPc
  PROVE  stage[c[1]] # "new"
  BY CandidateIsPair DEF Ind, NewIsIdle, UnmadeIsAbsent, Unmade, CandidatesOf

LEMMA HttpDeclineKeeps ==
  ASSUME Ind, NEW t \in Targets, HttpDecline(t)
  PROVE  Ind'
<1>1. PICK nonce \in NonceOf(t) : \E c \in CandidateFor(nonce, t) :
        status[c] = "ringing" /\ Leave(c)
  BY DEF HttpDecline
<1>2. PICK c \in CandidateFor(nonce, t) : status[c] = "ringing" /\ Leave(c)
  BY <1>1
<1>3. c \in Candidates
  BY <1>2 DEF CandidateFor, Ind, TypeOK, MarksAreTrue
<1> QED BY <1>2, <1>3, LeaveKeeps, MadeIsNotNew DEF HttpDecline

LEMMA HangUpKeeps ==
  ASSUME Ind, NEW c \in Candidates, HangUp(c)
  PROVE  Ind'
  BY LeaveKeeps DEF HangUp, Live

LEMMA TransportClosedKeeps ==
  ASSUME Ind, NEW c \in Candidates, TransportClosed(c)
  PROVE  Ind'
<1>1. CASE status[c] = "winner"
  BY <1>1, FailHandoffKeeps, CandidateIsPair DEF TransportClosed, Ind, MarksAreTrue
<1>2. CASE status[c] # "winner"
  BY <1>2, LeaveKeeps, MadeIsNotNew DEF TransportClosed
<1> QED BY <1>1, <1>2

LEMMA PickUpKeeps ==
  ASSUME Ind, NEW c \in Candidates, PickUp(c)
  PROVE  Ind'
<1> DEFINE g == c[1]
           lost == (Active \cap CandidatesOf(g)) \ {c}
<1>1. g \in Groups /\ c[2] \in Targets /\ c = <<g, c[2]>>
  BY CandidateIsPair
<1>2. CASE winner[g] # None
  BY <1>2, CallGoesOn DEF PickUp
<1>3. CASE winner[g] = None
  <2>1. /\ winner' = [winner EXCEPT ![g] = c[2]]
        /\ handoff' = [handoff EXCEPT ![g] = "resolve"]
        /\ timer' = timer \ {g}
        /\ status' = [d \in Candidates |->
                        IF d = c THEN "winner"
                        ELSE IF d \in lost THEN "closed" ELSE status[d]]
        /\ pc' = [d \in Candidates |-> IF d \in lost THEN "closed" ELSE pc[d]]
        /\ byNonce' = byNonce \ lost /\ byPc' = byPc \ lost
        /\ bySignaling' = [t \in Targets |->
             IF <<bySignaling[t], t>> \in lost THEN None ELSE bySignaling[t]]
        /\ pair' = [t \in Targets |->
             IF <<pair[t], t>> \in lost THEN None ELSE pair[t]]
        /\ UNCHANGED <<host, finished, stage, job>>
    BY <1>3 DEF PickUp, Untrack
  <2>2. stage[g] # "new" /\ g \notin finished /\ status[c] = "ringing"
    BY DEF PickUp, Live
  <2>3. c \notin Unmade
    BY <2>2 DEF Ind, UnmadeIsAbsent
  <2>4. TypeOK'
    BY <1>1, <2>1 DEF Ind, TypeOK, NextStep
  <2>5. NewIsIdle' /\ WinnerIsMade' /\ Phases' /\ HostMatchesGroup'
    BY <1>1, <1>3, <2>1, <2>2, <2>3, NoneAssumption
    DEF Ind, TypeOK, NewIsIdle, WinnerIsMade, Unmade, Phases, GivesUp,
        HostMatchesGroup, CandidatesOf
  <2>6. UnmadeIsAbsent' /\ MarksAreTrue'
    BY <1>1, <2>1, <2>3, CandidateIsPair, NoneAssumption
    DEF Ind, TypeOK, UnmadeIsAbsent, Unmade, MarksAreTrue, Active
  <2>7. IndexesMatch'
    <3> SUFFICES ASSUME NEW d \in Candidates, Live(d[1])'
                 PROVE  /\ d \in Active' <=> d \in byNonce'
                        /\ d \in Active' <=> d \in byPc'
                        /\ bySignaling'[d[2]] = d[1] => d \in Active'
                        /\ pair'[d[2]] = d[1] => d \in Active' \/ winner'[d[1]] = d[2]
      BY DEF IndexesMatch
    <3>1. /\ d \in Active <=> d \in byNonce
          /\ d \in Active <=> d \in byPc
          /\ bySignaling[d[2]] = d[1] => d \in Active
          /\ pair[d[2]] = d[1] => d \in Active \/ winner[d[1]] = d[2]
      BY <2>1 DEF Ind, IndexesMatch, Live
    <3>2. d \in Active' <=> d \in Active \ lost
      BY <2>1, <2>2 DEF Active, Ind, TypeOK
    <3>3. bySignaling'[d[2]] = d[1] => bySignaling[d[2]] = d[1] /\ d \notin lost
      BY <2>1, CandidateIsPair, NoneAssumption
    <3>4. pair'[d[2]] = d[1] => pair[d[2]] = d[1] /\ d \notin lost
      BY <2>1, CandidateIsPair, NoneAssumption
    <3>5. winner[d[1]] = d[2] => winner'[d[1]] = d[2]
      BY <1>3, <2>1, CandidateIsPair, NoneAssumption DEF Ind, TypeOK
    <3> HIDE DEF lost
    <3> QED BY <2>1, <3>1, <3>2, <3>3, <3>4, <3>5
  <2> QED BY <2>4, <2>5, <2>6, <2>7 DEF Ind
<1> QED BY <1>2, <1>3

LEMMA HandoffStepKeeps ==
  ASSUME Ind, NEW g \in Groups, HandoffStep(g)
  PROVE  Ind'
<1> DEFINE w == <<g, winner[g]>>
<1>1. handoff[g] \in {"resolve", "open", "offer", "answer"}
  BY DEF HandoffStep, NextStep
<1>2. /\ winner[g] # None /\ w \in Candidates \ Unmade /\ stage[g] # "new"
      /\ winner[g] \in Targets
  BY <1>1, CandidateIsPair DEF Ind, TypeOK, NewIsIdle, WinnerIsMade, Phases
<1>3. CASE handoff[g] = "answer"
  <2>1. /\ Teardown({}, {g}, {}, {w}) /\ timer' = timer \ {g} /\ g \notin finished
        /\ handoff' = [handoff EXCEPT ![g] = "done"]
        /\ UNCHANGED <<stage, winner, job>>
    BY <1>3 DEF HandoffStep, NextStep
  <2>2. CandidatesTyped' /\ UnmadeIsAbsent' /\ IndexesMatch' /\ MarksAreTrue'
    BY <1>2, <2>1, TeardownKeeps DEF Unmade
  <2>3. finished' = finished \cup {g} /\ host' = host
    BY <2>1 DEF Teardown
  <2>4. TypeOK' /\ NewIsIdle' /\ WinnerIsMade' /\ Phases' /\ HostMatchesGroup'
    BY <1>2, <2>1, <2>2, <2>3
    DEF CandidatesTyped, TypeOK, NewIsIdle, WinnerIsMade, Unmade, CandidatesOf, Phases,
        HostMatchesGroup, GivesUp, Ind
  <2> QED BY <2>2, <2>4 DEF Ind
<1>4. CASE handoff[g] # "answer"
  <2>1. /\ pair' = pair \/ pair' = [pair EXCEPT ![winner[g]] = g]
        /\ UNCHANGED <<timer, host, finished, status, pc, byNonce, byPc,
                       bySignaling, stage, winner, job>>
    <3>1. w[2] = winner[g]
      OBVIOUS
    <3>2. /\ pair' = IF handoff[g] = "resolve" THEN [pair EXCEPT ![w[2]] = g] ELSE pair
          /\ UNCHANGED <<timer, host, finished, status, pc, byNonce, byPc, bySignaling>>
          /\ UNCHANGED <<stage, winner, job>>
      BY <1>4 DEF HandoffStep
    <3> HIDE DEF w
    <3> QED BY <3>1, <3>2
  <2>2. \E s \in {"open", "offer", "answer"} : handoff' = [handoff EXCEPT ![g] = s]
    <3>1. /\ NextStep["resolve"] = "open"
          /\ NextStep["open"] = "offer"
          /\ NextStep["offer"] = "answer"
      BY DEF NextStep
    <3>2. handoff' = [handoff EXCEPT ![g] = NextStep[handoff[g]]]
      BY DEF HandoffStep
    <3> QED BY <1>1, <1>4, <3>1, <3>2
  <2>3. TypeOK' /\ NewIsIdle' /\ WinnerIsMade' /\ MarksAreTrue' /\ Phases'
    BY <1>1, <1>2, <2>1, <2>2
    DEF Ind, TypeOK, NewIsIdle, WinnerIsMade, MarksAreTrue, Unmade, CandidatesOf,
        Phases, GivesUp, NextStep
  <2>4. HostMatchesGroup'
    BY <1>1, <1>4, <2>1, <2>2 DEF Ind, TypeOK, HostMatchesGroup
  <2>5. UnmadeIsAbsent' /\ IndexesMatch'
    BY <1>2, <2>1, CandidateIsPair
    DEF Ind, TypeOK, UnmadeIsAbsent, Unmade, IndexesMatch, Live, Active
  <2> QED BY <2>3, <2>4, <2>5 DEF Ind
<1> QED BY <1>3, <1>4

LEMMA HandoffThrowsKeeps ==
  ASSUME Ind, NEW g \in Groups, HandoffThrows(g)
  PROVE  Ind'
  BY DEF HandoffThrows, NextStep, Ind, TypeOK, NewIsIdle, UnmadeIsAbsent, Unmade,
         WinnerIsMade, MarksAreTrue, Phases, GivesUp, HostMatchesGroup, IndexesMatch, Live, Active,
         CandidatesOf, indexVars

LEMMA HandoffFailedKeeps ==
  ASSUME Ind, NEW g \in Groups, HandoffFailed(g)
  PROVE  Ind'
  BY FailHandoffKeeps DEF HandoffFailed, Ind, Phases

LEMMA NextInd == Ind /\ [Next]_vars => Ind'
<1> SUFFICES ASSUME Ind, [Next]_vars PROVE Ind'
  OBVIOUS
<1>1. ASSUME NEW g \in Groups, StartDone(g) \/ StartInbound(g) \/ Timeout(g) \/ Handoff(g)
      PROVE  Ind'
  BY <1>1, StartDoneKeeps, StartInboundKeeps, TimeoutKeeps, HandoffStepKeeps,
     HandoffThrowsKeeps, HandoffFailedKeeps DEF Handoff
<1>2. ASSUME NEW t \in Targets, HttpAnswer(t)
      PROVE  Ind'
  BY <1>2, ConnectionKeeps DEF HttpAnswer, Ind, TypeOK
<1>3. ASSUME NEW t \in Targets, HttpDecline(t)
      PROVE  Ind'
  BY <1>3, HttpDeclineKeeps
<1>4. ASSUME NEW c \in Candidates, Settle(c)
      PROVE  Ind'
  BY <1>4, CreateOkKeeps, JobKeeps, NotifyFailKeeps DEF Settle
<1>5. ASSUME NEW c \in Candidates, HttpAnswerApplied(c) \/ ChannelOpens(c)
      PROVE  Ind'
  BY <1>5, ConnectionKeeps DEF HttpAnswerApplied, ChannelOpens, Ind, TypeOK
<1>6. ASSUME NEW c \in Candidates, PickUp(c) \/ HangUp(c) \/ TransportClosed(c)
      PROVE  Ind'
  BY <1>6, PickUpKeeps, HangUpKeeps, TransportClosedKeeps
<1>7. CASE UNCHANGED vars
  BY <1>7, ConnectionKeeps DEF vars, callVars, Ind, TypeOK
<1> QED BY <1>1, <1>2, <1>3, <1>4, <1>5, <1>6, <1>7 DEF Next, Client

-----------------------------------------------------------------------------
(***************************************************************************)
(* The theorems.                                                           *)
(***************************************************************************)
LEMMA IndHolds == Spec => []Ind
  BY InitInd, NextInd, PTL DEF Spec

\* Type correctness for any calls, targets and ring groups (Multiring.TypeOK).
THEOREM TypeCorrect == Spec => []TypeOK
  BY IndHolds, PTL DEF Ind

\* The indexes of _trackCandidate and _untrackCandidate hold exactly the
\* candidates that ring or won, however many calls share them.
THEOREM IndexesAreRight == Spec => []IndexesMatch
  BY IndHolds, PTL DEF Ind

\* The host session lives exactly as long as its group, and on after a handoff.
THEOREM HostIsRight == Spec => []HostMatchesGroup
  BY IndHolds, PTL DEF Ind

\* No call hangs: it is being invited, its timer runs, or it is handed over.
THEOREM CallsDoNotHang == Spec => []CallWillEnd
<1>1. Ind => CallWillEnd
  BY DEF Ind, TypeOK, Phases, CallWillEnd, Live, GivesUp, NextStep
<1> QED BY <1>1, IndHolds, PTL

\* The first pickup keeps the call (handleDataChannelMessage).
THEOREM FirstPickupWins == Spec => WinnerIsFinal
<1>1. Ind /\ [Next]_vars =>
        [\A g \in Groups : winner[g] # None => winner'[g] = winner[g]]_vars
  <2> SUFFICES ASSUME Ind, Next, NEW g \in Groups, winner[g] # None
               PROVE  winner'[g] = winner[g]
    OBVIOUS
  <2>1. ASSUME NEW c \in Candidates, PickUp(c)
        PROVE  winner'[g] = winner[g]
    BY <2>1 DEF PickUp, Ind, TypeOK
  <2>2. (\A c \in Candidates : ~ PickUp(c)) => UNCHANGED winner
    BY DEF Next, Client, Settle, Handoff, StartDone, StartInbound, Timeout, HandoffStep,
           HandoffThrows, HandoffFailed, HttpAnswer, HttpDecline, CreateOk, CreateFail,
           NotifyOk, NotifyFail, HttpAnswerApplied, ChannelOpens, HangUp,
           TransportClosed, callVars
  <2> QED BY <2>1, <2>2
<1> QED BY <1>1, IndHolds, PTL DEF Spec, WinnerIsFinal

\* Neither the no-answer timer nor a decline over HTTP ends a picked up call.
THEOREM PickupSurvives == Spec => PickedUpCallSurvives
<1>1. [Next]_vars => [\A g \in Groups : winner[g] # None /\ g \in host \ host' =>
                        ~ Timeout(g) /\ ~ \E t \in Targets : HttpDecline(t)]_vars
  <2> SUFFICES ASSUME NEW g \in Groups, winner[g] # None, g \in host \ host'
               PROVE  ~ Timeout(g) /\ ~ \E t \in Targets : HttpDecline(t)
    OBVIOUS
  <2>1. ~ Timeout(g)
    BY DEF Timeout, GivesUp
  <2>2. ASSUME NEW t \in Targets, HttpDecline(t)
        PROVE  FALSE
    <3>1. PICK nonce \in NonceOf(t) : \E c \in CandidateFor(nonce, t) : Leave(c)
      BY <2>2 DEF HttpDecline
    <3>2. PICK c \in CandidateFor(nonce, t) : Leave(c)
      BY <3>1
    <3>3. host' = host \/ (host' = host \ {c[1]} /\ winner[c[1]] = None)
      BY <3>2 DEF Leave, Teardown, GivesUp
    <3> QED BY <3>3
  <2> QED BY <2>1, <2>2
<1> QED BY <1>1, PTL DEF Spec, PickedUpCallSurvives
==============================================================================

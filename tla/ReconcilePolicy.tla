--------------------------- MODULE ReconcilePolicy ---------------------------
(***************************************************************************)
(* The policy of ReconcileRules.js on every snapshot it can be asked about.*)
(* PolySession takes a snapshot whenever a leg changed, and between two    *)
(* snapshots each leg may have gone anywhere (ingress handlers and late    *)
(* completions set states without asking the policy), so here one leg      *)
(* moves to any state at a time and media comes and goes.                  *)
(***************************************************************************)
EXTENDS ReconcileRules

VARIABLES
  shown,       \* the states of the two legs
  bridged,     \* media is bridged
  trigger      \* the state named by the event that triggered the pass

snapshotVars == <<shown, bridged, trigger>>

SnapshotInit ==
  /\ shown = [l \in Legs |-> "disconnected"]
  /\ bridged = FALSE
  /\ trigger = "none"

\* A leg changes its state and wakes the mediator.
LegChange(l, s) ==
  /\ s # shown[l]
  /\ shown' = [shown EXCEPT ![l] = s]
  /\ trigger' = s
  /\ UNCHANGED bridged

\* Media is bridged or torn down.
MediaChange == bridged' = ~ bridged /\ UNCHANGED <<shown, trigger>>

SnapshotNext == MediaChange \/ \E l \in Legs, s \in LegState : LegChange(l, s)

SnapshotSpec == SnapshotInit /\ [][SnapshotNext]_snapshotVars

-----------------------------------------------------------------------------
\* The policy never issues an intent that LEGALITY forbids in the state the
\* snapshot shows.  The two tables are written in different files; an intent
\* that is illegal throws, and fails a healthy leg (_execute).
IntentsLegal == reconcile(shown, bridged, trigger) \in Seq(LegalActions(shown))

\* A caller for which the policy has nothing to do waits for a peer that is on
\* its way (inviting, ringing, answering, finishing its last call), never for a
\* leg at rest, which nothing would wake.
CallerIsServed ==
  \A l \in Legs :
    isCaller(shown[l]) /\ reconcile(shown, bridged, trigger) = <<>>
      => shown[Peer(l)] \in {"connecting", "calling", "ringing", "answering", "ending"}
==============================================================================

----------------------------- MODULE PhaseMachine -----------------------------
(***************************************************************************)
(* The life of one run when one caller feeds validateTransition and        *)
(* applyTransition in turn, with nothing in between: the machine that      *)
(* transitions.ts defines.  What CheckpointHandler adds (files, cache,     *)
(* gates, concurrent calls) is in that module.                             *)
(***************************************************************************)
EXTENDS PhaseInvariants

CONSTANT RoundBound    \* bound: rounds played in one loop

ASSUME RoundBoundAssumption == RoundBound \in Nat

VARIABLE state

TypeOK == state \in PipelineState

Init == \E max \in MaxPhases, owner \in Sessions : state = PipelineStart(max, owner)

EnterPhase(p) == PhaseEnterValid(state, p) /\ state' = PhaseEnter(state, p)

StartLoop(p) == RalphLoopStartValid(state, p) /\ state' = RalphLoopStart(state, p)

(* A loop may run on for ever in GPAV mode; RoundBound cuts it. *)
CompleteRound(p) ==
    \E clean \in BOOLEAN, mentioned \in SUBSET Issues, raised \in SUBSET Issues :
      \E accepted \in SUBSET mentioned :
        /\ state.ralph # Nil /\ state.ralph.round < RoundBound
        /\ LET round == state.ralph.round + 1
           IN  /\ RalphRoundCompleteValid(state, p, round, mentioned)
               /\ state' = RalphRoundComplete(state, round, clean, accepted, raised)

SubmitFindings(p) ==
    \E clean \in BOOLEAN :
        /\ state.ralph # Nil /\ state.ralph.round < RoundBound
        /\ LET round == state.ralph.round + 1
           IN  /\ RalphRoundFindingValid(state, p, round)
               /\ state' = RalphRoundFinding(state, round, clean)

TerminateLoop(p) ==
    \E t \in Termination :
        /\ RalphTerminateValid(state, p, t)
        /\ state' = RalphTerminate(state, p, t)

ConfirmEvidence == TestEvidenceValid(state) /\ state' = TestEvidence(state)

ApprovePhase(p) == UserApprovalValid(state, p) /\ state' = UserApproval(state, p)

CompletePhase(p) == PhaseCompleteValid(state, p) /\ state' = PhaseComplete(state)

Next ==
    \/ \E p \in Phases :
        \/ EnterPhase(p)
        \/ StartLoop(p)
        \/ CompleteRound(p)
        \/ SubmitFindings(p)
        \/ TerminateLoop(p)
        \/ ApprovePhase(p)
        \/ CompletePhase(p)
    \/ ConfirmEvidence

Spec == Init /\ [][Next]_state

-----------------------------------------------------------------------------
(* Properties *)

(* PhasesInOrder for the run: transitions.ts phase_enter. *)
LadderInv == PhasesInOrder(state)

(* ApprovedOnlyIfReviewed and StatusMatchesPhase for the run: user_approval *)
(* looks at ralphCompleted and not at the status, so it is the rest of the  *)
(* machine that keeps an approval from preceding the review.                *)
ApprovalInv == ApprovedOnlyIfReviewed(state) /\ StatusMatchesPhase(state)

(* TerminationBacked for the run: ralph_terminate. *)
TerminationInv == TerminationBacked(state)

(* A phase once approved stays approved, and a finished phase is left only *)
(* for the next one: no event reopens it.                                  *)
NeverReopened ==
    [][ /\ \A p \in Phases : Approved(state, p) => Approved(state, p)'
        /\ state.phaseStatus = "complete" =>
               \/ state'.phaseStatus = "complete" /\ state'.currentPhase = state.currentPhase
               \/ state'.currentPhase = state.currentPhase + 1 ]_state

(* A run that has not finished can always go on: whatever was played,      *)
(* approved or skipped, transitions.ts accepts one more event that moves   *)
(* it (a repeated approval and test_evidence do not count).                *)
NoDeadEnd ==
    \/ state.phaseStatus = "complete" /\ state.currentPhase = state.maxPhase
    \/ \E p \in Phases :
        \/ PhaseEnterValid(state, p)
        \/ RalphLoopStartValid(state, p)
        \/ RalphRoundFindingValid(state, p, state.ralph.round + 1)
        \/ UserApprovalValid(state, p) /\ ~Approved(state, p)
        \/ PhaseCompleteValid(state, p)

(* The machine implements the ladder it promises. *)
Stage ==
    CASE state.phaseStatus \in {"idle", "complete"}     -> "closed"
      [] state.phaseStatus \in {"active", "ralph_loop"} -> "open"
      [] OTHER -> IF Approved(state, state.currentPhase) THEN "approved" ELSE "reviewed"

Ladder == INSTANCE PhaseLadder
            WITH Tops <- MaxPhases, Followup <- FollowupPhases,
                 top <- state.maxPhase, rung <- state.currentPhase, stage <- Stage

(* Every event of transitions.ts is one step of PhaseLadder or none. *)
ImplementsLadder == Ladder!Spec
=============================================================================

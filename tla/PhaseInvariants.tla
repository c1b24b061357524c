---------------------------- MODULE PhaseInvariants ----------------------------
(***************************************************************************)
(* What is true of every single state value that transitions.ts produces.  *)
(* These are predicates of a state s, not of a variable: PhaseMachine      *)
(* asks them of its one state, CheckpointHandler of every copy a running   *)
(* watchdog holds (file, cache, archive, a suspended call's pending write).*)
(***************************************************************************)
EXTENDS PhaseTransitions

Entered(s, p) == s.phases[p] # Nil

Approved(s, p) == Entered(s, p) /\ s.phases[p].userApproved

Reviewed(s, p) == Entered(s, p) /\ s.phases[p].ralphCompleted

(* Exactly the phases up to the current one have been entered, and every    *)
(* phase behind the current one was approved: no phase is ever skipped,     *)
(* although phase_enter compares only against currentPhase and phase - 1.   *)
PhasesInOrder(s) ==
    /\ s.currentPhase <= s.maxPhase
    /\ \A p \in Phases : Entered(s, p) <=> p <= s.currentPhase
    /\ \A p \in Phases : p < s.currentPhase => Approved(s, p)

(* An approved phase had its Ralph loop terminated, or is a followup phase. *)
ApprovedOnlyIfReviewed(s) ==
    \A p \in Phases : Approved(s, p) => (IsFollowup(p) \/ Reviewed(s, p))

(* What each phaseStatus says about the current phase. *)
StatusMatchesPhase(s) ==
    LET c == s.currentPhase
    IN  /\ s.phaseStatus \in {"idle", "active", "ralph_loop", "awaiting_approval", "complete"}
        /\ s.phaseStatus = "idle" <=> c = 0
        /\ s.phaseStatus \in {"active", "ralph_loop"} => ~Approved(s, c) /\ ~Reviewed(s, c)
        /\ s.phaseStatus = "awaiting_approval" =>
               IF IsFollowup(c) THEN Approved(s, c) ELSE Reviewed(s, c)
        /\ s.phaseStatus = "complete" => Approved(s, c)
        /\ s.phaseStatus = "ralph_loop" => s.ralph # Nil /\ ~IsFollowup(c)

StateInv(s) ==
    /\ s \in PipelineState
    /\ PhasesInOrder(s)
    /\ ApprovedOnlyIfReviewed(s)
    /\ StatusMatchesPhase(s)

(* The rounds of a loop in the order they were played. *)
History(r) ==
    r.tallyHistory \o [i \in DOMAIN r.roundRecords |-> r.roundRecords[i].clean]

(* A loop never ends on a claim its rounds do not support: whatever mix of *)
(* legacy rounds and findings was played, gate_pass and early_stop are     *)
(* backed by the last rounds actually played, max_rounds by MAX_RALPH_ROUNDS *)
(* rounds whose last was dirty.  validateTransition never sees the joint   *)
(* history: it picks one of two sequences and a separate counter.          *)
TerminationBacked(s) ==
    s.ralph # Nil /\ s.ralph.termination # Nil =>
        LET h == History(s.ralph)
        IN  CASE s.ralph.termination = "gate_pass"  -> /\ Len(h) >= MIN_GATE_ROUNDS
                                                       /\ EndsWithClean(h, 1)
              [] s.ralph.termination = "early_stop" -> EndsWithClean(h, EARLY_STOP_CONSECUTIVE)
              [] s.ralph.termination = "max_rounds" -> /\ Len(h) >= MAX_RALPH_ROUNDS
                                                       /\ EndsDirty(h)
=============================================================================

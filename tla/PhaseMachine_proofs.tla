-------------------------- MODULE PhaseMachine_proofs --------------------------
(***************************************************************************)
(* Proofs about PhaseMachine: type correctness, the ladder and approval    *)
(* invariants, that terminations are earned, permanence of approvals, and  *)
(* the refinement of PhaseLadder.                                          *)
(***************************************************************************)
EXTENDS PhaseMachine, PhaseInvariants_proofs

-----------------------------------------------------------------------------
(* The inductive invariant: the state is one the ladder allows, and its loop *)
(* counts its rounds as they were played.                                    *)
Inv == StateInv(state) /\ LoopInv(state)

LEMMA InitInv == Init => Inv
<1> SUFFICES ASSUME NEW max \in MaxPhases, NEW owner \in Sessions,
                    state = PipelineStart(max, owner)
             PROVE  Inv
  BY DEF Init
<1>1. state.ralph = Nil
  BY DEF PipelineStart
<1> QED
  BY <1>1, StartInv, NoLoopInv DEF Inv

LEMMA NextInv == Inv /\ [Next]_state => Inv'
<1> SUFFICES ASSUME Inv, [Next]_state PROVE StateInv(state') /\ LoopInv(state')
  BY DEF Inv
<1>1. ASSUME NEW p \in Phases, EnterPhase(p) PROVE StateInv(state') /\ LoopInv(state')
  BY <1>1, EnterInv, LoopUntouched DEF EnterPhase, Inv
<1>2. ASSUME NEW p \in Phases, StartLoop(p) PROVE StateInv(state') /\ LoopInv(state')
  BY <1>2, LoopStartInv, LoopStarted DEF StartLoop, Inv
<1>3. ASSUME NEW p \in Phases, CompleteRound(p) PROVE StateInv(state') /\ LoopInv(state')
  <2>1. PICK clean \in BOOLEAN, mentioned \in SUBSET Issues, raised \in SUBSET Issues :
          \E accepted \in SUBSET mentioned :
            LET round == state.ralph.round + 1
            IN  /\ RalphRoundCompleteValid(state, p, round, mentioned)
                /\ state' = RalphRoundComplete(state, round, clean, accepted, raised)
    BY <1>3 DEF CompleteRound
  <2>2. state.ralph.round + 1 \in Nat
    BY <2>1 DEF Inv, StateInv, PipelineState, RalphLoop, RalphRoundCompleteValid, InLoop
  <2>3. StateInv(state')
    BY <2>1, <2>2, RoundCompleteInv DEF Inv
  <2>4. LoopInv(state')
    BY <2>1, RoundCounted DEF Inv
  <2> QED
    BY <2>3, <2>4
<1>4. ASSUME NEW p \in Phases, SubmitFindings(p) PROVE StateInv(state') /\ LoopInv(state')
  <2>1. PICK clean \in BOOLEAN :
          LET round == state.ralph.round + 1
          IN  /\ RalphRoundFindingValid(state, p, round)
              /\ state' = RalphRoundFinding(state, round, clean)
    BY <1>4 DEF SubmitFindings
  <2>2. state.ralph.round + 1 \in Nat
    BY <2>1 DEF Inv, StateInv, PipelineState, RalphLoop, RalphRoundFindingValid, InLoop
  <2>3. StateInv(state')
    BY <2>1, <2>2, RoundFindingInv DEF Inv
  <2>4. LoopInv(state')
    BY <2>1, FindingCounted DEF Inv
  <2> QED
    BY <2>3, <2>4
<1>5. ASSUME NEW p \in Phases, TerminateLoop(p) PROVE StateInv(state') /\ LoopInv(state')
  BY <1>5, TerminateInv, EarnedIsBacked DEF TerminateLoop, Inv
<1>6. ASSUME NEW p \in Phases, ApprovePhase(p) PROVE StateInv(state') /\ LoopInv(state')
  BY <1>6, ApprovalInvStep, LoopUntouched DEF ApprovePhase, Inv
<1>7. ASSUME NEW p \in Phases, CompletePhase(p) PROVE StateInv(state') /\ LoopInv(state')
  BY <1>7, CompleteInv, LoopUntouched DEF CompletePhase, Inv
<1>8. CASE ConfirmEvidence
  BY <1>8, EvidenceInv, LoopUntouched DEF ConfirmEvidence, Inv
<1>9. CASE UNCHANGED state
  BY <1>9 DEF Inv
<1> QED
  BY <1>1, <1>2, <1>3, <1>4, <1>5, <1>6, <1>7, <1>8, <1>9 DEF Next

THEOREM Invariance == Spec => []Inv
<1> QED
  BY InitInv, NextInv, PTL DEF Spec

(* Every reachable state has the shape schema.ts declares. *)
THEOREM TypeCorrect == Spec => []TypeOK
<1>1. Inv => TypeOK
  BY DEF Inv, StateInv, TypeOK
<1> QED
  BY <1>1, Invariance, PTL

(* No phase is skipped and none behind the current one is unapproved,     *)
(* for any number of phases, any followup map and any round limits.       *)
THEOREM PhasesClimbedInOrder == Spec => []LadderInv
<1>1. Inv => LadderInv
  BY DEF Inv, StateInv, LadderInv
<1> QED
  BY <1>1, Invariance, PTL

(* No phase is approved before its review ended, and phaseStatus never *)
(* contradicts the record of the current phase.                        *)
THEOREM ApprovalAfterReview == Spec => []ApprovalInv
<1>1. Inv => ApprovalInv
  BY DEF Inv, StateInv, ApprovalInv
<1> QED
  BY <1>1, Invariance, PTL

(* However legacy rounds and findings alternate, a termination is backed   *)
(* by the rounds actually played: ralph_terminate looks at one of the two  *)
(* sequences or at a counter, never at their joint history, and that is    *)
(* enough, because legacy rounds come first and no record is ever dropped. *)
THEOREM TerminationsAreEarned == Spec => []TerminationInv
<1>1. Inv => TerminationInv
  <2> SUFFICES ASSUME Inv PROVE TerminationBacked(state)
    BY DEF TerminationInv
  <2>1. CASE state.ralph = Nil
    BY <2>1 DEF TerminationBacked
  <2>2. CASE state.ralph # Nil
    BY <2>2 DEF Inv, LoopInv
  <2> QED
    BY <2>1, <2>2
<1> QED
  BY <1>1, Invariance, PTL

(* The round records of a loop that count for its termination are all of   *)
(* them: findings of a round that is still open, which the comment at      *)
(* ralph_terminate (transitions.ts) excludes, cannot exist, because the    *)
(* submission of a finding closes its round.                               *)
NothingExcluded == state.ralph # Nil => CompletedRecords(state.ralph) = state.ralph.roundRecords

(* So the exclusion makes no difference to a termination: for any history  *)
(* the clean tail is that of all the records.                              *)
THEOREM NoUncommittedFindings == Spec => []NothingExcluded
<1>1. Inv => NothingExcluded
  <2> SUFFICES ASSUME Inv, state.ralph # Nil
               PROVE  CompletedRecords(state.ralph) = state.ralph.roundRecords
    BY DEF NothingExcluded
  <2>1. state.ralph \in RalphLoop /\ LoopCounted(state.ralph)
    BY DEF Inv, StateInv, PipelineState, LoopInv
  <2> QED
    BY <2>1, AllRecordsCompleted
<1> QED
  BY <1>1, Invariance, PTL

-----------------------------------------------------------------------------
(* What one step does to the abstract state <<top, rung, stage>>. *)

LEMMA EnterMapped ==
    ASSUME Inv, NEW p \in Phases, EnterPhase(p)
    PROVE  /\ Stage = "closed" /\ Stage' = "open"
           /\ state'.currentPhase = state.currentPhase + 1
           /\ state.currentPhase < state.maxPhase
           /\ state'.maxPhase = state.maxPhase
           /\ \A q \in Phases : q # p => state'.phases[q] = state.phases[q]
<1>1. p = state.currentPhase + 1 /\ state.phaseStatus \in {"idle", "complete"}
  BY EnterOnlyNext DEF EnterPhase, Inv
<1>2. state \in PipelineState /\ state' = PhaseEnter(state, p) /\ p <= state.maxPhase
  BY DEF EnterPhase, Inv, StateInv, PhaseEnterValid
<1>3. /\ state'.phaseStatus = "active" /\ state'.currentPhase = p /\ state'.maxPhase = state.maxPhase
      /\ state'.phases = [state.phases EXCEPT ![p] = FreshPhase]
  BY <1>2 DEF PhaseEnter, PipelineState
<1>4. \A q \in Phases : q # p => state'.phases[q] = state.phases[q]
  BY <1>2, <1>3 DEF PipelineState
<1>5. Stage = "closed" /\ Stage' = "open"
  BY <1>1, <1>3 DEF Stage
<1>6. state.currentPhase < state.maxPhase
  <2>1. state.maxPhase \in 1..PhaseLimit /\ state.currentPhase \in 0..PhaseLimit
    BY <1>2, PhaseConstants DEF PipelineState
  <2> QED
    BY <1>1, <1>2, <2>1, PhaseConstants
<1> QED
  BY <1>1, <1>3, <1>4, <1>5, <1>6

(* Everything that happens inside an open phase short of ending its review. *)
LEMMA OpenPhaseMapped ==
    ASSUME Inv, NEW p \in Phases, StartLoop(p) \/ CompleteRound(p) \/ SubmitFindings(p)
    PROVE  /\ Stage = "open" /\ Stage' = "open"
           /\ state'.currentPhase = state.currentPhase
           /\ state'.maxPhase = state.maxPhase
           /\ state'.phases = state.phases
<1>1. state \in PipelineState
  BY DEF Inv, StateInv
<1>2. state.phaseStatus \in {"active", "ralph_loop"} /\ state'.phaseStatus = "ralph_loop"
      /\ state'.currentPhase = state.currentPhase /\ state'.maxPhase = state.maxPhase
      /\ state'.phases = state.phases
  <2>1. CASE StartLoop(p)
    BY <1>1, <2>1 DEF StartLoop, RalphLoopStartValid, RalphLoopStart, PipelineState
  <2>2. CASE CompleteRound(p)
    BY <1>1, <2>2 DEF CompleteRound, RalphRoundCompleteValid, InLoop, RalphRoundComplete, PipelineState
  <2>3. CASE SubmitFindings(p)
    BY <1>1, <2>3 DEF SubmitFindings, RalphRoundFindingValid, InLoop, RalphRoundFinding, PipelineState
  <2> QED
    BY <2>1, <2>2, <2>3
<1> QED
  BY <1>2 DEF Stage

LEMMA TerminateMapped ==
    ASSUME Inv, NEW p \in Phases, TerminateLoop(p)
    PROVE  /\ Stage = "open" /\ Stage' = "reviewed"
           /\ state.currentPhase \notin FollowupPhases
           /\ state'.currentPhase = state.currentPhase
           /\ state'.maxPhase = state.maxPhase
           /\ \A q \in Phases : Approved(state, q) => Approved(state, q)'
<1>1. PICK t \in Termination :
        RalphTerminateValid(state, p, t) /\ state' = RalphTerminate(state, p, t)
  BY DEF TerminateLoop
<1>2. /\ state \in PipelineState /\ p = state.currentPhase /\ state.phaseStatus = "ralph_loop"
      /\ ~IsFollowup(p) /\ ~Approved(state, p)
  BY <1>1 DEF Inv, StateInv, StatusMatchesPhase, RalphTerminateValid, InLoop
<1> DEFINE rec == [state.phases[p] EXCEPT !.ralphCompleted = TRUE, !.ralphTermination = t]
<1>3. /\ state'.phaseStatus = "awaiting_approval" /\ state'.currentPhase = p
      /\ state'.maxPhase = state.maxPhase
      /\ state'.phases = [state.phases EXCEPT ![p] = rec]
  BY <1>1, <1>2 DEF RalphTerminate, PipelineState
<1>4. state.phases[p] \in PhaseRecord
  <2>1. state.phases[p] # Nil
    BY <1>2 DEF Inv, StateInv, PhasesInOrder, Entered, Phases
  <2> QED
    BY <1>2, <2>1 DEF PipelineState
<1>5. rec.userApproved = state.phases[p].userApproved
  BY <1>4 DEF PhaseRecord
<1>6. state.phases[p] # Nil
  BY <1>4, NilAssumption
<1>7. ~state.phases[p].userApproved
  BY <1>2, <1>6 DEF Approved, Entered
<1> HIDE DEF rec
<1>8. /\ state'.phases[p] = rec
      /\ \A q \in Phases : q # p => state'.phases[q] = state.phases[q]
  BY <1>2, <1>3 DEF PipelineState
<1>9. ~Approved(state, p)'
  BY <1>5, <1>7, <1>8 DEF Approved
<1>10. \A q \in Phases : Approved(state, q) => Approved(state, q)'
  BY <1>2, <1>8 DEF Approved, Entered
<1>11. ~(Approved(state, state.currentPhase)')
  BY <1>2, <1>3, <1>9
<1>12. Stage = "open" /\ Stage' = "reviewed"
  BY <1>2, <1>3, <1>11 DEF Stage
<1> QED
  BY <1>2, <1>3, <1>10, <1>12 DEF IsFollowup

LEMMA ApproveMapped ==
    ASSUME Inv, NEW p \in Phases, ApprovePhase(p)
    PROVE  /\ \/ Stage = "reviewed" /\ Stage' = "approved"
              \/ Stage = "open" /\ Stage' = "approved" /\ state.currentPhase \in FollowupPhases
              \/ Stage = "approved" /\ Stage' = "approved"
              \/ Stage = "closed" /\ Stage' = "closed"
           /\ state'.currentPhase = state.currentPhase
           /\ state'.maxPhase = state.maxPhase
           /\ state.phaseStatus = "complete" => state'.phaseStatus = "complete"
           /\ \A q \in Phases : Approved(state, q) => Approved(state, q)'
<1> DEFINE rec == [state.phases[p] EXCEPT !.userApproved = TRUE]
<1>1. /\ state \in PipelineState /\ p = state.currentPhase /\ state.phases[p] # Nil
      /\ state' = UserApproval(state, p)
  BY DEF ApprovePhase, UserApprovalValid, Inv, StateInv
<1>2. state.phases[p] \in PhaseRecord
  BY <1>1 DEF PipelineState
<1>3. rec \in PhaseRecord /\ rec # Nil /\ rec.userApproved
  BY <1>2, NilAssumption DEF PhaseRecord
<1>4. /\ state'.phaseStatus = IF IsFollowup(p) THEN "awaiting_approval" ELSE state.phaseStatus
      /\ state'.currentPhase = p /\ state'.maxPhase = state.maxPhase
      /\ state'.phases = [state.phases EXCEPT ![p] = rec]
  BY <1>1 DEF UserApproval, PipelineState
<1> HIDE DEF rec
<1>5. state'.phases[p] = rec /\ \A q \in Phases : q # p => state'.phases[q] = state.phases[q]
  BY <1>1, <1>4 DEF PipelineState
<1>6. Approved(state, p)'
  BY <1>3, <1>5 DEF Approved, Entered
<1>7. \A q \in Phases : Approved(state, q) => Approved(state, q)'
  BY <1>5, <1>6 DEF Approved, Entered
<1>8. Approved(state, state.currentPhase)'
  BY <1>1, <1>4, <1>6
<1>9. CASE IsFollowup(p)
  <2>1. state.phaseStatus = "active" /\ state'.phaseStatus = "awaiting_approval"
    BY <1>4, <1>9 DEF ApprovePhase, UserApprovalValid
  <2>2. Stage = "open" /\ Stage' = "approved"
    BY <1>8, <2>1 DEF Stage
  <2> QED
    BY <1>1, <1>4, <1>7, <1>9, <2>1, <2>2 DEF IsFollowup
<1>10. CASE ~IsFollowup(p)
  <2>1. Reviewed(state, p) /\ state'.phaseStatus = state.phaseStatus
    BY <1>1, <1>4, <1>10 DEF ApprovePhase, UserApprovalValid, Reviewed, Entered
  <2>2. state.phaseStatus \in {"awaiting_approval", "complete"}
    BY <1>1, <2>1 DEF Inv, StateInv, StatusMatchesPhase, Phases
  <2>3. CASE state.phaseStatus = "complete"
    BY <1>1, <1>4, <1>7, <2>1, <2>3 DEF Stage
  <2>4. CASE state.phaseStatus = "awaiting_approval"
    <3>1. Stage' = "approved"
      BY <1>8, <2>1, <2>4 DEF Stage
    <3>2. Stage \in {"reviewed", "approved"}
      BY <2>4 DEF Stage
    <3> QED
      BY <1>1, <1>4, <1>7, <2>4, <3>1, <3>2
  <2> QED
    BY <2>2, <2>3, <2>4
<1> QED
  BY <1>9, <1>10

LEMMA CompleteMapped ==
    ASSUME Inv, NEW p \in Phases, CompletePhase(p)
    PROVE  /\ Stage = "approved" /\ Stage' = "closed"
           /\ state'.currentPhase = state.currentPhase
           /\ state'.maxPhase = state.maxPhase
           /\ state'.phases = state.phases
<1>1. /\ state \in PipelineState /\ p = state.currentPhase
      /\ state.phaseStatus = "awaiting_approval" /\ Approved(state, p)
      /\ state' = PhaseComplete(state)
  BY DEF CompletePhase, PhaseCompleteValid, Approved, Entered, Inv, StateInv
<1>2. /\ state'.phaseStatus = "complete" /\ state'.currentPhase = state.currentPhase
      /\ state'.maxPhase = state.maxPhase /\ state'.phases = state.phases
  BY <1>1 DEF PhaseComplete, PipelineState
<1> QED
  BY <1>1, <1>2 DEF Stage

LEMMA EvidenceMapped ==
    ASSUME Inv, ConfirmEvidence
    PROVE  /\ state'.phaseStatus = state.phaseStatus
           /\ state'.currentPhase = state.currentPhase
           /\ state'.maxPhase = state.maxPhase
           /\ state'.phases = state.phases
           /\ Stage' = Stage
<1>1. state \in PipelineState /\ state' = TestEvidence(state)
  BY DEF ConfirmEvidence, Inv, StateInv
<1>2. /\ state'.phaseStatus = state.phaseStatus /\ state'.currentPhase = state.currentPhase
      /\ state'.maxPhase = state.maxPhase /\ state'.phases = state.phases
  BY <1>1 DEF TestEvidence, PipelineState
<1> QED
  BY <1>2 DEF Stage, Approved, Entered

-----------------------------------------------------------------------------
LEMMA RefineInit == Init => Ladder!Init
  BY DEF Init, Ladder!Init, PipelineStart, Stage

LEMMA RefineNext ==
    Inv /\ [Next]_state => [Ladder!Next]_<<state.maxPhase, state.currentPhase, Stage>>
<1> SUFFICES ASSUME Inv, [Next]_state
             PROVE  Ladder!Next \/ UNCHANGED <<state.maxPhase, state.currentPhase, Stage>>
  OBVIOUS
<1>1. ASSUME NEW p \in Phases, EnterPhase(p) PROVE Ladder!Next
  BY <1>1, EnterMapped DEF Ladder!Next, Ladder!Open
<1>2. ASSUME NEW p \in Phases, StartLoop(p) \/ CompleteRound(p) \/ SubmitFindings(p)
      PROVE  UNCHANGED <<state.maxPhase, state.currentPhase, Stage>>
  BY <1>2, OpenPhaseMapped
<1>3. ASSUME NEW p \in Phases, TerminateLoop(p) PROVE Ladder!Next
  BY <1>3, TerminateMapped DEF Ladder!Next, Ladder!Review
<1>4. ASSUME NEW p \in Phases, ApprovePhase(p)
      PROVE  Ladder!Next \/ UNCHANGED <<state.maxPhase, state.currentPhase, Stage>>
  BY <1>4, ApproveMapped DEF Ladder!Next, Ladder!Approve
<1>5. ASSUME NEW p \in Phases, CompletePhase(p) PROVE Ladder!Next
  BY <1>5, CompleteMapped DEF Ladder!Next, Ladder!Close
<1>6. CASE ConfirmEvidence
  BY <1>6, EvidenceMapped
<1>7. CASE UNCHANGED state
  BY <1>7 DEF Stage, Approved, Entered
<1> QED
  BY <1>1, <1>2, <1>3, <1>4, <1>5, <1>6, <1>7 DEF Next

(* transitions.ts implements the phase ladder: every event is a step of *)
(* PhaseLadder or leaves it alone, for all values of the constants.     *)
THEOREM MachineImplementsLadder == Spec => ImplementsLadder
<1> QED
  BY RefineInit, RefineNext, Invariance, PTL DEF Spec, ImplementsLadder, Ladder!Spec

(* No event takes an approval back or reopens a finished phase. *)
THEOREM ApprovalsArePermanent == Spec => NeverReopened
<1> DEFINE A == /\ \A p \in Phases : Approved(state, p) => Approved(state, p)'
                /\ state.phaseStatus = "complete" =>
                      \/ state'.phaseStatus = "complete" /\ state'.currentPhase = state.currentPhase
                      \/ state'.currentPhase = state.currentPhase + 1
<1>1. Inv /\ [Next]_state => [A]_state
  <2> SUFFICES ASSUME Inv, [Next]_state PROVE A \/ UNCHANGED state
    OBVIOUS
  <2>1. ASSUME NEW p \in Phases, EnterPhase(p) PROVE A
    <3>1. ~Approved(state, p)
      BY <2>1, EnterOnlyNext, PhaseConstants
      DEF EnterPhase, Inv, StateInv, PhasesInOrder, Approved, PipelineState, Phases
    <3> QED
      BY <2>1, <3>1, EnterMapped DEF Approved, Entered
  <2>2. ASSUME NEW p \in Phases, StartLoop(p) \/ CompleteRound(p) \/ SubmitFindings(p) PROVE A
    BY <2>2, OpenPhaseMapped DEF Approved, Entered, Stage
  <2>3. ASSUME NEW p \in Phases, TerminateLoop(p) PROVE A
    BY <2>3, TerminateMapped DEF Stage
  <2>4. ASSUME NEW p \in Phases, ApprovePhase(p) PROVE A
    BY <2>4, ApproveMapped
  <2>5. ASSUME NEW p \in Phases, CompletePhase(p) PROVE A
    BY <2>5, CompleteMapped DEF Approved, Entered, Stage
  <2>6. CASE ConfirmEvidence
    BY <2>6, EvidenceMapped DEF Approved, Entered
  <2> QED
    BY <2>1, <2>2, <2>3, <2>4, <2>5, <2>6 DEF Next
<1> QED
  BY <1>1, Invariance, PTL DEF Spec, NeverReopened
-----------------------------------------------------------------------------
(* No reachable state of an unfinished run is one in which every event is  *)
(* refused, however many phases it has and whichever of them are followup. *)
THEOREM RunsCanGoOn == Spec => []NoDeadEnd
<1>1. ASSUME Inv PROVE NoDeadEnd
  <2> DEFINE c == state.currentPhase
  <2>1. /\ c \in 0..PhaseLimit /\ c <= state.maxPhase
        /\ state.maxPhase \in Phases
        /\ state.phaseStatus = "idle" <=> c = 0
    BY <1>1, PhaseConstants
    DEF Inv, StateInv, PipelineState, Phases, PhasesInOrder, StatusMatchesPhase
  <2>2. PhaseLimit \in Nat \ {0}
    BY PhaseConstants
  <2>3. CASE state.phaseStatus = "idle"
    <3>1. PhaseEnterValid(state, 1) /\ 1 \in Phases
      BY <2>1, <2>2, <2>3 DEF PhaseEnterValid, Phases
    <3> QED
      BY <3>1 DEF NoDeadEnd
  <2>4. ASSUME state.phaseStatus # "idle" PROVE c \in Phases /\ Entered(state, c)
    BY <1>1, <2>1, <2>2, <2>4 DEF Inv, StateInv, PhasesInOrder, Phases
  <2>5. CASE state.phaseStatus = "active"
    <3>1. CASE IsFollowup(c)
      <4>1. UserApprovalValid(state, c) /\ ~Approved(state, c)
        BY <1>1, <2>4, <2>5, <3>1
        DEF Inv, StateInv, StatusMatchesPhase, UserApprovalValid, Entered
      <4> QED
        BY <2>4, <2>5, <4>1 DEF NoDeadEnd
    <3>2. CASE ~IsFollowup(c)
      BY <2>4, <2>5, <3>2 DEF NoDeadEnd, RalphLoopStartValid
    <3> QED
      BY <3>1, <3>2
  <2>6. CASE state.phaseStatus = "ralph_loop"
    <3>1. RalphRoundFindingValid(state, c, state.ralph.round + 1)
      BY <1>1, <2>6 DEF Inv, StateInv, StatusMatchesPhase, RalphRoundFindingValid, InLoop
    <3> QED
      BY <2>4, <2>6, <3>1 DEF NoDeadEnd
  <2>7. CASE state.phaseStatus = "awaiting_approval"
    <3>1. CASE Approved(state, c)
      <4>1. PhaseCompleteValid(state, c)
        BY <2>7, <3>1 DEF PhaseCompleteValid, Approved, Entered
      <4> QED
        BY <2>4, <2>7, <4>1 DEF NoDeadEnd
    <3>2. CASE ~Approved(state, c)
      <4>1. Reviewed(state, c) /\ ~IsFollowup(c)
        BY <1>1, <2>7, <3>2 DEF Inv, StateInv, StatusMatchesPhase
      <4>2. UserApprovalValid(state, c)
        BY <4>1 DEF UserApprovalValid, Reviewed, Entered
      <4> QED
        BY <2>4, <2>7, <3>2, <4>2 DEF NoDeadEnd
    <3> QED
      BY <3>1, <3>2
  <2>8. CASE state.phaseStatus = "complete"
    <3>1. CASE c = state.maxPhase
      BY <2>8, <3>1 DEF NoDeadEnd
    <3>2. CASE c # state.maxPhase
      <4>1. c + 1 \in Phases /\ c + 1 # 1 /\ c + 1 <= state.maxPhase /\ (c + 1) - 1 = c
        BY <2>1, <2>2, <2>4, <2>8, <3>2 DEF Phases
      <4>2. Approved(state, c)
        BY <1>1, <2>8 DEF Inv, StateInv, StatusMatchesPhase
      <4>3. PhaseEnterValid(state, c + 1)
        BY <2>1, <2>8, <4>1, <4>2 DEF PhaseEnterValid, Approved, Entered
      <4> QED
        BY <4>1, <4>3 DEF NoDeadEnd
    <3> QED
      BY <3>1, <3>2
  <2> QED
    BY <1>1, <2>3, <2>5, <2>6, <2>7, <2>8 DEF Inv, StateInv, StatusMatchesPhase
<1> QED
  BY <1>1, Invariance, PTL
=============================================================================

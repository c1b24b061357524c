------------------------- MODULE PhaseInvariants_proofs -------------------------
(***************************************************************************)
(* One lemma per checkpoint event: the event keeps StateInv; and, in the   *)
(* second half, LoopInv, what a loop's rounds and counters say of its      *)
(* history, from which it follows that a termination is backed.  The       *)
(* lemmas are stated for any state value, so that the proofs about one     *)
(* caller (PhaseMachine_proofs) and about concurrent calls                 *)
(* (CheckpointHandler_proofs) both cite them.                              *)
(***************************************************************************)
EXTENDS PhaseInvariants, InductionLemmas, SequenceTheorems

(* pipeline_start creates a state that satisfies StateInv. *)
LEMMA StartInv ==
    ASSUME NEW max \in MaxPhases, NEW owner \in Sessions
    PROVE  StateInv(PipelineStart(max, owner))
<1> DEFINE s == PipelineStart(max, owner)
<1>1. s \in PipelineState
  BY PhaseConstants DEF PipelineStart, PipelineState, PhaseStatus, Phases
<1>2. PhasesInOrder(s) /\ ApprovedOnlyIfReviewed(s)
  BY PhaseConstants DEF PipelineStart, PhasesInOrder, ApprovedOnlyIfReviewed, Entered, Approved, Phases
<1>3. StatusMatchesPhase(s)
  BY DEF PipelineStart, StatusMatchesPhase
<1> QED
  BY <1>1, <1>2, <1>3 DEF StateInv

(* phase_enter: the guard on phase - 1 is enough to enter only the next phase. *)
LEMMA EnterOnlyNext ==
    ASSUME NEW s, StateInv(s), NEW p \in Phases, PhaseEnterValid(s, p)
    PROVE  p = s.currentPhase + 1 /\ s.phaseStatus \in {"idle", "complete"}
<1>1. s.currentPhase \in 0..PhaseLimit /\ PhaseLimit \in Nat
  BY PhaseConstants DEF StateInv, PipelineState
<1>2. CASE p = 1
  BY <1>1, <1>2 DEF PhaseEnterValid, Phases
<1>3. CASE p # 1
  <2>1. p - 1 \in Phases
    BY <1>1, <1>3 DEF Phases
  <2>2. p - 1 <= s.currentPhase
    BY <1>3, <2>1 DEF PhaseEnterValid, StateInv, PhasesInOrder, Entered
  <2> QED
    BY <1>1, <1>3, <2>2 DEF PhaseEnterValid, Phases
<1> QED
  BY <1>2, <1>3

LEMMA EnterInv ==
    ASSUME NEW s, StateInv(s), NEW p \in Phases, PhaseEnterValid(s, p)
    PROVE  StateInv(PhaseEnter(s, p))
<1> DEFINE t == PhaseEnter(s, p)
<1>1. p = s.currentPhase + 1 /\ s.phaseStatus \in {"idle", "complete"}
  BY EnterOnlyNext
<1>2. s \in PipelineState /\ PhaseLimit \in Nat
  BY PhaseConstants DEF StateInv
<1>3. t \in PipelineState
  <2>1. FreshPhase \in PhaseRecord
    BY DEF FreshPhase, PhaseRecord
  <2>2. [s.phases EXCEPT ![p] = FreshPhase] \in [Phases -> PhaseRecord \cup {Nil}]
    BY <1>2, <2>1 DEF PipelineState
  <2>3. p \in 0..PhaseLimit /\ "active" \in PhaseStatus
    BY <1>2 DEF Phases, PhaseStatus
  <2> QED
    BY <1>2, <2>2, <2>3 DEF PhaseEnter, PipelineState
<1>4. /\ t.currentPhase = p /\ t.phaseStatus = "active" /\ t.maxPhase = s.maxPhase
      /\ t.phases = [s.phases EXCEPT ![p] = FreshPhase]
  BY <1>2 DEF PhaseEnter, PipelineState
<1>5. /\ t.phases[p] = FreshPhase /\ FreshPhase # Nil
      /\ ~FreshPhase.userApproved /\ ~FreshPhase.ralphCompleted
      /\ \A q \in Phases : q # p => t.phases[q] = s.phases[q]
  <2>1. FreshPhase \in PhaseRecord /\ ~FreshPhase.userApproved /\ ~FreshPhase.ralphCompleted
    BY DEF FreshPhase, PhaseRecord
  <2>2. s.phases \in [Phases -> PhaseRecord \cup {Nil}]
    BY <1>2 DEF PipelineState
  <2> QED
    BY <1>4, <2>1, <2>2, NilAssumption
<1>6. PhasesInOrder(t)
  <2>1. t.currentPhase <= t.maxPhase
    BY <1>4 DEF PhaseEnterValid
  <2>2. ASSUME NEW q \in Phases
        PROVE  /\ Entered(t, q) <=> q <= t.currentPhase
               /\ q < t.currentPhase => Approved(t, q)
    <3>1. CASE q = p
      BY <1>4, <1>5, <3>1 DEF Entered, Phases
    <3>2. CASE q # p
      <4>1. /\ Entered(t, q) <=> Entered(s, q)
            /\ Approved(t, q) <=> Approved(s, q)
        BY <1>5, <3>2 DEF Entered, Approved
      <4>2. q < p <=> q <= s.currentPhase
        BY <1>1, <1>2 DEF PipelineState, Phases
      <4>3. Entered(s, q) <=> q <= s.currentPhase
        BY DEF StateInv, PhasesInOrder
      <4>4. q < s.currentPhase => Approved(s, q)
        BY DEF StateInv, PhasesInOrder
      <4>5. q = s.currentPhase => Approved(s, q)
        BY <1>1, <1>2 DEF StateInv, StatusMatchesPhase, PipelineState, Phases
      <4> QED
        BY <1>2, <1>4, <3>2, <4>1, <4>2, <4>3, <4>4, <4>5 DEF PipelineState, Phases
    <3> QED
      BY <3>1, <3>2
  <2> QED
    BY <2>1, <2>2 DEF PhasesInOrder
<1>7. ApprovedOnlyIfReviewed(t)
  BY <1>5 DEF StateInv, ApprovedOnlyIfReviewed, Approved, Reviewed, Entered
<1>8. StatusMatchesPhase(t)
  BY <1>4, <1>5 DEF StatusMatchesPhase, Approved, Reviewed, Phases
<1> QED
  BY <1>3, <1>6, <1>7, <1>8 DEF StateInv

(* An event that touches only the loop, inside the loop, keeps StateInv. *)
LEMMA LoopOnlyInv ==
    ASSUME NEW s, StateInv(s), NEW r \in RalphLoop, s.phaseStatus = "ralph_loop"
    PROVE  StateInv([s EXCEPT !.ralph = r])
<1> DEFINE t == [s EXCEPT !.ralph = r]
<1>1. t \in PipelineState
  BY DEF StateInv, PipelineState
<1>2. /\ t.currentPhase = s.currentPhase /\ t.phaseStatus = s.phaseStatus
      /\ t.maxPhase = s.maxPhase /\ t.phases = s.phases /\ t.ralph = r
  BY DEF StateInv, PipelineState
<1>3. PhasesInOrder(t) /\ ApprovedOnlyIfReviewed(t)
  BY <1>2 DEF StateInv, PhasesInOrder, ApprovedOnlyIfReviewed, Entered, Approved, Reviewed
<1>4. r # Nil
  BY NilAssumption
<1>5. StatusMatchesPhase(t)
  BY <1>2, <1>4 DEF StateInv, StatusMatchesPhase, Entered, Approved, Reviewed
<1> QED
  BY <1>1, <1>3, <1>5 DEF StateInv

LEMMA LoopStartInv ==
    ASSUME NEW s, StateInv(s), NEW p \in Phases, RalphLoopStartValid(s, p)
    PROVE  StateInv(RalphLoopStart(s, p))
<1> DEFINE t == RalphLoopStart(s, p)
<1>1. FreshLoop \in RalphLoop
  BY DEF FreshLoop, RalphLoop
<1>2. t \in PipelineState
  BY <1>1 DEF StateInv, PipelineState, RalphLoopStart, PhaseStatus
<1>3. /\ t.currentPhase = s.currentPhase /\ t.phaseStatus = "ralph_loop"
      /\ t.maxPhase = s.maxPhase /\ t.phases = s.phases /\ t.ralph = FreshLoop
  BY DEF StateInv, PipelineState, RalphLoopStart
<1>4. PhasesInOrder(t) /\ ApprovedOnlyIfReviewed(t)
  BY <1>3 DEF StateInv, PhasesInOrder, ApprovedOnlyIfReviewed, Entered, Approved, Reviewed
<1>5. StatusMatchesPhase(t)
  BY <1>1, <1>3, NilAssumption
  DEF StateInv, StatusMatchesPhase, Entered, Approved, Reviewed, RalphLoopStartValid, Phases
<1> QED
  BY <1>2, <1>4, <1>5 DEF StateInv

LEMMA RoundCompleteInv ==
    ASSUME NEW s, StateInv(s), NEW p \in Phases, NEW round \in Nat,
           NEW mentioned, RalphRoundCompleteValid(s, p, round, mentioned),
           NEW clean \in BOOLEAN, NEW accepted, NEW raised \in SUBSET Issues
    PROVE  StateInv(RalphRoundComplete(s, round, clean, accepted, raised))
<1> DEFINE r == [s.ralph EXCEPT !.round = round,
                                !.consecutiveZero = IF clean THEN @ + 1 ELSE 0,
                                !.tallyHistory = Append(@, clean),
                                !.openContested = (@ \ accepted) \cup raised]
<1>1. s.ralph \in RalphLoop /\ s.phaseStatus = "ralph_loop"
  BY DEF StateInv, PipelineState, RalphRoundCompleteValid, InLoop
<1>2. RalphRoundComplete(s, round, clean, accepted, raised) = [s EXCEPT !.ralph = r]
  BY DEF RalphRoundComplete
<1>3. r \in RalphLoop
  <2>1. Append(s.ralph.tallyHistory, clean) \in Seq(BOOLEAN)
    BY <1>1 DEF RalphLoop
  <2>2. (IF clean THEN s.ralph.consecutiveZero + 1 ELSE 0) \in Nat
    BY <1>1 DEF RalphLoop
  <2>3. (s.ralph.openContested \ accepted) \cup raised \in SUBSET Issues
    BY <1>1 DEF RalphLoop
  <2> QED
    BY <1>1, <2>1, <2>2, <2>3 DEF RalphLoop
<1> HIDE DEF r
<1> QED
  BY <1>1, <1>2, <1>3, LoopOnlyInv

LEMMA RoundFindingInv ==
    ASSUME NEW s, StateInv(s), NEW p \in Phases, NEW round \in Nat,
           RalphRoundFindingValid(s, p, round), NEW clean \in BOOLEAN
    PROVE  StateInv(RalphRoundFinding(s, round, clean))
<1> DEFINE rec == [round |-> round, clean |-> clean]
           r   == [s.ralph EXCEPT !.round = IF round > @ THEN round ELSE @,
                                  !.roundRecords = Append(@, rec),
                                  !.autoValidated = TRUE]
<1>1. s.ralph \in RalphLoop /\ s.phaseStatus = "ralph_loop"
  BY DEF StateInv, PipelineState, RalphRoundFindingValid, InLoop
<1>2. RalphRoundFinding(s, round, clean) = [s EXCEPT !.ralph = r]
  BY DEF RalphRoundFinding
<1>3. r \in RalphLoop
  <2>1. rec \in RoundRecord
    BY DEF RoundRecord
  <2>2. Append(s.ralph.roundRecords, rec) \in Seq(RoundRecord)
    BY <1>1, <2>1 DEF RalphLoop
  <2>3. (IF round > s.ralph.round THEN round ELSE s.ralph.round) \in Nat
    BY <1>1 DEF RalphLoop
  <2> QED
    BY <1>1, <2>2, <2>3 DEF RalphLoop
<1> HIDE DEF r
<1> QED
  BY <1>1, <1>2, <1>3, LoopOnlyInv

LEMMA TerminateInv ==
    ASSUME NEW s, StateInv(s), NEW p \in Phases, NEW termination \in Termination,
           RalphTerminateValid(s, p, termination)
    PROVE  StateInv(RalphTerminate(s, p, termination))
<1> DEFINE t   == RalphTerminate(s, p, termination)
           rec == [s.phases[p] EXCEPT !.ralphCompleted = TRUE, !.ralphTermination = termination]
<1>1. /\ s \in PipelineState /\ p = s.currentPhase /\ s.phaseStatus = "ralph_loop"
      /\ s.ralph \in RalphLoop /\ ~IsFollowup(p)
  BY DEF StateInv, PipelineState, RalphTerminateValid, InLoop, StatusMatchesPhase
<1>2. s.phases[p] \in PhaseRecord
  <2>1. s.phases[p] # Nil
    BY <1>1 DEF StateInv, PhasesInOrder, Entered, Phases
  <2> QED
    BY <1>1, <2>1 DEF PipelineState
<1>3. rec \in PhaseRecord /\ rec # Nil /\ rec.ralphCompleted
  BY <1>2, NilAssumption DEF PhaseRecord
<1>4. [s.ralph EXCEPT !.termination = termination] \in RalphLoop
  BY <1>1 DEF RalphLoop
<1>5. t = [s EXCEPT !.phaseStatus = "awaiting_approval",
                    !.ralph = [s.ralph EXCEPT !.termination = termination],
                    !.phases = [s.phases EXCEPT ![p] = rec]]
  BY DEF RalphTerminate
<1> HIDE DEF rec, t
<1>6. t \in PipelineState
  <2>1. [s.phases EXCEPT ![p] = rec] \in [Phases -> PhaseRecord \cup {Nil}]
    BY <1>1, <1>3 DEF PipelineState
  <2>2. "awaiting_approval" \in PhaseStatus
    BY DEF PhaseStatus
  <2> QED
    BY <1>1, <1>4, <1>5, <2>1, <2>2 DEF PipelineState
<1>7. /\ t.currentPhase = s.currentPhase /\ t.phaseStatus = "awaiting_approval"
      /\ t.maxPhase = s.maxPhase
      /\ t.phases[p] = rec
      /\ \A q \in Phases : q # p => t.phases[q] = s.phases[q]
  BY <1>1, <1>5 DEF PipelineState
<1>8. PhasesInOrder(t)
  <2>1. \A q \in Phases : Entered(t, q) <=> Entered(s, q)
    BY <1>2, <1>3, <1>7, NilAssumption DEF Entered
  <2>2. \A q \in Phases : q < t.currentPhase => (Approved(t, q) <=> Approved(s, q))
    BY <1>1, <1>7 DEF Entered, Approved, Phases
  <2> QED
    BY <1>7, <2>1, <2>2 DEF StateInv, PhasesInOrder
<1>9. ApprovedOnlyIfReviewed(t)
  BY <1>1, <1>3, <1>7 DEF StateInv, ApprovedOnlyIfReviewed, Approved, Reviewed, Entered
<1>10. StatusMatchesPhase(t)
  BY <1>1, <1>3, <1>7 DEF StatusMatchesPhase, Reviewed, Entered, Phases
<1> QED
  BY <1>6, <1>8, <1>9, <1>10 DEF StateInv, t

LEMMA EvidenceInv ==
    ASSUME NEW s, StateInv(s)
    PROVE  StateInv(TestEvidence(s))
<1> DEFINE t == TestEvidence(s)
<1>1. t \in PipelineState
  BY DEF StateInv, PipelineState, TestEvidence
<1>2. /\ t.currentPhase = s.currentPhase /\ t.phaseStatus = s.phaseStatus
      /\ t.maxPhase = s.maxPhase /\ t.phases = s.phases /\ t.ralph = s.ralph
  BY DEF StateInv, PipelineState, TestEvidence
<1> QED
  BY <1>1, <1>2 DEF StateInv, PhasesInOrder, ApprovedOnlyIfReviewed, StatusMatchesPhase,
                    Entered, Approved, Reviewed

LEMMA ApprovalInvStep ==
    ASSUME NEW s, StateInv(s), NEW p \in Phases, UserApprovalValid(s, p)
    PROVE  StateInv(UserApproval(s, p))
<1> DEFINE t      == UserApproval(s, p)
           rec    == [s.phases[p] EXCEPT !.userApproved = TRUE]
           status == IF IsFollowup(p) THEN "awaiting_approval" ELSE s.phaseStatus
<1>1. s \in PipelineState /\ p = s.currentPhase /\ s.phases[p] \in PhaseRecord
  BY DEF StateInv, PipelineState, UserApprovalValid
<1>2. rec \in PhaseRecord /\ rec # Nil /\ rec.userApproved /\ rec.ralphCompleted = s.phases[p].ralphCompleted
  BY <1>1, NilAssumption DEF PhaseRecord
<1>3. t = [s EXCEPT !.phaseStatus = status, !.phases = [s.phases EXCEPT ![p] = rec]]
  BY DEF UserApproval
<1>3a. status \in PhaseStatus /\ (IsFollowup(p) => status = "awaiting_approval")
                                  /\ (~IsFollowup(p) => status = s.phaseStatus)
  BY <1>1 DEF PipelineState, PhaseStatus
<1> HIDE DEF rec, status, t
<1>4. t \in PipelineState
  <2>1. [s.phases EXCEPT ![p] = rec] \in [Phases -> PhaseRecord \cup {Nil}]
    BY <1>1, <1>2 DEF PipelineState
  <2> QED
    BY <1>1, <1>3, <1>3a, <2>1 DEF PipelineState
<1>5. /\ t.currentPhase = s.currentPhase /\ t.phaseStatus = status
      /\ t.maxPhase = s.maxPhase /\ t.ralph = s.ralph
      /\ t.phases[p] = rec
      /\ \A q \in Phases : q # p => t.phases[q] = s.phases[q]
  BY <1>1, <1>3 DEF PipelineState
<1>6. PhasesInOrder(t)
  <2>1. \A q \in Phases : Entered(t, q) <=> Entered(s, q)
    BY <1>1, <1>2, <1>5, NilAssumption DEF Entered
  <2>2. \A q \in Phases : q < t.currentPhase => (Approved(t, q) <=> Approved(s, q))
    BY <1>1, <1>5 DEF Entered, Approved, Phases
  <2> QED
    BY <1>5, <2>1, <2>2 DEF StateInv, PhasesInOrder
<1>7. ApprovedOnlyIfReviewed(t)
  BY <1>1, <1>2, <1>5 DEF StateInv, ApprovedOnlyIfReviewed, Approved, Reviewed, Entered, UserApprovalValid
<1>8. StatusMatchesPhase(t)
  <2>1. CASE IsFollowup(p)
    BY <1>1, <1>2, <1>5, <1>3a, <2>1 DEF StatusMatchesPhase, Approved, Reviewed, Entered, Phases
  <2>2. CASE ~IsFollowup(p)
    <3>1. s.phases[p].ralphCompleted
      BY <2>2 DEF UserApprovalValid
    <3>2. s.phaseStatus \in {"awaiting_approval", "complete"}
      BY <1>1, <3>1, NilAssumption DEF StateInv, StatusMatchesPhase, Reviewed, Entered, Phases
    <3>3. Approved(t, p) /\ Reviewed(t, p)
      BY <1>2, <1>5, <3>1 DEF Approved, Reviewed, Entered
    <3>4. t.phaseStatus \in {"awaiting_approval", "complete"} /\ t.currentPhase = p /\ p # 0
      BY <1>1, <1>5, <1>3a, <2>2, <3>2 DEF Phases
    <3> QED
      BY <2>2, <3>3, <3>4 DEF StatusMatchesPhase
  <2> QED
    BY <2>1, <2>2
<1> QED
  BY <1>4, <1>6, <1>7, <1>8 DEF StateInv, t

LEMMA CompleteInv ==
    ASSUME NEW s, StateInv(s), NEW p \in Phases, PhaseCompleteValid(s, p)
    PROVE  StateInv(PhaseComplete(s))
<1> DEFINE t == PhaseComplete(s)
<1>1. t \in PipelineState
  BY DEF StateInv, PipelineState, PhaseComplete, PhaseStatus
<1>2. /\ t.currentPhase = s.currentPhase /\ t.phaseStatus = "complete"
      /\ t.maxPhase = s.maxPhase /\ t.phases = s.phases
  BY DEF StateInv, PipelineState, PhaseComplete
<1>3. PhasesInOrder(t) /\ ApprovedOnlyIfReviewed(t)
  BY <1>2 DEF StateInv, PhasesInOrder, ApprovedOnlyIfReviewed, Entered, Approved, Reviewed
<1>4. StatusMatchesPhase(t)
  BY <1>2 DEF StatusMatchesPhase, PhaseCompleteValid, Entered, Approved, Phases
<1> QED
  BY <1>1, <1>3, <1>4 DEF StateInv
-----------------------------------------------------------------------------
(* The loop *)

(* What round, streak and records say of each other: the joint history that *)
(* validateTransition never sees.                                           *)
LoopCounted(r) ==
    /\ r.round = Len(r.tallyHistory) + Len(r.roundRecords)
    /\ ~r.autoValidated => r.roundRecords = <<>>
    /\ \A i \in DOMAIN r.roundRecords : r.roundRecords[i].round <= r.round
    /\ EndsWithClean(r.tallyHistory, r.consecutiveZero)

LoopInv(s) ==
    s.ralph # Nil =>
        /\ LoopCounted(s.ralph)
        /\ s.phaseStatus = "ralph_loop" => s.ralph.termination = Nil
        /\ TerminationBacked(s)

(* No record is of a round to come, so the filter keeps them all. *)
LEMMA AllRecordsCompleted ==
    ASSUME NEW r \in RalphLoop, LoopCounted(r)
    PROVE  CompletedRecords(r) = r.roundRecords
<1> DEFINE recs    == r.roundRecords
           D       == 0..Len(recs)
           step(f) == [n \in D |->
                         IF n = 0 THEN <<>>
                         ELSE IF recs[n].round <= r.round THEN Append(f[n - 1], recs[n])
                         ELSE f[n - 1]]
           closed  == CHOOSE f : f = step(f)
<1>1. CompletedRecords(r) = closed[Len(recs)]
  BY DEF CompletedRecords
<1>2. recs \in Seq(RoundRecord) /\ Len(recs) \in Nat
  BY DEF RalphLoop
<1>3. \A n \in D : n # 0 => n - 1 \in D /\ recs[n].round <= r.round
  <2>1. \A i \in DOMAIN recs : recs[i].round <= r.round
    BY DEF LoopCounted
  <2>2. \A n \in D : n # 0 => n \in DOMAIN recs /\ n - 1 \in D
    BY <1>2
  <2> QED
    BY <2>1, <2>2
<1>4. \A n \in D : n # 0 => SubSeq(recs, 1, n) = Append(SubSeq(recs, 1, n - 1), recs[n])
  <2> SUFFICES ASSUME NEW n \in D, n # 0
               PROVE  SubSeq(recs, 1, n) = Append(SubSeq(recs, 1, n - 1), recs[n])
    OBVIOUS
  <2> QED
    BY <1>2
<1>5. SubSeq(recs, 1, 0) = <<>> /\ SubSeq(recs, 1, Len(recs)) = recs
  BY <1>2
<1>6. \E f : f = step(f)
  <2> DEFINE f == [n \in D |-> SubSeq(recs, 1, n)]
  <2>1. ASSUME NEW n \in D PROVE f[n] = step(f)[n]
    <3>1. CASE n = 0
      BY <1>5, <3>1
    <3>2. CASE n # 0
      BY <1>3, <1>4, <3>2
    <3> QED
      BY <3>1, <3>2
  <2>2. f = step(f)
    BY <2>1
  <2> QED
    BY <2>2
<1> HIDE DEF step
<1>7. closed = step(closed)
  BY <1>6
<1> USE DEF step
<1> HIDE DEF closed
<1> DEFINE T == {n \in D : closed[n] = SubSeq(recs, 1, n)}
<1>8. 0 \in T
  BY <1>2, <1>5, <1>7
<1>9. \A n \in 0..(Len(recs) - 1) : n \in T => n + 1 \in T
  <2> SUFFICES ASSUME NEW n \in 0..(Len(recs) - 1), n \in T PROVE n + 1 \in T
    OBVIOUS
  <2>1. n + 1 \in D /\ n + 1 # 0 /\ (n + 1) - 1 = n
    BY <1>2
  <2>2. closed[n + 1] = Append(closed[n], recs[n + 1])
    BY <1>3, <1>7, <2>1
  <2> QED
    BY <1>4, <2>1, <2>2
<1> HIDE DEF T
<1>10. D \subseteq T
  BY <1>2, <1>8, <1>9, BoundedInduction
<1> USE DEF T
<1> QED
  BY <1>1, <1>2, <1>5, <1>10

(* The verdicts of the records, in a form that is known to be a sequence. *)
LEMMA CleanOfRecords ==
    ASSUME NEW recs \in Seq(RoundRecord)
    PROVE  LET v == [i \in DOMAIN recs |-> recs[i].clean]
           IN  /\ v \in Seq(BOOLEAN) /\ Len(v) = Len(recs)
               /\ \A i \in 1..Len(recs) : v[i] = recs[i].clean
<1> DEFINE v == [i \in DOMAIN recs |-> recs[i].clean]
<1>1. DOMAIN recs = 1..Len(recs) /\ Len(recs) \in Nat
  OBVIOUS
<1>2. \A i \in 1..Len(recs) : v[i] = recs[i].clean /\ v[i] \in BOOLEAN
  <2>1. \A i \in 1..Len(recs) : recs[i] \in RoundRecord
    OBVIOUS
  <2> QED
    BY <1>1, <2>1 DEF RoundRecord
<1>3. v \in [1..Len(recs) -> BOOLEAN]
  BY <1>1, <1>2
<1> HIDE DEF v
<1>4. v \in Seq(BOOLEAN) /\ Len(v) = Len(recs)
  BY <1>1, <1>3
<1> USE DEF v
<1> QED
  BY <1>2, <1>4

LEMMA EndsOfJoined ==
    ASSUME NEW t \in Seq(BOOLEAN), NEW v \in Seq(BOOLEAN)
    PROVE  /\ t \o v \in Seq(BOOLEAN) /\ Len(t \o v) = Len(t) + Len(v)
           /\ \A n \in Nat : EndsWithClean(v, n) => EndsWithClean(t \o v, n)
           /\ EndsDirty(v) => EndsDirty(t \o v)
<1>1. /\ t \o v \in Seq(BOOLEAN) /\ Len(t \o v) = Len(t) + Len(v)
      /\ Len(t) \in Nat /\ Len(v) \in Nat
      /\ \A i \in 1..Len(v) : (t \o v)[Len(t) + i] = v[i]
  OBVIOUS
<1> DEFINE h == t \o v
<1> HIDE DEF h
<1>2. ASSUME NEW n \in Nat, EndsWithClean(v, n) PROVE EndsWithClean(h, n)
  <2>1. Len(h) = Len(t) + Len(v) /\ n <= Len(v)
    BY <1>1, <1>2 DEF EndsWithClean, h
  <2>2. ASSUME NEW i \in (Len(h) - n + 1)..Len(h) PROVE h[i]
    <3>1. i - Len(t) \in (Len(v) - n + 1)..Len(v) /\ i - Len(t) \in 1..Len(v)
      BY <1>1, <2>1
    <3>2. h[Len(t) + (i - Len(t))] = v[i - Len(t)] /\ Len(t) + (i - Len(t)) = i
      BY <1>1, <3>1 DEF h
    <3>3. v[i - Len(t)]
      BY <1>2, <3>1 DEF EndsWithClean
    <3> QED
      BY <3>2, <3>3
  <2> QED
    BY <1>1, <2>1, <2>2 DEF EndsWithClean
<1>3. ASSUME EndsDirty(v) PROVE EndsDirty(h)
  <2>1. Len(v) \in 1..Len(v) /\ ~v[Len(v)]
    BY <1>1, <1>3 DEF EndsDirty
  <2>2. h[Len(h)] = v[Len(v)] /\ h # <<>>
    BY <1>1, <2>1 DEF h
  <2> QED
    BY <2>1, <2>2 DEF EndsDirty
<1> QED
  BY <1>1, <1>2, <1>3 DEF h

(* Whatever validateTransition looks at ends as the joint history does. *)
LEMMA VerdictsEndHistory ==
    ASSUME NEW r \in RalphLoop, LoopCounted(r)
    PROVE  /\ Len(History(r)) = r.round
           /\ \A n \in Nat : EndsWithClean(Verdicts(r), n) => EndsWithClean(History(r), n)
           /\ EndsDirty(Verdicts(r)) => EndsDirty(History(r))
           /\ ~RecordsDecide(r) => History(r) = r.tallyHistory
<1> DEFINE v == [i \in DOMAIN r.roundRecords |-> r.roundRecords[i].clean]
           t == r.tallyHistory
<1>1. r.roundRecords \in Seq(RoundRecord) /\ t \in Seq(BOOLEAN)
  BY DEF RalphLoop
<1>2. v \in Seq(BOOLEAN) /\ Len(v) = Len(r.roundRecords)
  BY <1>1, CleanOfRecords
<1>3. History(r) = t \o v /\ CompletedRecords(r) = r.roundRecords
  BY AllRecordsCompleted DEF History
<1> HIDE DEF v
<1>4. /\ Len(t \o v) = Len(t) + Len(v)
      /\ \A n \in Nat : EndsWithClean(v, n) => EndsWithClean(t \o v, n)
      /\ EndsDirty(v) => EndsDirty(t \o v)
  BY <1>1, <1>2, EndsOfJoined
<1>5. Len(History(r)) = r.round
  BY <1>2, <1>3, <1>4 DEF LoopCounted
<1>6. CASE RecordsDecide(r)
  <2>1. Verdicts(r) = v
    BY <1>3, <1>6 DEF Verdicts, v
  <2> QED
    BY <1>3, <1>4, <1>5, <1>6, <2>1
<1>7. CASE ~RecordsDecide(r)
  <2>1. r.roundRecords = <<>>
    BY <1>3, <1>7 DEF RecordsDecide, LoopCounted
  <2>2. v = <<>>
    BY <1>2, <2>1
  <2>3. t \o v = t
    BY <1>1, <2>2
  <2>4. Verdicts(r) = t
    BY <1>7 DEF Verdicts
  <2> QED
    BY <1>3, <1>5, <2>3, <2>4
<1> QED
  BY <1>6, <1>7

(* What ralph_terminate demands is what the joint history then shows. *)
LEMMA EarnedIsBacked ==
    ASSUME NEW s, StateInv(s), LoopInv(s), NEW p \in Phases, NEW termination \in Termination,
           RalphTerminateValid(s, p, termination)
    PROVE  LoopInv(RalphTerminate(s, p, termination))
<1> DEFINE r == s.ralph
           q == [r EXCEPT !.termination = termination]
           t == RalphTerminate(s, p, termination)
<1>1. r \in RalphLoop /\ LoopCounted(r) /\ TerminationEarned(r, termination)
  BY DEF RalphTerminateValid, InLoop, StateInv, PipelineState, LoopInv
<1>2. t.ralph = q /\ t.phaseStatus = "awaiting_approval" /\ q.termination = termination
  BY <1>1 DEF RalphTerminate, StateInv, PipelineState, RalphLoop
<1>3. /\ q.round = r.round /\ q.tallyHistory = r.tallyHistory /\ q.roundRecords = r.roundRecords
      /\ q.autoValidated = r.autoValidated /\ q.consecutiveZero = r.consecutiveZero
  BY <1>1 DEF RalphLoop
<1> HIDE DEF q, t
<1> SUFFICES TerminationBacked(t)
  <2>1. LoopCounted(q)
    BY <1>1, <1>3 DEF LoopCounted
  <2> QED
    BY <1>2, <2>1 DEF LoopInv, t
<1>4. History(q) = History(r)
  BY <1>3 DEF History
<1>5. EndsWithClean(r.tallyHistory, r.consecutiveZero) /\ r.consecutiveZero \in Nat /\ r.tallyHistory \in Seq(BOOLEAN)
  BY <1>1 DEF LoopCounted, RalphLoop
<1>6. /\ 1 \in Nat /\ EARLY_STOP_CONSECUTIVE \in Nat /\ r.round \in Nat
      /\ Len(History(r)) = r.round
  BY <1>1, VerdictsEndHistory, RoundConstants DEF RalphLoop
<1>7. CASE termination = "gate_pass"
  <2>1. r.round >= MIN_GATE_ROUNDS /\ EndsWithClean(Verdicts(r), 1)
    BY <1>1, <1>7 DEF TerminationEarned
  <2>2. EndsWithClean(History(r), 1)
    BY <1>1, <1>6, <2>1, VerdictsEndHistory
  <2> QED
    BY <1>2, <1>4, <1>6, <1>7, <2>1, <2>2 DEF TerminationBacked
<1>8. CASE termination = "early_stop"
  <2>1. EndsWithClean(History(r), EARLY_STOP_CONSECUTIVE)
    <3>1. CASE RecordsDecide(r)
      <4>1. EndsWithClean(Verdicts(r), EARLY_STOP_CONSECUTIVE)
        BY <1>1, <1>8, <3>1 DEF TerminationEarned
      <4> QED
        BY <1>1, <1>6, <4>1, VerdictsEndHistory
    <3>2. CASE ~RecordsDecide(r)
      <4>1. r.consecutiveZero >= EARLY_STOP_CONSECUTIVE /\ History(r) = r.tallyHistory
        BY <1>1, <1>8, <3>2, VerdictsEndHistory DEF TerminationEarned
      <4> QED
        BY <1>5, <1>6, <4>1 DEF EndsWithClean
    <3> QED
      BY <3>1, <3>2
  <2> QED
    BY <1>2, <1>4, <1>8, <2>1 DEF TerminationBacked
<1>9. CASE termination = "max_rounds"
  <2>1. r.round >= MAX_RALPH_ROUNDS /\ EndsDirty(Verdicts(r))
    BY <1>1, <1>9 DEF TerminationEarned
  <2>2. EndsDirty(History(r))
    BY <1>1, <2>1, VerdictsEndHistory
  <2> QED
    BY <1>2, <1>4, <1>6, <1>9, <2>1, <2>2 DEF TerminationBacked
<1> QED
  BY <1>7, <1>8, <1>9 DEF Termination

LEMMA SameLoopInv ==
    ASSUME NEW s, NEW t, LoopInv(s), t.ralph = s.ralph,
           t.phaseStatus = "ralph_loop" => s.phaseStatus = "ralph_loop"
    PROVE  LoopInv(t)
  BY DEF LoopInv, TerminationBacked

LEMMA NoLoopInv ==
    ASSUME NEW s, s.ralph = Nil
    PROVE  LoopInv(s)
  BY DEF LoopInv

LEMMA LoopUntouched ==
    ASSUME NEW s, StateInv(s), LoopInv(s), NEW p
    PROVE  /\ LoopInv(PhaseEnter(s, p))
           /\ LoopInv(TestEvidence(s))
           /\ LoopInv(UserApproval(s, p))
           /\ LoopInv(PhaseComplete(s))
<1>1. s \in PipelineState
  BY DEF StateInv
<1>2. /\ PhaseEnter(s, p).ralph = s.ralph /\ PhaseEnter(s, p).phaseStatus # "ralph_loop"
      /\ TestEvidence(s).ralph = s.ralph /\ TestEvidence(s).phaseStatus = s.phaseStatus
      /\ UserApproval(s, p).ralph = s.ralph
      /\ UserApproval(s, p).phaseStatus \in {s.phaseStatus, "awaiting_approval"}
      /\ PhaseComplete(s).ralph = Nil
  BY <1>1 DEF PhaseEnter, TestEvidence, UserApproval, PhaseComplete, PipelineState
<1>3. LoopInv(PhaseEnter(s, p))
  <2> DEFINE t == PhaseEnter(s, p)
  <2>1. t.ralph = s.ralph /\ t.phaseStatus # "ralph_loop"
    BY <1>2
  <2> HIDE DEF t
  <2>2. LoopInv(t)
    BY <2>1, SameLoopInv
  <2> QED
    BY <2>2 DEF t
<1>4. LoopInv(TestEvidence(s))
  BY <1>2, SameLoopInv
<1>5. LoopInv(UserApproval(s, p))
  <2> DEFINE t == UserApproval(s, p)
  <2>1. t.ralph = s.ralph /\ (t.phaseStatus = "ralph_loop" => s.phaseStatus = "ralph_loop")
    BY <1>2
  <2> HIDE DEF t
  <2>2. LoopInv(t)
    BY <2>1, SameLoopInv
  <2> QED
    BY <2>2 DEF t
<1> QED
  BY <1>2, <1>3, <1>4, <1>5, NoLoopInv

LEMMA LoopStarted ==
    ASSUME NEW s, StateInv(s), NEW p, RalphLoopStartValid(s, p)
    PROVE  LoopInv(RalphLoopStart(s, p))
<1>1. RalphLoopStart(s, p).ralph = FreshLoop
  BY DEF RalphLoopStart, StateInv, PipelineState
<1>2. EndsWithClean(<<>>, 0)
  BY DEF EndsWithClean
<1>3. LoopCounted(FreshLoop) /\ FreshLoop.termination = Nil
  BY <1>2 DEF LoopCounted, FreshLoop
<1> QED
  BY <1>1, <1>3 DEF LoopInv, TerminationBacked

LEMMA EndsOfAppended ==
    ASSUME NEW t \in Seq(BOOLEAN), NEW n \in Nat, EndsWithClean(t, n)
    PROVE  EndsWithClean(Append(t, TRUE), n + 1) /\ EndsWithClean(Append(t, FALSE), 0)
  BY DEF EndsWithClean

(* A legacy round: only in a loop that has no records. *)
LEMMA RoundCounted ==
    ASSUME NEW s, StateInv(s), LoopInv(s), NEW p, NEW round, NEW mentioned,
           RalphRoundCompleteValid(s, p, round, mentioned),
           NEW clean \in BOOLEAN, NEW accepted, NEW raised
    PROVE  LoopInv(RalphRoundComplete(s, round, clean, accepted, raised))
<1> DEFINE t == RalphRoundComplete(s, round, clean, accepted, raised)
           r == s.ralph
<1>1. /\ r \in RalphLoop /\ LoopCounted(r) /\ ~r.autoValidated /\ r.termination = Nil
      /\ round = r.round + 1
  BY DEF RalphRoundCompleteValid, InLoop, StateInv, PipelineState, LoopInv
<1>2. /\ t.ralph.round = r.round + 1 /\ t.ralph.roundRecords = r.roundRecords
      /\ t.ralph.autoValidated = r.autoValidated /\ t.ralph.termination = Nil
      /\ t.ralph.tallyHistory = Append(r.tallyHistory, clean)
      /\ t.ralph.consecutiveZero = IF clean THEN r.consecutiveZero + 1 ELSE 0
  BY <1>1 DEF RalphRoundComplete, StateInv, PipelineState, RalphLoop
<1> HIDE DEF t
<1>3. /\ r.round = Len(r.tallyHistory) + Len(r.roundRecords) /\ r.roundRecords = <<>>
      /\ r.tallyHistory \in Seq(BOOLEAN) /\ r.consecutiveZero \in Nat
      /\ EndsWithClean(r.tallyHistory, r.consecutiveZero)
  BY <1>1 DEF LoopCounted, RalphLoop
<1>4. EndsWithClean(t.ralph.tallyHistory, t.ralph.consecutiveZero)
  BY <1>2, <1>3, EndsOfAppended
<1>5. t.ralph.round = Len(t.ralph.tallyHistory) + Len(t.ralph.roundRecords)
  BY <1>2, <1>3
<1>6. LoopCounted(t.ralph)
  BY <1>1, <1>2, <1>3, <1>4, <1>5 DEF LoopCounted
<1> QED
  BY <1>2, <1>6 DEF LoopInv, TerminationBacked, t

(* A finding closes the round it is submitted for. *)
LEMMA FindingCounted ==
    ASSUME NEW s, StateInv(s), LoopInv(s), NEW p, NEW round,
           RalphRoundFindingValid(s, p, round), NEW clean \in BOOLEAN
    PROVE  LoopInv(RalphRoundFinding(s, round, clean))
<1> DEFINE t == RalphRoundFinding(s, round, clean)
           r == s.ralph
           rec == [round |-> round, clean |-> clean]
<1>1. /\ r \in RalphLoop /\ LoopCounted(r) /\ r.termination = Nil /\ round = r.round + 1
      /\ r.round \in Nat /\ round > r.round /\ s \in PipelineState
  BY DEF RalphRoundFindingValid, InLoop, StateInv, PipelineState, RalphLoop, LoopInv
<1>2. rec.round = r.round + 1 /\ rec \in RoundRecord
  BY <1>1 DEF RoundRecord
<1> HIDE DEF rec
<1> DEFINE q == [r EXCEPT !.round         = IF round > @ THEN round ELSE @,
                          !.roundRecords  = Append(@, rec),
                          !.autoValidated = TRUE]
<1>3. t.ralph = q
  BY <1>1 DEF RalphRoundFinding, PipelineState, rec
<1>4. /\ q.round = r.round + 1 /\ q.roundRecords = Append(r.roundRecords, rec)
      /\ q.autoValidated /\ q.termination = Nil /\ q.tallyHistory = r.tallyHistory
      /\ q.consecutiveZero = r.consecutiveZero
  BY <1>1 DEF RalphLoop
<1> HIDE DEF q
<1>5. /\ t.ralph.round = r.round + 1 /\ t.ralph.roundRecords = Append(r.roundRecords, rec)
      /\ t.ralph.autoValidated /\ t.ralph.termination = Nil
      /\ t.ralph.tallyHistory = r.tallyHistory
      /\ t.ralph.consecutiveZero = r.consecutiveZero
  BY <1>3, <1>4
<1> HIDE DEF t
<1>6. /\ r.round = Len(r.tallyHistory) + Len(r.roundRecords)
      /\ r.roundRecords \in Seq(RoundRecord) /\ r.tallyHistory \in Seq(BOOLEAN)
      /\ EndsWithClean(r.tallyHistory, r.consecutiveZero)
  BY <1>1 DEF LoopCounted, RalphLoop
<1>7. /\ Len(Append(r.roundRecords, rec)) = Len(r.roundRecords) + 1
      /\ DOMAIN Append(r.roundRecords, rec) = 1..(Len(r.roundRecords) + 1)
      /\ DOMAIN r.roundRecords = 1..Len(r.roundRecords)
      /\ Len(r.roundRecords) \in Nat /\ Len(r.tallyHistory) \in Nat
      /\ Append(r.roundRecords, rec)[Len(r.roundRecords) + 1] = rec
      /\ \A i \in 1..Len(r.roundRecords) : Append(r.roundRecords, rec)[i] = r.roundRecords[i]
  BY <1>6, <1>2
<1>8. \A i \in DOMAIN r.roundRecords :
         r.roundRecords[i].round \in Nat /\ r.roundRecords[i].round <= r.round
  <2>1. \A i \in DOMAIN r.roundRecords : r.roundRecords[i] \in RoundRecord
    BY <1>6
  <2> QED
    BY <1>1, <2>1 DEF LoopCounted, RoundRecord
<1>9. t.ralph.round = Len(t.ralph.tallyHistory) + Len(t.ralph.roundRecords)
  <2>1. /\ Len(t.ralph.tallyHistory) = Len(r.tallyHistory)
        /\ Len(t.ralph.roundRecords) = Len(r.roundRecords) + 1
    BY <1>5, <1>7
  <2>2. t.ralph.round = r.round + 1
    BY <1>5
  <2>3. r.round = Len(r.tallyHistory) + Len(r.roundRecords)
    BY <1>6
  <2>4. Len(r.roundRecords) \in Nat /\ Len(r.tallyHistory) \in Nat
    BY <1>7
  <2>5. \A a, b \in Nat : (a + b) + 1 = a + (b + 1)
    OBVIOUS
  <2>6. t.ralph.round = Len(r.tallyHistory) + (Len(r.roundRecords) + 1)
    BY <2>2, <2>3, <2>4, <2>5
  <2> QED
    BY <2>1, <2>6
<1>10. \A i \in DOMAIN t.ralph.roundRecords : t.ralph.roundRecords[i].round <= t.ralph.round
  <2> SUFFICES ASSUME NEW i \in 1..(Len(r.roundRecords) + 1)
               PROVE  Append(r.roundRecords, rec)[i].round <= r.round + 1
    BY <1>5, <1>7
  <2>1. CASE i = Len(r.roundRecords) + 1
    BY <1>1, <1>2, <1>7, <2>1
  <2>2. CASE i # Len(r.roundRecords) + 1
    <3>1. i \in 1..Len(r.roundRecords)
      BY <1>7, <2>2
    <3>2. r.roundRecords[i].round \in Nat /\ r.roundRecords[i].round <= r.round
      BY <1>8, <1>7, <3>1
    <3>3. Append(r.roundRecords, rec)[i].round = r.roundRecords[i].round
      BY <1>7, <3>1
    <3> QED
      BY <1>1, <3>2, <3>3
  <2> QED
    BY <2>1, <2>2
<1>11. LoopCounted(t.ralph)
  BY <1>5, <1>6, <1>9, <1>10 DEF LoopCounted
<1> QED
  BY <1>5, <1>11 DEF LoopInv, TerminationBacked, t
=============================================================================

----------------------- MODULE CheckpointHandler_proofs -----------------------
(***************************************************************************)
(* Proofs about CheckpointHandler: type correctness, and that no           *)
(* interleaving of calls, hooks, crashes and restarts fabricates progress  *)
(* (EveryCopySound).  The argument: every copy is either taken from        *)
(* another copy or the result of one valid event of transitions.ts, and    *)
(* PhaseInvariants_proofs shows that such events preserve StateInv and     *)
(* LoopInv.                                                                *)
(* Then, about one call at a time: a waiting call belongs to the active    *)
(* run, which keeps cache, file and archive together.  Next, for any       *)
(* overlap, that counted rounds were observed.  Last, one call at a time   *)
(* again: every write is an event of PhaseMachine, so phases go forward    *)
(* and approvals stay.                                                     *)
(***************************************************************************)
EXTENDS CheckpointProperties, PhaseInvariants_proofs

Sound == {s \in PipelineState : StateInv(s) /\ LoopInv(s)}

MaybeSound == Sound \cup {Nil}

SoundCall == {w \in WaitingCall : w.new \in MaybeSound}

CacheValue == [populated : BOOLEAN, run : Runs \cup {Nil}, state : MaybeSound]

(* The inductive invariant: where each variable lives, every copy sound, and *)
(* a memory state belongs to a run.                                          *)
FilesInv ==
    /\ activeRun \in Runs \cup {Nil}
    /\ disk \in [Runs -> MaybeSound]
    /\ archive \in [Runs -> MaybeSound]
    /\ stale \in BOOLEAN
    /\ observations \subseteq Observation
    /\ blocks \in [Runs -> SUBSET BlockKinds]

CacheInv ==
    /\ cache \in CacheValue
    /\ cache.state # Nil => cache.run \in Runs

MemoryInv ==
    /\ CacheInv
    /\ degraded \subseteq Runs \X Nat
    /\ calls \in [Calls -> SoundCall \cup {Nil}]

Inv == FilesInv /\ MemoryInv

-----------------------------------------------------------------------------
(* The transitions of transitions.ts stay inside Sound. *)

LEMMA SoundIsState == Sound \subseteq PipelineState /\ Nil \notin Sound
  BY NilAssumption DEF Sound

LEMMA SoundStart ==
    ASSUME NEW max \in MaxPhases, NEW owner \in Sessions
    PROVE  PipelineStart(max, owner) \in Sound
<1>1. PipelineStart(max, owner).ralph = Nil
  BY DEF PipelineStart
<1> QED
  BY <1>1, StartInv, NoLoopInv DEF Sound, StateInv

LEMMA SoundEvents ==
    ASSUME NEW s \in Sound, NEW p \in Phases
    PROVE  /\ PhaseEnterValid(s, p) => PhaseEnter(s, p) \in Sound
           /\ RalphLoopStartValid(s, p) => RalphLoopStart(s, p) \in Sound
           /\ UserApprovalValid(s, p) => UserApproval(s, p) \in Sound
           /\ PhaseCompleteValid(s, p) => PhaseComplete(s) \in Sound
           /\ TestEvidence(s) \in Sound
           /\ \A t \in Termination :
                 RalphTerminateValid(s, p, t) => RalphTerminate(s, p, t) \in Sound
<1>1. StateInv(s) /\ LoopInv(s)
  BY DEF Sound
<1>2. PhaseEnterValid(s, p) => PhaseEnter(s, p) \in Sound
  BY <1>1, EnterInv, LoopUntouched DEF Sound, StateInv
<1>3. RalphLoopStartValid(s, p) => RalphLoopStart(s, p) \in Sound
  BY <1>1, LoopStartInv, LoopStarted DEF Sound, StateInv
<1>4. UserApprovalValid(s, p) => UserApproval(s, p) \in Sound
  BY <1>1, ApprovalInvStep, LoopUntouched DEF Sound, StateInv
<1>5. PhaseCompleteValid(s, p) => PhaseComplete(s) \in Sound
  BY <1>1, CompleteInv, LoopUntouched DEF Sound, StateInv
<1>6. TestEvidence(s) \in Sound
  BY <1>1, EvidenceInv, LoopUntouched DEF Sound, StateInv
<1>7. \A t \in Termination : RalphTerminateValid(s, p, t) => RalphTerminate(s, p, t) \in Sound
  BY <1>1, TerminateInv, EarnedIsBacked DEF Sound, StateInv
<1> QED
  BY <1>2, <1>3, <1>4, <1>5, <1>6, <1>7

LEMMA SoundRounds ==
    ASSUME NEW s \in Sound, NEW p \in Phases, NEW round \in Nat, NEW clean \in BOOLEAN
    PROVE  /\ RalphRoundFindingValid(s, p, round) => RalphRoundFinding(s, round, clean) \in Sound
           /\ RalphRoundCompleteValid(s, p, round, Issues)
                => RalphRoundComplete(s, round, clean, Issues, {}) \in Sound
<1>1. StateInv(s) /\ LoopInv(s)
  BY DEF Sound
<1>2. RalphRoundFindingValid(s, p, round) => RalphRoundFinding(s, round, clean) \in Sound
  BY <1>1, RoundFindingInv, FindingCounted DEF Sound, StateInv
<1>3. RalphRoundCompleteValid(s, p, round, Issues)
        => RalphRoundComplete(s, round, clean, Issues, {}) \in Sound
  <2>1. {} \in SUBSET Issues
    OBVIOUS
  <2> QED
    BY <1>1, <2>1, RoundCompleteInv, RoundCounted DEF Sound, StateInv
<1> QED
  BY <1>2, <1>3

-----------------------------------------------------------------------------
(* What the helpers read and write. *)

LEMMA ActiveStateSound ==
    ASSUME Inv
    PROVE  /\ ActiveState \in MaybeSound
           /\ ActiveState # Nil => activeRun \in Runs /\ ActiveState \in Sound
                                   /\ activeRun # Nil
  BY DEF Inv, FilesInv, ActiveState, MaybeSound

LEMMA CacheGetSound ==
    ASSUME Inv
    PROVE  /\ CacheGet \in CacheValue
           /\ CacheGet.state # Nil => CacheGet.run \in Runs /\ CacheGet.state \in Sound
  BY ActiveStateSound DEF Inv, FilesInv, MemoryInv, CacheInv, CacheValue, CacheGet, MaybeSound

LEMMA TouchInv ==
    ASSUME Inv, Touch
    PROVE  CacheInv'
  BY CacheGetSound DEF Touch, Inv, MemoryInv, CacheInv

LEMMA CacheUpdateInv ==
    ASSUME Inv, NEW run \in Runs, NEW new \in Sound, cache' = CacheUpdate(run, new)
    PROVE  CacheInv'
  BY DEF CacheUpdate, Inv, MemoryInv, CacheInv, CacheValue, MaybeSound

LEMMA TransitionInv ==
    ASSUME Inv, ActiveState # Nil, NEW new \in Sound, Transition(new)
    PROVE  Inv'
<1>1. activeRun \in Runs
  BY ActiveStateSound
<1>2. CacheInv'
  BY <1>1, CacheUpdateInv DEF Transition, Persist
<1>3. FilesInv'
  BY <1>1 DEF Inv, FilesInv, Transition, Persist, MaybeSound
<1> QED
  BY <1>2, <1>3 DEF Inv, MemoryInv, Transition, Persist

LEMMA AuditInv ==
    ASSUME Inv, NEW run \in Runs, NEW kind \in BlockKinds, AuditBlock(run, kind)
    PROVE  blocks' \in [Runs -> SUBSET BlockKinds]
  BY DEF Inv, FilesInv, AuditBlock

LEMMA ForgetInv ==
    ASSUME Forget
    PROVE  MemoryInv'
  BY DEF Forget, MemoryInv, CacheInv, EmptyCache, CacheValue, MaybeSound

LEMMA WaitInv ==
    ASSUME Inv, NEW call \in SoundCall, Wait(call), UNCHANGED <<files, cache, degraded>>
    PROVE  Inv'
  BY DEF Inv, FilesInv, MemoryInv, CacheInv, Wait, files
-----------------------------------------------------------------------------
(* One lemma per action. *)

LEMMA InitStep == Init => Inv
<1> SUFFICES ASSUME Init PROVE Inv
  OBVIOUS
<1>1. EmptyCache \in CacheValue /\ EmptyCache.state = Nil
  BY DEF EmptyCache, CacheValue, MaybeSound
<1> QED
  BY <1>1 DEF Init, Inv, FilesInv, MemoryInv, CacheInv, MaybeSound

LEMMA StartPipelineStep ==
    ASSUME Inv, NEW session \in Sessions, NEW force \in BOOLEAN, StartPipeline(session, force)
    PROVE  Inv'
<1>1. PICK run \in Runs, max \in MaxPhases :
        LET new == PipelineStart(max, session)
        IN  /\ disk' = [disk EXCEPT ![run] = new]
            /\ cache' = CacheUpdate(run, new)
            /\ archive' = ArchiveActive
            /\ activeRun' = run
  BY DEF StartPipeline
<1>2. PipelineStart(max, session) \in Sound
  BY SoundStart
<1>3. CacheInv'
  BY <1>1, <1>2, CacheUpdateInv
<1>4. archive' \in [Runs -> MaybeSound]
  BY <1>1, ActiveStateSound DEF ArchiveActive, Inv, FilesInv, MaybeSound
<1>5. FilesInv'
  BY <1>1, <1>2, <1>4 DEF StartPipeline, Inv, FilesInv, MaybeSound
<1> QED
  BY <1>3, <1>5 DEF StartPipeline, Inv, MemoryInv

LEMMA CrashInStartStep ==
    ASSUME Inv, NEW session \in Sessions, NEW force \in BOOLEAN, CrashInStart(session, force)
    PROVE  Inv'
<1>1. PICK run \in Runs, max \in MaxPhases :
        disk' = [disk EXCEPT ![run] = PipelineStart(max, session)]
  BY DEF CrashInStart
<1>2. archive' \in [Runs -> MaybeSound]
  BY ActiveStateSound DEF CrashInStart, ArchiveActive, Inv, FilesInv, MaybeSound
<1>3. FilesInv'
  BY <1>1, <1>2, SoundStart DEF CrashInStart, Inv, FilesInv, MaybeSound
<1>4. MemoryInv'
  BY ForgetInv DEF CrashInStart
<1> QED
  BY <1>3, <1>4 DEF Inv

LEMMA ProceedsSound ==
    ASSUME Inv, Proceeds
    PROVE  ActiveState # Nil /\ ActiveState \in Sound /\ activeRun \in Runs
  BY ActiveStateSound DEF Proceeds

LEMMA StartLoopStep ==
    ASSUME Inv, NEW p \in Phases, StartLoop(p)
    PROVE  Inv'
  BY ProceedsSound, SoundEvents, TransitionInv DEF StartLoop

LEMMA NextRoundIsNat ==
    ASSUME NEW s \in Sound, s.ralph # Nil
    PROVE  s.ralph.round + 1 \in Nat
  BY SoundIsState DEF PipelineState, RalphLoop

LEMMA SubmitFindingsStep ==
    ASSUME Inv, NEW p \in Phases, NEW clean \in BOOLEAN, SubmitFindings(p, clean)
    PROVE  Inv'
<1> DEFINE round == ActiveState.ralph.round + 1
<1>1. /\ Proceeds /\ ActiveState.ralph # Nil
      /\ RalphRoundFindingValid(ActiveState, p, round)
      /\ Transition(RalphRoundFinding(ActiveState, round, clean))
  BY DEF SubmitFindings
<1>2. ActiveState # Nil /\ ActiveState \in Sound
  BY <1>1, ProceedsSound
<1>3. round \in Nat
  BY <1>1, <1>2, NextRoundIsNat
<1>4. RalphRoundFinding(ActiveState, round, clean) \in Sound
  BY <1>1, <1>2, <1>3, SoundRounds
<1> QED
  BY <1>1, <1>2, <1>4, TransitionInv

LEMMA TerminateLoopStep ==
    ASSUME Inv, NEW p \in Phases, NEW t \in Termination, TerminateLoop(p, t)
    PROVE  Inv'
  BY ProceedsSound, SoundEvents, TransitionInv DEF TerminateLoop

LEMMA ConfirmEvidenceStep ==
    ASSUME Inv, ConfirmEvidence
    PROVE  Inv'
<1>1. 1 \in Phases
  BY PhaseConstants DEF Phases
<1> QED
  BY <1>1, ProceedsSound, SoundEvents, TransitionInv DEF ConfirmEvidence

LEMMA ApprovePhaseStep ==
    ASSUME Inv, NEW p \in Phases, ApprovePhase(p)
    PROVE  Inv'
  BY ProceedsSound, SoundEvents, TransitionInv DEF ApprovePhase

LEMMA ArticulateStep ==
    ASSUME Inv, NEW p \in Phases, Articulate(p)
    PROVE  Inv'
  BY ProceedsSound, TransitionInv DEF Articulate

LEMMA EnterPhaseStep ==
    ASSUME Inv, NEW p \in Phases, EnterPhase(p)
    PROVE  Inv'
<1> DEFINE call == [event |-> "phase_enter", run |-> activeRun, new |-> PhaseEnter(ActiveState, p)]
<1>1. activeRun \in Runs /\ PhaseEnter(ActiveState, p) \in Sound
  BY ProceedsSound, SoundEvents DEF EnterPhase
<1>2. call \in SoundCall
  BY <1>1, SoundIsState DEF SoundCall, WaitingCall, MaybeSound
<1>3. Wait(call) /\ UNCHANGED <<files, cache, degraded>>
  BY DEF EnterPhase
<1> QED
  BY <1>2, <1>3, WaitInv

LEMMA CompleteRoundStep ==
    ASSUME Inv, NEW p \in Phases, NEW round \in Nat, NEW clean \in BOOLEAN,
           CompleteRound(p, round, clean)
    PROVE  Inv'
<1> DEFINE new  == IF ReviewerSeen(activeRun, round)
                   THEN RalphRoundComplete(ActiveState, round, clean, Issues, {})
                   ELSE Nil
           call == [event |-> "ralph_round_complete", run |-> activeRun, new |-> new]
<1>1. activeRun \in Runs /\ new \in MaybeSound
  BY ProceedsSound, SoundRounds DEF CompleteRound, RoundAccepted, MaybeSound
<1>2. call \in SoundCall
  <2> HIDE DEF new
  <2> QED
    BY <1>1, SoundIsState DEF SoundCall, WaitingCall, MaybeSound
<1>3. Wait(call) /\ UNCHANGED <<files, cache, degraded>>
  BY DEF CompleteRound
<1> QED
  BY <1>2, <1>3, WaitInv

LEMMA CompleteRoundUnobservedStep ==
    ASSUME Inv, NEW p \in Phases, NEW round \in Nat, NEW clean \in BOOLEAN,
           CompleteRoundUnobserved(p, round, clean)
    PROVE  Inv'
  BY ProceedsSound, SoundRounds, TransitionInv DEF CompleteRoundUnobserved, RoundAccepted

LEMMA ResumeStep ==
    ASSUME Inv, NEW c \in Calls, Resume(c)
    PROVE  Inv'
<1>1. calls[c] \in SoundCall
  BY DEF Resume, Inv, MemoryInv
<1>2. calls[c].run \in Runs /\ calls[c].new \in MaybeSound
  BY <1>1 DEF SoundCall, WaitingCall
<1>3. calls' \in [Calls -> SoundCall \cup {Nil}]
  BY DEF Resume, Inv, MemoryInv
<1>4. CASE calls[c].new # Nil
  <2>1. calls[c].new \in Sound /\ Persist(calls[c].run, calls[c].new) /\ UNCHANGED blocks
    BY <1>2, <1>4 DEF MaybeSound, Resume
  <2>2. CacheInv'
    BY <1>2, <2>1, CacheUpdateInv DEF Persist
  <2>3. FilesInv'
    BY <1>2, <2>1 DEF Resume, Persist, Inv, FilesInv, MaybeSound
  <2> QED
    BY <1>3, <2>2, <2>3 DEF Resume, Inv, MemoryInv
<1>5. CASE calls[c].new = Nil
  <2>1. AuditBlock(calls[c].run, "checkpoint") /\ UNCHANGED <<disk, cache, stale>>
    BY <1>5 DEF Resume
  <2>2. blocks' \in [Runs -> SUBSET BlockKinds]
    BY <1>2, <2>1, AuditInv DEF BlockKinds
  <2> QED
    BY <1>3, <2>1, <2>2 DEF Resume, Inv, FilesInv, MemoryInv, CacheInv
<1> QED
  BY <1>4, <1>5

LEMMA CompletePhaseStep ==
    ASSUME Inv, NEW p \in Phases, CompletePhase(p)
    PROVE  Inv'
<1> DEFINE new == PhaseComplete(ActiveState)
<1>1. activeRun \in Runs /\ new \in Sound
  BY ProceedsSound, SoundEvents DEF CompletePhase
<1>2. /\ disk' = [disk EXCEPT ![activeRun] = new]
      /\ \/ /\ archive' = [archive EXCEPT ![activeRun] = new]
            /\ activeRun' = Nil
            /\ cache' = (IF MultiAgent THEN cache ELSE EmptyCache)
            /\ degraded' \subseteq degraded
         \/ /\ cache' = CacheUpdate(activeRun, new)
            /\ UNCHANGED <<archive, activeRun, degraded>>
  BY DEF CompletePhase
<1> HIDE DEF new
<1>3. FilesInv'
  BY <1>1, <1>2 DEF CompletePhase, Inv, FilesInv, MaybeSound
<1>4. EmptyCache \in CacheValue /\ EmptyCache.state = Nil
  BY DEF EmptyCache, CacheValue, MaybeSound
<1>5. CacheInv'
  BY <1>1, <1>2, <1>4, CacheUpdateInv DEF Inv, MemoryInv, CacheInv
<1>6. degraded' \subseteq Runs \X Nat
  BY <1>2 DEF Inv, MemoryInv
<1> QED
  BY <1>3, <1>5, <1>6 DEF CompletePhase, Inv, MemoryInv

LEMMA CrashInCompleteStep ==
    ASSUME Inv, NEW p \in Phases, CrashInComplete(p)
    PROVE  Inv'
<1>1. activeRun \in Runs /\ PhaseComplete(ActiveState) \in Sound
  BY ProceedsSound, SoundEvents DEF CrashInComplete
<1>2. FilesInv'
  BY <1>1 DEF CrashInComplete, Inv, FilesInv, MaybeSound
<1> QED
  BY <1>2, ForgetInv DEF CrashInComplete, Inv

LEMMA AuditOnlyStep ==
    ASSUME Inv, NEW run \in Runs, NEW kind \in BlockKinds, AuditBlock(run, kind),
           UNCHANGED <<activeRun, disk, archive, stale, observations, memory>>
    PROVE  Inv'
  BY AuditInv DEF Inv, FilesInv, MemoryInv, CacheInv, memory

LEMMA GateRefusesStep ==
    ASSUME Inv, NEW p \in Phases, GateRefuses(p)
    PROVE  Inv'
  BY ProceedsSound, AuditOnlyStep DEF GateRefuses, BlockKinds

LEMMA RejectCallStep ==
    ASSUME Inv, RejectCall
    PROVE  Inv'
<1>1. activeRun \in Runs
  BY DEF RejectCall, Inv, FilesInv
<1> QED
  BY <1>1, AuditOnlyStep DEF RejectCall, BlockKinds

(* What a hook sees in a loop is a phase and a round that can be recorded. *)
LEMMA HookInLoop ==
    ASSUME Inv, InLoopNow
    PROVE  /\ CacheGet.run \in Runs
           /\ CacheGet.state.currentPhase \in Phases
           /\ CacheGet.state.ralph.round + 1 \in Nat
<1> DEFINE s == CacheGet.state
<1>1. CacheGet.run \in Runs /\ s \in Sound /\ s.phaseStatus = "ralph_loop"
  BY CacheGetSound DEF InLoopNow
<1>2. s \in PipelineState /\ StatusMatchesPhase(s)
  BY <1>1 DEF Sound, StateInv
<1> HIDE DEF s
<1>3. s.ralph # Nil /\ s.currentPhase # 0
  BY <1>1, <1>2 DEF StatusMatchesPhase
<1>4. s.currentPhase \in Phases
  BY <1>2, <1>3, PhaseConstants DEF PipelineState, Phases
<1>5. s.ralph.round + 1 \in Nat
  BY <1>1, <1>3, NextRoundIsNat
<1> QED
  BY <1>1, <1>4, <1>5 DEF s

LEMMA ObserveInv ==
    ASSUME Inv, InLoopNow, NEW type \in {"reviewer_spawned", "observer_degraded"}, Observe(type)
    PROVE  observations' \subseteq Observation
  BY HookInLoop DEF Observe, Observation, Inv, FilesInv

LEMMA SpawnReviewerStep ==
    ASSUME Inv, SpawnReviewer
    PROVE  Inv'
<1>1. observations' \subseteq Observation
  BY ObserveInv DEF SpawnReviewer
<1> QED
  BY <1>1, TouchInv DEF SpawnReviewer, Inv, FilesInv, MemoryInv

LEMMA ObserverFailsStep ==
    ASSUME Inv, ObserverFails
    PROVE  Inv'
<1>1. observations' \subseteq Observation
  BY ObserveInv DEF ObserverFails
<1>2. degraded' \subseteq Runs \X Nat
  BY HookInLoop DEF ObserverFails, Inv, MemoryInv
<1> QED
  BY <1>1, <1>2, TouchInv DEF ObserverFails, Inv, FilesInv, MemoryInv

LEMMA ToolViolationStep ==
    ASSUME Inv, ToolViolation
    PROVE  Inv'
<1>1. blocks' \in [Runs -> SUBSET BlockKinds]
  BY CacheGetSound, AuditInv DEF ToolViolation, BlockKinds
<1> QED
  BY <1>1, TouchInv DEF ToolViolation, Inv, FilesInv, MemoryInv

LEMMA ToolRepairedStep ==
    ASSUME Inv, ToolRepaired
    PROVE  Inv'
<1>1. CacheGet.run \in Runs
  BY CacheGetSound DEF ToolRepaired
<1>2. blocks' \in [Runs -> SUBSET BlockKinds]
  BY <1>1 DEF ToolRepaired, Inv, FilesInv
<1> QED
  BY <1>2, TouchInv DEF ToolRepaired, Inv, FilesInv, MemoryInv

LEMMA InterceptStep ==
    ASSUME Inv, Intercept
    PROVE  Inv'
<1>1. blocks' \in [Runs -> SUBSET BlockKinds]
  BY CacheGetSound, AuditInv DEF Intercept, BlockKinds
<1> QED
  BY <1>1, TouchInv DEF Intercept, Inv, FilesInv, MemoryInv

LEMMA EnvironmentStep ==
    ASSUME Inv, BecomeStale \/ LoseState \/ Restart
    PROVE  Inv'
<1>1. CASE BecomeStale
  BY <1>1 DEF BecomeStale, Inv, FilesInv, MemoryInv, CacheInv, memory
<1>2. CASE LoseState
  BY <1>2 DEF LoseState, Inv, FilesInv, MemoryInv, CacheInv, memory, MaybeSound
<1>3. CASE Restart
  BY <1>3, ForgetInv DEF Restart, files, Inv, FilesInv
<1> QED
  BY <1>1, <1>2, <1>3

LEMMA PhaseEventStep ==
    ASSUME Inv, NEW p \in Phases, PhaseEvent(p)
    PROVE  Inv'
<1>1. 1..RoundBound \subseteq Nat
  BY HandlerConstants
<1> QED
  BY <1>1, EnterPhaseStep, StartLoopStep, CompleteRoundStep, CompleteRoundUnobservedStep,
     SubmitFindingsStep, TerminateLoopStep, ApprovePhaseStep, ArticulateStep,
     CompletePhaseStep, GateRefusesStep, CrashInCompleteStep
  DEF PhaseEvent

LEMMA NextStep == Inv /\ [Next]_vars => Inv'
<1> SUFFICES ASSUME Inv, [Next]_vars PROVE Inv'
  OBVIOUS
<1>1. CASE UNCHANGED vars
  BY <1>1 DEF vars, files, memory, Inv, FilesInv, MemoryInv, CacheInv
<1>2. CASE Next
  BY <1>2, StartPipelineStep, CrashInStartStep, PhaseEventStep, ResumeStep,
     ConfirmEvidenceStep, RejectCallStep, SpawnReviewerStep, ObserverFailsStep,
     ToolViolationStep, ToolRepairedStep, InterceptStep, EnvironmentStep
  DEF Next
<1> QED
  BY <1>1, <1>2

-----------------------------------------------------------------------------
(* Theorems *)

(* The inductive invariant holds in every behaviour. *)
THEOREM HandlerInvariance == Spec => []Inv
  BY InitStep, NextStep, PTL DEF Spec

(* Every variable has its declared shape, for any number of runs, phases   *)
(* and concurrent calls and any set of faults.                             *)
THEOREM HandlerTypeCorrect == Spec => []TypeOK
<1>1. Inv => TypeOK
  BY SoundIsState DEF Inv, FilesInv, MemoryInv, CacheInv, CacheValue, TypeOK, MaybeSound,
                      MaybeState, SoundCall
<1> QED
  BY <1>1, HandlerInvariance, PTL

(* Whatever calls overlap, whatever crashes or is lost: no copy of a       *)
(* pipeline state ever shows a skipped phase, an approval without its      *)
(* review, or a loop ended on a claim its rounds do not support.           *)
THEOREM CopiesStaySound == Spec => []EveryCopySound
<1>1. ASSUME NEW s \in MaybeSound PROVE SoundIfAny(s)
  BY DEF MaybeSound, Sound, SoundIfAny, LoopInv, TerminationBacked
<1>2. Inv => EveryCopySound
  BY <1>1 DEF Inv, FilesInv, MemoryInv, CacheInv, CacheValue, SoundCall, EveryCopySound
<1> QED
  BY <1>2, HandlerInvariance, PTL

(* The interceptor never closes the gate on business code again once phase *)
(* TEST_CODE_PHASE lies behind, also when it decides on a cached state.    *)
THEOREM BusinessCodeStaysOpen == Spec => []BusinessCodeOpens
<1>1. ASSUME Inv PROVE BusinessCodeOpens
  <2> SUFFICES ASSUME CacheGet.state # Nil, CacheGet.state.currentPhase > TEST_CODE_PHASE
               PROVE  ~BusinessCodeBlocked(CacheGet.state)
    BY DEF BusinessCodeOpens
  <2> DEFINE s == CacheGet.state
  <2>1. StateInv(s)
    BY <1>1, CacheGetSound DEF Sound
  <2> HIDE DEF s
  <2>2. s.currentPhase > TEST_CODE_PHASE
    BY DEF s
  <2>3. TEST_CODE_PHASE \in Phases
    BY <2>1, <2>2, RoundConstants, PhaseConstants DEF StateInv, PipelineState, Phases
  <2>4. Approved(s, TEST_CODE_PHASE)
    BY <2>1, <2>2, <2>3 DEF StateInv, PhasesInOrder
  <2>5. Reviewed(s, TEST_CODE_PHASE)
    BY <2>1, <2>3, <2>4, PhaseConstants DEF StateInv, ApprovedOnlyIfReviewed, IsFollowup
  <2>6. ~BusinessCodeBlocked(s)
    BY <2>1, <2>2, <2>4, <2>5, RoundConstants DEF BusinessCodeBlocked, StateInv, PipelineState
  <2> QED
    BY <2>6 DEF s
<1> QED
  BY <1>1, HandlerInvariance, PTL

-----------------------------------------------------------------------------
(* The pointer always has a state behind it, unless files are corrupted. *)

(* Events only ever put a state into a run's file. *)
LEMMA WrittenState ==
    ASSUME Inv, Proceeds, NEW new \in Sound, Transition(new)
    PROVE  activeRun \in Runs /\ disk' = [disk EXCEPT ![activeRun] = new] /\ activeRun' = activeRun
  BY ProceedsSound DEF Transition, Persist

DiskKept == \A r \in Runs : disk[r] # Nil => disk'[r] # Nil

PointerKept ==
    \/ activeRun' = Nil
    \/ activeRun' = activeRun
    \/ activeRun' \in Runs /\ disk'[activeRun'] # Nil

LEMMA PutKeepsDisk ==
    ASSUME Inv, NEW run \in Runs, NEW new \in Sound, disk' = [disk EXCEPT ![run] = new]
    PROVE  DiskKept /\ disk'[run] # Nil
  BY SoundIsState DEF Inv, FilesInv, DiskKept

LEMMA PhaseEventKeeps ==
    ASSUME Inv, NEW p \in Phases, PhaseEvent(p)
    PROVE  DiskKept /\ PointerKept
<1>1. CASE EnterPhase(p) \/ GateRefuses(p)
  BY <1>1 DEF EnterPhase, GateRefuses, files, DiskKept, PointerKept
<1>2. CASE StartLoop(p) \/ ApprovePhase(p) \/ Articulate(p)
           \/ \E t \in Termination : TerminateLoop(p, t)
  <2>1. \E new \in Sound : Proceeds /\ Transition(new)
    BY <1>2, ProceedsSound, SoundEvents
    DEF StartLoop, TerminateLoop, ApprovePhase, Articulate
  <2> QED
    BY <2>1, WrittenState, PutKeepsDisk DEF PointerKept
<1>3. ASSUME NEW clean \in BOOLEAN, SubmitFindings(p, clean) PROVE DiskKept /\ PointerKept
  <2> DEFINE round == ActiveState.ralph.round + 1
             new   == RalphRoundFinding(ActiveState, round, clean)
  <2>1. /\ Proceeds /\ ActiveState.ralph # Nil
        /\ RalphRoundFindingValid(ActiveState, p, round)
        /\ Transition(new)
    BY <1>3 DEF SubmitFindings
  <2>2. round \in Nat /\ ActiveState \in Sound
    BY <2>1, ProceedsSound, NextRoundIsNat
  <2>3. new \in Sound
    BY <2>1, <2>2, SoundRounds
  <2> HIDE DEF new
  <2> QED
    BY <2>1, <2>3, WrittenState, PutKeepsDisk DEF PointerKept
<1>4. ASSUME NEW round \in 1..RoundBound, NEW clean \in BOOLEAN,
             CompleteRound(p, round, clean) \/ CompleteRoundUnobserved(p, round, clean)
      PROVE  DiskKept /\ PointerKept
  <2>1. CASE CompleteRound(p, round, clean)
    BY <2>1 DEF CompleteRound, files, DiskKept, PointerKept
  <2>2. CASE CompleteRoundUnobserved(p, round, clean)
    <3>1. round \in Nat
      BY HandlerConstants
    <3>2. \E new \in Sound : Proceeds /\ Transition(new)
      BY <2>2, <3>1, ProceedsSound, SoundRounds DEF CompleteRoundUnobserved, RoundAccepted
    <3> QED
      BY <3>2, WrittenState, PutKeepsDisk DEF PointerKept
  <2> QED
    BY <1>4, <2>1, <2>2
<1>5. CASE CompletePhase(p) \/ CrashInComplete(p)
  <2>1. /\ activeRun \in Runs /\ PhaseComplete(ActiveState) \in Sound
        /\ disk' = [disk EXCEPT ![activeRun] = PhaseComplete(ActiveState)]
    BY <1>5, ProceedsSound, SoundEvents DEF CompletePhase, CrashInComplete
  <2>2. activeRun' = Nil \/ activeRun' = activeRun
    BY <1>5 DEF CompletePhase, CrashInComplete
  <2> QED
    BY <2>1, <2>2, PutKeepsDisk DEF PointerKept
<1> QED
  BY <1>1, <1>2, <1>3, <1>4, <1>5 DEF PhaseEvent

LEMMA NextKeeps ==
    ASSUME Inv, Next, "corruption" \notin Faults
    PROVE  DiskKept /\ PointerKept
<1>1. ASSUME NEW session \in Sessions, NEW force \in BOOLEAN,
             StartPipeline(session, force) \/ CrashInStart(session, force)
      PROVE  DiskKept /\ PointerKept
  <2>1. PICK run \in Runs, max \in MaxPhases :
          /\ disk' = [disk EXCEPT ![run] = PipelineStart(max, session)]
          /\ activeRun' = run \/ activeRun' = activeRun
    BY <1>1 DEF StartPipeline, CrashInStart
  <2> QED
    BY <2>1, SoundStart, PutKeepsDisk DEF PointerKept
<1>2. ASSUME NEW c \in Calls, Resume(c) PROVE DiskKept /\ PointerKept
  <2>1. CASE calls[c].new = Nil
    BY <1>2, <2>1 DEF Resume, DiskKept, PointerKept
  <2>2. CASE calls[c].new # Nil
    <3>1. calls[c].run \in Runs /\ calls[c].new \in Sound
      BY <1>2, <2>2 DEF Resume, Inv, MemoryInv, SoundCall, WaitingCall, MaybeSound
    <3>2. disk' = [disk EXCEPT ![calls[c].run] = calls[c].new] /\ activeRun' = activeRun
      BY <1>2, <2>2 DEF Resume, Persist
    <3> QED
      BY <3>1, <3>2, PutKeepsDisk DEF PointerKept
  <2> QED
    BY <2>1, <2>2
<1>3. CASE ConfirmEvidence
  <2>1. \E new \in Sound : Proceeds /\ Transition(new)
    <3>1. 1 \in Phases
      BY PhaseConstants DEF Phases
    <3> QED
      BY <1>3, <3>1, ProceedsSound, SoundEvents DEF ConfirmEvidence
  <2> QED
    BY <2>1, WrittenState, PutKeepsDisk DEF PointerKept
<1>4. CASE RejectCall \/ SpawnReviewer \/ ObserverFails \/ ToolViolation \/ ToolRepaired
           \/ Intercept \/ BecomeStale \/ LoseState \/ Restart
  BY <1>4 DEF RejectCall, SpawnReviewer, ObserverFails, ToolViolation, ToolRepaired,
              Intercept, BecomeStale, LoseState, Restart, files, DiskKept, PointerKept
<1> QED
  BY <1>1, <1>2, <1>3, <1>4, PhaseEventKeeps DEF Next

(* However pipeline_start and phase_complete are interrupted, the active   *)
(* run has a readable state, as long as no file is corrupted from outside. *)
THEOREM ActiveRunKeepsState ==
    ASSUME "corruption" \notin Faults
    PROVE  Spec => []ActiveRunHasState
<1>1. Init => ActiveRunHasState
  BY DEF Init, ActiveRunHasState
<1>2. ASSUME Inv, ActiveRunHasState, [Next]_vars PROVE ActiveRunHasState'
  <2>1. CASE UNCHANGED vars
    BY <1>2, <2>1 DEF vars, files, ActiveRunHasState
  <2>2. CASE Next
    <3>1. DiskKept /\ PointerKept
      BY <1>2, <2>2, NextKeeps
    <3> QED
      BY <1>2, <3>1 DEF DiskKept, PointerKept, ActiveRunHasState, Inv, FilesInv
  <2> QED
    BY <1>2, <2>1, <2>2
<1> QED
  BY <1>1, <1>2, HandlerInvariance, PTL DEF Spec

-----------------------------------------------------------------------------
(* One call at a time.  A waiting call then always belongs to the active   *)
(* run, so that no write reaches a run that is no longer active.           *)

CallsOfActive == \A c \in Calls : calls[c] # Nil => calls[c].run = activeRun

CoherentCache ==
    MultiAgent \/ cache.state = Nil \/ (cache.run = activeRun /\ cache.state = ActiveState)

TurnInv == CallsOfActive /\ CoherentCache /\ FinishedRunArchived

(* What a step does to the files and the cache: it writes the active run,  *)
(* ends it, starts another, dies before the pointer is moved, or only looks. *)
WritesActive ==
    \E new \in Sound :
        /\ activeRun \in Runs /\ activeRun' = activeRun
        /\ disk' = [disk EXCEPT ![activeRun] = new]
        /\ \A r \in Runs : r # activeRun => archive'[r] = archive[r]
        /\ cache' \in {CacheUpdate(activeRun, new), EmptyCache}

EndsActive ==
    \E new \in Sound :
        /\ activeRun \in Runs /\ activeRun' = Nil
        /\ disk' = [disk EXCEPT ![activeRun] = new]
        /\ archive' = [archive EXCEPT ![activeRun] = new]
        /\ MultiAgent \/ cache' = EmptyCache
        /\ NoneWaiting /\ calls' = calls

StartsAnother ==
    \E run \in Runs, new \in Sound :
        /\ run # activeRun /\ activeRun' = run
        /\ activeRun # Nil => ActiveState # Nil
        /\ disk' = [disk EXCEPT ![run] = new]
        /\ archive' = ArchiveActive
        /\ cache' = CacheUpdate(run, new)
        /\ NoneWaiting /\ calls' = calls

HalfStarts ==
    \E run \in Runs, new \in Sound :
        /\ run # activeRun /\ activeRun' = activeRun
        /\ ~Finished(new)
        /\ disk' = [disk EXCEPT ![run] = new]
        /\ archive' \in {archive, ArchiveActive}
        /\ cache' = EmptyCache

OnlyLooks ==
    /\ UNCHANGED <<activeRun, disk, archive>>
    /\ MultiAgent \/ cache' \in {cache, CacheGet, EmptyCache}

Effect == WritesActive \/ EndsActive \/ StartsAnother \/ HalfStarts \/ OnlyLooks

CallsFollow == \A c \in Calls : calls'[c] # Nil => calls'[c] = calls[c] \/ calls'[c].run = activeRun

LEMMA TransitionEffect ==
    ASSUME Inv, Proceeds, NEW new \in Sound, Transition(new)
    PROVE  Effect /\ CallsFollow
  BY ProceedsSound DEF Transition, Persist, Effect, WritesActive, CallsFollow

LEMMA WaitEffect ==
    ASSUME Inv, NEW call \in SoundCall, call.run = activeRun, Wait(call),
           UNCHANGED <<files, cache, degraded>>
    PROVE  Effect /\ CallsFollow
  BY DEF Wait, files, Effect, OnlyLooks, CallsFollow, Inv, MemoryInv

LEMMA ForgetEffect ==
    ASSUME Forget
    PROVE  CallsFollow /\ cache' = EmptyCache
  BY DEF Forget, CallsFollow

LEMMA StartEffect ==
    ASSUME Inv, Sequential, NEW session \in Sessions, NEW force \in BOOLEAN,
           StartPipeline(session, force) \/ CrashInStart(session, force)
    PROVE  Effect /\ CallsFollow
<1>1. NoneWaiting /\ (activeRun # Nil => ActiveState # Nil)
  BY DEF StartPipeline, CrashInStart, Arrives, StartAllowed
<1>2. \A max \in MaxPhases : /\ PipelineStart(max, session) \in Sound
                             /\ ~Finished(PipelineStart(max, session))
  BY SoundStart DEF Finished, PipelineStart
<1>3. CASE StartPipeline(session, force)
  <2>1. PICK run \in Runs, max \in MaxPhases :
          /\ run # activeRun /\ activeRun' = run
          /\ disk' = [disk EXCEPT ![run] = PipelineStart(max, session)]
          /\ cache' = CacheUpdate(run, PipelineStart(max, session))
    BY <1>3 DEF StartPipeline, FreshRun
  <2>2. archive' = ArchiveActive /\ calls' = calls
    BY <1>3 DEF StartPipeline
  <2> QED
    BY <1>1, <1>2, <2>1, <2>2 DEF Effect, StartsAnother, CallsFollow
<1>4. CASE CrashInStart(session, force)
  <2>1. PICK run \in Runs, max \in MaxPhases :
          run # activeRun /\ disk' = [disk EXCEPT ![run] = PipelineStart(max, session)]
    BY <1>4 DEF CrashInStart, FreshRun
  <2>2. archive' \in {archive, ArchiveActive} /\ activeRun' = activeRun /\ Forget
    BY <1>4 DEF CrashInStart
  <2> QED
    BY <1>2, <2>1, <2>2, ForgetEffect DEF Effect, HalfStarts
<1> QED
  BY <1>3, <1>4

LEMMA CompleteEffect ==
    ASSUME Inv, Sequential, NEW p \in Phases, CompletePhase(p) \/ CrashInComplete(p)
    PROVE  Effect /\ CallsFollow
<1> DEFINE new == PhaseComplete(ActiveState)
<1>1. activeRun \in Runs /\ new \in Sound /\ NoneWaiting
  BY ProceedsSound, SoundEvents DEF CompletePhase, CrashInComplete, Proceeds, Arrives
<1>2. disk' = [disk EXCEPT ![activeRun] = new]
  BY DEF CompletePhase, CrashInComplete
<1>3. CASE CompletePhase(p)
  <2>1. /\ calls' = calls
        /\ \/ /\ archive' = [archive EXCEPT ![activeRun] = new] /\ activeRun' = Nil
              /\ MultiAgent \/ cache' = EmptyCache
           \/ cache' = CacheUpdate(activeRun, new) /\ UNCHANGED <<archive, activeRun>>
    BY <1>3 DEF CompletePhase
  <2> HIDE DEF new
  <2> QED
    BY <1>1, <1>2, <2>1 DEF Effect, EndsActive, WritesActive, CallsFollow
<1>4. CASE CrashInComplete(p)
  <2>1. /\ archive' = archive \/ archive' = [archive EXCEPT ![activeRun] = new]
        /\ activeRun' = activeRun /\ Forget
    BY <1>4 DEF CrashInComplete
  <2> HIDE DEF new
  <2>2. \A r \in Runs : r # activeRun => archive'[r] = archive[r]
    BY <1>1, <2>1 DEF Inv, FilesInv
  <2> QED
    BY <1>1, <1>2, <2>1, <2>2, ForgetEffect DEF Effect, WritesActive
<1> QED
  BY <1>3, <1>4

LEMMA PhaseEventEffect ==
    ASSUME Inv, Sequential, NEW p \in Phases, PhaseEvent(p)
    PROVE  Effect /\ CallsFollow
<1>1. CASE EnterPhase(p)
  <2> DEFINE call == [event |-> "phase_enter", run |-> activeRun, new |-> PhaseEnter(ActiveState, p)]
  <2>1. activeRun \in Runs /\ PhaseEnter(ActiveState, p) \in Sound
    BY <1>1, ProceedsSound, SoundEvents DEF EnterPhase
  <2>2. call \in SoundCall /\ call.run = activeRun
    BY <2>1, SoundIsState DEF SoundCall, WaitingCall, MaybeSound
  <2>3. Wait(call) /\ UNCHANGED <<files, cache, degraded>>
    BY <1>1 DEF EnterPhase
  <2> QED
    BY <2>2, <2>3, WaitEffect
<1>2. CASE StartLoop(p) \/ ApprovePhase(p) \/ Articulate(p)
           \/ \E t \in Termination : TerminateLoop(p, t)
  <2>1. \E new \in Sound : Proceeds /\ Transition(new)
    BY <1>2, ProceedsSound, SoundEvents
    DEF StartLoop, TerminateLoop, ApprovePhase, Articulate
  <2> QED
    BY <2>1, TransitionEffect
<1>3. ASSUME NEW clean \in BOOLEAN, SubmitFindings(p, clean) PROVE Effect /\ CallsFollow
  <2> DEFINE round == ActiveState.ralph.round + 1
             new   == RalphRoundFinding(ActiveState, round, clean)
  <2>1. /\ Proceeds /\ ActiveState.ralph # Nil
        /\ RalphRoundFindingValid(ActiveState, p, round)
        /\ Transition(new)
    BY <1>3 DEF SubmitFindings
  <2>2. round \in Nat /\ ActiveState \in Sound
    BY <2>1, ProceedsSound, NextRoundIsNat
  <2>3. new \in Sound
    BY <2>1, <2>2, SoundRounds
  <2> HIDE DEF new
  <2> QED
    BY <2>1, <2>3, TransitionEffect
<1>4. ASSUME NEW round \in 1..RoundBound, NEW clean \in BOOLEAN,
             CompleteRound(p, round, clean) \/ CompleteRoundUnobserved(p, round, clean)
      PROVE  Effect /\ CallsFollow
  <2>1. round \in Nat
    BY HandlerConstants
  <2>2. CASE CompleteRound(p, round, clean)
    <3> DEFINE new  == IF ReviewerSeen(activeRun, round)
                       THEN RalphRoundComplete(ActiveState, round, clean, Issues, {})
                       ELSE Nil
               call == [event |-> "ralph_round_complete", run |-> activeRun, new |-> new]
    <3>1. activeRun \in Runs /\ new \in MaybeSound
      BY <2>1, <2>2, ProceedsSound, SoundRounds DEF CompleteRound, RoundAccepted, MaybeSound
    <3>2. call \in SoundCall /\ call.run = activeRun
      <4> HIDE DEF new
      <4> QED
        BY <3>1, SoundIsState DEF SoundCall, WaitingCall, MaybeSound
    <3>3. Wait(call) /\ UNCHANGED <<files, cache, degraded>>
      BY <2>2 DEF CompleteRound
    <3> QED
      BY <3>2, <3>3, WaitEffect
  <2>3. CASE CompleteRoundUnobserved(p, round, clean)
    <3>1. \E new \in Sound : Proceeds /\ Transition(new)
      BY <2>1, <2>3, ProceedsSound, SoundRounds DEF CompleteRoundUnobserved, RoundAccepted
    <3> QED
      BY <3>1, TransitionEffect
  <2> QED
    BY <1>4, <2>2, <2>3
<1>5. CASE GateRefuses(p)
  BY <1>5 DEF GateRefuses, memory, Effect, OnlyLooks, CallsFollow
<1> QED
  BY <1>1, <1>2, <1>3, <1>4, <1>5, CompleteEffect DEF PhaseEvent

LEMMA NextEffect ==
    ASSUME Inv, CallsOfActive, Next, Sequential, "corruption" \notin Faults
    PROVE  Effect /\ CallsFollow
<1>1. ASSUME NEW c \in Calls, Resume(c) PROVE Effect /\ CallsFollow
  <2>1. calls[c] \in SoundCall /\ calls[c].run = activeRun
    BY <1>1 DEF Resume, Inv, MemoryInv, CallsOfActive
  <2>2. activeRun \in Runs /\ calls[c].new \in MaybeSound
    BY <2>1 DEF SoundCall, WaitingCall
  <2>3. CallsFollow
    BY <1>1 DEF Resume, CallsFollow, Inv, MemoryInv
  <2>4. CASE calls[c].new = Nil
    BY <1>1, <2>3, <2>4 DEF Resume, Effect, OnlyLooks
  <2>5. CASE calls[c].new # Nil
    <3>1. calls[c].new \in Sound
      BY <2>2, <2>5 DEF MaybeSound
    <3>2. /\ disk' = [disk EXCEPT ![activeRun] = calls[c].new]
          /\ cache' = CacheUpdate(activeRun, calls[c].new)
          /\ UNCHANGED <<activeRun, archive>>
      BY <1>1, <2>1, <2>5 DEF Resume, Persist
    <3> QED
      BY <2>2, <2>3, <3>1, <3>2 DEF Effect, WritesActive
  <2> QED
    BY <2>4, <2>5
<1>2. CASE ConfirmEvidence
  <2>1. 1 \in Phases
    BY PhaseConstants DEF Phases
  <2>2. \E new \in Sound : Proceeds /\ Transition(new)
    BY <1>2, <2>1, ProceedsSound, SoundEvents DEF ConfirmEvidence
  <2> QED
    BY <2>2, TransitionEffect
<1>3. CASE RejectCall \/ BecomeStale
  BY <1>3 DEF RejectCall, BecomeStale, memory, Effect, OnlyLooks, CallsFollow
<1>4. CASE SpawnReviewer \/ ObserverFails \/ ToolViolation \/ ToolRepaired \/ Intercept
  BY <1>4 DEF SpawnReviewer, ObserverFails, ToolViolation, ToolRepaired, Intercept, Touch,
              Effect, OnlyLooks, CallsFollow
<1>5. CASE Restart
  BY <1>5, ForgetEffect DEF Restart, files, Effect, OnlyLooks
<1>6. ~LoseState
  BY DEF LoseState
<1> QED
  BY <1>1, <1>2, <1>3, <1>4, <1>5, <1>6, StartEffect, PhaseEventEffect DEF Next

LEMMA EffectCalls ==
    ASSUME Inv, CallsOfActive, Effect, CallsFollow
    PROVE  CallsOfActive'
<1>1. CASE WritesActive \/ HalfStarts \/ OnlyLooks
  BY <1>1 DEF WritesActive, HalfStarts, OnlyLooks, CallsFollow, CallsOfActive
<1>2. CASE EndsActive \/ StartsAnother
  BY <1>2 DEF EndsActive, StartsAnother, NoneWaiting, CallsOfActive
<1> QED
  BY <1>1, <1>2 DEF Effect

LEMMA EffectCache ==
    ASSUME Inv, CoherentCache, Effect
    PROVE  CoherentCache'
<1>1. EmptyCache.state = Nil
  BY DEF EmptyCache
<1>2. CASE WritesActive
  <2>1. PICK new \in Sound :
          /\ activeRun \in Runs /\ activeRun' = activeRun
          /\ disk' = [disk EXCEPT ![activeRun] = new]
          /\ cache' \in {CacheUpdate(activeRun, new), EmptyCache}
    BY <1>2 DEF WritesActive
  <2>2. activeRun # Nil => ActiveState' = new
    BY <2>1 DEF ActiveState, Inv, FilesInv
  <2>3. CASE MultiAgent \/ cache' = EmptyCache
    BY <1>1, <2>3 DEF CoherentCache
  <2>4. CASE ~MultiAgent /\ cache' = CacheUpdate(activeRun, new)
    <3>1. cache'.run = activeRun /\ cache'.state = new
      BY <2>4 DEF CacheUpdate, Inv, MemoryInv, CacheInv, CacheValue
    <3> QED
      BY <2>1, <2>2, <3>1, HandlerConstants DEF CoherentCache
  <2> QED
    BY <2>1, <2>3, <2>4
<1>3. CASE EndsActive \/ HalfStarts
  BY <1>1, <1>3 DEF EndsActive, HalfStarts, CoherentCache
<1>4. CASE StartsAnother
  <2>1. PICK run \in Runs, new \in Sound :
          /\ activeRun' = run /\ disk' = [disk EXCEPT ![run] = new]
          /\ cache' = CacheUpdate(run, new)
    BY <1>4 DEF StartsAnother
  <2>2. MultiAgent \/ (cache'.run = run /\ cache'.state = new)
    BY <2>1 DEF CacheUpdate, Inv, MemoryInv, CacheInv, CacheValue
  <2>3. ActiveState' = new
    BY <2>1, HandlerConstants DEF ActiveState, Inv, FilesInv
  <2> QED
    BY <2>1, <2>2, <2>3 DEF CoherentCache
<1>5. CASE OnlyLooks
  <2>1. ActiveState' = ActiveState /\ activeRun' = activeRun
    BY <1>5 DEF OnlyLooks, ActiveState
  <2>2. CASE MultiAgent \/ cache' \in {cache, EmptyCache}
    BY <1>1, <2>1, <2>2 DEF CoherentCache
  <2>3. CASE ~MultiAgent /\ cache' = CacheGet
    BY <2>1, <2>3 DEF CoherentCache, CacheGet, Inv, MemoryInv, CacheInv, CacheValue
  <2> QED
    BY <1>5, <2>2, <2>3 DEF OnlyLooks
<1> QED
  BY <1>2, <1>3, <1>4, <1>5 DEF Effect

LEMMA EffectArchive ==
    ASSUME Inv, FinishedRunArchived, Effect
    PROVE  FinishedRunArchived'
<1>1. disk \in [Runs -> MaybeSound] /\ archive \in [Runs -> MaybeSound]
  BY DEF Inv, FilesInv
<1>2. CASE WritesActive
  BY <1>1, <1>2 DEF WritesActive, FinishedRunArchived, Finished
<1>3. CASE EndsActive
  BY <1>1, <1>3 DEF EndsActive, FinishedRunArchived, Finished
<1>4. CASE StartsAnother \/ HalfStarts
  <2>1. PICK run \in Runs, new \in Sound :
          /\ run # activeRun /\ disk' = [disk EXCEPT ![run] = new]
          /\ \/ activeRun' = run /\ archive' = ArchiveActive /\ (activeRun # Nil => ActiveState # Nil)
             \/ /\ activeRun' = activeRun /\ ~Finished(new)
                /\ archive' \in {archive, ArchiveActive}
    BY <1>4 DEF StartsAnother, HalfStarts
  <2>2. \A r \in Runs : r # activeRun => ArchiveActive[r] = archive[r]
    BY <1>1 DEF ArchiveActive
  <2>3. activeRun \in Runs /\ ActiveState # Nil => ArchiveActive[activeRun] = disk[activeRun]
    BY <1>1, HandlerConstants DEF ArchiveActive, ActiveState
  <2>4. \A r \in Runs : disk'[r] = IF r = run THEN new ELSE disk[r]
    BY <1>1, <2>1
  <2>5. CASE activeRun' = run /\ archive' = ArchiveActive /\ (activeRun # Nil => ActiveState # Nil)
    BY <2>2, <2>3, <2>4, <2>5, HandlerConstants DEF FinishedRunArchived
  <2>6. CASE /\ activeRun' = activeRun /\ ~Finished(new)
             /\ archive' \in {archive, ArchiveActive}
    BY <2>2, <2>4, <2>6 DEF FinishedRunArchived
  <2> QED
    BY <2>1, <2>5, <2>6
<1>5. CASE OnlyLooks
  BY <1>5 DEF OnlyLooks, FinishedRunArchived, Finished
<1> QED
  BY <1>2, <1>3, <1>4, <1>5 DEF Effect

LEMMA TurnInvariance ==
    ASSUME Sequential, "corruption" \notin Faults
    PROVE  Spec => [](Inv /\ TurnInv)
<1>1. Init => TurnInv
  BY DEF Init, TurnInv, CallsOfActive, CoherentCache, EmptyCache, FinishedRunArchived
<1>2. ASSUME Inv, TurnInv, [Next]_vars PROVE TurnInv'
  <2>1. CASE UNCHANGED vars
    BY <1>2, <2>1 DEF vars, files, memory, TurnInv, CallsOfActive, CoherentCache, ActiveState,
                      FinishedRunArchived, Finished
  <2>2. CASE Next
    BY <1>2, <2>2, NextEffect, EffectCalls, EffectCache, EffectArchive DEF TurnInv
  <2> QED
    BY <1>2, <2>1, <2>2
<1> QED
  BY <1>1, <1>2, InitStep, NextStep, PTL DEF Spec

(* One call at a time: what interceptor and observer take from memory is   *)
(* the active run's state file, across waits, crashes and new runs.        *)
THEOREM CacheStaysCoherent ==
    ASSUME Sequential, "corruption" \notin Faults
    PROVE  Spec => []CacheCoherent
<1>1. ASSUME Inv, TurnInv PROVE CacheCoherent
  <2>1. CASE MultiAgent
    BY <2>1 DEF CacheCoherent, CacheGet
  <2>2. CASE ~MultiAgent
    BY <1>1, <2>2 DEF TurnInv, CoherentCache, CacheCoherent, CacheGet, Inv, MemoryInv, CacheInv, CacheValue
  <2> QED
    BY <2>1, <2>2
<1> QED
  BY <1>1, TurnInvariance, PTL

(* One call at a time: a finished run that is no longer active is in the   *)
(* archive as it ended, also when phase_complete was cut short.            *)
THEOREM FinishedRunsAreArchived ==
    ASSUME Sequential, "corruption" \notin Faults
    PROVE  Spec => []FinishedRunArchived
<1>1. TurnInv => FinishedRunArchived
  BY DEF TurnInv
<1> QED
  BY <1>1, TurnInvariance, PTL
-----------------------------------------------------------------------------
(* Every counted round was observed, whatever calls overlap. *)

RoundSeen(run, n) == \E o \in observations : o.run = run /\ o.round = n

RoundsSeen(run, s) ==
    s # Nil /\ s.ralph # Nil => \A n \in 1..Len(s.ralph.tallyHistory) : RoundSeen(run, n)

(* The files and the pending writes of calls count observed rounds only, and *)
(* a degraded round is one that the observer recorded.                       *)
ObservedInv ==
    /\ \A r \in Runs : RoundsSeen(r, disk[r])
    /\ \A c \in Calls : calls[c] # Nil => RoundsSeen(calls[c].run, calls[c].new)
    /\ \A d \in degraded : RoundSeen(d[1], d[2])

(* What a step may do to them. *)
StepObserved ==
    /\ observations \subseteq observations'
    /\ \A r \in Runs : disk'[r] = disk[r] \/ RoundsSeen(r, disk'[r])
    /\ \A c \in Calls : \/ calls'[c] \in {Nil, calls[c]}
                        \/ RoundsSeen(calls'[c].run, calls'[c].new)
    /\ \A d \in degraded' : d \in degraded \/ RoundSeen(d[1], d[2])'

LEMMA ObservedKept ==
    ASSUME ObservedInv, StepObserved
    PROVE  ObservedInv'
<1>1. ASSUME NEW run, NEW n, RoundSeen(run, n) PROVE RoundSeen(run, n)'
  BY <1>1 DEF RoundSeen, StepObserved
<1>2. ASSUME NEW run, NEW s, RoundsSeen(run, s)
      PROVE  s # Nil /\ s.ralph # Nil =>
               \A n \in 1..Len(s.ralph.tallyHistory) : RoundSeen(run, n)'
  BY <1>1, <1>2 DEF RoundsSeen
<1>3. \A r \in Runs : RoundsSeen(r, disk[r])'
  <2> SUFFICES ASSUME NEW r \in Runs PROVE RoundsSeen(r, disk[r])'
    OBVIOUS
  <2>1. RoundsSeen(r, disk'[r])
    BY DEF StepObserved, ObservedInv
  <2> QED
    BY <1>2, <2>1 DEF RoundsSeen
<1>4. \A c \in Calls : (calls[c] # Nil => RoundsSeen(calls[c].run, calls[c].new))'
  <2> SUFFICES ASSUME NEW c \in Calls, calls'[c] # Nil
               PROVE  RoundsSeen(calls[c].run, calls[c].new)'
    OBVIOUS
  <2>1. RoundsSeen(calls'[c].run, calls'[c].new)
    BY DEF StepObserved, ObservedInv
  <2> QED
    BY <1>2, <2>1 DEF RoundsSeen
<1>5. \A d \in degraded' : RoundSeen(d[1], d[2])'
  BY <1>1 DEF StepObserved, ObservedInv
<1> QED
  BY <1>3, <1>4, <1>5 DEF ObservedInv

(* Events other than a legacy round add nothing to a tally. *)
LEMMA EventsCountNothing ==
    ASSUME NEW s \in Sound, NEW p \in Phases, NEW run, RoundsSeen(run, s)
    PROVE  /\ RoundsSeen(run, PhaseEnter(s, p))
           /\ RoundsSeen(run, RalphLoopStart(s, p))
           /\ RoundsSeen(run, UserApproval(s, p))
           /\ RoundsSeen(run, PhaseComplete(s))
           /\ RoundsSeen(run, TestEvidence(s))
           /\ \A t : s.ralph # Nil => RoundsSeen(run, RalphTerminate(s, p, t))
           /\ \A round, clean : s.ralph # Nil => RoundsSeen(run, RalphRoundFinding(s, round, clean))
<1>1. s \in PipelineState /\ s # Nil
  BY SoundIsState
<1>2. ASSUME NEW new, new.ralph = s.ralph PROVE RoundsSeen(run, new)
  BY <1>1, <1>2 DEF RoundsSeen
<1>3. PhaseEnter(s, p).ralph = s.ralph /\ UserApproval(s, p).ralph = s.ralph /\ TestEvidence(s).ralph = s.ralph
  BY <1>1 DEF PhaseEnter, UserApproval, TestEvidence, PipelineState
<1>4. RalphLoopStart(s, p).ralph.tallyHistory = <<>> /\ PhaseComplete(s).ralph = Nil
  BY <1>1 DEF RalphLoopStart, FreshLoop, PhaseComplete, PipelineState
<1>5. Len(<<>>) = 0 /\ 1..0 = {}
  OBVIOUS
<1>6. RoundsSeen(run, RalphLoopStart(s, p)) /\ RoundsSeen(run, PhaseComplete(s))
  BY <1>4, <1>5 DEF RoundsSeen
<1>7. ASSUME NEW new, s.ralph # Nil, new.ralph.tallyHistory = s.ralph.tallyHistory
      PROVE  RoundsSeen(run, new)
  BY <1>1, <1>7 DEF RoundsSeen
<1>8. ASSUME NEW t, s.ralph # Nil PROVE RoundsSeen(run, RalphTerminate(s, p, t))
  <2>1. s.ralph \in RalphLoop
    BY <1>1, <1>8 DEF PipelineState
  <2>2. RalphTerminate(s, p, t).ralph.tallyHistory = s.ralph.tallyHistory
    BY <1>1, <2>1 DEF RalphTerminate, PipelineState, RalphLoop
  <2> QED
    BY <1>7, <1>8, <2>2
<1>9. ASSUME NEW round, NEW clean, s.ralph # Nil
      PROVE  RoundsSeen(run, RalphRoundFinding(s, round, clean))
  <2>1. s.ralph \in RalphLoop
    BY <1>1, <1>9 DEF PipelineState
  <2>2. RalphRoundFinding(s, round, clean).ralph.tallyHistory = s.ralph.tallyHistory
    BY <1>1, <2>1 DEF RalphRoundFinding, PipelineState, RalphLoop
  <2> QED
    BY <1>7, <1>9, <2>2
<1> QED
  BY <1>2, <1>3, <1>6, <1>8, <1>9

(* A legacy round that was seen joins rounds that were seen: its number is *)
(* the next of the tally, because a loop with records takes no such round. *)
LEMMA SeenRoundCounts ==
    ASSUME NEW s \in Sound, NEW p \in Phases, NEW run, RoundsSeen(run, s),
           NEW round, NEW clean \in BOOLEAN, NEW mentioned, NEW accepted, NEW raised,
           RalphRoundCompleteValid(s, p, round, mentioned), RoundSeen(run, round)
    PROVE  RoundsSeen(run, RalphRoundComplete(s, round, clean, accepted, raised))
<1> DEFINE new == RalphRoundComplete(s, round, clean, accepted, raised)
           t   == s.ralph.tallyHistory
<1>1. s \in PipelineState /\ s # Nil /\ StateInv(s) /\ LoopInv(s)
  BY SoundIsState DEF Sound
<1>2. s.ralph # Nil /\ ~s.ralph.autoValidated /\ round = s.ralph.round + 1
  BY DEF RalphRoundCompleteValid, InLoop
<1>3. s.ralph \in RalphLoop
  BY <1>1, <1>2 DEF PipelineState
<1>4. t \in Seq(BOOLEAN) /\ new.ralph.tallyHistory = Append(t, clean)
  BY <1>1, <1>3 DEF RalphRoundComplete, PipelineState, RalphLoop
<1>5. s.ralph.round = Len(t)
  <2>1. s.ralph.round = Len(t) + Len(s.ralph.roundRecords) /\ s.ralph.roundRecords = <<>>
    BY <1>1, <1>2 DEF LoopInv, LoopCounted
  <2> QED
    BY <1>4, <2>1
<1>6. \A n \in 1..Len(t) : RoundSeen(run, n)
  BY <1>1, <1>2 DEF RoundsSeen
<1> HIDE DEF new
<1>7. Len(Append(t, clean)) = Len(t) + 1 /\ Len(t) \in Nat
  BY <1>4
<1>8. ASSUME NEW n \in 1..(Len(t) + 1) PROVE RoundSeen(run, n)
  <2>1. CASE n = Len(t) + 1
    BY <1>2, <1>5, <2>1
  <2>2. CASE n # Len(t) + 1
    <3>1. n \in 1..Len(t)
      BY <1>7, <2>2
    <3> QED
      BY <1>6, <3>1
  <2> QED
    BY <2>1, <2>2
<1>9. \A n \in 1..Len(new.ralph.tallyHistory) : RoundSeen(run, n)
  BY <1>4, <1>7, <1>8
<1> QED
  BY <1>9 DEF RoundsSeen, new

-----------------------------------------------------------------------------
LEMMA ActiveSeen ==
    ASSUME Inv, ObservedInv, Proceeds
    PROVE  /\ ActiveState \in Sound /\ activeRun \in Runs
           /\ RoundsSeen(activeRun, ActiveState)
<1>1. ActiveState # Nil /\ ActiveState \in Sound /\ activeRun \in Runs
  BY ProceedsSound
<1>2. ActiveState = disk[activeRun]
  BY <1>1 DEF ActiveState
<1> QED
  BY <1>1, <1>2 DEF ObservedInv

(* A step that puts one seen state into one file. *)
LEMMA PutObserved ==
    ASSUME Inv, NEW run \in Runs, NEW new, RoundsSeen(run, new),
           disk' = [disk EXCEPT ![run] = new],
           observations' = observations,
           \A c \in Calls : calls'[c] \in {Nil, calls[c]},
           degraded' \subseteq degraded
    PROVE  StepObserved
<1>1. \A r \in Runs : disk'[r] = IF r = run THEN new ELSE disk[r]
  BY DEF Inv, FilesInv
<1>2. \A r \in Runs : disk'[r] = disk[r] \/ RoundsSeen(r, disk'[r])
  BY <1>1
<1> QED
  BY <1>2 DEF StepObserved

LEMMA TransitionObserved ==
    ASSUME Inv, activeRun \in Runs, NEW new, RoundsSeen(activeRun, new), Transition(new)
    PROVE  StepObserved
  BY PutObserved DEF Transition, Persist

LEMMA WaitObserved ==
    ASSUME Inv, NEW call, RoundsSeen(call.run, call.new), Wait(call),
           UNCHANGED <<files, cache, degraded>>
    PROVE  StepObserved
<1>1. PICK c \in Calls : calls' = [calls EXCEPT ![c] = call]
  BY DEF Wait
<1>2. \A d \in Calls : calls'[d] = IF d = c THEN call ELSE calls[d]
  BY <1>1 DEF Inv, MemoryInv
<1> QED
  BY <1>2 DEF StepObserved, files

LEMMA PhaseEventObserved ==
    ASSUME Inv, ObservedInv, NEW p \in Phases, PhaseEvent(p)
    PROVE  StepObserved
<1>1. CASE EnterPhase(p)
  <2>1. Proceeds
    BY <1>1 DEF EnterPhase
  <2>2. RoundsSeen(activeRun, PhaseEnter(ActiveState, p))
    BY <2>1, ActiveSeen, EventsCountNothing
  <2> DEFINE call == [event |-> "phase_enter", run |-> activeRun, new |-> PhaseEnter(ActiveState, p)]
  <2>3. call.run = activeRun /\ call.new = PhaseEnter(ActiveState, p)
    OBVIOUS
  <2>4. Wait(call) /\ UNCHANGED <<files, cache, degraded>>
    BY <1>1 DEF EnterPhase
  <2> HIDE DEF call
  <2> QED
    BY <2>2, <2>3, <2>4, WaitObserved
<1>2. CASE StartLoop(p) \/ ApprovePhase(p) \/ Articulate(p)
           \/ \E t \in Termination : TerminateLoop(p, t)
  <2>1. Proceeds
    BY <1>2 DEF StartLoop, ApprovePhase, Articulate, TerminateLoop
  <2>2. \E new : RoundsSeen(activeRun, new) /\ Transition(new)
    BY <1>2, <2>1, ActiveSeen, EventsCountNothing
    DEF StartLoop, ApprovePhase, Articulate, TerminateLoop, RalphTerminateValid, InLoop
  <2> QED
    BY <2>1, <2>2, ActiveSeen, TransitionObserved
<1>3. ASSUME NEW clean \in BOOLEAN, SubmitFindings(p, clean) PROVE StepObserved
  <2>1. /\ Proceeds /\ ActiveState.ralph # Nil
        /\ Transition(RalphRoundFinding(ActiveState, ActiveState.ralph.round + 1, clean))
    BY <1>3 DEF SubmitFindings
  <2>2. RoundsSeen(activeRun, RalphRoundFinding(ActiveState, ActiveState.ralph.round + 1, clean))
    BY <2>1, ActiveSeen, EventsCountNothing
  <2> QED
    BY <2>1, <2>2, ActiveSeen, TransitionObserved
<1>4. ASSUME NEW round \in 1..RoundBound, NEW clean \in BOOLEAN, CompleteRound(p, round, clean)
      PROVE  StepObserved
  <2> DEFINE new  == IF ReviewerSeen(activeRun, round)
                     THEN RalphRoundComplete(ActiveState, round, clean, Issues, {})
                     ELSE Nil
             call == [event |-> "ralph_round_complete", run |-> activeRun, new |-> new]
  <2>1. Proceeds /\ RalphRoundCompleteValid(ActiveState, p, round, Issues)
    BY <1>4 DEF CompleteRound, RoundAccepted
  <2>2. RoundsSeen(activeRun, new)
    <3>1. CASE ReviewerSeen(activeRun, round)
      <4>1. RoundSeen(activeRun, round)
        BY <3>1 DEF ReviewerSeen, RoundSeen
      <4> QED
        BY <2>1, <3>1, <4>1, ActiveSeen, SeenRoundCounts
    <3>2. CASE ~ReviewerSeen(activeRun, round)
      BY <3>2 DEF RoundsSeen
    <3> QED
      BY <3>1, <3>2
  <2>3. call.run = activeRun /\ call.new = new
    OBVIOUS
  <2>4. Wait(call) /\ UNCHANGED <<files, cache, degraded>>
    BY <1>4 DEF CompleteRound
  <2> HIDE DEF call, new
  <2> QED
    BY <2>2, <2>3, <2>4, WaitObserved
<1>5. ASSUME NEW round \in 1..RoundBound, NEW clean \in BOOLEAN,
             CompleteRoundUnobserved(p, round, clean)
      PROVE  StepObserved
  <2>1. /\ Proceeds /\ RalphRoundCompleteValid(ActiveState, p, round, Issues)
        /\ <<activeRun, round>> \in degraded
        /\ Transition(RalphRoundComplete(ActiveState, round, clean, Issues, {}))
    BY <1>5 DEF CompleteRoundUnobserved, RoundAccepted
  <2>2. RoundSeen(activeRun, round)
    BY <2>1 DEF ObservedInv
  <2>3. RoundsSeen(activeRun, RalphRoundComplete(ActiveState, round, clean, Issues, {}))
    BY <2>1, <2>2, ActiveSeen, SeenRoundCounts
  <2> QED
    BY <2>1, <2>3, ActiveSeen, TransitionObserved
<1>6. CASE CompletePhase(p) \/ CrashInComplete(p)
  <2>1. Proceeds /\ disk' = [disk EXCEPT ![activeRun] = PhaseComplete(ActiveState)]
        /\ observations' = observations
    BY <1>6 DEF CompletePhase, CrashInComplete
  <2>2. (\A c \in Calls : calls'[c] \in {Nil, calls[c]}) /\ degraded' \subseteq degraded
    BY <1>6 DEF CompletePhase, CrashInComplete, Forget
  <2>3. RoundsSeen(activeRun, PhaseComplete(ActiveState))
    BY <2>1, ActiveSeen, EventsCountNothing
  <2> QED
    BY <2>1, <2>2, <2>3, ActiveSeen, PutObserved
<1>7. CASE GateRefuses(p)
  BY <1>7 DEF GateRefuses, memory, StepObserved
<1> QED
  BY <1>1, <1>2, <1>3, <1>4, <1>5, <1>6, <1>7 DEF PhaseEvent

(* The observer writes its observation of a round before it exempts it. *)
LEMMA HooksObserved ==
    ASSUME Inv, SpawnReviewer \/ ObserverFails
    PROVE  StepObserved
<1>1. CASE SpawnReviewer
  BY <1>1 DEF SpawnReviewer, Observe, StepObserved
<1>2. CASE ObserverFails
  <2>1. PICK run, round :
          /\ observations' = observations \cup
               {[type |-> "observer_degraded", run |-> run, round |-> round]}
          /\ degraded' = degraded \cup {<<run, round>>}
    BY <1>2 DEF ObserverFails, Observe
  <2>2. RoundSeen(run, round)'
    <3> DEFINE o == [type |-> "observer_degraded", run |-> run, round |-> round]
    <3>1. o.run = run /\ o.round = round
      OBVIOUS
    <3>2. o \in observations'
      BY <2>1
    <3> HIDE DEF o
    <3> QED
      BY <3>1, <3>2 DEF RoundSeen
  <2>3. \A d \in degraded' : d \in degraded \/ RoundSeen(d[1], d[2])'
    BY <2>1, <2>2
  <2>4. UNCHANGED <<disk, calls>>
    BY <1>2 DEF ObserverFails
  <2> QED
    BY <2>1, <2>3, <2>4 DEF StepObserved
<1> QED
  BY <1>1, <1>2

LEMMA NextObserved ==
    ASSUME Inv, ObservedInv, Next
    PROVE  StepObserved
<1>1. ASSUME NEW session \in Sessions, NEW force \in BOOLEAN,
             StartPipeline(session, force) \/ CrashInStart(session, force)
      PROVE  StepObserved
  <2>1. PICK run \in Runs, max \in MaxPhases :
          disk' = [disk EXCEPT ![run] = PipelineStart(max, session)]
    BY <1>1 DEF StartPipeline, CrashInStart
  <2>2. RoundsSeen(run, PipelineStart(max, session))
    BY DEF RoundsSeen, PipelineStart
  <2>3. /\ observations' = observations /\ degraded' \subseteq degraded
        /\ \A c \in Calls : calls'[c] \in {Nil, calls[c]}
    BY <1>1 DEF StartPipeline, CrashInStart, Forget
  <2> QED
    BY <2>1, <2>2, <2>3, PutObserved
<1>2. ASSUME NEW c \in Calls, Resume(c) PROVE StepObserved
  <2>1. \A d \in Calls : calls'[d] \in {Nil, calls[d]}
    BY <1>2 DEF Resume, Inv, MemoryInv
  <2>2. CASE calls[c].new = Nil
    BY <1>2, <2>1, <2>2 DEF Resume, StepObserved
  <2>3. CASE calls[c].new # Nil
    <3>1. calls[c].run \in Runs /\ RoundsSeen(calls[c].run, calls[c].new)
      BY <1>2 DEF Resume, Inv, MemoryInv, SoundCall, WaitingCall, ObservedInv
    <3>2. /\ disk' = [disk EXCEPT ![calls[c].run] = calls[c].new]
          /\ observations' = observations /\ degraded' = degraded
      BY <1>2, <2>3 DEF Resume, Persist
    <3> QED
      BY <2>1, <3>1, <3>2, PutObserved
  <2> QED
    BY <2>2, <2>3
<1>3. CASE ConfirmEvidence
  <2>1. Proceeds /\ Transition(TestEvidence(ActiveState)) /\ 1 \in Phases
    BY <1>3, PhaseConstants DEF ConfirmEvidence, Phases
  <2>2. RoundsSeen(activeRun, TestEvidence(ActiveState))
    BY <2>1, ActiveSeen, EventsCountNothing
  <2> QED
    BY <2>1, <2>2, ActiveSeen, TransitionObserved
<1>4. CASE RejectCall \/ ToolViolation \/ ToolRepaired \/ Intercept \/ BecomeStale
  BY <1>4 DEF RejectCall, ToolViolation, ToolRepaired, Intercept, BecomeStale, memory, StepObserved
<1>5. CASE LoseState
  <2>1. activeRun \in Runs
    BY <1>5, ActiveStateSound DEF LoseState
  <2>2. RoundsSeen(activeRun, Nil)
    BY DEF RoundsSeen
  <2> QED
    BY <1>5, <2>1, <2>2, PutObserved DEF LoseState, memory
<1>6. CASE Restart
  BY <1>6 DEF Restart, Forget, files, StepObserved
<1> QED
  BY <1>1, <1>2, <1>3, <1>4, <1>5, <1>6, HooksObserved, PhaseEventObserved DEF Next

(* AC-2 for any number of overlapping calls, restarts and lost files: a    *)
(* round that counts in the active loop has its observation in the file of *)
(* its run.  The query's result is fixed before the wait, but observations *)
(* are only ever added.                                                    *)
THEOREM CountedRoundsObserved == Spec => []RoundsObserved
<1>1. Init => ObservedInv
  BY DEF Init, ObservedInv, RoundsSeen
<1>2. ASSUME Inv, ObservedInv, [Next]_vars PROVE ObservedInv'
  <2>1. CASE UNCHANGED vars
    BY <1>2, <2>1 DEF vars, files, memory, ObservedInv, RoundsSeen, RoundSeen
  <2>2. CASE Next
    BY <1>2, <2>2, NextObserved, ObservedKept
  <2> QED
    BY <1>2, <2>1, <2>2
<1>3. Inv /\ ObservedInv => RoundsObserved
  <2> SUFFICES ASSUME Inv, ObservedInv, ActiveState # Nil, ActiveState.ralph # Nil,
                      NEW n \in 1..Len(ActiveState.ralph.tallyHistory)
               PROVE  RoundSeen(activeRun, n)
    BY DEF RoundsObserved, RoundSeen
  <2>1. activeRun \in Runs /\ ActiveState = disk[activeRun]
    BY ActiveStateSound DEF ActiveState
  <2> QED
    BY <2>1 DEF ObservedInv, RoundsSeen
<1> QED
  BY <1>1, <1>2, <1>3, HandlerInvariance, PTL DEF Spec

-----------------------------------------------------------------------------
(* PhaseMachine, instantiated with a run's file as its state, has guards   *)
(* and results of its own; they are those of the handler.                  *)

LEMMA SameGuards ==
    ASSUME NEW r \in Runs, NEW s, NEW p, NEW n, NEW m
    PROVE  /\ Machine(r)!PhaseEnterValid(s, p) <=> PhaseEnterValid(s, p)
           /\ Machine(r)!RalphLoopStartValid(s, p) <=> RalphLoopStartValid(s, p)
           /\ Machine(r)!RalphRoundCompleteValid(s, p, n, m) <=> RalphRoundCompleteValid(s, p, n, m)
           /\ Machine(r)!RalphRoundFindingValid(s, p, n) <=> RalphRoundFindingValid(s, p, n)
           /\ Machine(r)!UserApprovalValid(s, p) <=> UserApprovalValid(s, p)
           /\ Machine(r)!PhaseCompleteValid(s, p) <=> PhaseCompleteValid(s, p)
           /\ Machine(r)!TestEvidenceValid(s) <=> TestEvidenceValid(s)
<1>1. Machine(r)!IsFollowup(p) <=> IsFollowup(p)
  BY DEF Machine!IsFollowup, IsFollowup
<1>2. Machine(r)!InLoop(s, p) <=> InLoop(s, p)
  BY DEF Machine!InLoop, InLoop
<1>3. Machine(r)!PhaseEnterValid(s, p) <=> PhaseEnterValid(s, p)
  BY DEF Machine!PhaseEnterValid, PhaseEnterValid
<1>4. Machine(r)!RalphLoopStartValid(s, p) <=> RalphLoopStartValid(s, p)
  BY <1>1 DEF Machine!RalphLoopStartValid, RalphLoopStartValid
<1>5. Machine(r)!RalphRoundCompleteValid(s, p, n, m) <=> RalphRoundCompleteValid(s, p, n, m)
  BY <1>2 DEF Machine!RalphRoundCompleteValid, RalphRoundCompleteValid
<1>6. Machine(r)!RalphRoundFindingValid(s, p, n) <=> RalphRoundFindingValid(s, p, n)
  BY <1>2 DEF Machine!RalphRoundFindingValid, RalphRoundFindingValid
<1>7. Machine(r)!UserApprovalValid(s, p) <=> UserApprovalValid(s, p)
  BY <1>1 DEF Machine!UserApprovalValid, UserApprovalValid
<1>8. Machine(r)!PhaseCompleteValid(s, p) <=> PhaseCompleteValid(s, p)
  BY DEF Machine!PhaseCompleteValid, PhaseCompleteValid
<1>9. Machine(r)!TestEvidenceValid(s) <=> TestEvidenceValid(s)
  BY DEF Machine!TestEvidenceValid, TestEvidenceValid
<1> QED
  BY <1>3, <1>4, <1>5, <1>6, <1>7, <1>8, <1>9

LEMMA SameTermination ==
    ASSUME NEW r \in Runs, NEW s, NEW p, NEW t
    PROVE  Machine(r)!RalphTerminateValid(s, p, t) <=> RalphTerminateValid(s, p, t)
<1> DEFINE q == s.ralph
<1>1. Machine(r)!CompletedRecords(q) = CompletedRecords(q)
  BY DEF Machine!CompletedRecords, CompletedRecords
<1>2. Machine(r)!RecordsDecide(q) <=> RecordsDecide(q)
  BY <1>1 DEF Machine!RecordsDecide, RecordsDecide
<1>3. Machine(r)!Verdicts(q) = Verdicts(q)
  BY <1>1, <1>2 DEF Machine!Verdicts, Verdicts
<1>4. \A v, n : Machine(r)!EndsWithClean(v, n) <=> EndsWithClean(v, n)
  BY DEF Machine!EndsWithClean, EndsWithClean
<1>5. \A v : Machine(r)!EndsDirty(v) <=> EndsDirty(v)
  BY DEF Machine!EndsDirty, EndsDirty
<1>6. Machine(r)!TerminationEarned(q, t) <=> TerminationEarned(q, t)
  BY <1>2, <1>3, <1>4, <1>5 DEF Machine!TerminationEarned, TerminationEarned
<1>7. Machine(r)!InLoop(s, p) <=> InLoop(s, p)
  BY DEF Machine!InLoop, InLoop
<1> QED
  BY <1>6, <1>7 DEF Machine!RalphTerminateValid, RalphTerminateValid

LEMMA SameResults ==
    ASSUME NEW r \in Runs, NEW s, NEW p, NEW n, NEW clean, NEW accepted, NEW raised, NEW t
    PROVE  /\ Machine(r)!PhaseEnter(s, p) = PhaseEnter(s, p)
           /\ Machine(r)!RalphLoopStart(s, p) = RalphLoopStart(s, p)
           /\ Machine(r)!RalphRoundComplete(s, n, clean, accepted, raised)
                = RalphRoundComplete(s, n, clean, accepted, raised)
           /\ Machine(r)!RalphRoundFinding(s, n, clean) = RalphRoundFinding(s, n, clean)
           /\ Machine(r)!RalphTerminate(s, p, t) = RalphTerminate(s, p, t)
           /\ Machine(r)!UserApproval(s, p) = UserApproval(s, p)
           /\ Machine(r)!PhaseComplete(s) = PhaseComplete(s)
           /\ Machine(r)!TestEvidence(s) = TestEvidence(s)
<1>1. Machine(r)!IsFollowup(p) <=> IsFollowup(p)
  BY DEF Machine!IsFollowup, IsFollowup
<1>2. Machine(r)!PhaseEnter(s, p) = PhaseEnter(s, p)
  BY DEF Machine!PhaseEnter, PhaseEnter, Machine!FreshPhase, FreshPhase
<1>3. Machine(r)!RalphLoopStart(s, p) = RalphLoopStart(s, p)
  BY DEF Machine!RalphLoopStart, RalphLoopStart, Machine!FreshLoop, FreshLoop
<1>4. Machine(r)!RalphRoundComplete(s, n, clean, accepted, raised)
                = RalphRoundComplete(s, n, clean, accepted, raised)
  BY DEF Machine!RalphRoundComplete, RalphRoundComplete
<1>5. Machine(r)!RalphRoundFinding(s, n, clean) = RalphRoundFinding(s, n, clean)
  BY DEF Machine!RalphRoundFinding, RalphRoundFinding
<1>6. Machine(r)!RalphTerminate(s, p, t) = RalphTerminate(s, p, t)
  BY DEF Machine!RalphTerminate, RalphTerminate
<1>7. Machine(r)!UserApproval(s, p) = UserApproval(s, p)
  <2>1. CASE IsFollowup(p)
    BY <1>1, <2>1 DEF Machine!UserApproval, UserApproval
  <2>2. CASE ~IsFollowup(p)
    BY <1>1, <2>2 DEF Machine!UserApproval, UserApproval
  <2> QED
    BY <2>1, <2>2
<1>8. Machine(r)!PhaseComplete(s) = PhaseComplete(s)
  BY DEF Machine!PhaseComplete, PhaseComplete
<1>9. Machine(r)!TestEvidence(s) = TestEvidence(s)
  BY DEF Machine!TestEvidence, TestEvidence
<1> QED
  BY <1>2, <1>3, <1>4, <1>5, <1>6, <1>7, <1>8, <1>9

(* One event, from a state value to another: PhaseMachine's Next.  The     *)
(* handler's rounds resolve every issue and raise none.                    *)
Event(s, t) ==
    \/ \E p \in Phases :
        \/ PhaseEnterValid(s, p) /\ t = PhaseEnter(s, p)
        \/ RalphLoopStartValid(s, p) /\ t = RalphLoopStart(s, p)
        \/ \E clean \in BOOLEAN :
            /\ s.ralph # Nil /\ s.ralph.round < RoundBound
            /\ RalphRoundCompleteValid(s, p, s.ralph.round + 1, Issues)
            /\ t = RalphRoundComplete(s, s.ralph.round + 1, clean, Issues, {})
        \/ \E clean \in BOOLEAN :
            /\ s.ralph # Nil /\ s.ralph.round < RoundBound
            /\ RalphRoundFindingValid(s, p, s.ralph.round + 1)
            /\ t = RalphRoundFinding(s, s.ralph.round + 1, clean)
        \/ \E termination \in Termination :
            RalphTerminateValid(s, p, termination) /\ t = RalphTerminate(s, p, termination)
        \/ UserApprovalValid(s, p) /\ t = UserApproval(s, p)
        \/ PhaseCompleteValid(s, p) /\ t = PhaseComplete(s)
    \/ TestEvidenceValid(s) /\ t = TestEvidence(s)

LEMMA EventIsMachineStep ==
    ASSUME NEW r \in Runs, Event(disk[r], disk'[r])
    PROVE  Machine(r)!Next
<1> DEFINE s == disk[r]
           t == disk'[r]
<1>1. Machine(r)!Phases = Phases /\ Machine(r)!Termination = Termination
  BY DEF Machine!Phases, Phases, Machine!Termination, Termination
<1>2. ASSUME NEW p \in Phases, PhaseEnterValid(s, p), t = PhaseEnter(s, p)
      PROVE  Machine(r)!EnterPhase(p)
  BY <1>2, SameGuards, SameResults DEF Machine!EnterPhase
<1>3. ASSUME NEW p \in Phases, RalphLoopStartValid(s, p), t = RalphLoopStart(s, p)
      PROVE  Machine(r)!StartLoop(p)
  BY <1>3, SameGuards, SameResults DEF Machine!StartLoop
<1>4. ASSUME NEW p \in Phases, NEW clean \in BOOLEAN,
             s.ralph # Nil, s.ralph.round < RoundBound,
             RalphRoundCompleteValid(s, p, s.ralph.round + 1, Issues),
             t = RalphRoundComplete(s, s.ralph.round + 1, clean, Issues, {})
      PROVE  Machine(r)!CompleteRound(p)
  <2>1. Issues \in SUBSET Issues /\ {} \in SUBSET Issues
    OBVIOUS
  <2> QED
    BY <1>4, <2>1, SameGuards, SameResults DEF Machine!CompleteRound
<1>5. ASSUME NEW p \in Phases, NEW clean \in BOOLEAN,
             s.ralph # Nil, s.ralph.round < RoundBound,
             RalphRoundFindingValid(s, p, s.ralph.round + 1),
             t = RalphRoundFinding(s, s.ralph.round + 1, clean)
      PROVE  Machine(r)!SubmitFindings(p)
  BY <1>5, SameGuards, SameResults DEF Machine!SubmitFindings
<1>6. ASSUME NEW p \in Phases, NEW termination \in Termination,
             RalphTerminateValid(s, p, termination), t = RalphTerminate(s, p, termination)
      PROVE  Machine(r)!TerminateLoop(p)
  BY <1>1, <1>6, SameTermination, SameResults DEF Machine!TerminateLoop
<1>7. ASSUME NEW p \in Phases, UserApprovalValid(s, p), t = UserApproval(s, p)
      PROVE  Machine(r)!ApprovePhase(p)
  BY <1>7, SameGuards, SameResults DEF Machine!ApprovePhase
<1>8. ASSUME NEW p \in Phases, PhaseCompleteValid(s, p), t = PhaseComplete(s)
      PROVE  Machine(r)!CompletePhase(p)
  BY <1>8, SameGuards, SameResults DEF Machine!CompletePhase
<1>9. ASSUME TestEvidenceValid(s), t = TestEvidence(s)
      PROVE  Machine(r)!ConfirmEvidence
  BY <1>9, SameGuards, SameResults DEF Machine!ConfirmEvidence
<1> QED
  BY <1>1, <1>2, <1>3, <1>4, <1>5, <1>6, <1>7, <1>8, <1>9 DEF Event, Machine!Next

-----------------------------------------------------------------------------
(* At most one call waits, and what it will write is an event of the state *)
(* it has read, because nobody writes meanwhile.                           *)
PendingInv ==
    /\ \A c, d \in Calls : calls[c] # Nil /\ calls[d] # Nil => c = d
    /\ \A c \in Calls : calls[c] # Nil /\ calls[c].new # Nil =>
           ActiveState # Nil /\ Event(ActiveState, calls[c].new)

StepIsEvent == \A r \in Runs : disk[r] \in {Nil, disk'[r]} \/ Event(disk[r], disk'[r])

(* What a step does to the waiting calls: it leaves or drops them, ends with *)
(* none, or makes one call wait that will write an event.                    *)
CallsLeft == UNCHANGED <<activeRun, disk>> /\ \A c \in Calls : calls'[c] \in {Nil, calls[c]}

CallBegins ==
    /\ NoneWaiting /\ UNCHANGED <<activeRun, disk>>
    /\ \E call \in SoundCall :
        /\ Wait(call)
        /\ call.new # Nil => ActiveState # Nil /\ Event(ActiveState, call.new)

StepPending == CallsLeft \/ NoneWaiting' \/ CallBegins

LEMMA PendingKept ==
    ASSUME Inv, PendingInv, StepPending
    PROVE  PendingInv'
<1>1. CASE CallsLeft
  <2>1. ActiveState' = ActiveState
    BY <1>1 DEF CallsLeft, ActiveState
  <2> QED
    BY <1>1, <2>1 DEF CallsLeft, PendingInv
<1>2. CASE NoneWaiting'
  BY <1>2 DEF NoneWaiting, PendingInv
<1>3. CASE CallBegins
  <2>1. ActiveState' = ActiveState
    BY <1>3 DEF CallBegins, ActiveState
  <2>2. PICK call \in SoundCall :
          /\ Wait(call)
          /\ call.new # Nil => ActiveState # Nil /\ Event(ActiveState, call.new)
    BY <1>3 DEF CallBegins
  <2>3. PICK c \in Calls : calls' = [calls EXCEPT ![c] = call]
    BY <2>2 DEF Wait
  <2>4. \A d \in Calls : calls'[d] = IF d = c THEN call ELSE Nil
    BY <1>3, <2>3 DEF CallBegins, NoneWaiting, Inv, MemoryInv
  <2> QED
    BY <2>1, <2>2, <2>4 DEF PendingInv
<1> QED
  BY <1>1, <1>2, <1>3 DEF StepPending

LEMMA PutIsEvent ==
    ASSUME Inv, Proceeds, NEW new, disk' = [disk EXCEPT ![activeRun] = new],
           new = ActiveState \/ Event(ActiveState, new)
    PROVE  StepIsEvent
<1>1. activeRun \in Runs /\ ActiveState = disk[activeRun]
  BY ProceedsSound DEF ActiveState
<1>2. \A r \in Runs : disk'[r] = IF r = activeRun THEN new ELSE disk[r]
  BY <1>1 DEF Inv, FilesInv
<1> QED
  BY <1>1, <1>2 DEF StepIsEvent

LEMMA TransitionIsEvent ==
    ASSUME Inv, Sequential, Proceeds, NEW new, Transition(new),
           new = ActiveState \/ Event(ActiveState, new)
    PROVE  StepIsEvent /\ StepPending
<1>1. StepIsEvent
  BY PutIsEvent DEF Transition, Persist
<1>2. NoneWaiting'
  BY DEF Transition, Proceeds, Arrives, NoneWaiting
<1> QED
  BY <1>1, <1>2 DEF StepPending

LEMMA WaitIsEvent ==
    ASSUME Inv, Sequential, Proceeds, NEW call \in SoundCall, Wait(call),
           UNCHANGED <<files, cache, degraded>>,
           call.new # Nil => Event(ActiveState, call.new)
    PROVE  StepIsEvent /\ StepPending
<1>1. NoneWaiting /\ ActiveState # Nil /\ UNCHANGED <<activeRun, disk>>
  BY DEF Proceeds, Arrives, files
<1> QED
  BY <1>1 DEF StepIsEvent, StepPending, CallBegins

LEMMA PhaseEventIsEvent ==
    ASSUME Inv, Sequential, NEW p \in Phases, PhaseEvent(p)
    PROVE  StepIsEvent /\ StepPending
<1>1. CASE EnterPhase(p)
  <2> DEFINE call == [event |-> "phase_enter", run |-> activeRun, new |-> PhaseEnter(ActiveState, p)]
  <2>1. Proceeds /\ Wait(call) /\ UNCHANGED <<files, cache, degraded>>
    BY <1>1 DEF EnterPhase
  <2>2. Event(ActiveState, PhaseEnter(ActiveState, p))
    BY <1>1 DEF EnterPhase, Event
  <2>3. activeRun \in Runs /\ PhaseEnter(ActiveState, p) \in Sound
    BY <1>1, ProceedsSound, SoundEvents DEF EnterPhase
  <2>4. call \in SoundCall
    BY <2>3, SoundIsState DEF SoundCall, WaitingCall, MaybeSound
  <2>5. call.new = PhaseEnter(ActiveState, p)
    OBVIOUS
  <2> HIDE DEF call
  <2> QED
    BY <2>1, <2>2, <2>4, <2>5, WaitIsEvent
<1>2. CASE StartLoop(p) \/ ApprovePhase(p) \/ Articulate(p)
           \/ \E t \in Termination : TerminateLoop(p, t)
  <2>1. \E new : /\ Proceeds /\ Transition(new)
                 /\ new = ActiveState \/ Event(ActiveState, new)
    BY <1>2 DEF StartLoop, ApprovePhase, Articulate, TerminateLoop, Event
  <2> QED
    BY <2>1, TransitionIsEvent
<1>3. ASSUME NEW clean \in BOOLEAN, SubmitFindings(p, clean) PROVE StepIsEvent /\ StepPending
  <2> DEFINE new == RalphRoundFinding(ActiveState, ActiveState.ralph.round + 1, clean)
  <2>1. Proceeds /\ Transition(new) /\ Event(ActiveState, new)
    BY <1>3 DEF SubmitFindings, Event
  <2> HIDE DEF new
  <2> QED
    BY <2>1, TransitionIsEvent
<1>4. ASSUME NEW round \in 1..RoundBound, NEW clean \in BOOLEAN, RoundAccepted(p, round)
      PROVE  /\ Proceeds /\ ActiveState.ralph # Nil
             /\ Event(ActiveState, RalphRoundComplete(ActiveState, round, clean, Issues, {}))
  <2>1. /\ Proceeds /\ RalphRoundCompleteValid(ActiveState, p, round, Issues)
        /\ ActiveState.ralph # Nil /\ round = ActiveState.ralph.round + 1
    BY <1>4 DEF RoundAccepted, RalphRoundCompleteValid, InLoop
  <2>2. ActiveState.ralph.round \in Nat
    BY <2>1, ProceedsSound, SoundIsState DEF PipelineState, RalphLoop
  <2>3. ActiveState.ralph.round < RoundBound
    BY <2>1, <2>2, HandlerConstants
  <2> QED
    BY <2>1, <2>3 DEF Event
<1>5. ASSUME NEW round \in 1..RoundBound, NEW clean \in BOOLEAN, CompleteRound(p, round, clean)
      PROVE  StepIsEvent /\ StepPending
  <2> DEFINE new  == IF ReviewerSeen(activeRun, round)
                     THEN RalphRoundComplete(ActiveState, round, clean, Issues, {})
                     ELSE Nil
             call == [event |-> "ralph_round_complete", run |-> activeRun, new |-> new]
  <2>1. Proceeds /\ Wait(call) /\ UNCHANGED <<files, cache, degraded>>
    BY <1>5 DEF CompleteRound, RoundAccepted
  <2>2. Event(ActiveState, RalphRoundComplete(ActiveState, round, clean, Issues, {}))
    BY <1>4, <1>5 DEF CompleteRound
  <2>3. new # Nil => Event(ActiveState, new)
    BY <2>2
  <2>4. round \in Nat
    BY HandlerConstants
  <2>5. activeRun \in Runs /\ new \in MaybeSound
    BY <1>5, <2>4, ProceedsSound, SoundRounds DEF CompleteRound, RoundAccepted, MaybeSound
  <2> HIDE DEF new
  <2>6. call \in SoundCall /\ call.new = new
    BY <2>5, SoundIsState DEF SoundCall, WaitingCall, MaybeSound
  <2> HIDE DEF call
  <2> QED
    BY <2>1, <2>3, <2>6, WaitIsEvent
<1>6. ASSUME NEW round \in 1..RoundBound, NEW clean \in BOOLEAN,
             CompleteRoundUnobserved(p, round, clean)
      PROVE  StepIsEvent /\ StepPending
  <2> DEFINE new == RalphRoundComplete(ActiveState, round, clean, Issues, {})
  <2>1. Proceeds /\ Transition(new) /\ Event(ActiveState, new)
    BY <1>4, <1>6 DEF CompleteRoundUnobserved
  <2> HIDE DEF new
  <2> QED
    BY <2>1, TransitionIsEvent
<1>7. CASE CompletePhase(p) \/ CrashInComplete(p)
  <2>1. /\ Proceeds /\ PhaseCompleteValid(ActiveState, p)
        /\ disk' = [disk EXCEPT ![activeRun] = PhaseComplete(ActiveState)]
    BY <1>7 DEF CompletePhase, CrashInComplete
  <2>2. Event(ActiveState, PhaseComplete(ActiveState))
    BY <2>1 DEF Event
  <2>3. NoneWaiting'
    BY <1>7, <2>1 DEF CompletePhase, CrashInComplete, Forget, Proceeds, Arrives, NoneWaiting
  <2> QED
    BY <2>1, <2>2, <2>3, PutIsEvent DEF StepPending
<1>8. CASE GateRefuses(p)
  BY <1>8 DEF GateRefuses, memory, StepIsEvent, StepPending, CallsLeft
<1> QED
  BY <1>1, <1>2, <1>3, <1>5, <1>6, <1>7, <1>8 DEF PhaseEvent

LEMMA ResumeIsEvent ==
    ASSUME Inv, CallsOfActive, PendingInv, NEW c \in Calls, Resume(c)
    PROVE  StepIsEvent /\ StepPending
<1>1. NoneWaiting'
  <2>1. \A d \in Calls : calls'[d] = IF d = c THEN Nil ELSE calls[d]
    BY DEF Resume, Inv, MemoryInv
  <2> QED
    BY <2>1 DEF Resume, PendingInv, NoneWaiting
<1>2. CASE calls[c].new = Nil
  BY <1>1, <1>2 DEF Resume, StepIsEvent, StepPending
<1>3. CASE calls[c].new # Nil
  <2>1. /\ calls[c].run = activeRun /\ activeRun \in Runs
        /\ ActiveState # Nil /\ Event(ActiveState, calls[c].new)
    BY <1>3 DEF Resume, CallsOfActive, PendingInv, Inv, MemoryInv, SoundCall, WaitingCall
  <2>2. disk' = [disk EXCEPT ![activeRun] = calls[c].new]
    BY <1>3, <2>1 DEF Resume, Persist
  <2>3. ActiveState = disk[activeRun]
    BY <2>1 DEF ActiveState
  <2>4. \A r \in Runs : disk'[r] = IF r = activeRun THEN calls[c].new ELSE disk[r]
    BY <2>1, <2>2 DEF Inv, FilesInv
  <2>5. StepIsEvent
    BY <2>1, <2>3, <2>4 DEF StepIsEvent
  <2> QED
    BY <1>1, <2>5 DEF StepPending
<1> QED
  BY <1>2, <1>3

LEMMA NextIsEvent ==
    ASSUME Inv, CallsOfActive, PendingInv, Next, Sequential, "corruption" \notin Faults
    PROVE  StepIsEvent /\ StepPending
<1>1. ASSUME NEW session \in Sessions, NEW force \in BOOLEAN,
             StartPipeline(session, force) \/ CrashInStart(session, force)
      PROVE  StepIsEvent /\ StepPending
  <2>1. PICK run \in Runs, max \in MaxPhases :
          /\ disk[run] = Nil
          /\ disk' = [disk EXCEPT ![run] = PipelineStart(max, session)]
    BY <1>1 DEF StartPipeline, CrashInStart, FreshRun
  <2>2. \A r \in Runs : disk[r] \in {Nil, disk'[r]}
    BY <2>1 DEF Inv, FilesInv
  <2>3. NoneWaiting'
    BY <1>1 DEF StartPipeline, CrashInStart, Forget, Arrives, NoneWaiting
  <2> QED
    BY <2>2, <2>3 DEF StepIsEvent, StepPending
<1>2. CASE ConfirmEvidence
  <2>1. /\ Proceeds /\ Transition(TestEvidence(ActiveState))
        /\ Event(ActiveState, TestEvidence(ActiveState))
    BY <1>2 DEF ConfirmEvidence, Event
  <2> QED
    BY <2>1, TransitionIsEvent
<1>3. CASE RejectCall \/ SpawnReviewer \/ ObserverFails \/ ToolViolation \/ ToolRepaired
           \/ Intercept \/ BecomeStale
  <2>1. UNCHANGED <<activeRun, disk, calls>>
    BY <1>3 DEF RejectCall, SpawnReviewer, ObserverFails, ToolViolation, ToolRepaired,
                Intercept, BecomeStale, memory
  <2> QED
    BY <2>1 DEF StepIsEvent, StepPending, CallsLeft
<1>4. CASE Restart
  BY <1>4 DEF Restart, Forget, files, StepIsEvent, StepPending, NoneWaiting
<1>5. ~LoseState
  BY DEF LoseState
<1> QED
  BY <1>1, <1>2, <1>3, <1>4, <1>5, ResumeIsEvent, PhaseEventIsEvent DEF Next

LEMMA PendingInvariance ==
    ASSUME Sequential, "corruption" \notin Faults
    PROVE  Spec => [](Inv /\ TurnInv /\ PendingInv)
<1>1. Init => PendingInv
  BY DEF Init, PendingInv
<1>2. ASSUME Inv, TurnInv, PendingInv, [Next]_vars PROVE PendingInv'
  <2>1. CASE UNCHANGED vars
    <3>1. StepPending
      BY <2>1 DEF vars, files, memory, StepPending, CallsLeft
    <3> QED
      BY <1>2, <3>1, PendingKept
  <2>2. CASE Next
    BY <1>2, <2>2, NextIsEvent, PendingKept DEF TurnInv
  <2> QED
    BY <1>2, <2>1, <2>2
<1> QED
  BY <1>1, <1>2, TurnInvariance, PTL DEF Spec

LEMMA StepsAreEvents ==
    ASSUME Sequential, "corruption" \notin Faults, Inv, TurnInv, PendingInv, [Next]_vars
    PROVE  StepIsEvent
<1>1. CASE UNCHANGED vars
  BY <1>1 DEF vars, files, StepIsEvent
<1>2. CASE Next
  BY <1>2, NextIsEvent DEF TurnInv
<1> QED
  BY <1>1, <1>2

(* One call at a time: whatever crashes and waits come between, a write to *)
(* a run's state file is one event of PhaseMachine applied to what the     *)
(* file held.                                                              *)
THEOREM EveryWriteIsAnEvent ==
    ASSUME Sequential, "corruption" \notin Faults
    PROVE  Spec => WritesAreEvents
<1>1. ASSUME Inv, TurnInv, PendingInv, [Next]_vars
      PROVE  \A r \in Runs : disk[r] \in {Nil, disk'[r]} \/ Machine(r)!Next
  BY <1>1, StepsAreEvents, EventIsMachineStep DEF StepIsEvent
<1> QED
  BY <1>1, PendingInvariance, PTL DEF Spec, WritesAreEvents

LEMMA EventGoesForward ==
    ASSUME NEW s \in Sound, NEW t, Event(s, t)
    PROVE  t.currentPhase >= s.currentPhase
<1>1. s \in PipelineState /\ s.currentPhase \in Nat
  BY SoundIsState, PhaseConstants DEF PipelineState
<1>2. ASSUME NEW p \in Phases, PhaseEnterValid(s, p), t = PhaseEnter(s, p)
      PROVE  t.currentPhase >= s.currentPhase
  BY <1>1, <1>2 DEF PhaseEnterValid, PhaseEnter, PipelineState, Phases
<1>3. CASE t.currentPhase = s.currentPhase
  BY <1>1, <1>3
<1> QED
  BY <1>1, <1>2, <1>3 DEF Event, RalphLoopStart, RalphRoundComplete, RalphRoundFinding,
     RalphTerminate, UserApproval, PhaseComplete, TestEvidence, PipelineState

(* "Phase transitions must be monotonically forward" (transitions.ts): the *)
(* file of a run keeps this as long as calls do not overlap.  What TLC     *)
(* finds for calls that do is therefore the overlap's doing alone.         *)
THEOREM PhasesForwardInTurn ==
    ASSUME Sequential, "corruption" \notin Faults
    PROVE  Spec => PhasesForward
<1>1. ASSUME Inv, TurnInv, PendingInv, [Next]_vars
      PROVE  \A r \in Runs : disk[r] # Nil => disk'[r].currentPhase >= disk[r].currentPhase
  <2> SUFFICES ASSUME NEW r \in Runs, disk[r] # Nil
               PROVE  disk'[r].currentPhase >= disk[r].currentPhase
    OBVIOUS
  <2>1. disk[r] \in Sound
    BY <1>1 DEF Inv, FilesInv, MaybeSound
  <2>2. disk'[r] = disk[r] \/ Event(disk[r], disk'[r])
    BY <1>1, StepsAreEvents DEF StepIsEvent
  <2>3. disk[r].currentPhase >= disk[r].currentPhase
    BY <2>1, SoundIsState, PhaseConstants DEF PipelineState
  <2> QED
    BY <2>1, <2>2, <2>3, EventGoesForward
<1> QED
  BY <1>1, PendingInvariance, PTL DEF Spec, PhasesForward

LEMMA EventKeepsApprovals ==
    ASSUME NEW s \in Sound, NEW t, Event(s, t), NEW q \in Phases, Approved(s, q)
    PROVE  Approved(t, q)
<1>1. s \in PipelineState /\ StateInv(s)
  BY DEF Sound
<1>2. s.phases \in [Phases -> PhaseRecord \cup {Nil}] /\ s.phases[q] \in PhaseRecord
      /\ s.phases[q].userApproved
  BY <1>1 DEF PipelineState, Approved, Entered
<1>3. ASSUME t.phases[q] = s.phases[q] PROVE Approved(t, q)
  BY <1>3 DEF Approved, Entered
<1>4. ASSUME NEW p \in Phases, PhaseEnterValid(s, p), t = PhaseEnter(s, p) PROVE Approved(t, q)
  <2>1. q # p
    BY <1>1, <1>4, EnterOnlyNext, PhaseConstants
    DEF StateInv, PhasesInOrder, Approved, PipelineState, Phases
  <2>2. t.phases[q] = s.phases[q]
    BY <1>1, <1>2, <1>4, <2>1 DEF PhaseEnter, PipelineState
  <2> QED
    BY <1>3, <2>2
<1>5. ASSUME NEW p \in Phases, NEW rec \in PhaseRecord, t.phases = [s.phases EXCEPT ![p] = rec],
             rec.userApproved \/ rec.userApproved = s.phases[p].userApproved
      PROVE  Approved(t, q)
  <2>1. rec # Nil
    BY NilAssumption
  <2>2. CASE p = q
    <3>1. t.phases[q] = rec /\ rec.userApproved
      BY <1>2, <1>5, <2>2
    <3> QED
      BY <2>1, <3>1 DEF Approved, Entered
  <2>3. CASE p # q
    <3>1. t.phases[q] = s.phases[q]
      BY <1>2, <1>5, <2>3
    <3> QED
      BY <1>3, <3>1
  <2> QED
    BY <2>2, <2>3
<1>6. ASSUME NEW p \in Phases, NEW termination \in Termination,
             RalphTerminateValid(s, p, termination), t = RalphTerminate(s, p, termination)
      PROVE  Approved(t, q)
  <2> DEFINE rec == [s.phases[p] EXCEPT !.ralphCompleted = TRUE, !.ralphTermination = termination]
  <2>1. p = s.currentPhase
    BY <1>6 DEF RalphTerminateValid, InLoop
  <2>2. s.phases[p] \in PhaseRecord
    BY <1>1, <2>1, PhaseConstants DEF StateInv, PhasesInOrder, Entered, PipelineState, Phases
  <2>3. rec \in PhaseRecord /\ rec.userApproved = s.phases[p].userApproved
    BY <2>2 DEF PhaseRecord
  <2>4. t.phases = [s.phases EXCEPT ![p] = rec]
    BY <1>1, <1>6 DEF RalphTerminate, PipelineState
  <2> HIDE DEF rec
  <2> QED
    BY <1>5, <2>3, <2>4
<1>7. ASSUME NEW p \in Phases, UserApprovalValid(s, p), t = UserApproval(s, p) PROVE Approved(t, q)
  <2> DEFINE rec == [s.phases[p] EXCEPT !.userApproved = TRUE]
  <2>1. s.phases[p] \in PhaseRecord
    BY <1>1, <1>7 DEF UserApprovalValid, PipelineState
  <2>2. rec \in PhaseRecord /\ rec.userApproved
    BY <2>1 DEF PhaseRecord
  <2>3. t.phases = [s.phases EXCEPT ![p] = rec]
    BY <1>1, <1>7 DEF UserApproval, PipelineState
  <2> HIDE DEF rec
  <2> QED
    BY <1>5, <2>2, <2>3
<1>8. CASE t.phases = s.phases
  BY <1>3, <1>8
<1> QED
  BY <1>1, <1>4, <1>6, <1>7, <1>8
  DEF Event, RalphLoopStart, RalphRoundComplete, RalphRoundFinding, PhaseComplete, TestEvidence,
      PipelineState

(* No write to a run's file takes back the user's approval of a phase. *)
ApprovalsLast ==
    [][\A r \in Runs, p \in Phases :
          disk[r] # Nil /\ Approved(disk[r], p) => Approved(disk'[r], p)]_disk

(* One call at a time: an approval written to a run's file is there for    *)
(* good. It is only overlapping calls that lose one (see PhasesForward).   *)
THEOREM ApprovalsLastInTurn ==
    ASSUME Sequential, "corruption" \notin Faults
    PROVE  Spec => ApprovalsLast
<1>1. ASSUME Inv, TurnInv, PendingInv, [Next]_vars
      PROVE  \A r \in Runs, p \in Phases :
                disk[r] # Nil /\ Approved(disk[r], p) => Approved(disk'[r], p)
  <2> SUFFICES ASSUME NEW r \in Runs, NEW p \in Phases, disk[r] # Nil, Approved(disk[r], p)
               PROVE  Approved(disk'[r], p)
    OBVIOUS
  <2>1. disk[r] \in Sound
    BY <1>1 DEF Inv, FilesInv, MaybeSound
  <2>2. disk'[r] = disk[r] \/ Event(disk[r], disk'[r])
    BY <1>1, StepsAreEvents DEF StepIsEvent
  <2> QED
    BY <2>1, <2>2, EventKeepsApprovals
<1> QED
  BY <1>1, PendingInvariance, PTL DEF Spec, ApprovalsLast
=============================================================================

------------------------ MODULE PipelineNesting_proofs ------------------------
(***************************************************************************)
(* Proofs about PipelineNesting: type correctness, that suspended runs are *)
(* kept, and the limit of nesting.  Without reported children, repaired    *)
(* orphans and force no entry ever leaves the stack, and that is the whole *)
(* argument: a run at a standstill was put on the stack first (Kept), and  *)
(* the active run is at most one level deeper than some entry (Limited).   *)
(* The next section shows that a standstill leads out again, since only a  *)
(* run at work is suspended, and that a finished run stays finished, since *)
(* none at a standstill finishes.  The last one shows that one run at most *)
(* is at work: a run leaves the pointer only at rest, and what is at rest  *)
(* moves again only under the pointer.                                     *)
(***************************************************************************)
EXTENDS NestingProperties, InductionLemmas, SequenceTheorems

(* Entries and waiting calls refer to runs that were started. *)
KnownEntry ==
    {e \in Entry : /\ state[e.runId] # Nil
                   /\ e.depth = state[e.runId].depth
                   /\ e.childRunId # Nil => state[e.childRunId] # Nil}

KnownCall ==
    {c \in WaitingCall : /\ state[c.run] # Nil
                         /\ c.new.depth = state[c.run].depth
                         /\ c.new.phaseStatus # "suspended"}

Known ==
    /\ world \in Worlds
    /\ active \in Runs \cup {Nil}
    /\ active # Nil => state[active] # Nil
    /\ state \in [Runs -> NestedState \cup {Nil}]
    /\ stack \in Seq(KnownEntry)
    /\ finished \subseteq Runs
    /\ deferred \subseteq Runs
    /\ waiting \in KnownCall \cup {Nil}

(* A pause keeps the status of before: a paused run may be suspended again. *)
Standing(s) == "suspended" \in {s.phaseStatus, s.prePauseStatus}

Standstill ==
    {r \in Runs : \/ state[r] # Nil /\ Standing(state[r])
                  \/ waiting # Nil /\ waiting.run = r /\ Standing(waiting.new)}

Stacked == {stack[i].runId : i \in DOMAIN stack}

Unreported == world.can \cap {"setChildRunId", "detectOrphanedSuspend"} = {}

Undisturbed ==
    world.can \cap {"force", "setChildRunId", "detectOrphanedSuspend", "handlePhaseFail"} = {}

NoChild == \A i \in DOMAIN stack : stack[i].childRunId = Nil

DepthLimited ==
    /\ \A r \in Started : state[r].depth <= MAX_DEPTH
    /\ \A r \in Standstill : state[r].depth < MAX_DEPTH

ActiveAbove ==
    active # Nil /\ stack # <<>> =>
        \E i \in DOMAIN stack : state[active].depth <= stack[i].depth + 1

Limited ==
    /\ NoChild
    /\ active \in Standstill => active \in Stacked
    /\ DepthLimited
    /\ ActiveAbove

Kept == Standstill \subseteq Stacked

Inv ==
    /\ Known
    /\ Unreported => Limited
    /\ Undisturbed => Kept

-----------------------------------------------------------------------------
(* Known *)

(* States are written, never removed, and their depth never changes. *)
Steady ==
    /\ state' \in [Runs -> NestedState \cup {Nil}]
    /\ \A r \in Runs : state[r] # Nil => state'[r] # Nil /\ state'[r].depth = state[r].depth

LEMMA WriteSteady ==
    ASSUME Known, NEW r \in Runs, NEW new \in NestedState,
           state[r] # Nil => new.depth = state[r].depth,
           state' = [state EXCEPT ![r] = new]
    PROVE  Steady /\ state'[r] = new
  BY NilAssumption DEF Known, Steady

LEMMA SteadyKnown ==
    ASSUME Known, Steady
    PROVE  KnownEntry \subseteq KnownEntry' /\ KnownCall \subseteq KnownCall'
<1>1. KnownEntry \subseteq KnownEntry'
  BY DEF Steady, KnownEntry, Entry
<1>2. KnownCall \subseteq KnownCall'
  BY DEF Steady, KnownCall, WaitingCall
<1> QED
  BY <1>1, <1>2

LEMMA StackGrowsKnown ==
    ASSUME Known, Steady
    PROVE  \A s \in Seq(KnownEntry) : s \in Seq(KnownEntry')
  BY SteadyKnown

(* What a step must show to keep Known. *)
LEMMA KnownStep ==
    ASSUME Known, Steady, world' = world, stack' \in Seq(KnownEntry'),
           active' \in Runs \cup {Nil}, active' # Nil => state'[active'] # Nil,
           finished' \subseteq Runs, deferred' \subseteq Runs,
           waiting' \in KnownCall' \cup {Nil}
    PROVE  Known'
  BY DEF Known, Steady

LEMMA TopOfStack ==
    ASSUME NEW S, NEW s \in Seq(S), s # <<>>
    PROVE  /\ Top(s) \in S
           /\ Len(s) \in DOMAIN s
           /\ Popped(s) \in Seq(S)
  BY DEF Top, Popped

LEMMA FoundKnown ==
    ASSUME Known
    PROVE  /\ FoundRun \in Runs \cup {Nil}
           /\ FoundRun # Nil => state[FoundRun] # Nil /\ state[FoundRun] \in NestedState
           /\ CleanStack \in Seq(KnownEntry)
<1>1. CleanStack \in Seq(KnownEntry)
  BY TopOfStack DEF CleanStack, Known
<1>2. stack # <<>> => Top(stack).runId \in Runs /\ state[Top(stack).runId] # Nil
  <2>1. stack # <<>> => Top(stack) \in KnownEntry
    BY TopOfStack DEF Known
  <2> QED
    BY <2>1 DEF KnownEntry, Entry
<1>3. FoundRun \in Runs \cup {Nil} /\ (FoundRun # Nil => state[FoundRun] # Nil)
  BY <1>2 DEF FoundRun, Known
<1> QED
  BY <1>1, <1>3 DEF Known

LEMMA EntryPushed ==
    ASSUME Known, NEW r \in Runs, state[r] # Nil
    PROVE  Push(r) \in Seq(KnownEntry)
<1> DEFINE e == [runId      |-> r,
                 depth      |-> state[r].depth,
                 inPhase    |-> state[r].phaseStatus # "idle",
                 childRunId |-> Nil]
<1>1. state[r] \in NestedState
  BY DEF Known
<1>2. e \in KnownEntry
  BY <1>1 DEF KnownEntry, Entry, NestedState
<1> HIDE DEF e
<1>3. Append(CleanStack, e) \in Seq(KnownEntry)
  BY <1>2, FoundKnown
<1> QED
  BY <1>3 DEF Push, e

(* A state in which only the fields of a pause or a suspension change. *)
LEMMA StatesNested ==
    ASSUME NEW s \in NestedState
    PROVE  /\ \A x \in Status : [s EXCEPT !.phaseStatus = x] \in NestedState
           /\ Suspended(s) \in NestedState
           /\ Unpaused(s) \in NestedState
           /\ PausedByTrigger(s) \in NestedState
           /\ [s EXCEPT !.prePauseStatus = s.phaseStatus, !.phaseStatus = "paused"] \in NestedState
           /\ [s EXCEPT !.pendingPause = TRUE] \in NestedState
           /\ Restored(s) \in NestedState
<1>1. "paused" \in Status /\ "suspended" \in Status /\ "active" \in Status
  BY DEF Status, Working
<1> QED
  BY <1>1 DEF NestedState, Suspended, Unpaused, PausedByTrigger, Restored, OrElse

LEMMA DepthSame ==
    ASSUME NEW s \in NestedState
    PROVE  /\ \A x \in Status : [s EXCEPT !.phaseStatus = x].depth = s.depth
           /\ Suspended(s).depth = s.depth
           /\ Unpaused(s).depth = s.depth
           /\ PausedByTrigger(s).depth = s.depth
           /\ [s EXCEPT !.prePauseStatus = s.phaseStatus, !.phaseStatus = "paused"].depth = s.depth
           /\ [s EXCEPT !.pendingPause = TRUE].depth = s.depth
           /\ Restored(s).depth = s.depth
  BY DEF NestedState, Suspended, Unpaused, PausedByTrigger, Restored

LEMMA ReadKnown ==
    ASSUME Known, Steady, world' = world, active' = FoundRun, stack' = CleanStack,
           UNCHANGED <<finished, deferred, waiting>>
    PROVE  Known'
<1>1. stack' \in Seq(KnownEntry')
  BY FoundKnown, StackGrowsKnown
<1>2. active' \in Runs \cup {Nil} /\ (active' # Nil => state'[active'] # Nil)
  BY FoundKnown DEF Steady
<1>3. waiting' \in KnownCall' \cup {Nil}
  BY SteadyKnown DEF Known
<1> QED
  BY <1>1, <1>2, <1>3, KnownStep DEF Known

LEMMA WriteKnown ==
    ASSUME Known, NEW r \in Runs, state[r] # Nil, NEW new \in NestedState,
           new.depth = state[r].depth, Write(r, new)
    PROVE  Known' /\ Steady
<1>1. Steady
  BY WriteSteady DEF Write
<1> QED
  BY <1>1, ReadKnown DEF Write

LEMMA ReadOnlyKnown ==
    ASSUME Known, ReadOnlyCall
    PROVE  Known'
  BY ReadKnown DEF ReadOnlyCall, Steady, Known

LEMMA StartKnown ==
    ASSUME Known, NEW force \in BOOLEAN, StartPipeline(force)
    PROVE  Known' /\ Steady
<1> DEFINE parent == IF IsSuspended(FoundRun) THEN FoundRun ELSE Nil
<1>1. PICK r \in Runs \ Started : state' = [state EXCEPT ![r] = NewRun(parent)] /\ active' = r
  BY DEF StartPipeline
<1>2. NewRun(parent) \in NestedState
  <2>1. parent \in Runs \cup {Nil} /\ (parent # Nil => state[parent].depth + 1 \in Nat)
    BY FoundKnown DEF NestedState
  <2> HIDE DEF parent
  <2> QED
    BY <2>1 DEF NewRun, NestedState, Status, Working
<1> HIDE DEF parent
<1>3. state[r] = Nil
  BY DEF Started
<1>4. Steady /\ state'[r] = NewRun(parent)
  BY <1>1, <1>2, <1>3, WriteSteady
<1>5. stack' \in Seq(KnownEntry')
  <2>1. stack' \in Seq(KnownEntry)
    BY FoundKnown DEF StartPipeline
  <2> QED
    BY <1>4, <2>1, StackGrowsKnown
<1>6. waiting' \in KnownCall' \cup {Nil}
  BY <1>4, SteadyKnown DEF Known, StartPipeline
<1> QED
  BY <1>1, <1>2, <1>4, <1>5, <1>6, KnownStep, NilAssumption DEF StartPipeline, Known

LEMMA MovesAreStatus ==
    \A move \in EventMoves \cup WaitingMoves : move[2] \in Status \ {"suspended"}
  BY DEF EventMoves, WaitingMoves, Status, Working

LEMMA OrdinaryKnown ==
    ASSUME Known, OrdinaryEvent
    PROVE  Known' /\ Steady
  BY FoundKnown, MovesAreStatus, StatesNested, DepthSame, WriteKnown DEF OrdinaryEvent

LEMMA WaitKnown ==
    ASSUME Known, WaitInEvent
    PROVE  Known'
<1>1. PICK move \in WaitingMoves :
        waiting' = [run |-> FoundRun, new |-> [state[FoundRun] EXCEPT !.phaseStatus = move[2]]]
  BY DEF WaitInEvent
<1>2. FoundRun \in Runs /\ state[FoundRun] # Nil /\ state[FoundRun] \in NestedState
  BY FoundKnown DEF WaitInEvent
<1>3. move[2] \in Status \ {"suspended"}
  BY MovesAreStatus
<1>4. waiting' \in KnownCall
  BY <1>1, <1>2, <1>3, StatesNested DEF KnownCall, WaitingCall, NestedState
<1>5. Steady
  BY DEF WaitInEvent, Steady, Known
<1>6. stack' \in Seq(KnownEntry') /\ waiting' \in KnownCall'
  BY <1>4, <1>5, FoundKnown, StackGrowsKnown, SteadyKnown DEF WaitInEvent
<1> QED
  BY <1>2, <1>5, <1>6, KnownStep DEF WaitInEvent, Known

LEMMA ResumeEventKnown ==
    ASSUME Known, ResumeEvent
    PROVE  Known' /\ Steady
<1>1. waiting \in KnownCall
  BY DEF ResumeEvent, Known
<1>2. waiting.run \in Runs /\ waiting.new \in NestedState
      /\ waiting.new.depth = state[waiting.run].depth
  BY <1>1 DEF KnownCall, WaitingCall
<1>3. Steady
  BY <1>2, WriteSteady DEF ResumeEvent
<1>4. stack' \in Seq(KnownEntry')
  BY <1>3, StackGrowsKnown DEF ResumeEvent, Known
<1> QED
  BY <1>3, <1>4, KnownStep DEF ResumeEvent, Known, Steady

LEMMA FinishKnown ==
    ASSUME Known, FinishRun
    PROVE  Known' /\ Steady
<1> DEFINE new == [state[FoundRun] EXCEPT !.phaseStatus = "complete"]
<1>1. FoundRun \in Runs /\ state[FoundRun] # Nil /\ state[FoundRun] \in NestedState
  BY FoundKnown DEF FinishRun
<1>2. new \in NestedState /\ new.depth = state[FoundRun].depth
  BY <1>1 DEF NestedState, Status
<1>3. state' = [state EXCEPT ![FoundRun] = new]
  BY <1>1 DEF FinishRun, Known
<1> HIDE DEF new
<1>4. Steady
  BY <1>1, <1>2, <1>3, WriteSteady
<1>5. stack' \in Seq(KnownEntry') /\ waiting' \in KnownCall' \cup {Nil}
  BY <1>4, FoundKnown, StackGrowsKnown, SteadyKnown DEF FinishRun, Known
<1> QED
  BY <1>1, <1>4, <1>5, KnownStep DEF FinishRun, Known

LEMMA SuspendKnown ==
    ASSUME Known, SuspendActive \/ CrashInSuspend
    PROVE  Known' /\ Steady
<1>1. FoundRun \in Runs /\ state[FoundRun] # Nil /\ state[FoundRun] \in NestedState
  BY FoundKnown DEF SuspendActive, CrashInSuspend, SuspendAllowed
<1>2. Steady
  <2>1. CASE SuspendActive
    BY <1>1, <2>1, StatesNested, DepthSame, WriteSteady DEF SuspendActive
  <2>2. CASE CrashInSuspend
    BY <2>2 DEF CrashInSuspend, Steady, Known
  <2> QED
    BY <2>1, <2>2
<1>3. stack' \in Seq(KnownEntry')
  BY <1>1, <1>2, EntryPushed, StackGrowsKnown DEF SuspendActive, CrashInSuspend
<1>4. waiting' \in KnownCall' \cup {Nil}
  BY <1>2, SteadyKnown DEF SuspendActive, CrashInSuspend, Known
<1>5. active' = FoundRun
  BY DEF SuspendActive, CrashInSuspend
<1> QED
  BY <1>1, <1>2, <1>3, <1>4, <1>5, KnownStep
     DEF SuspendActive, CrashInSuspend, Known, Steady

LEMMA ResumedNested ==
    ASSUME Known, NEW p \in Runs, state[p] # Nil, NEW expired \in BOOLEAN
    PROVE  /\ Resumed(p, expired) \in NestedState
           /\ Resumed(p, expired).depth = state[p].depth
           /\ [Resumed(p, expired) EXCEPT !.pendingPause = FALSE] \in NestedState
           /\ [Resumed(p, expired) EXCEPT !.pendingPause = FALSE].depth = state[p].depth
<1> DEFINE pausing == state[p].pendingPause \/ p \in deferred
           status  == IF pausing \/ (state[p].childPauseTimer /\ expired)
                      THEN "paused" ELSE OrElse(state[p].preSuspendStatus, "active")
<1>1. state[p] \in NestedState
  BY DEF Known
<1>2. pausing \in BOOLEAN
  BY <1>1 DEF NestedState
<1>3. status \in Status
  BY <1>1 DEF NestedState, OrElse, Status, Working
<1>4. Resumed(p, expired) = [state[p] EXCEPT !.phaseStatus = status, !.pendingPause = pausing]
  BY DEF Resumed
<1> HIDE DEF status, pausing
<1> QED
  BY <1>1, <1>2, <1>3, <1>4 DEF NestedState

LEMMA ResumeKnown ==
    ASSUME Known, NEW child \in Runs, ResumeSuspended(child) \/ CrashInResume(child)
    PROVE  Known'
<1>1. CleanStack # <<>>
  BY DEF ResumeSuspended, CrashInResume, ResumeAllowed, ChildOnTop
<1>2. PICK p : p = Top(CleanStack).runId
  OBVIOUS
<1>3. p \in Runs /\ state[p] # Nil /\ Popped(CleanStack) \in Seq(KnownEntry)
  <2>1. Top(CleanStack) \in KnownEntry /\ Popped(CleanStack) \in Seq(KnownEntry)
    BY <1>1, FoundKnown, TopOfStack
  <2> QED
    BY <1>2, <2>1 DEF KnownEntry, Entry
<1>4. \/ state' = state
      \/ \E expired \in BOOLEAN :
           state' \in {[state EXCEPT ![p] = Resumed(p, expired)],
                       [state EXCEPT ![p] = [Resumed(p, expired) EXCEPT !.pendingPause = FALSE]]}
  BY <1>2 DEF ResumeSuspended, CrashInResume
<1>5. Steady
  <2>1. CASE state' = state
    BY <2>1 DEF Steady, Known
  <2>2. ASSUME NEW expired \in BOOLEAN,
               state' \in {[state EXCEPT ![p] = Resumed(p, expired)],
                           [state EXCEPT ![p] = [Resumed(p, expired) EXCEPT !.pendingPause = FALSE]]}
        PROVE  Steady
    BY <1>3, <2>2, ResumedNested, WriteSteady
  <2> QED
    BY <1>4, <2>1, <2>2
<1>6. stack' \in Seq(KnownEntry')
  <2>1. stack' \in {CleanStack, Popped(CleanStack)}
    BY DEF ResumeSuspended, CrashInResume
  <2> QED
    BY <1>3, <1>5, <2>1, FoundKnown, StackGrowsKnown
<1>7. deferred' \subseteq Runs
  BY <1>2, <1>3 DEF ResumeSuspended, CrashInResume, DeferredAfter, Known
<1>8. waiting' \in KnownCall' \cup {Nil}
  BY <1>5, SteadyKnown DEF ResumeSuspended, CrashInResume, Known
<1>9. /\ active' = FoundRun /\ world' = world /\ finished' = finished
  BY DEF ResumeSuspended, CrashInResume
<1>10. active' \in Runs \cup {Nil} /\ (active' # Nil => state'[active'] # Nil)
  BY <1>5, <1>9, FoundKnown DEF Steady
<1> QED
  BY <1>5, <1>6, <1>7, <1>8, <1>9, <1>10, KnownStep DEF Known

LEMMA PauseKnown ==
    ASSUME Known, PauseActive
    PROVE  Known' /\ Steady
  BY FoundKnown, StatesNested, DepthSame, WriteKnown DEF PauseActive

LEMMA UnpauseKnown ==
    ASSUME Known, ResumeFromPause
    PROVE  Known' /\ Steady
<1>1. PICK r : /\ r = IF FoundRun = Nil /\ CleanStack # <<>> THEN Top(CleanStack).runId ELSE FoundRun
               /\ r # Nil
               /\ Write(r, Unpaused(state[r]))
  BY DEF ResumeFromPause
<1>2. r \in Runs /\ state[r] # Nil
  <2>1. CleanStack # <<>> => Top(CleanStack) \in KnownEntry
    BY FoundKnown, TopOfStack
  <2> QED
    BY <1>1, <2>1, FoundKnown DEF KnownEntry, Entry
<1>3. state[r] \in NestedState
  BY <1>2 DEF Known
<1> QED
  BY <1>1, <1>2, <1>3, StatesNested, DepthSame, WriteKnown

LEMMA SetChildKnown ==
    ASSUME Known, NEW child \in Runs, SetChildRunId(child)
    PROVE  Known'
<1>1. PICK i \in DOMAIN stack : stack' = [stack EXCEPT ![i].childRunId = child]
  BY DEF SetChildRunId
<1>2. stack[i] \in KnownEntry /\ state[child] # Nil
  BY DEF SetChildRunId, Known
<1>3. [stack[i] EXCEPT !.childRunId = child] \in KnownEntry
  BY <1>2 DEF KnownEntry, Entry
<1>4. stack' \in Seq(KnownEntry)
  BY <1>1, <1>3 DEF Known
<1>5. Steady
  BY DEF SetChildRunId, Steady, Known
<1> QED
  BY <1>4, <1>5, SteadyKnown, StackGrowsKnown, KnownStep DEF SetChildRunId, HostCall, Known, Steady

LEMMA OrphanKnown ==
    ASSUME Known, DetectOrphanedSuspend
    PROVE  Known' /\ Steady
<1>1. stack # <<>> => /\ Top(stack).runId \in Runs /\ state[Top(stack).runId] # Nil
                      /\ Popped(stack) \in Seq(KnownEntry)
  <2>1. stack # <<>> => Top(stack) \in KnownEntry /\ Popped(stack) \in Seq(KnownEntry)
    BY TopOfStack DEF Known
  <2> QED
    BY <2>1 DEF KnownEntry, Entry
<1>2. /\ \/ state' = state
         \/ \E r \in Runs : state[r] # Nil /\ state' = [state EXCEPT ![r] = Restored(state[r])]
      /\ stack' \in {stack, Popped(stack)} /\ (stack' = Popped(stack) => stack # <<>> \/ stack' = stack)
      /\ active' = active \/ (stack # <<>> /\ active' = Top(stack).runId)
  BY <1>1 DEF DetectOrphanedSuspend, Known
<1>3. Steady
  <2>1. CASE state' = state
    BY <2>1 DEF Steady, Known
  <2>2. ASSUME NEW r \in Runs, state[r] # Nil, state' = [state EXCEPT ![r] = Restored(state[r])]
        PROVE  Steady
    BY <2>2, StatesNested, DepthSame, WriteSteady DEF Known
  <2> QED
    BY <1>2, <2>1, <2>2
<1>4. stack' \in Seq(KnownEntry')
  <2>1. stack' \in Seq(KnownEntry)
    BY <1>1, <1>2 DEF Known
  <2> QED
    BY <1>3, <2>1, StackGrowsKnown
<1>5. active' \in Runs \cup {Nil} /\ (active' # Nil => state'[active'] # Nil)
  BY <1>1, <1>2, <1>3 DEF Steady, Known
<1>6. waiting' \in KnownCall' \cup {Nil}
  BY <1>3, SteadyKnown DEF DetectOrphanedSuspend, HostCall, Known
<1> QED
  BY <1>3, <1>4, <1>5, <1>6, KnownStep DEF DetectOrphanedSuspend, HostCall, Known

LEMMA PhaseFailKnown ==
    ASSUME Known, NEW r \in Runs, HandlePhaseFail(r)
    PROVE  Known' /\ Steady
<1>1. PICK i \in DOMAIN stack :
        /\ stack' = Without(i)
        /\ \/ /\ stack[i].childRunId # Nil
              /\ state' = [state EXCEPT ![stack[i].childRunId].phaseStatus = "cancelled"]
           \/ UNCHANGED state
  BY DEF HandlePhaseFail
<1>2. stack[i] \in KnownEntry
  BY DEF Known
<1>3. Steady
  <2>1. CASE UNCHANGED state
    BY <2>1 DEF Steady, Known
  <2>2. CASE /\ stack[i].childRunId # Nil
             /\ state' = [state EXCEPT ![stack[i].childRunId].phaseStatus = "cancelled"]
    <3>1. PICK c \in Runs : c = stack[i].childRunId /\ state[c] # Nil
      BY <1>2, <2>2 DEF KnownEntry, Entry
    <3>2. state[c] \in NestedState /\ "cancelled" \in Status
      BY <3>1 DEF Known, Status
    <3>3. state' = [state EXCEPT ![c] = [state[c] EXCEPT !.phaseStatus = "cancelled"]]
      BY <2>2, <3>1 DEF Known
    <3> QED
      BY <3>2, <3>3, StatesNested, DepthSame, WriteSteady
  <2> QED
    BY <1>1, <2>1, <2>2
<1>4. stack' \in Seq(KnownEntry')
  <2>1. stack' \in Seq(KnownEntry)
    BY <1>1 DEF Without, Known
  <2> QED
    BY <1>3, <2>1, StackGrowsKnown
<1> QED
  BY <1>3, <1>4, SteadyKnown, KnownStep DEF HandlePhaseFail, HostCall, Known, Steady

(* What the pause trigger writes: a pause of a run that stands, or a mark. *)
TriggerWrites ==
    \/ state' = state
    \/ \E r \in Runs :
        /\ state[r] # Nil
        /\ \/ state[r].phaseStatus # "suspended" /\ state' = [state EXCEPT ![r] = PausedByTrigger(state[r])]
           \/ state' = [state EXCEPT ![r] = [state[r] EXCEPT !.pendingPause = TRUE]]

LEMMA TriggerStep ==
    ASSUME Known, HandleConcurrentPauseTrigger
    PROVE  TriggerWrites
<1>1. ASSUME NEW r, Interruptible(r), state' = [state EXCEPT ![r] = PausedByTrigger(state[r])]
      PROVE  TriggerWrites
  <2>1. CASE r \in Runs
    BY <1>1, <2>1 DEF TriggerWrites, Interruptible
  <2>2. CASE r \notin Runs
    BY <1>1, <2>2 DEF TriggerWrites, Known
  <2> QED
    BY <2>1, <2>2
<1>2. CASE stack # <<>> /\ state' = [state EXCEPT ![Top(stack).runId].pendingPause = TRUE]
  <2>1. Top(stack) \in KnownEntry
    BY <1>2, TopOfStack DEF Known
  <2>2. PICK r \in Runs : r = Top(stack).runId /\ state[r] # Nil
    BY <2>1 DEF KnownEntry, Entry
  <2>3. state' = [state EXCEPT ![r] = [state[r] EXCEPT !.pendingPause = TRUE]]
    BY <1>2, <2>2 DEF Known
  <2> QED
    BY <2>2, <2>3 DEF TriggerWrites
<1> QED
  BY <1>1, <1>2 DEF HandleConcurrentPauseTrigger

LEMMA TriggerKnown ==
    ASSUME Known, HandleConcurrentPauseTrigger
    PROVE  Known' /\ Steady
<1>1. Steady
  <2>1. CASE state' = state
    BY <2>1 DEF Steady, Known
  <2>2. ASSUME NEW r \in Runs, state[r] # Nil,
               \/ state' = [state EXCEPT ![r] = PausedByTrigger(state[r])]
               \/ state' = [state EXCEPT ![r] = [state[r] EXCEPT !.pendingPause = TRUE]]
        PROVE  Steady
    BY <2>2, StatesNested, DepthSame, WriteSteady DEF Known
  <2> QED
    BY <2>1, <2>2, TriggerStep DEF TriggerWrites
<1>2. stack' \in Seq(KnownEntry') /\ waiting' \in KnownCall' \cup {Nil}
  BY <1>1, StackGrowsKnown, SteadyKnown DEF HandleConcurrentPauseTrigger, HostCall, Known
<1> QED
  BY <1>1, <1>2, KnownStep DEF HandleConcurrentPauseTrigger, HostCall, Known, Steady

LEMMA StutterKnown ==
    ASSUME Known, UNCHANGED vars
    PROVE  Known'
  BY DEF vars, Known, KnownEntry, KnownCall

LEMMA NextKnown ==
    ASSUME Known, [Next]_vars
    PROVE  Known'
<1>1. CASE UNCHANGED vars
  BY <1>1, StutterKnown
<1>2. CASE Next
  BY <1>2, ReadOnlyKnown, StartKnown, OrdinaryKnown, WaitKnown, ResumeEventKnown, FinishKnown,
     SuspendKnown, ResumeKnown, PauseKnown, UnpauseKnown, SetChildKnown, PhaseFailKnown,
     OrphanKnown, TriggerKnown DEF Next
<1> QED
  BY <1>1, <1>2

LEMMA KnownTypeOK ==
    ASSUME Known
    PROVE  TypeOK
<1>1. stack \in Seq(Entry)
  BY DEF Known, KnownEntry
<1> QED
  BY <1>1 DEF Known, KnownCall, TypeOK

LEMMA InitKnown ==
    ASSUME Init
    PROVE  Known
  BY DEF Init, Known

(* Every variable keeps its shape, for any number of runs, any depth, any  *)
(* worlds and any crash or overlap.                                        *)
THEOREM NestingTypeCorrect == Spec => []TypeOK
<1>1. Spec => []Known
  BY InitKnown, NextKnown, PTL DEF Spec
<1> QED
  BY <1>1, KnownTypeOK, PTL

-----------------------------------------------------------------------------
(* The stack of a project in which no child is reported *)

LEMMA FoundAbove ==
    ASSUME Known, Limited
    PROVE  /\ CleanStack = stack
           /\ FoundRun \in Standstill => FoundRun \in Stacked
           /\ FoundRun # Nil /\ stack # <<>> =>
                \E i \in DOMAIN stack : state[FoundRun].depth <= stack[i].depth + 1
<1>1. stack # <<>> => Len(stack) \in DOMAIN stack /\ Top(stack) = stack[Len(stack)]
  BY TopOfStack DEF Known, Top
<1>2. CleanStack = stack
  BY <1>1 DEF CleanStack, Limited, NoChild
<1>3. stack # <<>> => /\ Top(stack).runId \in Stacked
                      /\ state[Top(stack).runId].depth = stack[Len(stack)].depth
                      /\ stack[Len(stack)].depth \in Nat
  <2>1. stack # <<>> => Top(stack) \in KnownEntry
    BY TopOfStack DEF Known
  <2> QED
    BY <1>1, <2>1 DEF KnownEntry, Entry, Stacked
<1>4. stack # <<>> =>
        \E i \in DOMAIN stack : state[Top(stack).runId].depth <= stack[i].depth + 1
  BY <1>1, <1>3
<1>5. CASE FoundRun = active
  BY <1>2, <1>5 DEF Limited, ActiveAbove
<1>6. CASE FoundRun # active
  BY <1>2, <1>3, <1>4, <1>6 DEF FoundRun
<1> QED
  BY <1>5, <1>6

(* A step that starts nothing, brings nothing to a standstill and leaves   *)
(* the stack to the repairs of getActiveRun.                               *)
Quiet ==
    /\ Steady
    /\ Started' \subseteq Started
    /\ Standstill' \subseteq Standstill
    /\ stack' \in {stack, CleanStack}
    /\ active' \in {active, FoundRun, Nil}

LEMMA QuietLimited ==
    ASSUME Known, Limited, Quiet
    PROVE  Limited' /\ (Kept => Kept')
<1>1. stack' = stack
  BY FoundAbove DEF Quiet
<1>2. Stacked' = Stacked /\ NoChild'
  BY <1>1 DEF Stacked, NoChild, Limited
<1>3. DepthLimited'
  BY DEF Quiet, Steady, DepthLimited, Limited, Started, Standstill
<1>4. active' \in Standstill' => active' \in Stacked'
  <2>1. Nil \notin Standstill
    BY NestingConstants DEF Standstill
  <2> QED
    BY <1>2, <2>1, FoundAbove DEF Quiet, Limited
<1>5. ActiveAbove'
  <2>1. active' # Nil => active' \in Runs /\ state'[active'].depth = state[active'].depth
    BY FoundKnown DEF Quiet, Steady, Known
  <2> QED
    BY <1>1, <2>1, FoundAbove DEF Quiet, Limited, ActiveAbove
<1> QED
  BY <1>2, <1>3, <1>4, <1>5 DEF Quiet, Limited, Kept

LEMMA WriteStill ==
    ASSUME Known, NEW r \in Runs, state[r] # Nil, NEW new,
           Standing(new) => Standing(state[r]),
           state' = [state EXCEPT ![r] = new], waiting' = waiting
    PROVE  Started' \subseteq Started /\ Standstill' \subseteq Standstill
  BY DEF Known, Started, Standstill

LEMMA NoWriteStill ==
    ASSUME Known, state' = state, waiting' = waiting
    PROVE  Started' \subseteq Started /\ Standstill' \subseteq Standstill
  BY DEF Started, Standstill

LEMMA StandingStates ==
    ASSUME NEW s \in NestedState
    PROVE  /\ \A x \in Status \ {"suspended"} :
                Standing([s EXCEPT !.phaseStatus = x]) => Standing(s)
           /\ Standing(Unpaused(s)) => Standing(s)
           /\ s.phaseStatus # "suspended" => (Standing(PausedByTrigger(s)) => Standing(s))
           /\ Standing([s EXCEPT !.prePauseStatus = s.phaseStatus, !.phaseStatus = "paused"])
                => Standing(s)
           /\ Standing([s EXCEPT !.pendingPause = TRUE]) => Standing(s)
  BY NilAssumption DEF NestedState, Standing, Status, Unpaused, PausedByTrigger, OrElse

LEMMA ReadOnlyQuiet ==
    ASSUME Known, ReadOnlyCall
    PROVE  Quiet
<1>1. Steady
  BY DEF ReadOnlyCall, Steady, Known
<1> QED
  BY <1>1, NoWriteStill DEF ReadOnlyCall, Quiet

LEMMA WriteQuiet ==
    ASSUME Known, NEW r \in Runs, state[r] # Nil, NEW new \in NestedState,
           new.depth = state[r].depth, Write(r, new), Standing(new) => Standing(state[r])
    PROVE  Quiet
  BY WriteStill, WriteSteady DEF Write, Quiet

LEMMA OrdinaryQuiet ==
    ASSUME Known, OrdinaryEvent
    PROVE  Quiet
<1>1. PICK move \in EventMoves \cup WaitingMoves :
        Write(FoundRun, [state[FoundRun] EXCEPT !.phaseStatus = move[2]])
  BY DEF OrdinaryEvent
<1>2. FoundRun \in Runs /\ state[FoundRun] # Nil /\ state[FoundRun] \in NestedState
  BY FoundKnown DEF OrdinaryEvent
<1>3. move[2] \in Status \ {"suspended"}
  BY MovesAreStatus
<1> QED
  BY <1>1, <1>2, <1>3, StatesNested, DepthSame, StandingStates, WriteQuiet

LEMMA PauseQuiet ==
    ASSUME Known, PauseActive
    PROVE  Quiet
  BY FoundKnown, StatesNested, DepthSame, StandingStates, WriteQuiet DEF PauseActive

LEMMA UnpauseQuiet ==
    ASSUME Known, ResumeFromPause
    PROVE  Quiet
<1>1. PICK r : /\ r = IF FoundRun = Nil /\ CleanStack # <<>> THEN Top(CleanStack).runId ELSE FoundRun
               /\ r # Nil
               /\ Write(r, Unpaused(state[r]))
  BY DEF ResumeFromPause
<1>2. r \in Runs /\ state[r] # Nil
  <2>1. CleanStack # <<>> => Top(CleanStack) \in KnownEntry
    BY FoundKnown, TopOfStack
  <2> QED
    BY <1>1, <2>1, FoundKnown DEF KnownEntry, Entry
<1>3. state[r] \in NestedState
  BY <1>2 DEF Known
<1> QED
  BY <1>1, <1>2, <1>3, StatesNested, DepthSame, StandingStates, WriteQuiet

LEMMA WaitQuiet ==
    ASSUME Known, WaitInEvent
    PROVE  Quiet
<1>1. PICK move \in WaitingMoves :
        waiting' = [run |-> FoundRun, new |-> [state[FoundRun] EXCEPT !.phaseStatus = move[2]]]
  BY DEF WaitInEvent
<1>2. FoundRun \in Runs /\ state[FoundRun] # Nil /\ state[FoundRun] \in NestedState
  BY FoundKnown DEF WaitInEvent
<1>3. Standing(waiting'.new) => Standing(state[FoundRun])
  BY <1>1, <1>2, MovesAreStatus, StandingStates
<1>4. Standstill' \subseteq Standstill
  BY <1>1, <1>2, <1>3 DEF Standstill, WaitInEvent
<1>5. Steady
  BY DEF WaitInEvent, Steady, Known
<1> QED
  BY <1>4, <1>5 DEF Quiet, WaitInEvent, Started

LEMMA ResumeEventQuiet ==
    ASSUME Known, ResumeEvent
    PROVE  Quiet
<1>1. waiting.run \in Runs /\ state[waiting.run] # Nil
  BY DEF ResumeEvent, Known, KnownCall, WaitingCall
<1>2. Standstill' \subseteq Standstill /\ Started' \subseteq Started
  BY <1>1 DEF ResumeEvent, Standstill, Started, Known
<1> QED
  BY <1>2, ResumeEventKnown DEF Quiet, ResumeEvent

LEMMA FinishQuiet ==
    ASSUME Known, FinishRun
    PROVE  Quiet
<1> DEFINE new == [state[FoundRun] EXCEPT !.phaseStatus = "complete"]
<1>1. FoundRun \in Runs /\ state[FoundRun] # Nil /\ state[FoundRun] \in NestedState
  BY FoundKnown DEF FinishRun
<1>2. Standing(new) => Standing(state[FoundRun])
  BY <1>1, StandingStates DEF Status
<1>3. state' = [state EXCEPT ![FoundRun] = new] /\ waiting' = waiting
  BY <1>1 DEF FinishRun, Known
<1> HIDE DEF new
<1> QED
  BY <1>1, <1>2, <1>3, WriteStill, FinishKnown DEF Quiet, FinishRun

LEMMA TriggerQuiet ==
    ASSUME Known, HandleConcurrentPauseTrigger
    PROVE  Quiet
<1>1. waiting' = waiting /\ stack' = stack /\ active' = active
  BY DEF HandleConcurrentPauseTrigger, HostCall
<1>2. CASE state' = state
  BY <1>1, <1>2, NoWriteStill, TriggerKnown DEF Quiet
<1>3. ASSUME NEW r \in Runs, state[r] # Nil,
             \/ state[r].phaseStatus # "suspended" /\ state' = [state EXCEPT ![r] = PausedByTrigger(state[r])]
             \/ state' = [state EXCEPT ![r] = [state[r] EXCEPT !.pendingPause = TRUE]]
      PROVE  Quiet
  <2>1. state[r] \in NestedState
    BY <1>3 DEF Known
  <2>2. Started' \subseteq Started /\ Standstill' \subseteq Standstill
    BY <1>1, <1>3, <2>1, StandingStates, WriteStill
  <2> QED
    BY <1>1, <2>2, TriggerKnown DEF Quiet
<1> QED
  BY <1>2, <1>3, TriggerStep DEF TriggerWrites

(* canSuspend: the run to suspend may have a child below the limit or at it. *)
LEMMA SuspendBelowLimit ==
    ASSUME Known, Limited, FoundRun # Nil, CanSuspend(FoundRun)
    PROVE  state[FoundRun].depth < MAX_DEPTH
<1>1. PICK d \in Nat : d = state[FoundRun].depth
  BY FoundKnown DEF NestedState
<1>2. \A i \in DOMAIN stack : stack[i].depth \in Nat
  BY DEF Known, KnownEntry, Entry
<1>3. CASE d + 1 < MAX_DEPTH
  BY <1>1, <1>3, NestingConstants
<1>4. CASE /\ stack # <<>>
           /\ \A i \in DOMAIN stack : stack[i].depth + 1 < MAX_DEPTH
  <2>1. PICK i \in DOMAIN stack : d <= stack[i].depth + 1
    BY <1>1, <1>4, FoundAbove
  <2> QED
    BY <1>1, <1>2, <1>4, <2>1, NestingConstants
<1> QED
  BY <1>1, <1>3, <1>4, FoundAbove DEF CanSuspend

LEMMA SuspendLimited ==
    ASSUME Known, Limited, SuspendActive \/ CrashInSuspend
    PROVE  Limited' /\ (Kept => Kept')
<1>1. PICK r : r = FoundRun
  OBVIOUS
<1>2. r \in Runs /\ state[r] # Nil /\ state[r] \in NestedState
  BY <1>1, FoundKnown DEF SuspendActive, CrashInSuspend, SuspendAllowed
<1>3. state[r].depth < MAX_DEPTH /\ active' = r
  BY <1>1, SuspendBelowLimit DEF SuspendActive, CrashInSuspend, SuspendAllowed
<1>4. PICK e : /\ stack' = Append(stack, e)
               /\ e.runId = r /\ e.childRunId = Nil /\ e.depth = state[r].depth
  BY <1>1, FoundAbove DEF SuspendActive, CrashInSuspend, Push
<1>5. /\ DOMAIN stack' = DOMAIN stack \cup {Len(stack) + 1}
      /\ \A i \in DOMAIN stack : stack'[i] = stack[i]
      /\ stack'[Len(stack) + 1] = e
  BY <1>4 DEF Known
<1>6. Stacked \cup {r} \subseteq Stacked'
  BY <1>4, <1>5 DEF Stacked
<1>7. NoChild'
  BY <1>4, <1>5 DEF NoChild, Limited
<1>8. Steady
  BY SuspendKnown
<1>9. Standstill' \subseteq Standstill \cup {r} /\ Started' \subseteq Started
  <2>1. CASE SuspendActive
    BY <1>1, <1>2, <2>1 DEF SuspendActive, Standstill, Started, Known
  <2>2. CASE CrashInSuspend
    BY <2>2 DEF CrashInSuspend, Standstill, Started
  <2> QED
    BY <2>1, <2>2
<1>10. DepthLimited'
  BY <1>2, <1>3, <1>8, <1>9 DEF Steady, DepthLimited, Limited, Started, Standstill
<1>11. ActiveAbove'
  <2>1. state'[r].depth = state[r].depth /\ state[r].depth \in Nat
    BY <1>2, <1>8 DEF Steady, NestedState
  <2>2. state'[active'].depth <= stack'[Len(stack) + 1].depth + 1
    BY <1>3, <1>4, <1>5, <2>1
  <2> QED
    BY <1>5, <2>2 DEF ActiveAbove
<1> QED
  BY <1>3, <1>6, <1>7, <1>9, <1>10, <1>11 DEF Limited, Kept

LEMMA StartLimited ==
    ASSUME Known, Limited, NEW force \in BOOLEAN, StartPipeline(force)
    PROVE  Limited' /\ (Undisturbed /\ Kept => Kept')
<1> DEFINE parent == IF IsSuspended(FoundRun) THEN FoundRun ELSE Nil
<1>1. PICK r \in Runs \ Started : state' = [state EXCEPT ![r] = NewRun(parent)] /\ active' = r
  BY DEF StartPipeline
<1>2. PICK p \in Runs \cup {Nil} : p = parent /\ (p # Nil => p \in Standstill)
  BY FoundKnown DEF IsSuspended, Standstill, Standing
<1> HIDE DEF parent
<1>3. state[r] = Nil /\ r # Nil
  BY NestingConstants DEF Started
<1>4. stack' \in {stack, <<>>} /\ waiting' = waiting /\ (~force => stack' = stack)
  BY FoundAbove DEF StartPipeline
<1>5. state'[r] = NewRun(p) /\ \A q \in Runs \ {r} : state'[q] = state[q]
  BY <1>1, <1>2 DEF Known
<1>6. Standstill' \subseteq Standstill /\ r \notin Standstill'
  <2>1. ~Standing(NewRun(p))
    BY NilAssumption DEF NewRun, Standing, Status
  <2>2. waiting # Nil => waiting.run # r
    BY <1>3 DEF Known, KnownCall
  <2> QED
    BY <1>4, <1>5, <2>1, <2>2 DEF Standstill
<1>7. NoChild' /\ (stack' = stack => Stacked' = Stacked)
  BY <1>4 DEF NoChild, Limited, Stacked
<1>8. PICK d \in Nat :
        /\ d = state'[r].depth
        /\ d = 0 \/ (p # Nil /\ state[p].depth \in Nat /\ d = state[p].depth + 1)
  <2>1. p # Nil => state[p] # Nil
    BY <1>2, FoundKnown DEF parent, IsSuspended
  <2>2. p # Nil => state[p].depth \in Nat
    BY <2>1 DEF Known, NestedState
  <2> QED
    BY <1>5, <2>2 DEF NewRun
<1>9. DepthLimited'
  <2>1. d <= MAX_DEPTH
    BY <1>2, <1>8, NestingConstants DEF Limited, DepthLimited
  <2> QED
    BY <1>5, <1>6, <1>8, <2>1 DEF Limited, DepthLimited, Started, Standstill
<1>10. ActiveAbove'
  <2>1. SUFFICES ASSUME stack' # <<>>
                 PROVE  \E i \in DOMAIN stack : d <= stack[i].depth + 1
    BY <1>1, <1>4, <1>8 DEF ActiveAbove
  <2>2. stack # <<>> /\ \A i \in DOMAIN stack : stack[i] \in KnownEntry
    BY <1>4, <2>1 DEF Known
  <2>3. CASE d = 0
    <3>1. Len(stack) \in DOMAIN stack /\ stack[Len(stack)].depth \in Nat
      BY <2>2, TopOfStack DEF Known, KnownEntry, Entry
    <3> QED
      BY <2>3, <3>1
  <2>4. CASE p # Nil /\ d = state[p].depth + 1
    <3>1. p \in Stacked
      BY <1>2, <2>4, FoundAbove DEF parent
    <3>2. PICK i \in DOMAIN stack : stack[i].runId = p
      BY <3>1 DEF Stacked
    <3>3. stack[i].depth = state[p].depth /\ stack[i].depth \in Nat
      BY <2>2, <3>2 DEF KnownEntry, Entry
    <3> QED
      BY <2>4, <3>3
  <2> QED
    BY <1>8, <2>3, <2>4
<1>11. Undisturbed => ~force
  BY DEF Undisturbed, StartPipeline
<1> QED
  BY <1>1, <1>4, <1>6, <1>7, <1>9, <1>10, <1>11 DEF Limited, Kept

(* Without a reported child there is nothing to resume from, and nothing   *)
(* that fails with its child.                                              *)
LEMMA NothingToResume ==
    ASSUME Known, NoChild, NEW child \in Runs
    PROVE  ~ResumeSuspended(child) /\ ~CrashInResume(child) /\ ~HandlePhaseFail(child)
<1>1. Nil \notin Runs
  BY NestingConstants
<1>2. ~ChildOnTop(child)
  <2>1. CleanStack = stack
    BY TopOfStack DEF CleanStack, NoChild, Known, Top
  <2> QED
    BY <1>1, <2>1, TopOfStack DEF ChildOnTop, NoChild, Known, Top
<1>3. ~HandlePhaseFail(child)
  BY <1>1 DEF HandlePhaseFail, NoChild, LowestIn, ParentsOf
<1> QED
  BY <1>2, <1>3 DEF ResumeSuspended, CrashInResume, ResumeAllowed

LEMMA NextLimited ==
    ASSUME Known, Unreported, Limited, Next
    PROVE  Limited' /\ (Undisturbed /\ Kept => Kept')
<1>1. CASE \/ ReadOnlyCall \/ OrdinaryEvent \/ WaitInEvent \/ ResumeEvent \/ FinishRun
           \/ PauseActive \/ ResumeFromPause \/ HandleConcurrentPauseTrigger
  BY <1>1, ReadOnlyQuiet, OrdinaryQuiet, WaitQuiet, ResumeEventQuiet, FinishQuiet,
     PauseQuiet, UnpauseQuiet, TriggerQuiet, QuietLimited
<1>2. CASE SuspendActive \/ CrashInSuspend
  BY <1>2, SuspendLimited
<1>3. CASE \E force \in BOOLEAN : StartPipeline(force)
  BY <1>3, StartLimited
<1>4. CASE \/ \E child \in Runs : ResumeSuspended(child) \/ CrashInResume(child)
           \/ \E r \in Runs : SetChildRunId(r) \/ HandlePhaseFail(r)
           \/ DetectOrphanedSuspend
  BY <1>4, NothingToResume DEF Limited, Unreported, SetChildRunId, DetectOrphanedSuspend, HostCall
<1> QED
  BY <1>1, <1>2, <1>3, <1>4 DEF Next

LEMMA NestingInvariance == Spec => []Inv
<1>1. Init => Inv
  BY InitKnown, NestingConstants
     DEF Init, Inv, Limited, Kept, NoChild, DepthLimited, ActiveAbove, Standstill, Started
<1>2. ASSUME Inv, [Next]_vars PROVE Inv'
  <2>1. CASE UNCHANGED vars
    BY <1>2, <2>1, StutterKnown DEF vars, Inv, Unreported, Undisturbed, Limited, Kept, NoChild,
       DepthLimited, ActiveAbove, Standstill, Standing, Stacked, Started
  <2>2. CASE Next
    <3>1. world' = world
      BY <2>2 DEF Next, ReadOnlyCall, StartPipeline, OrdinaryEvent, Write, WaitInEvent, ResumeEvent,
         FinishRun, SuspendActive, CrashInSuspend, ResumeSuspended, CrashInResume, PauseActive,
         ResumeFromPause, SetChildRunId, HandlePhaseFail, DetectOrphanedSuspend,
         HandleConcurrentPauseTrigger, HostCall
    <3>2. Undisturbed => Unreported
      BY DEF Undisturbed, Unreported
    <3> QED
      BY <1>2, <2>2, <3>1, <3>2, NextKnown, NextLimited DEF Inv, Unreported, Undisturbed
  <2> QED
    BY <1>2, <2>1, <2>2
<1> QED
  BY <1>1, <1>2, PTL DEF Spec

(* However runs crash, overlap, pause and are replaced, a suspended run is *)
(* named by the stack, as long as nothing is reported, repaired or forced. *)
THEOREM SuspendedRunsKept == Spec => []SuspendedKept
<1>1. Inv => SuspendedKept
  BY DEF Inv, Undisturbed, Kept, Standstill, Standing, Stacked,
         SuspendedKept, SuspendedReachable, IsSuspended, OnStack, PositionsOf
<1> QED
  BY <1>1, NestingInvariance, PTL

(* Nesting goes no deeper than MAX_DEPTH, one level more than canSuspend   *)
(* is to allow, whatever value MAX_DEPTH has.                              *)
THEOREM NestingStaysLimited == Spec => []NestingLimited
<1>1. Inv => NestingLimited
  BY DEF Inv, Unreported, Limited, DepthLimited, NestingLimited
<1> QED
  BY <1>1, NestingInvariance, PTL

-----------------------------------------------------------------------------
(* Standstills end.  A suspended run, or a paused one that was suspended,  *)
(* remembers a status to go back to, which is no standstill.               *)

Standstills == {"suspended", "paused"}

LeadsOut(s) ==
    /\ s.preSuspendStatus \notin Standstills
    /\ Standing(s) => s.preSuspendStatus # Nil

LeadInv ==
    /\ \A r \in Started : LeadsOut(state[r])
    /\ waiting # Nil => LeadsOut(waiting.new)

(* Without orphan recovery and pause triggers, no pause is ever pending,   *)
(* and a run whose last phase is complete is at no standstill: neither the *)
(* repair of the pointer nor an unpause brings it back.                    *)
Unrepaired == world.can \cap {"detectOrphanedSuspend", "pauseTrigger"} = {}

Unmarked(s) == ~s.pendingPause /\ ~s.childPauseTimer

DoneInv ==
    /\ finished \subseteq Started
    /\ active \notin finished
    /\ deferred = {}
    /\ \A r \in Started : Unmarked(state[r])
    /\ \A r \in finished : state[r].phaseStatus \notin Standstills
    /\ waiting # Nil => Unmarked(waiting.new) /\ waiting.new.phaseStatus \notin Standstills

ReturnInv == LeadInv /\ (Unrepaired => DoneInv)

(* What a step may write into the state of a run. *)
Returns(r, new) ==
    /\ new \in NestedState
    /\ LeadsOut(new)
    /\ Unrepaired => Unmarked(new) /\ (r \in finished => new.phaseStatus \notin Standstills)

StateStep ==
    \/ state' = state
    \/ \E r \in Runs, new \in NestedState : Returns(r, new) /\ state' = [state EXCEPT ![r] = new]

LEMMA LeadsKept ==
    ASSUME NEW s \in NestedState, LeadsOut(s)
    PROVE  /\ \A x \in Status \ {"suspended"} : LeadsOut([s EXCEPT !.phaseStatus = x])
           /\ s.phaseStatus \notin Standstills => LeadsOut(Suspended(s))
           /\ LeadsOut(Unpaused(s))
           /\ LeadsOut(PausedByTrigger(s))
           /\ LeadsOut([s EXCEPT !.prePauseStatus = s.phaseStatus, !.phaseStatus = "paused"])
           /\ LeadsOut([s EXCEPT !.pendingPause = TRUE])
           /\ LeadsOut(Restored(s))
  BY NilAssumption
     DEF LeadsOut, Standing, Standstills, NestedState, Status, Working, Suspended, Unpaused,
         PausedByTrigger, Restored, OrElse

LEMMA UnmarkedKept ==
    ASSUME NEW s \in NestedState, Unmarked(s)
    PROVE  /\ \A x \in Status : Unmarked([s EXCEPT !.phaseStatus = x])
           /\ Unmarked(Suspended(s))
           /\ Unmarked(Unpaused(s))
           /\ Unmarked([s EXCEPT !.prePauseStatus = s.phaseStatus, !.phaseStatus = "paused"])
  BY DEF Unmarked, NestedState, Suspended, Unpaused

(* The run a call finds is not a finished one. *)
LEMMA FoundReturns ==
    ASSUME Known, ReturnInv, FoundRun # Nil
    PROVE  /\ FoundRun \in Runs /\ state[FoundRun] \in NestedState
           /\ LeadsOut(state[FoundRun])
           /\ Unrepaired => Unmarked(state[FoundRun]) /\ FoundRun \notin finished
<1>1. FoundRun \in Started /\ state[FoundRun] \in NestedState
  BY FoundKnown DEF Started
<1>2. Unrepaired => FoundRun \notin finished
  BY <1>1 DEF FoundRun, ReturnInv, DoneInv, Standstills
<1> QED
  BY <1>1, <1>2 DEF ReturnInv, LeadInv, DoneInv, Started

LEMMA MovesReturn ==
    \A move \in EventMoves \cup WaitingMoves : move[2] \in Status \ Standstills
  BY DEF EventMoves, WaitingMoves, Status, Working, Standstills

LEMMA OrdinaryReturns ==
    ASSUME Known, ReturnInv, OrdinaryEvent
    PROVE  StateStep
<1>1. PICK move \in EventMoves \cup WaitingMoves :
        state' = [state EXCEPT ![FoundRun] = [state[FoundRun] EXCEPT !.phaseStatus = move[2]]]
  BY DEF OrdinaryEvent, Write
<1>2. move[2] \in Status \ Standstills
  BY MovesReturn
<1>3. Returns(FoundRun, [state[FoundRun] EXCEPT !.phaseStatus = move[2]])
  BY <1>2, FoundReturns, StatesNested, LeadsKept, UnmarkedKept
     DEF Returns, OrdinaryEvent, Standstills
<1> QED
  BY <1>1, <1>3, FoundReturns DEF StateStep, Returns, OrdinaryEvent

LEMMA FinishReturns ==
    ASSUME Known, ReturnInv, FinishRun
    PROVE  StateStep
<1>1. FoundRun \in Runs /\ state[FoundRun] \in NestedState
  BY FoundReturns DEF FinishRun
<1>2. state' = [state EXCEPT ![FoundRun] = [state[FoundRun] EXCEPT !.phaseStatus = "complete"]]
  BY <1>1 DEF FinishRun, Known
<1>3. "complete" \in Status \ Standstills
  BY DEF Status, Standstills
<1>4. Returns(FoundRun, [state[FoundRun] EXCEPT !.phaseStatus = "complete"])
  BY <1>3, FoundReturns, StatesNested, LeadsKept, UnmarkedKept
     DEF Returns, FinishRun, Standstills
<1> QED
  BY <1>1, <1>2, <1>4 DEF StateStep, Returns

LEMMA StartReturns ==
    ASSUME Known, ReturnInv, NEW force \in BOOLEAN, StartPipeline(force)
    PROVE  StateStep
<1> DEFINE parent == IF IsSuspended(FoundRun) THEN FoundRun ELSE Nil
<1>1. PICK r \in Runs \ Started : state' = [state EXCEPT ![r] = NewRun(parent)]
  BY DEF StartPipeline
<1>2. NewRun(parent) \in NestedState
  <2>1. parent \in Runs \cup {Nil} /\ (parent # Nil => state[parent].depth + 1 \in Nat)
    BY FoundKnown DEF NestedState
  <2> HIDE DEF parent
  <2> QED
    BY <2>1 DEF NewRun, NestedState, Status, Working
<1> HIDE DEF parent
<1>3. LeadsOut(NewRun(parent)) /\ Unmarked(NewRun(parent))
  BY NilAssumption DEF NewRun, LeadsOut, Standing, Standstills, Unmarked, Status
<1>4. Unrepaired => r \notin finished
  BY DEF ReturnInv, DoneInv
<1> QED
  BY <1>1, <1>2, <1>3, <1>4 DEF StateStep, Returns

LEMMA SuspendReturns ==
    ASSUME Known, ReturnInv, SuspendActive
    PROVE  StateStep
<1>1. /\ FoundRun # Nil /\ state[FoundRun].phaseStatus \notin Standstills
      /\ state' = [state EXCEPT ![FoundRun] = Suspended(state[FoundRun])]
  BY DEF SuspendActive, SuspendAllowed, Standstills
<1>2. Returns(FoundRun, Suspended(state[FoundRun]))
  BY <1>1, FoundReturns, StatesNested, LeadsKept, UnmarkedKept DEF Returns
<1> QED
  BY <1>1, <1>2, FoundReturns DEF StateStep, Returns

LEMMA PauseReturns ==
    ASSUME Known, ReturnInv, PauseActive
    PROVE  StateStep
<1> DEFINE new == [state[FoundRun] EXCEPT !.prePauseStatus = state[FoundRun].phaseStatus,
                                          !.phaseStatus    = "paused"]
<1>1. FoundRun # Nil /\ state' = [state EXCEPT ![FoundRun] = new]
  BY DEF PauseActive, Write
<1>2. Returns(FoundRun, new)
  BY <1>1, FoundReturns, StatesNested, LeadsKept, UnmarkedKept DEF Returns
<1> QED
  BY <1>1, <1>2, FoundReturns DEF StateStep, Returns

LEMMA UnpauseReturns ==
    ASSUME Known, ReturnInv, ResumeFromPause
    PROVE  StateStep
<1>1. PICK r : /\ r = IF FoundRun = Nil /\ CleanStack # <<>> THEN Top(CleanStack).runId ELSE FoundRun
               /\ r # Nil /\ state[r].phaseStatus = "paused"
               /\ state' = [state EXCEPT ![r] = Unpaused(state[r])]
  BY DEF ResumeFromPause, Write
<1>2. r \in Started
  <2>1. CleanStack # <<>> => Top(CleanStack) \in KnownEntry
    BY FoundKnown, TopOfStack
  <2> QED
    BY <1>1, <2>1, FoundKnown DEF KnownEntry, Entry, Started
<1>3. state[r] \in NestedState /\ LeadsOut(state[r])
  BY <1>2 DEF Known, Started, ReturnInv, LeadInv
<1>4. Unrepaired => Unmarked(state[r]) /\ r \notin finished
  BY <1>1, <1>2 DEF ReturnInv, DoneInv, Standstills
<1>5. Returns(r, Unpaused(state[r]))
  BY <1>3, <1>4, StatesNested, LeadsKept, UnmarkedKept DEF Returns
<1> QED
  BY <1>1, <1>2, <1>5 DEF StateStep, Returns, Started

LEMMA ResumedReturns ==
    ASSUME Known, ReturnInv, NEW p \in Started, NEW expired \in BOOLEAN
    PROVE  /\ Returns(p, Resumed(p, expired))
           /\ Returns(p, [Resumed(p, expired) EXCEPT !.pendingPause = FALSE])
<1> DEFINE pausing == state[p].pendingPause \/ p \in deferred
           status  == IF pausing \/ (state[p].childPauseTimer /\ expired)
                      THEN "paused" ELSE OrElse(state[p].preSuspendStatus, "active")
<1>1. p \in Runs /\ state[p] \in NestedState /\ LeadsOut(state[p])
  BY DEF Known, Started, ReturnInv, LeadInv
<1>2. /\ Resumed(p, expired) \in NestedState
      /\ [Resumed(p, expired) EXCEPT !.pendingPause = FALSE] \in NestedState
  BY <1>1, ResumedNested DEF Started
<1>3. status \in Status \ {"suspended"}
  BY <1>1 DEF LeadsOut, NestedState, OrElse, Status, Working, Standstills
<1>4. Unrepaired => Unmarked(state[p]) /\ ~pausing /\ status \notin Standstills
  BY <1>1 DEF ReturnInv, DoneInv, Unmarked, LeadsOut, OrElse, Standstills
<1>5. Resumed(p, expired) = [state[p] EXCEPT !.phaseStatus = status, !.pendingPause = pausing]
  BY DEF Resumed
<1> HIDE DEF status, pausing
<1>6. /\ LeadsOut(Resumed(p, expired))
      /\ LeadsOut([Resumed(p, expired) EXCEPT !.pendingPause = FALSE])
  BY <1>1, <1>3, <1>5 DEF LeadsOut, Standing, NestedState
<1>7. Unrepaired => /\ Unmarked(Resumed(p, expired))
                    /\ Unmarked([Resumed(p, expired) EXCEPT !.pendingPause = FALSE])
                    /\ Resumed(p, expired).phaseStatus \notin Standstills
                    /\ [Resumed(p, expired) EXCEPT !.pendingPause = FALSE].phaseStatus \notin Standstills
  BY <1>1, <1>4, <1>5 DEF Unmarked, NestedState
<1> QED
  BY <1>2, <1>6, <1>7 DEF Returns

LEMMA ResumeReturns ==
    ASSUME Known, ReturnInv, NEW child \in Runs, ResumeSuspended(child) \/ CrashInResume(child)
    PROVE  /\ StateStep
           /\ Unrepaired => deferred' = {}
<1>1. CleanStack # <<>>
  BY DEF ResumeSuspended, CrashInResume, ResumeAllowed, ChildOnTop
<1>2. PICK p : p = Top(CleanStack).runId
  OBVIOUS
<1>3. p \in Started
  BY <1>1, <1>2, FoundKnown, TopOfStack DEF KnownEntry, Entry, Started
<1>4. \/ state' = state
      \/ \E expired \in BOOLEAN :
           state' \in {[state EXCEPT ![p] = Resumed(p, expired)],
                       [state EXCEPT ![p] = [Resumed(p, expired) EXCEPT !.pendingPause = FALSE]]}
  BY <1>2 DEF ResumeSuspended, CrashInResume
<1>5. StateStep
  BY <1>3, <1>4, ResumedReturns DEF StateStep, Returns, Started
<1>6. deferred' = DeferredAfter(p)
  BY <1>2 DEF ResumeSuspended, CrashInResume
<1>7. Unrepaired => deferred' = {}
  BY <1>3, <1>6 DEF DeferredAfter, ReturnInv, DoneInv, Unmarked
<1> QED
  BY <1>5, <1>7

LEMMA OrphanReturns ==
    ASSUME Known, ReturnInv, DetectOrphanedSuspend
    PROVE  StateStep
<1>1. stack # <<>> => Top(stack).runId \in Started
  <2>1. stack # <<>> => Top(stack) \in KnownEntry
    BY TopOfStack DEF Known
  <2> QED
    BY <2>1 DEF KnownEntry, Entry, Started
<1>2. \/ state' = state
      \/ \E r \in Started : state' = [state EXCEPT ![r] = Restored(state[r])]
  BY <1>1 DEF DetectOrphanedSuspend, Known, Started
<1>3. \A r \in Started : state[r] \in NestedState /\ LeadsOut(state[r])
  BY DEF Known, Started, ReturnInv, LeadInv
<1>4. ~Unrepaired
  BY DEF Unrepaired, DetectOrphanedSuspend, HostCall
<1> QED
  BY <1>2, <1>3, <1>4, StatesNested, LeadsKept DEF StateStep, Returns, Started

LEMMA TriggerReturns ==
    ASSUME Known, ReturnInv, HandleConcurrentPauseTrigger
    PROVE  StateStep
<1>1. \A r \in Started : state[r] \in NestedState /\ LeadsOut(state[r])
  BY DEF Known, Started, ReturnInv, LeadInv
<1>2. ~Unrepaired
  BY DEF Unrepaired, HandleConcurrentPauseTrigger, HostCall
<1> QED
  BY <1>1, <1>2, TriggerStep, StatesNested, LeadsKept DEF TriggerWrites, StateStep, Returns, Started

LEMMA PhaseFailReturns ==
    ASSUME Known, ReturnInv, NEW r \in Runs, HandlePhaseFail(r)
    PROVE  StateStep
<1>1. CASE state' = state
  BY <1>1 DEF StateStep
<1>2. CASE \E i \in DOMAIN stack :
             /\ stack[i].childRunId # Nil
             /\ state' = [state EXCEPT ![stack[i].childRunId].phaseStatus = "cancelled"]
  <2>1. PICK c \in Started : state' = [state EXCEPT ![c].phaseStatus = "cancelled"]
    <3>1. PICK i \in DOMAIN stack :
            /\ stack[i].childRunId # Nil
            /\ state' = [state EXCEPT ![stack[i].childRunId].phaseStatus = "cancelled"]
      BY <1>2
    <3>2. stack[i] \in KnownEntry
      BY DEF Known
    <3>3. stack[i].childRunId \in Started
      BY <3>1, <3>2 DEF KnownEntry, Entry, Started
    <3> QED
      BY <3>1, <3>3
  <2>2. state[c] \in NestedState /\ LeadsOut(state[c]) /\ (Unrepaired => Unmarked(state[c]))
    BY DEF Known, Started, ReturnInv, LeadInv, DoneInv
  <2>3. state' = [state EXCEPT ![c] = [state[c] EXCEPT !.phaseStatus = "cancelled"]]
    BY <2>1 DEF Known, Started
  <2>4. "cancelled" \in Status \ Standstills
    BY DEF Status, Standstills
  <2>5. Returns(c, [state[c] EXCEPT !.phaseStatus = "cancelled"])
    BY <2>2, <2>4, StatesNested, LeadsKept, UnmarkedKept DEF Returns, NestedState, Standstills
  <2> QED
    BY <2>3, <2>5 DEF StateStep, Returns, Started
<1> QED
  BY <1>1, <1>2 DEF HandlePhaseFail

LEMMA WaitReturns ==
    ASSUME Known, ReturnInv, WaitInEvent
    PROVE  /\ StateStep
           /\ LeadsOut(waiting'.new)
           /\ Unrepaired => Unmarked(waiting'.new) /\ waiting'.new.phaseStatus \notin Standstills
<1>1. PICK move \in WaitingMoves :
        waiting' = [run |-> FoundRun, new |-> [state[FoundRun] EXCEPT !.phaseStatus = move[2]]]
  BY DEF WaitInEvent
<1>2. move[2] \in Status \ Standstills
  BY MovesReturn
<1>3. Returns(FoundRun, [state[FoundRun] EXCEPT !.phaseStatus = move[2]])
  BY <1>2, FoundReturns, StatesNested, LeadsKept, UnmarkedKept
     DEF Returns, WaitInEvent, Standstills
<1>4. [state[FoundRun] EXCEPT !.phaseStatus = move[2]].phaseStatus = move[2]
  BY FoundReturns DEF NestedState, WaitInEvent
<1> QED
  BY <1>1, <1>2, <1>3, <1>4 DEF Returns, StateStep, WaitInEvent

LEMMA ResumeEventReturns ==
    ASSUME Known, ReturnInv, ResumeEvent
    PROVE  StateStep
<1>1. waiting.run \in Runs /\ waiting.new \in NestedState
  BY DEF ResumeEvent, Known, KnownCall, WaitingCall
<1>2. Returns(waiting.run, waiting.new)
  BY <1>1 DEF Returns, ReturnInv, LeadInv, DoneInv, ResumeEvent
<1> QED
  BY <1>1, <1>2 DEF StateStep, ResumeEvent

LEMMA NextReturns ==
    ASSUME Known, ReturnInv, Next
    PROVE  StateStep
<1>1. CASE ReadOnlyCall \/ CrashInSuspend \/ \E r \in Runs : SetChildRunId(r)
  BY <1>1 DEF ReadOnlyCall, CrashInSuspend, SetChildRunId, StateStep
<1> QED
  BY <1>1, StartReturns, OrdinaryReturns, WaitReturns, ResumeEventReturns, FinishReturns,
     SuspendReturns, ResumeReturns, PauseReturns, UnpauseReturns, OrphanReturns,
     PhaseFailReturns, TriggerReturns DEF Next

(* What else a step changes. *)
LEMMA NextRest ==
    ASSUME Known, ReturnInv, Next
    PROVE  /\ world' = world
           /\ waiting' \in {waiting, Nil} \/ WaitInEvent
           /\ finished' = finished \/ FinishRun
           /\ Unrepaired => deferred' = {}
           /\ Unrepaired => \/ active' \in {active, FoundRun}
                            \/ active' = Nil
                            \/ active' \notin Started /\ finished' = finished
<1>1. ASSUME NEW force \in BOOLEAN, StartPipeline(force)
      PROVE  active' \notin Started
  BY <1>1 DEF StartPipeline
<1>2. Unrepaired => ~DetectOrphanedSuspend
  BY DEF Unrepaired, DetectOrphanedSuspend, HostCall
<1>3. Unrepaired => deferred = {}
  BY DEF ReturnInv, DoneInv
<1>4. CASE \E child \in Runs : ResumeSuspended(child) \/ CrashInResume(child)
  BY <1>4, ResumeReturns DEF ResumeSuspended, CrashInResume
<1> QED
  BY <1>1, <1>2, <1>3, <1>4
     DEF Next, ReadOnlyCall, StartPipeline, OrdinaryEvent, Write, WaitInEvent, ResumeEvent,
         FinishRun, SuspendActive, CrashInSuspend, PauseActive,
         ResumeFromPause, SetChildRunId, HandlePhaseFail, DetectOrphanedSuspend,
         HandleConcurrentPauseTrigger, HostCall

LEMMA ReturnNext ==
    ASSUME Known, ReturnInv, [Next]_vars
    PROVE  ReturnInv'
<1>1. CASE UNCHANGED vars
  BY <1>1 DEF vars, ReturnInv, LeadInv, DoneInv, Unrepaired, Started
<1>2. CASE Next
  <2>1. StateStep
    BY <1>2, NextReturns
  <2>2. state \in [Runs -> NestedState \cup {Nil}] /\ Nil \notin NestedState
    BY NilAssumption DEF Known
  <2>3. Started \subseteq Started' /\ \A r \in Started' : LeadsOut(state'[r])
    BY <2>1, <2>2 DEF StateStep, Returns, ReturnInv, LeadInv, Started
  <2>4. waiting' # Nil => LeadsOut(waiting'.new)
    BY <1>2, NextRest, WaitReturns DEF ReturnInv, LeadInv
  <2>5. ASSUME Unrepaired PROVE DoneInv'
    <3>1. DoneInv
      BY <2>5 DEF ReturnInv
    <3>2. deferred' = {}
      BY <1>2, <2>5, NextRest
    <3>3. \A r \in Started' : Unmarked(state'[r])
      BY <2>1, <2>2, <2>5, <3>1 DEF StateStep, Returns, DoneInv, Started
    <3>4. \A r \in finished : state'[r].phaseStatus \notin Standstills
      BY <2>1, <2>2, <2>5, <3>1 DEF StateStep, Returns, DoneInv, Started
    <3>5. waiting' # Nil => Unmarked(waiting'.new) /\ waiting'.new.phaseStatus \notin Standstills
      BY <1>2, <2>5, <3>1, NextRest, WaitReturns DEF DoneInv
    <3>6. CASE finished' = finished
      <4>1. active' \notin finished
        BY <1>2, <2>5, <3>1, <3>6, NextRest, FoundReturns, NestingConstants DEF DoneInv, Known, Started
      <4> QED
        BY <2>3, <3>1, <3>2, <3>3, <3>4, <3>5, <3>6, <4>1 DEF DoneInv
    <3>7. CASE FinishRun
      <4>1. FoundRun \in Started /\ state[FoundRun] \in NestedState
        BY <3>7, FoundKnown DEF FinishRun, Started
      <4>2. finished' = finished \cup {FoundRun} /\ active' = Nil
        BY <3>7 DEF FinishRun
      <4>3. state'[FoundRun].phaseStatus = "complete"
        BY <2>2, <3>7, <4>1 DEF FinishRun, NestedState, Started
      <4>4. finished' \subseteq Started' /\ active' \notin finished'
        BY <2>3, <3>1, <4>1, <4>2, NestingConstants DEF DoneInv, Started
      <4>5. \A r \in finished' : state'[r].phaseStatus \notin Standstills
        BY <3>4, <4>2, <4>3 DEF Standstills
      <4> QED
        BY <3>2, <3>3, <3>5, <4>4, <4>5 DEF DoneInv
    <3> QED
      BY <1>2, <3>6, <3>7, NextRest
  <2>6. Unrepaired' => Unrepaired
    BY <1>2, NextRest DEF Unrepaired
  <2> QED
    BY <2>3, <2>4, <2>5, <2>6 DEF ReturnInv, LeadInv
<1> QED
  BY <1>1, <1>2

LEMMA ReturnInvariance == Spec => [](Known /\ ReturnInv)
<1>1. Init => Known /\ ReturnInv
  BY InitKnown, NestingConstants DEF Init, ReturnInv, LeadInv, DoneInv, Started
<1> QED
  BY <1>1, NextKnown, ReturnNext, PTL DEF Spec

(* A suspended run can always go back to what it did: pauses, crashes in   *)
(* the middle of a resume and late answers never make it forget that.      *)
THEOREM StandstillsEnd == Spec => []ResumeLeadsOut
<1>1. Known /\ ReturnInv => ResumeLeadsOut
  BY DEF ReturnInv, LeadInv, LeadsOut, Standing, Standstills, Started, ResumeLeadsOut, IsSuspended
<1> QED
  BY <1>1, ReturnInvariance, PTL

(* A run whose last phase is complete is never active again, unless orphan *)
(* recovery or a pause trigger meets it on the stack.                      *)
THEOREM FinishedForGood == Spec => []FinishedStaysFinished
<1>1. Known /\ ReturnInv => FinishedStaysFinished
  BY DEF ReturnInv, DoneInv, Unrepaired, FinishedStaysFinished
<1> QED
  BY <1>1, ReturnInvariance, PTL

-----------------------------------------------------------------------------
(* One run at work *)

(* Without children the walk stays where it starts, or ends at nothing. *)
LEMMA InnermostIsActive ==
    ASSUME Known, NoChild, stack # <<>>
    PROVE  Innermost \in {active, Nil}
<1> DEFINE D       == 0..(MAX_DEPTH - 1)
           step(w) == [n \in D |->
                         IF n = 0 THEN OrElse(Top(stack).childRunId, active)
                         ELSE IF IsSuspended(w[n - 1]) THEN ChildOf(w[n - 1]) ELSE w[n - 1]]
           walk    == CHOOSE w : w = step(w)
<1>1. Innermost = IF IsSuspended(Top(stack).runId) THEN walk[MAX_DEPTH - 1] ELSE Nil
  BY DEF Innermost
<1>2. OrElse(Top(stack).childRunId, active) = active
  BY TopOfStack DEF NoChild, Known, Top, OrElse
<1>3. \A r : ChildOf(r) = Nil
  <2> SUFFICES ASSUME NEW r, OnStack(r) PROVE ChildOf(r) = Nil
    BY DEF ChildOf
  <2>1. PositionsOf(r) \subseteq Nat /\ PositionsOf(r) # {}
    BY DEF OnStack, PositionsOf, Known
  <2>2. \E i \in PositionsOf(r) : LowestIn(PositionsOf(r), i)
    BY <2>1, LeastElement DEF LowestIn
  <2>3. (CHOOSE i \in PositionsOf(r) : LowestIn(PositionsOf(r), i)) \in DOMAIN stack
    BY <2>2 DEF PositionsOf
  <2> QED
    BY <2>3 DEF ChildOf, NoChild
<1>4. MAX_DEPTH - 1 \in Nat /\ MAX_DEPTH - 1 \in D
  BY NestingConstants
<1>5. ~IsSuspended(Nil)
  BY DEF IsSuspended
<1>6. \E w : w = step(w)
  <2> DEFINE w == [n \in D |-> IF n = 0 \/ ~IsSuspended(active) THEN active ELSE Nil]
  <2>1. ASSUME NEW n \in D PROVE w[n] = step(w)[n]
    <3>1. CASE n = 0
      BY <1>2, <3>1
    <3>2. CASE n # 0
      <4>1. n - 1 \in D /\ w[n - 1] = IF n - 1 = 0 \/ ~IsSuspended(active) THEN active ELSE Nil
        BY <1>4, <3>2
      <4>2. step(w)[n] = IF IsSuspended(w[n - 1]) THEN Nil ELSE w[n - 1]
        BY <1>3, <3>2
      <4> QED
        BY <1>5, <3>2, <4>1, <4>2
    <3> QED
      BY <3>1, <3>2
  <2>2. w = step(w)
    BY <2>1
  <2> QED
    BY <2>2
<1> HIDE DEF step
<1>7. walk = step(walk)
  BY <1>6
<1> USE DEF step
<1> HIDE DEF walk
<1> DEFINE T == {n \in D : walk[n] \in {active, Nil}}
<1>8. 0 \in T
  BY <1>2, <1>4, <1>7
<1>9. \A n \in 0..((MAX_DEPTH - 1) - 1) : n \in T => n + 1 \in T
  <2> SUFFICES ASSUME NEW n \in 0..((MAX_DEPTH - 1) - 1), n \in T PROVE n + 1 \in T
    OBVIOUS
  <2>1. n + 1 \in D /\ n + 1 # 0 /\ (n + 1) - 1 = n
    BY <1>4
  <2>2. walk[n + 1] = IF IsSuspended(walk[n]) THEN Nil ELSE walk[n]
    BY <1>3, <1>7, <2>1
  <2> QED
    BY <2>1, <2>2
<1> HIDE DEF T
<1>10. D \subseteq T
  BY <1>4, <1>8, <1>9, BoundedInduction
<1> USE DEF T
<1> QED
  BY <1>1, <1>4, <1>10

Orderly == world.can \cap {"overlap", "stale", "force", "setChildRunId"} = {}

AtRest == {"suspended", "complete", "cancelled"}

(* What the pointer does not name rests: it is suspended, or its last phase *)
(* or its life is over.                                                     *)
Alone ==
    /\ waiting = Nil
    /\ NoChild
    /\ \A i \in DOMAIN stack : stack[i].runId = active \/ state[stack[i].runId].phaseStatus \in AtRest

LEMMA AloneFound ==
    ASSUME Known, Alone
    PROVE  /\ CleanStack = stack
           /\ \A i \in DOMAIN stack :
                stack[i].runId = FoundRun \/ state[stack[i].runId].phaseStatus \in AtRest
           /\ FoundRun # active => active = Nil
           /\ \A i \in DOMAIN stack : stack[i].runId \in Runs /\ state[stack[i].runId] # Nil
           /\ stack # <<>> => Len(stack) \in DOMAIN stack /\ Top(stack) = stack[Len(stack)]
<1>1. stack # <<>> => Len(stack) \in DOMAIN stack /\ Top(stack) = stack[Len(stack)]
  BY TopOfStack DEF Known, Top
<1>2. CleanStack = stack
  BY <1>1 DEF CleanStack, Alone, NoChild
<1>3. \A i \in DOMAIN stack : stack[i].runId \in Runs /\ state[stack[i].runId] # Nil
  BY DEF Known, KnownEntry, Entry
<1>4. FoundRun # active => active = Nil
  BY DEF FoundRun
<1>5. active = Nil => \A i \in DOMAIN stack : state[stack[i].runId].phaseStatus \in AtRest
  BY <1>3, NestingConstants DEF Alone
<1> QED
  BY <1>1, <1>2, <1>3, <1>4, <1>5 DEF Alone

(* A step keeps this if it writes one run at most, puts none on the stack  *)
(* but the one found, and leaves the run it writes and the one it found    *)
(* under the pointer or at rest.                                           *)
LEMMA AloneStep ==
    ASSUME Known, Alone, waiting' = Nil, NEW r,
           \A q \in Runs : q # r => state'[q] = state[q],
           \A i \in DOMAIN stack' :
              /\ stack'[i].childRunId = Nil
              /\ \/ stack'[i].runId \in Runs /\ stack'[i].runId = FoundRun
                 \/ \E j \in DOMAIN stack : stack[j].runId = stack'[i].runId,
           r \in Runs => r = active' \/ state'[r].phaseStatus \in AtRest,
           FoundRun \in Runs => FoundRun = active' \/ state'[FoundRun].phaseStatus \in AtRest
    PROVE  Alone'
<1>1. NoChild'
  BY DEF NoChild
<1>2. ASSUME NEW i \in DOMAIN stack'
      PROVE  stack'[i].runId = active' \/ state'[stack'[i].runId].phaseStatus \in AtRest
  <2>1. PICK q : q = stack'[i].runId
    OBVIOUS
  <2>2. q \in Runs /\ (q = FoundRun \/ state[q].phaseStatus \in AtRest)
    BY <2>1, AloneFound
  <2> QED
    BY <2>1, <2>2
<1> QED
  BY <1>1, <1>2 DEF Alone

(* A step that only reads, or writes the run found: the usual case. *)
LEMMA AloneFoundStep ==
    ASSUME Known, Alone, waiting' = Nil, stack' = stack,
           \A q \in Runs : q # FoundRun => state'[q] = state[q],
           FoundRun \in Runs => FoundRun = active' \/ state'[FoundRun].phaseStatus \in AtRest
    PROVE  Alone'
  BY AloneStep DEF Alone, NoChild

LEMMA AloneEvents ==
    ASSUME Known, Alone,
           ReadOnlyCall \/ OrdinaryEvent \/ FinishRun \/ PauseActive
    PROVE  Alone'
<1>1. stack' = stack /\ waiting' = Nil
  BY AloneFound DEF ReadOnlyCall, OrdinaryEvent, FinishRun, PauseActive, Write, Alone
<1>2. \A q \in Runs : q # FoundRun => state'[q] = state[q]
  BY DEF ReadOnlyCall, OrdinaryEvent, FinishRun, PauseActive, Write, Known
<1>3. active' = FoundRun \/ (FoundRun \in Runs => state'[FoundRun].phaseStatus \in AtRest)
  <2>1. CASE FinishRun
    <3>1. FoundRun \in Runs => state[FoundRun] \in NestedState
      BY <2>1, FoundKnown DEF FinishRun
    <3> QED
      BY <2>1, <3>1 DEF FinishRun, Known, NestedState, AtRest
  <2> QED
    BY <2>1 DEF ReadOnlyCall, OrdinaryEvent, PauseActive, Write
<1> QED
  BY <1>1, <1>2, <1>3, AloneFoundStep

LEMMA AloneUnpause ==
    ASSUME Known, Alone, ResumeFromPause
    PROVE  Alone'
<1>1. PICK r : /\ r = IF FoundRun = Nil /\ CleanStack # <<>> THEN Top(CleanStack).runId ELSE FoundRun
               /\ r # Nil /\ state[r].phaseStatus = "paused"
               /\ Write(r, Unpaused(state[r]))
  BY DEF ResumeFromPause
<1>2. r = FoundRun
  <2>1. SUFFICES ASSUME FoundRun = Nil, stack # <<>> PROVE state[Top(stack).runId].phaseStatus \in AtRest
    BY <1>1, AloneFound DEF AtRest
  <2>2. active = Nil
    BY <2>1, AloneFound
  <2> QED
    BY <2>1, <2>2, AloneFound, NestingConstants DEF Alone
<1> QED
  BY <1>1, <1>2, AloneFound, AloneFoundStep DEF Write, Known, Alone

LEMMA AloneSuspend ==
    ASSUME Known, Alone, SuspendActive \/ CrashInSuspend
    PROVE  Alone'
<1>1. PICK e : /\ stack' = Append(stack, e)
               /\ e.runId = FoundRun /\ e.childRunId = Nil
  BY AloneFound DEF SuspendActive, CrashInSuspend, Push
<1>2. /\ DOMAIN stack' = DOMAIN stack \cup {Len(stack) + 1}
      /\ \A i \in DOMAIN stack : stack'[i] = stack[i]
      /\ stack'[Len(stack) + 1] = e
  BY <1>1 DEF Known
<1>3. /\ FoundRun \in Runs /\ active' = FoundRun /\ waiting' = Nil
      /\ \A q \in Runs : q # FoundRun => state'[q] = state[q]
  BY FoundKnown DEF SuspendActive, CrashInSuspend, SuspendAllowed, Known, Alone
<1> QED
  BY <1>1, <1>2, <1>3, AloneStep DEF Alone, NoChild

LEMMA AloneStart ==
    ASSUME Known, Orderly, Alone, NEW force \in BOOLEAN, StartPipeline(force)
    PROVE  Alone'
<1>1. ~force /\ "stale" \notin world.can
  BY DEF Orderly, StartPipeline
<1>2. stack' = stack /\ waiting' = Nil
  BY <1>1, AloneFound DEF StartPipeline, Alone
<1>3. PICK r \in Runs \ Started : /\ \A q \in Runs : q # r => state'[q] = state[q]
                                  /\ active' = r
  BY DEF StartPipeline, Known
<1>4. FoundRun \in Runs => FoundRun # r /\ state[FoundRun].phaseStatus \in AtRest
  <2>1. FoundRun \in Runs => FoundRun \in Started
    BY FoundKnown, NestingConstants DEF Started
  <2> QED
    BY <1>1, <1>3, <2>1, NestingConstants DEF StartPipeline, IsSuspended, Replaceable, AtRest
<1> QED
  BY <1>2, <1>3, <1>4, AloneStep DEF Alone, NoChild

LEMMA AloneOrphan ==
    ASSUME Known, Alone, DetectOrphanedSuspend
    PROVE  Alone'
<1>1. waiting' = Nil
  BY DEF DetectOrphanedSuspend, HostCall, Alone
<1>2. \A i \in DOMAIN stack' : i \in DOMAIN stack /\ stack'[i] = stack[i]
  <2>1. stack' = stack \/ (stack # <<>> /\ stack' = Popped(stack))
    BY DEF DetectOrphanedSuspend
  <2> QED
    BY <2>1 DEF Popped, Known
<1>3. PICK r : /\ r = IF active = Nil THEN Top(stack).runId ELSE active
               /\ active' = r
               /\ \A q \in Runs : q # r => state'[q] = state[q]
  BY DEF DetectOrphanedSuspend, Known
<1>4. FoundRun \in Runs => FoundRun = r
  BY <1>3, NestingConstants DEF FoundRun
<1> QED
  BY <1>1, <1>2, <1>3, <1>4, AloneStep DEF Alone, NoChild

LEMMA AloneTrigger ==
    ASSUME Known, Alone, HandleConcurrentPauseTrigger
    PROVE  Alone'
<1>1. waiting' = Nil /\ stack' = stack /\ active' = active
  BY DEF HandleConcurrentPauseTrigger, HostCall, Alone
<1>2. CASE Interruptible(active) /\ state' = [state EXCEPT ![active] = PausedByTrigger(state[active])]
  <2>1. FoundRun = active
    BY <1>2 DEF FoundRun, Interruptible
  <2> QED
    BY <1>1, <1>2, <2>1, AloneFoundStep DEF Known
<1>3. CASE stack # <<>> /\ state' = [state EXCEPT ![Top(stack).runId].pendingPause = TRUE]
  <2>1. PICK r \in Runs : r = Top(stack).runId /\ state[r] \in NestedState
    BY <1>3, AloneFound DEF Known
  <2>2. /\ \A q \in Runs : q # r => state'[q] = state[q]
        /\ state'[r].phaseStatus = state[r].phaseStatus
    BY <1>3, <2>1 DEF Known, NestedState
  <2>3. r = active \/ state[r].phaseStatus \in AtRest
    BY <1>3, <2>1, AloneFound DEF Alone
  <2>4. FoundRun \in Runs => FoundRun = active \/ (FoundRun = r /\ state[r].phaseStatus \in AtRest)
    BY <2>1 DEF FoundRun, AtRest
  <2> QED
    BY <1>1, <2>2, <2>3, <2>4, AloneStep DEF Alone, NoChild
<1>4. ASSUME ~Interruptible(active), stack # <<>> PROVE ~Interruptible(Innermost)
  BY <1>4, InnermostIsActive DEF Interruptible, Alone
<1> QED
  BY <1>2, <1>3, <1>4 DEF HandleConcurrentPauseTrigger

LEMMA AloneNext ==
    ASSUME Known, Orderly => Alone, [Next]_vars
    PROVE  Orderly' => Alone'
<1>1. SUFFICES ASSUME Orderly, Alone PROVE Alone'
  <2>1. world' = world
    BY DEF Next, vars, ReadOnlyCall, StartPipeline, OrdinaryEvent, Write, WaitInEvent, ResumeEvent,
           FinishRun, SuspendActive, CrashInSuspend, ResumeSuspended, CrashInResume, PauseActive,
           ResumeFromPause, SetChildRunId, HandlePhaseFail, DetectOrphanedSuspend,
           HandleConcurrentPauseTrigger, HostCall
  <2> QED
    BY <2>1 DEF Orderly
<1>2. CASE UNCHANGED vars
  BY <1>1, <1>2 DEF vars, Alone, NoChild
<1>3. CASE Next
  BY <1>1, <1>3, AloneEvents, AloneUnpause, AloneSuspend, AloneStart, AloneOrphan, AloneTrigger,
     NothingToResume
  DEF Next, Alone, Orderly, WaitInEvent, ResumeEvent, SetChildRunId, HostCall
<1> QED
  BY <1>2, <1>3

LEMMA AloneInvariance == Spec => [](Known /\ (Orderly => Alone))
<1>1. Init => Known /\ (Orderly => Alone)
  BY InitKnown DEF Init, Alone, NoChild
<1> QED
  BY <1>1, NextKnown, AloneNext, PTL DEF Spec

(* Of the runs the watchdog still knows, one at most is at work, as long as *)
(* calls do not overlap, none is replaced at work and the host reports no   *)
(* child: whatever crashes, pauses, repairs and failures there are.         *)
THEOREM OneRunAtWork == Spec => []OneAtWork
<1>1. Known /\ (Orderly => Alone) => OneAtWork
  <2> SUFFICES ASSUME Known, Alone, NEW r \in Runs, IsWorking(r), r = active \/ OnStack(r)
               PROVE  r = active
    BY DEF OneAtWork, Orderly
  <2>1. OnStack(r) => \E i \in DOMAIN stack : stack[i].runId = r
    BY DEF OnStack, PositionsOf
  <2>2. state[r].phaseStatus \notin AtRest
    BY DEF IsWorking, Working, AtRest
  <2> QED
    BY <2>1, <2>2 DEF Alone
<1> QED
  BY <1>1, AloneInvariance, PTL
=============================================================================

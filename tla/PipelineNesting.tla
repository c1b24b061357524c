---------------------------- MODULE PipelineNesting ----------------------------
(***************************************************************************)
(* packages/watchdog/src/pipeline-store.ts, "Phase 3: Pipeline nesting",   *)
(* with the parts of checkpoint.ts that route to it, for one project: a    *)
(* run is suspended, a child run is started in its place, and the parent   *)
(* is resumed.  Three files change one after the other, the state of the   *)
(* run, the suspension stack and the pointer to the active run, and        *)
(* getActiveRun repairs what it reads.                                     *)
(*                                                                         *)
(* A state is reduced to the fields nesting looks at; the ten ordinary     *)
(* events (PhaseTransitions, CheckpointHandler) appear as moves of the     *)
(* phase status.  The 'child-pending' placeholder, regression counters,    *)
(* quarantine flags and reviewer takeover are written here but read by no  *)
(* decision below.  Cross-project parents are left out.                    *)
(***************************************************************************)
EXTENDS Integers, Sequences, FiniteSets

CONSTANTS
    Runs,       \* run ids
    MAX_DEPTH,  \* constants.ts: 10
    Worlds,     \* instances, each with what can happen in it and its bounds
    Nil         \* null / undefined

(* "stale" and "force" are reasons to replace an unfinished run.  The last  *)
(* four are calls of the store that no code of the repository but its tests *)
(* makes, or that are left to the host.                                     *)
Flag == {"crash", "overlap", "stale", "force",
         "setChildRunId", "detectOrphanedSuspend", "handlePhaseFail", "pauseTrigger"}

(* Two bounds: runs that are started, and entries on the stack, which grows *)
(* without limit after crashes and when unfinished children are replaced.   *)
World == [can : SUBSET Flag, runs : Nat, entries : Nat]

ASSUME NestingConstants ==
    /\ MAX_DEPTH \in Nat \ {0}
    /\ Worlds \subseteq World
    /\ Nil \notin Runs

VARIABLES
    world,      \* the member of Worlds this behaviour belongs to; never changes
    active,     \* active.json: the active run, or Nil
    stack,      \* suspended-stack.json: its entries, the top one last
    state,      \* <run>/state.json
    finished,   \* runs whose last phase_complete went through
    deferred,   \* runs with a DEFERRED_PAUSE entry in their audit log
    waiting     \* a handle() call that awaits: the run and the state it will write

vars == <<world, active, stack, state, finished, deferred, waiting>>

Working == {"active", "ralph_loop", "awaiting_approval"}

Status == Working \cup {"idle", "complete", "suspended", "paused", "cancelled"}

NestedState == [phaseStatus      : Status,
                preSuspendStatus : Status \cup {Nil},
                prePauseStatus   : Status \cup {Nil},
                depth            : Nat,
                parentRunId      : Runs \cup {Nil},
                pendingPause     : BOOLEAN,
                childPauseTimer  : BOOLEAN]

(* inPhase: suspendedPhase is a phase, not the 0 of a run that is still idle. *)
Entry == [runId : Runs, depth : Nat, inPhase : BOOLEAN, childRunId : Runs \cup {Nil}]

WaitingCall == [run : Runs, new : NestedState]

ASSUME NilAssumption ==
    /\ Nil \notin Status
    /\ Nil \notin NestedState
    /\ Nil \notin WaitingCall

Init ==
    /\ world \in Worlds
    /\ active = Nil
    /\ stack = <<>>
    /\ state = [r \in Runs |-> Nil]
    /\ finished = {}
    /\ deferred = {}
    /\ waiting = Nil

-----------------------------------------------------------------------------
(* The stack *)

Top(s) == s[Len(s)]
Popped(s) == SubSeq(s, 1, Len(s) - 1)

PositionsOf(r) == {i \in DOMAIN stack : stack[i].runId = r}
OnStack(r) == PositionsOf(r) # {}

(* Array.find: the lowest entry that fits. *)
LowestIn(positions, i) == i \in positions /\ \A j \in positions : i <= j

Without(i) == SubSeq(stack, 1, i - 1) \o SubSeq(stack, i + 1, Len(stack))

-----------------------------------------------------------------------------
(***************************************************************************)
(* getActiveRun, the first thing handle() does: an entry whose child is    *)
(* active is dropped as stale, and with no active run the pointer goes     *)
(* back to a suspended run on top of the stack.  Reading again changes     *)
(* nothing, so the later reads of the same call are not repeated here.     *)
(***************************************************************************)
CleanStack ==
    IF active # Nil /\ stack # <<>> /\ Top(stack).childRunId = active
    THEN Popped(stack) ELSE stack

PointerToTop == IF active = Nil /\ stack # <<>> THEN Top(stack).runId ELSE active  \* mutant

FoundRun ==
    IF active = Nil /\ stack # <<>> /\ state[Top(stack).runId].phaseStatus = "suspended"
    THEN Top(stack).runId ELSE active

(* The call changes the state of one run and leaves the rest as it found it. *)
Write(r, new) ==
    /\ state' = [state EXCEPT ![r] = new]
    /\ active' = FoundRun
    /\ stack' = CleanStack
    /\ UNCHANGED <<world, finished, deferred, waiting>>

(* A refused call: all it leaves behind is the repair. *)
ReadOnlyCall ==
    /\ active' = FoundRun
    /\ stack' = CleanStack
    /\ UNCHANGED <<world, state, finished, deferred, waiting>>

-----------------------------------------------------------------------------
(* pipeline_start *)

AlwaysReplaceable(r, force) ==  \* mutant: the single-pipeline check is dropped
    state[r].phaseStatus \notin {"paused", "awaiting_approval"}

Replaceable(r, force) ==
    \/ state[r].phaseStatus \in {"complete", "cancelled"}
    \/ state[r].phaseStatus \notin {"paused", "awaiting_approval"}
       /\ (force \/ "stale" \in world.can)

IsSuspended(r) == r # Nil /\ state[r] # Nil /\ state[r].phaseStatus = "suspended"

NewRun(parent) ==
    [phaseStatus      |-> "idle",
     preSuspendStatus |-> Nil,
     prePauseStatus   |-> Nil,
     depth            |-> IF parent = Nil THEN 0 ELSE state[parent].depth + 1,
     parentRunId      |-> parent,
     pendingPause     |-> FALSE,
     childPauseTimer  |-> FALSE]

Started == {r \in Runs : state[r] # Nil}

(* A suspended run becomes the parent; force drains the stack all the same. *)
StartPipeline(force) ==
    /\ force => "force" \in world.can
    /\ FoundRun # Nil => IsSuspended(FoundRun) \/ Replaceable(FoundRun, force)
    /\ Cardinality(Started) < world.runs
    /\ \E r \in Runs \ Started :
        /\ state' = [state EXCEPT ![r] = NewRun(IF IsSuspended(FoundRun) THEN FoundRun ELSE Nil)]
        /\ active' = r
    /\ stack' = IF force /\ FoundRun # Nil THEN <<>> ELSE CleanStack
    /\ UNCHANGED <<world, finished, deferred, waiting>>

-----------------------------------------------------------------------------
(* The ordinary events *)

(* Those that write at once: ralph_loop_start, ralph_terminate, the approval *)
(* of a followup phase, phase_complete before the last phase.                *)
EventMoves == {<<"active", "ralph_loop">>, <<"ralph_loop", "awaiting_approval">>,
               <<"active", "awaiting_approval">>, <<"awaiting_approval", "complete">>}

(* Those that wait before they write: phase_enter, ralph_round_complete. *)
WaitingMoves == {<<"idle", "active">>, <<"complete", "active">>, <<"ralph_loop", "ralph_loop">>}

OrdinaryEvent ==
    /\ FoundRun # Nil
    /\ \E move \in EventMoves \cup WaitingMoves :
        /\ state[FoundRun].phaseStatus = move[1]
        /\ Write(FoundRun, [state[FoundRun] EXCEPT !.phaseStatus = move[2]])

(* With parallel tool calls other events come in during the wait. *)
WaitInEvent ==
    /\ "overlap" \in world.can
    /\ waiting = Nil
    /\ FoundRun # Nil
    /\ \E move \in WaitingMoves :
        /\ state[FoundRun].phaseStatus = move[1]
        /\ waiting' = [run |-> FoundRun,
                       new |-> [state[FoundRun] EXCEPT !.phaseStatus = move[2]]]
    /\ active' = FoundRun
    /\ stack' = CleanStack
    /\ UNCHANGED <<world, state, finished, deferred>>

ResumeEvent ==
    /\ waiting # Nil
    /\ state' = [state EXCEPT ![waiting.run] = waiting.new]
    /\ waiting' = Nil
    /\ UNCHANGED <<world, active, stack, finished, deferred>>

(* phase_complete of the last phase *)
FinishRun ==
    /\ FoundRun # Nil
    /\ state[FoundRun].phaseStatus = "awaiting_approval"
    /\ state' = [state EXCEPT ![FoundRun].phaseStatus = "complete"]
    /\ finished' = finished \cup {FoundRun}
    /\ active' = Nil
    /\ stack' = CleanStack
    /\ UNCHANGED <<world, deferred, waiting>>

-----------------------------------------------------------------------------
(* pipeline_suspend *)

CanSuspendByEntry(r) ==         \* mutant: the depths of the entries are compared as they are
    \A i \in DOMAIN CleanStack : CleanStack[i].depth < MAX_DEPTH

(* The limit is for the child to come, which is one deeper than this run; if *)
(* depth and stack disagree the deepest entry is taken instead.              *)
CanSuspend(r) ==
    IF state[r].depth # Len(CleanStack) /\ CleanStack # <<>>
    THEN \A i \in DOMAIN CleanStack : CleanStack[i].depth + 1 < MAX_DEPTH
    ELSE state[r].depth + 1 < MAX_DEPTH

SuspendAgain(r) ==              \* mutant: a suspended run may be suspended
    r # Nil /\ state[r].phaseStatus # "paused" /\ CanSuspend(r) /\ Len(CleanStack) < world.entries

SuspendAllowed(r) ==
    /\ r # Nil
    /\ state[r].phaseStatus \notin {"suspended", "paused"}
    /\ CanSuspend(r)
    /\ Len(CleanStack) < world.entries

Push(r) == Append(CleanStack, [runId      |-> r,
                               depth      |-> state[r].depth,
                               inPhase    |-> state[r].phaseStatus # "idle",
                               childRunId |-> Nil])

Suspended(s) == [s EXCEPT !.preSuspendStatus = s.phaseStatus, !.phaseStatus = "suspended"]

SuspendActive ==
    /\ SuspendAllowed(FoundRun)
    /\ stack' = Push(FoundRun)
    /\ state' = [state EXCEPT ![FoundRun] = Suspended(state[FoundRun])]
    /\ active' = FoundRun
    /\ UNCHANGED <<world, finished, deferred, waiting>>

CrashAfterState ==              \* mutant: the state is written before the stack
    /\ "crash" \in world.can
    /\ SuspendAllowed(FoundRun)
    /\ state' = [state EXCEPT ![FoundRun] = Suspended(state[FoundRun])]
    /\ stack' = CleanStack
    /\ active' = FoundRun
    /\ waiting' = Nil
    /\ UNCHANGED <<world, finished, deferred>>

(* The process dies after the stack is written and before the state is. *)
CrashInSuspend ==
    /\ "crash" \in world.can
    /\ SuspendAllowed(FoundRun)
    /\ stack' = Push(FoundRun)
    /\ active' = FoundRun
    /\ waiting' = Nil
    /\ UNCHANGED <<world, state, finished, deferred>>

-----------------------------------------------------------------------------
(* pipeline_resume *)

(* The named child must be that of the top entry, and of no lower one. *)
ChildOnTop(child) ==
    /\ CleanStack # <<>>
    /\ Top(CleanStack).childRunId = child
    /\ \A i \in 1..(Len(CleanStack) - 1) : CleanStack[i].childRunId # child

(* Missing child states count as failed; grandchildren are looked up by depth. *)
ChildDone(child) ==
    \/ state[child] = Nil
    \/ /\ state[child].phaseStatus \notin {"ralph_loop", "active"}
       /\ state[child].phaseStatus = "suspended" =>
            \A i \in DOMAIN CleanStack : CleanStack[i].depth <= Top(CleanStack).depth

ResumeAllowed(child) == ChildOnTop(child) /\ ChildDone(child)

(* The operator ??: the value, or the default when there is none. *)
OrElse(value, default) == IF value = Nil THEN default ELSE value

(* The parent as it is written before the stack is popped.  A pause that was *)
(* pending, or ever deferred, wins over the status before the suspension.    *)
Resumed(p, expired) ==
    LET s       == state[p]
        pausing == s.pendingPause \/ p \in deferred
    IN  [s EXCEPT !.phaseStatus  = IF pausing \/ (s.childPauseTimer /\ expired)
                                   THEN "paused" ELSE OrElse(s.preSuspendStatus, "active"),
                  !.pendingPause = pausing]

DeferredAfter(p) == IF state[p].pendingPause THEN deferred \cup {p} ELSE deferred

ResumeSuspended(child) ==
    /\ ResumeAllowed(child)
    /\ LET p == Top(CleanStack).runId
       IN  /\ \E expired \in BOOLEAN :
               state' = [state EXCEPT ![p] = [Resumed(p, expired) EXCEPT !.pendingPause = FALSE]]
           /\ deferred' = DeferredAfter(p)
    /\ stack' = Popped(CleanStack)
    /\ active' = FoundRun
    /\ UNCHANGED <<world, finished, waiting>>

(* It dies after the deferred pause is logged, after the parent is written, *)
(* or after the stack is popped and before the pending pause is cleared.    *)
CrashInResume(child) ==
    /\ "crash" \in world.can
    /\ ResumeAllowed(child)
    /\ LET p == Top(CleanStack).runId
       IN  /\ \/ UNCHANGED state /\ stack' = CleanStack
              \/ /\ \E expired \in BOOLEAN : state' = [state EXCEPT ![p] = Resumed(p, expired)]
                 /\ stack' \in {CleanStack, Popped(CleanStack)}
           /\ deferred' = DeferredAfter(p)
    /\ active' = FoundRun
    /\ waiting' = Nil
    /\ UNCHANGED <<world, finished>>

-----------------------------------------------------------------------------
(* pipeline_pause and pipeline_unpause *)

(* Whatever the status is: no table of transitions is looked up. *)
PauseActive ==
    /\ FoundRun # Nil
    /\ Write(FoundRun, [state[FoundRun] EXCEPT !.prePauseStatus = state[FoundRun].phaseStatus,
                                               !.phaseStatus    = "paused"])

UnpausedUnguarded(s) ==         \* mutant: no default for a status that was never kept
    [s EXCEPT !.phaseStatus = s.prePauseStatus, !.prePauseStatus = Nil, !.childPauseTimer = FALSE]

Unpaused(s) == [s EXCEPT !.phaseStatus     = OrElse(s.prePauseStatus, "active"),
                         !.prePauseStatus  = Nil,
                         !.childPauseTimer = FALSE]

(* With no pointer, the top of the stack is meant. *)
ResumeFromPause ==
    LET r == IF FoundRun = Nil /\ CleanStack # <<>> THEN Top(CleanStack).runId ELSE FoundRun
    IN  /\ r # Nil
        /\ state[r].phaseStatus = "paused"
        /\ Write(r, Unpaused(state[r]))

-----------------------------------------------------------------------------
(* Calls left to the host *)

HostCall(name) ==
    /\ name \in world.can
    /\ UNCHANGED <<world, finished, deferred, waiting>>

(* The host reports which run it started in place of a suspended one. *)
SetChildRunId(child) ==
    /\ HostCall("setChildRunId")
    /\ state[child] # Nil
    /\ \E i \in DOMAIN stack :
        /\ LowestIn(PositionsOf(state[child].parentRunId), i)
        /\ stack' = [stack EXCEPT ![i].childRunId = child]
    /\ UNCHANGED <<active, state>>

Restored(s) ==
    [s EXCEPT !.phaseStatus =
        IF s.preSuspendStatus \in {Nil, "failed", "cancelled"} THEN "active" ELSE s.preSuspendStatus]

(* The scan for suspended runs that are not on the stack is left out: it     *)
(* asks the state store for state files below the project's directory, and   *)
(* list() does not descend into the directories of the runs.                 *)
DetectOrphanedSuspend ==
    /\ HostCall("detectOrphanedSuspend")
    /\ \/ /\ active # Nil /\ stack # <<>>       \* the resume was not finished
          /\ Top(stack).runId = active /\ Top(stack).childRunId # active
          /\ state[active].phaseStatus # "suspended"
          /\ stack' = Popped(stack)
          /\ UNCHANGED <<active, state>>
       \/ /\ active # Nil /\ stack = <<>>       \* popped, but still suspended
          /\ state[active].phaseStatus = "suspended"
          /\ state' = [state EXCEPT ![active] = Restored(state[active])]
          /\ UNCHANGED <<active, stack>>
       \/ /\ active = Nil /\ stack # <<>>       \* the child is gone
          /\ Top(stack).inPhase
          /\ LET p == Top(stack).runId
             IN  /\ state' = [state EXCEPT ![p] = Restored(state[p])]
                 /\ active' = p
                 /\ stack' = IF state[p].pendingPause THEN stack ELSE Popped(stack)

ParentsOf(r) == {i \in DOMAIN stack : stack[i].childRunId = r}

(* A parent that fails takes its child with it; a child, its parent's entry. *)
HandlePhaseFail(r) ==
    /\ HostCall("handlePhaseFail")
    /\ UNCHANGED active
    /\ \E i \in DOMAIN stack :
        /\ stack' = Without(i)
        /\ \/ /\ LowestIn(PositionsOf(r), i)
              /\ stack[i].childRunId # Nil
              /\ state' = [state EXCEPT ![stack[i].childRunId].phaseStatus = "cancelled"]
           \/ /\ LowestIn(ParentsOf(r), i)
              /\ \A j \in PositionsOf(r) : LowestIn(PositionsOf(r), j) => stack[j].childRunId = Nil
              /\ UNCHANGED state

Interruptible(r) == r # Nil /\ state[r] # Nil /\ state[r].phaseStatus \notin {"suspended", "paused"}

PausedByTrigger(s) == [s EXCEPT !.prePauseStatus  = s.phaseStatus,
                                !.phaseStatus     = "paused",
                                !.childPauseTimer = TRUE]

ChildOf(r) ==
    IF OnStack(r) THEN stack[CHOOSE i \in PositionsOf(r) : LowestIn(PositionsOf(r), i)].childRunId
    ELSE Nil

(* From the top entry down the chain of suspended children. *)
Innermost ==
    LET walk[n \in 0..(MAX_DEPTH - 1)] ==
            IF n = 0 THEN OrElse(Top(stack).childRunId, active)
            ELSE IF IsSuspended(walk[n - 1]) THEN ChildOf(walk[n - 1]) ELSE walk[n - 1]
    IN  IF IsSuspended(Top(stack).runId) THEN walk[MAX_DEPTH - 1] ELSE Nil

HandleConcurrentPauseTrigger ==
    /\ HostCall("pauseTrigger")
    /\ UNCHANGED <<active, stack>>
    /\ \/ /\ Interruptible(active)
          /\ state' = [state EXCEPT ![active] = PausedByTrigger(state[active])]
       \/ /\ ~Interruptible(active) /\ stack # <<>>
          /\ state' = IF Interruptible(Innermost)
                      THEN [state EXCEPT ![Innermost] = PausedByTrigger(state[Innermost])]
                      ELSE [state EXCEPT ![Top(stack).runId].pendingPause = TRUE]

-----------------------------------------------------------------------------
Next ==
    \/ ReadOnlyCall
    \/ \E force \in BOOLEAN : StartPipeline(force)
    \/ OrdinaryEvent
    \/ WaitInEvent
    \/ ResumeEvent
    \/ FinishRun
    \/ SuspendActive
    \/ CrashInSuspend
    \/ \E child \in Runs : ResumeSuspended(child) \/ CrashInResume(child)
    \/ PauseActive
    \/ ResumeFromPause
    \/ \E r \in Runs : SetChildRunId(r) \/ HandlePhaseFail(r)
    \/ DetectOrphanedSuspend
    \/ HandleConcurrentPauseTrigger

Spec == Init /\ [][Next]_vars
=============================================================================

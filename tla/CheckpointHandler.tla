--------------------------- MODULE CheckpointHandler ---------------------------
(***************************************************************************)
(* packages/watchdog/src/checkpoint.ts, class CheckpointHandler, with the  *)
(* parts of pipeline-store.ts, state-cache.ts, observer.ts and             *)
(* interceptor.ts that share its state, for one project.                   *)
(*                                                                         *)
(* handle() is asynchronous.  It reads the active run and its state once,  *)
(* at the start, and two of its events wait before they write: phase_enter *)
(* for the Python subprocess that makes a rollback checkpoint (up to 30s), *)
(* ralph_round_complete for the observation query.  A waiting call is a    *)
(* record in "calls"; everything else runs to its end without a wait and   *)
(* is one action.  Between the two halves of a waiting call other calls,   *)
(* tool hooks and a restart of the host process may come.                  *)
(*                                                                         *)
(* The pipeline-nesting events are not in the tool's event list (tools.ts) *)
(* and are modelled in a module of their own, so here no run is ever       *)
(* suspended or paused.                                                    *)
(***************************************************************************)
EXTENDS InterceptRules, FiniteSets

CONSTANTS
    Runs,          \* run ids
    Calls,         \* handle() calls that can be waiting at the same time
    Sequential,    \* TRUE: the host issues a call only when none is waiting
    MultiAgent,    \* detectMultiAgent(): TRUE disables the in-memory cache
    Faults,        \* what this instance lets go wrong, see Fault
    RoundBound     \* bound: rounds played in one loop

Fault == {"stale", "crash", "rejection", "violation", "degraded", "corruption"}

ASSUME HandlerConstants ==
    /\ Sequential \in BOOLEAN
    /\ MultiAgent \in BOOLEAN
    /\ Faults \subseteq Fault
    /\ RoundBound \in Nat
    /\ Nil \notin Runs

VARIABLES
    activeRun,     \* active.json: the active run's id, or Nil
    disk,          \* <run>/state.json
    archive,       \* archive/<run>/state.json
    stale,         \* is the active run's lastCheckpointAt over the threshold?
    observations,  \* <run>/observations.jsonl, whose entries name no phase
    blocks,        \* kinds of unresolved 'block' entries in <run>/audit.jsonl
    cache,         \* PipelineStateCache: populated flag, memory state
    degraded,      \* Observer.degradedRounds: <<run, round>>
    calls          \* what each waiting call will do when it resumes

files  == <<activeRun, disk, archive, stale, observations, blocks>>
memory == <<cache, degraded, calls>>
vars   == <<files, memory>>

(***************************************************************************)
(* An entry of the audit log is unresolved "block" when its decision is    *)
(* BLOCK (indexEntry derives the severity).  "observer" entries name a     *)
(* tool and a file or command and resolve when the tool succeeds;          *)
(* "checkpoint" (rejected events) and "intercept" (refused writes) entries *)
(* name none, and only a phase_complete that passes the gate resolves them.*)
(***************************************************************************)
BlockKinds == {"observer", "checkpoint", "intercept"}

Observation == [type  : {"reviewer_spawned", "observer_degraded"},
                run   : Runs,
                round : Nat]

(* "new" is the state to write, or Nil if the round lacked a reviewer. *)
WaitingCall == [event : {"phase_enter", "ralph_round_complete"},
                run   : Runs,
                new   : PipelineState \cup {Nil}]

EmptyCache == [populated |-> FALSE, run |-> Nil, state |-> Nil]

Init ==
    /\ activeRun = Nil
    /\ disk = [r \in Runs |-> Nil]
    /\ archive = [r \in Runs |-> Nil]
    /\ stale = FALSE
    /\ observations = {}
    /\ blocks = [r \in Runs |-> {}]
    /\ cache = EmptyCache
    /\ degraded = {}
    /\ calls = [c \in Calls |-> Nil]

-----------------------------------------------------------------------------
(* State cache *)

ActiveState == IF activeRun = Nil THEN Nil ELSE disk[activeRun]

(* cache.get(): what it returns, as the cache it leaves behind. *)
CacheGet ==
    IF MultiAgent THEN [populated |-> FALSE, run |-> activeRun, state |-> ActiveState]
    ELSE IF cache.populated \/ ActiveState = Nil
         THEN [cache EXCEPT !.populated = TRUE]
         ELSE [populated |-> TRUE, run |-> activeRun, state |-> ActiveState]

Touch == cache' = IF MultiAgent THEN cache ELSE CacheGet

CacheNotUpdated(run, new) == cache      \* mutant

CacheUpdate(run, new) ==
    IF MultiAgent THEN cache ELSE [cache EXCEPT !.run = run, !.state = new]

-----------------------------------------------------------------------------
(* Steps 2 to 5 of handle(): what is read, who may go on. *)

NoneWaiting == \A c \in Calls : calls[c] = Nil

(* A call arrives: with parallel tool calls at any moment. *)
Arrives == Sequential => NoneWaiting

(* A call by the owner of a readable, fresh active run reaches step 6. *)
Proceeds ==
    /\ Arrives
    /\ ActiveState # Nil
    /\ ~stale

PersistWithoutPhases(run, new) ==       \* mutant: the phase records are not written
    /\ disk' = [disk EXCEPT ![run] = [new EXCEPT !.phases = disk[run].phases]]
    /\ cache' = CacheUpdate(run, new)
    /\ stale' = (stale /\ run # activeRun)

(* Step 11: the new state goes to the file and to the cache. *)
Persist(run, new) ==
    /\ disk' = [disk EXCEPT ![run] = new]
    /\ cache' = CacheUpdate(run, new)
    /\ stale' = (stale /\ run # activeRun)

AuditBlock(run, kind) == blocks' = [blocks EXCEPT ![run] = @ \cup {kind}]

(* An event that waits for nothing and has no effect but its transition. *)
Transition(new) ==
    /\ Persist(activeRun, new)
    /\ UNCHANGED <<activeRun, archive, observations, blocks, degraded, calls>>

-----------------------------------------------------------------------------
(* pipeline_start *)

(* Step 6, C-2: whether the run that is active may be replaced. *)
StartAllowed(session, force) ==
    \/ activeRun = Nil
    \/ /\ ActiveState # Nil
       /\ ActiveState.phaseStatus \notin {"paused", "awaiting_approval"}
       /\ \/ ActiveState.phaseStatus \in {"complete", "failed", "cancelled"}
          \/ force
          \/ stale /\ ActiveState.ownerSessionId = session

NothingArchived == archive              \* mutant

(* setActiveRun archives a copy of the run it replaces. *)
ArchiveActive ==
    IF ActiveState = Nil THEN archive ELSE [archive EXCEPT ![activeRun] = ActiveState]

FreshRun(run) == run # activeRun /\ disk[run] = Nil /\ archive[run] = Nil

StartPipeline(session, force) ==
    /\ Arrives
    /\ StartAllowed(session, force)
    /\ \E run \in Runs, max \in MaxPhases :
        /\ FreshRun(run)
        /\ LET new == PipelineStart(max, session)
           IN  /\ disk' = [disk EXCEPT ![run] = new]
               /\ cache' = CacheUpdate(run, new)
        /\ archive' = ArchiveActive
        /\ activeRun' = run
    /\ stale' = FALSE
    /\ UNCHANGED <<observations, blocks, degraded, calls>>

-----------------------------------------------------------------------------
(* Events that write at once *)

StartLoop(p) ==
    /\ Proceeds
    /\ RalphLoopStartValid(ActiveState, p)
    /\ Transition(RalphLoopStart(ActiveState, p))

(* No limit but RoundBound: the safety nets watch round_complete only. *)
SubmitFindings(p, clean) ==
    /\ Proceeds
    /\ ActiveState.ralph # Nil /\ ActiveState.ralph.round < RoundBound
    /\ LET round == ActiveState.ralph.round + 1
       IN  /\ RalphRoundFindingValid(ActiveState, p, round)
           /\ Transition(RalphRoundFinding(ActiveState, round, clean))

TerminateLoop(p, termination) ==
    /\ Proceeds
    /\ RalphTerminateValid(ActiveState, p, termination)
    /\ Transition(RalphTerminate(ActiveState, p, termination))

ConfirmEvidence ==
    /\ Proceeds
    /\ TestEvidenceValid(ActiveState)
    /\ Transition(TestEvidence(ActiveState))

ApprovePhase(p) ==
    /\ Proceeds
    /\ UserApprovalValid(ActiveState, p)
    /\ Transition(UserApproval(ActiveState, p))

Articulate(p) ==
    /\ Proceeds
    /\ WhyArticulationValid(ActiveState, p)
    /\ Transition(ActiveState)

-----------------------------------------------------------------------------
(* Events that wait *)

Wait(call) ==
    \E c \in Calls :
        /\ calls[c] = Nil
        /\ calls' = [calls EXCEPT ![c] = call]

(* phase_enter: validated and applied, then the rollback checkpoint is awaited. *)
EnterPhase(p) ==
    /\ Proceeds
    /\ PhaseEnterValid(ActiveState, p)
    /\ Wait([event |-> "phase_enter", run |-> activeRun, new |-> PhaseEnter(ActiveState, p)])
    /\ UNCHANGED <<files, cache, degraded>>

ReviewerOfAnyRun(run, round) ==         \* mutant: observations of all runs
    \E o \in observations : o.type = "reviewer_spawned" /\ o.round = round

(* findObservations: any entry of this run with this round number will do. *)
ReviewerSeen(run, round) ==
    \E o \in observations :
        o.type = "reviewer_spawned" /\ o.run = run /\ o.round = round

(* ralph_round_complete under the F-26 limit.  AC-2 is skipped when the    *)
(* observer was degraded in this round; otherwise the call waits for the   *)
(* observation query, whose result is fixed when it is asked.              *)
RoundAccepted(p, round) ==
    /\ Proceeds
    /\ RalphRoundCompleteValid(ActiveState, p, round, Issues)
    /\ round < MAX_RALPH_ROUNDS

CompleteRoundEverDegraded(p, round, clean) ==   \* mutant: isDegraded without its round
    /\ RoundAccepted(p, round)
    /\ \E d \in degraded : d[1] = activeRun
    /\ Transition(RalphRoundComplete(ActiveState, round, clean, Issues, {}))

CompleteRoundUnobserved(p, round, clean) ==
    /\ RoundAccepted(p, round)
    /\ <<activeRun, round>> \in degraded
    /\ Transition(RalphRoundComplete(ActiveState, round, clean, Issues, {}))

CompleteRound(p, round, clean) ==
    /\ RoundAccepted(p, round)
    /\ <<activeRun, round>> \notin degraded
    /\ Wait([event |-> "ralph_round_complete", run |-> activeRun,
             new   |-> IF ReviewerSeen(activeRun, round)
                       THEN RalphRoundComplete(ActiveState, round, clean, Issues, {})
                       ELSE Nil])
    /\ UNCHANGED <<files, cache, degraded>>

(* The wait is over: the state computed before it is written, whatever the *)
(* file holds now; a round without a reviewer is audited as BLOCK.         *)
Resume(c) ==
    /\ calls[c] # Nil
    /\ calls' = [calls EXCEPT ![c] = Nil]
    /\ IF calls[c].new # Nil
       THEN Persist(calls[c].run, calls[c].new) /\ UNCHANGED blocks
       ELSE AuditBlock(calls[c].run, "checkpoint") /\ UNCHANGED <<disk, cache, stale>>
    /\ UNCHANGED <<activeRun, archive, observations, degraded>>

-----------------------------------------------------------------------------
(* phase_complete *)

RoundsExceeded == ActiveState.ralph # Nil /\ ActiveState.ralph.round >= MAX_RALPH_ROUNDS

GateOpen == blocks[activeRun] = {}

(* Steps 9b, 10a, 11 and 12.  The last phase ends the run. *)
CompletePhase(p) ==
    /\ Proceeds
    /\ PhaseCompleteValid(ActiveState, p)
    /\ ~RoundsExceeded
    /\ GateOpen
    /\ LET new == PhaseComplete(ActiveState)
       IN  /\ disk' = [disk EXCEPT ![activeRun] = new]
           /\ IF p = new.maxPhase
              THEN /\ archive' = [archive EXCEPT ![activeRun] = new]
                   /\ activeRun' = Nil
                   /\ cache' = IF MultiAgent THEN cache ELSE EmptyCache
                   /\ degraded' = {d \in degraded : d[1] # activeRun}
              ELSE /\ cache' = CacheUpdate(activeRun, new)
                   /\ UNCHANGED <<archive, activeRun, degraded>>
    /\ stale' = FALSE
    /\ UNCHANGED <<observations, blocks, calls>>

(* The gate refuses, and its own refusal is one more BLOCK entry. *)
GateRefuses(p) ==
    /\ "rejection" \in Faults
    /\ Proceeds
    /\ PhaseCompleteValid(ActiveState, p)
    /\ ~RoundsExceeded
    /\ ~GateOpen
    /\ AuditBlock(activeRun, "checkpoint")
    /\ UNCHANGED <<activeRun, disk, archive, stale, observations, memory>>

(* A call of a foreign session, a call on an unreadable state file, or an  *)
(* event of the owner that fails validation: nothing moves but the audit.  *)
RejectCall ==
    /\ "rejection" \in Faults
    /\ Arrives
    /\ activeRun # Nil
    /\ ActiveState # Nil => \/ \E session \in Sessions : session # ActiveState.ownerSessionId
                            \/ ~stale
    /\ AuditBlock(activeRun, "checkpoint")
    /\ UNCHANGED <<activeRun, disk, archive, stale, observations, memory>>

-----------------------------------------------------------------------------
(* Tool hooks: observer.ts after a tool, interceptor.ts before a write. *)

(* Round RoundBound + 1 is never played, so nobody observes it. *)
InLoopNow ==
    /\ CacheGet.state # Nil
    /\ CacheGet.state.phaseStatus = "ralph_loop"
    /\ CacheGet.state.ralph.round < RoundBound

Observe(type) ==
    observations' = observations \cup
        {[type |-> type, run |-> CacheGet.run, round |-> CacheGet.state.ralph.round + 1]}

(* A Task call inside a loop counts as the reviewer of the round to come. *)
SpawnReviewer ==
    /\ InLoopNow
    /\ Observe("reviewer_spawned")
    /\ Touch
    /\ UNCHANGED <<activeRun, disk, archive, stale, blocks, degraded, calls>>

(* The hook threw inside a loop: the round is exempt from AC-2. *)
ObserverFails ==
    /\ "degraded" \in Faults
    /\ InLoopNow
    /\ Observe("observer_degraded")
    /\ degraded' = degraded \cup {<<CacheGet.run, CacheGet.state.ralph.round + 1>>}
    /\ Touch
    /\ UNCHANGED <<activeRun, disk, archive, stale, blocks, calls>>

(* A command failed or a written file does not parse. *)
ToolViolation ==
    /\ "violation" \in Faults
    /\ CacheGet.state # Nil
    /\ AuditBlock(CacheGet.run, "observer")
    /\ Touch
    /\ UNCHANGED <<activeRun, disk, archive, stale, observations, degraded, calls>>

(* autoResolve: the same command or file, now without error. *)
ToolRepaired ==
    /\ CacheGet.state # Nil
    /\ "observer" \in blocks[CacheGet.run]
    /\ blocks' = [blocks EXCEPT ![CacheGet.run] = @ \ {"observer"}]
    /\ Touch
    /\ UNCHANGED <<activeRun, disk, archive, stale, observations, degraded, calls>>

(* A monitored write breaks a rule: it is audited and refused. *)
Intercept ==
    /\ "violation" \in Faults
    /\ CacheGet.state # Nil
    /\ BusinessCodeBlocked(CacheGet.state) \/ NextDeliverableBlocked(CacheGet.state)
    /\ AuditBlock(CacheGet.run, "intercept")
    /\ Touch
    /\ UNCHANGED <<activeRun, disk, archive, stale, observations, degraded, calls>>

-----------------------------------------------------------------------------
(* Environment *)

(* More than STALE_THRESHOLD_MS passed since the run's last checkpoint. *)
BecomeStale ==
    /\ "stale" \in Faults
    /\ ActiveState # Nil
    /\ stale' = TRUE
    /\ UNCHANGED <<activeRun, disk, archive, observations, blocks, memory>>

(* The state file can no longer be read or parsed. *)
LoseState ==
    /\ "corruption" \in Faults
    /\ ActiveState # Nil
    /\ disk' = [disk EXCEPT ![activeRun] = Nil]
    /\ UNCHANGED <<activeRun, archive, stale, observations, blocks, memory>>

Forget ==
    /\ cache' = EmptyCache
    /\ degraded' = {}
    /\ calls' = [c \in Calls |-> Nil]

(* The host process restarts: files survive, memory and waiting calls do not. *)
Restart ==
    /\ "crash" \in Faults
    /\ Forget
    /\ UNCHANGED files

CrashAfterPointer(session, force) ==    \* mutant: setActiveRun before writeState
    /\ "crash" \in Faults
    /\ Arrives
    /\ StartAllowed(session, force)
    /\ \E run \in Runs : FreshRun(run) /\ activeRun' = run
    /\ archive' = ArchiveActive
    /\ Forget
    /\ UNCHANGED <<disk, stale, observations, blocks>>

(* It dies inside pipeline_start, after writeState; setActiveRun archives the *)
(* old run or not, but does not get to move the pointer.                     *)
CrashInStart(session, force) ==
    /\ "crash" \in Faults
    /\ Arrives
    /\ StartAllowed(session, force)
    /\ \E run \in Runs, max \in MaxPhases :
        /\ FreshRun(run)
        /\ disk' = [disk EXCEPT ![run] = PipelineStart(max, session)]
    /\ archive' \in {archive, ArchiveActive}
    /\ Forget
    /\ UNCHANGED <<activeRun, stale, observations, blocks>>

(* It dies inside phase_complete, after writeState, before or after archiveRun. *)
CrashInComplete(p) ==
    /\ "crash" \in Faults
    /\ Proceeds
    /\ PhaseCompleteValid(ActiveState, p)
    /\ ~RoundsExceeded
    /\ GateOpen
    /\ LET new == PhaseComplete(ActiveState)
       IN  /\ disk' = [disk EXCEPT ![activeRun] = new]
           /\ \/ UNCHANGED archive
              \/ p = new.maxPhase /\ archive' = [archive EXCEPT ![activeRun] = new]
    /\ Forget
    /\ UNCHANGED <<activeRun, stale, observations, blocks>>

-----------------------------------------------------------------------------
PhaseEvent(p) ==
    \/ EnterPhase(p)
    \/ StartLoop(p)
    \/ \E round \in 1..RoundBound, clean \in BOOLEAN :
        CompleteRound(p, round, clean) \/ CompleteRoundUnobserved(p, round, clean)
    \/ \E clean \in BOOLEAN : SubmitFindings(p, clean)
    \/ \E t \in Termination : TerminateLoop(p, t)
    \/ ApprovePhase(p)
    \/ Articulate(p)
    \/ CompletePhase(p)
    \/ GateRefuses(p)
    \/ CrashInComplete(p)

Next ==
    \/ \E session \in Sessions, force \in BOOLEAN :
        StartPipeline(session, force) \/ CrashInStart(session, force)
    \/ \E p \in Phases : PhaseEvent(p)
    \/ \E c \in Calls : Resume(c)
    \/ ConfirmEvidence
    \/ RejectCall
    \/ SpawnReviewer
    \/ ObserverFails
    \/ ToolViolation
    \/ ToolRepaired
    \/ Intercept
    \/ BecomeStale
    \/ LoseState
    \/ Restart

Spec == Init /\ [][Next]_vars
=============================================================================

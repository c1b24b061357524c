# Aristotle in TLA+

A verification project for the `aristotle` repository: TLA+ modules translated from its
source, TLC runs over small instances, and TLAPS proofs for every value of the constants.
Paths below are relative to `src/`; `wd/` stands for `packages/watchdog/src/`.

## 1. The system

Aristotle is a plugin of an agent platform (OpenCode). Two roles live in the host process, and
a Python package does the work that outlives it. LLM agents drive all of it through tool calls,
so no caller can be trusted to follow a protocol; the program decides what it accepts.

| part | source | state | operations |
|---|---|---|---|
| phase state machine | `wd/transitions.ts`, `schema.ts`, `constants.ts`, `loop-config.ts` | one `PipelineState` per run | `validateTransition`, `applyTransition` for ten events |
| checkpoint handler | `wd/checkpoint.ts`, `tools.ts` | articulation counters; everything else in the store | `handle(event, payload)`: ownership, staleness, replacement, articulation, round limit, AC-2, gate, transition, archive |
| pipeline store | `wd/pipeline-store.ts`, `packages/core/src/store/state-store.ts` | `active.json`, `state.json`, `audit.jsonl`, `observations.jsonl`, archive, suspension stack, in-memory violation index | read, write, archive, violations, suspend/resume, pause, orphan recovery |
| pipeline nesting | `wd/pipeline-store.ts` (phase 3), `checkpoint.ts` | per run a status kept across suspension or pause, the stack, the pointer | suspend, resume, pause, unpause, limit of depth, report of a child, orphan recovery, pause trigger |
| state cache | `wd/state-cache.ts` | one state, a populated flag | `get` (lazy), `update`, `clear`; off in multi-agent mode |
| violation log and gate | `wd/pipeline-store.ts`, `observer.ts`, `checkpoint.ts`, `interceptor.ts`, `packages/core/src/store/state-store.ts` | `audit.jsonl` of a run, append-only; the index rebuilt from it at every query | append a violation, resolve by timestamp, query the unresolved, refuse or resolve all at `phase_complete` |
| observer | `wd/observer.ts` | degraded rounds, timeout counters | after-tool hook: reviewer observations, violations, auto-resolve |
| interceptor | `wd/interceptor.ts`, `intercept-rules.ts` | none | before-tool hook: refuses writes that break a rule |
| articulation | `wd/articulation.ts` | failure counters | text checks |
| dual pass, contested issues, reviewer lifecycle, registry | `wd/dual-pass*.ts`, `contested-issue.ts`, `reviewer-*.ts`, `registry.ts` | round reviews, sessions to clean up | none that a tool or a hook reaches: imported by tests only |
| intervention bridge | `wd/intervention-bridge.ts`, `pause-timeout-enforcer.ts` | none | Python subprocess with a 30 s limit |
| workflow store and executor | `packages/core/src/store/workflow-store.ts`, `executor/index.ts` | reflection workflows, in memory and in one JSON file shared by all host processes | register, mark, cancel, evict, reconcile at start |
| reflection role | `packages/reflection/src/` | trigger files, snapshots | session-idle handler that drives Reflector -> Checker |
| orchestrator | `aristotle_mcp/_orch_*.py`, `_tools_reflection.py`, `_tools_undo.py` | one JSON file per workflow, reflection records, drafts | start, event, review action, undo, stale clean-up |
| rule repository | `aristotle_mcp/_tools_rules.py`, `_tools_sync.py`, `_tools_rollback.py`, `git_ops.py`, `frontmatter.py` | rule files with a status, index and commits of git, rejected directory, stashes and tags | write, stage, commit, reject, restore, sync, conflicts, rollback points |
| intervention engine | `aristotle_mcp/intervention/` | quarantine directory and metadata, bounded counters | quarantine, restore, reconcile: called by tests only, but for the bridge's rollback point |

Interactions. An agent's tool call goes through the interceptor, the tool, then the observer;
`tdd_checkpoint` itself is a tool and its handler shares store, cache and observer with the two
hooks. The handler calls the Python side as a subprocess when a phase is entered. The reflection
role reacts to idle events of subagent sessions, calls the orchestrator as a subprocess and
launches the next subagent; agents call the orchestrator's tools directly as well.

What is hard: `handle()` reads once and writes after an await, so calls that overlap write what
they computed from an old state; files are written one after the other with no transaction and
the process may die in between; the cache, the degraded set and waiting calls are memory while
everything else is files; staleness is a matter of time; a gate depends on a log that several
writers append to and only some of them clear, whose appends and reads fail silently; a rule is moved
and committed in up to six file and git steps, and git commits an index, not a file.

What makes each part correct: phases in order, none approved before its review, a loop ends only
when earned, a run is never stuck (state machine); an active run always has a state, a finished
one is archived, copies never claim more than was done, writes are legal events (handler, store);
the cache says what the file says (cache, hooks); rounds are observed (observer); the
interceptor never refuses what a later phase allows (interceptor); a terminal workflow stays
terminal and every workflow ends (reflection); a violation is forgiven only for a success of what
failed, and for that always (violations); no rule is lost, none is committed unreviewed, and a rollback
brings back what it took (rules).

## 2. Modules

| module | models |
|---|---|
| `PhaseTransitions` | the state of one run as a record and, per event, the validation (`...Valid`) and the transition as operators |
| `PhaseMachine` | one run driven by those events; its properties |
| `PhaseLadder` | the abstract promise: phases climbed in order, each reviewed unless followup, then approved, then completed |
| `PhaseInvariants` | the invariant of a single state, `StateInv`, as named conjuncts over a state record |
| `InterceptRules` | the two rules as predicates of a state |
| `CheckpointHandler` | store, cache, observer, interceptor and handler of one project, with waiting calls, crashes and restarts |
| `CheckpointProperties` | its properties, those that hold and those that messages and comments claim |
| `PipelineNesting` | runs that are suspended for a child run: state, stack and pointer, the repairs of `getActiveRun`, crashes between the writes |
| `NestingProperties` | its properties |
| `WorkflowStore` | the map of reflection workflows as operators: marks, room and eviction, merge on save, purge, reconciliation |
| `ReflectionOrchestrator` | the reflect flow of the Python orchestrator: workflow files, records, drafts, the events it takes |
| `ReflectionBridge` | host processes, subagent sessions, the idle handler and its waits, the abort tool, on top of the two |
| `ReflectionProperties` | the bridge's properties and its inductive invariant |
| `ViolationLog` | the audit log of one run, line by line, its writers, its resolution by timestamp and the gate of `phase_complete` |
| `ViolationProperties` | its properties |
| `RuleRepository` | rule files, index and commits of git, stashes and tags under the tools on rules, synchronisation and rollback points |
| `RuleProperties` | its properties |
| `InductionLemmas` | induction over the natural numbers with a set as its parameter, bounded induction, and sets closed under a bounded step |
| `PhaseInvariants_proofs`, `PhaseMachine_proofs`, `CheckpointHandler_proofs`, `PipelineNesting_proofs`, `ReflectionBridge_proofs`, `ViolationLog_proofs`, `RuleRepository_proofs` | the theorems |
| `MCPhaseMachine`, `MCCheckpointHandler`, `MCNesting`, `MCReflection`, `MCViolations`, `MCRules` | values for TLC |

Composition: `CheckpointHandler` uses `PhaseTransitions` and `InterceptRules`; `PhaseMachine`
implements `PhaseLadder`; `ReflectionBridge` extends `ReflectionOrchestrator`, which extends
`WorkflowStore`. A definition with the comment "mutant" is a plausible wrong form of the
definition after it; it is used by no specification, only to see that a property notices.

**State of a run.** A record with the fields of `PipelineState` that decide anything:
`currentPhase`, `maxPhase`, `phaseStatus`, `phases` (a record per phase entered), `ralph` (the
loop) and `ownerSessionId`. `Nil` is a missing state, loop or record. A round's findings are
reduced to whether they are clean; a followup phase is a member of `FollowupPhases`, which is
what `getLoopType` computes. Payload checks that come before the state check are one rejected
call: they change nothing but the audit log.

**Handler.** An action is one call of `handle()` when the event does not wait. The events that
wait, `phase_enter` (the rollback checkpoint subprocess) and `ralph_round_complete` (the
observation query), are split into the part before the await, which leaves a record in `calls`,
and `Resume`, which writes the state computed before. Crashes are actions with the writes that
were made so far: `CrashInStart` between `writeState` and `setActiveRun` with or without the
archive copy, `CrashInComplete` between `writeState` and `clearActiveRun`. `Restart` empties the
memory. What may go wrong in an instance is the constant `Faults`, so a run names what it covers.

Two simplifications. Audit entries are reduced to the kinds of unresolved block a run has, which
is all the gate looks at; `ViolationLog` has the log itself. `lastCheckpointAt` is the flag `stale`, which a fault raises and every
write of the active run clears.

**Nesting.** `PipelineNesting` reduces a run to the fields nesting looks at: its status, the status
kept by a suspension and by a pause, its depth and parent, a pending pause and the pause timer. The
ordinary events, modelled in full by the two modules above, appear as moves of the status
(`EventMoves` write at once, `WaitingMoves` may wait while other calls come in). Every action starts
from what `getActiveRun` finds and leaves: `FoundRun` is the pointer after its repair, `CleanStack` the
stack after its own. `CrashInSuspend` and `CrashInResume` stop between two writes. The operations
that no code outside the tests calls, `setChildRunId`, `detectOrphanedSuspend`, `handlePhaseFail` and
`handleConcurrentPauseTrigger`, are modelled as calls of the host. What can happen in a behaviour,
with the bounds on runs and entries, is its `world`, chosen in `Init`, so that one run of TLC covers
several combinations.

**Reflection.** `memory[i]` is the map of host process `i`, `file` the one file all of them
write, `wfFile`, `records`, `drafts` the orchestrator's files. An idle event of a session that
the store expects is a member of `handlers`, which moves through the waits of
`IdleEventHandler.handle`: for the messages (`"messages"`), for the subprocess (`"mcp"`, then
`"reply"`), for the launch of the next session (`"launch"`). Everything between two waits is one
action, in the order of the code: `ReadMessages` marks `chain_pending`, `CallOrchestrator` is the
subprocess, `ChainCompletes`, `ChainBreaks`, `WorkflowForgotten`, `ChainGoesOn` act on its answer,
`LaunchChecker` and `LaunchFails` end the chain of the Reflector. `Abort` and `Cancel` are
`aristotle_abort` before and after `session.abort`. A subprocess is one step, or, when it is
killed, one that stops between its two files (`KilledHalfway`). Session ids are numbers in the
order of creation; transcripts, prompts, results and times are left out, so any terminal entry
may be the oldest and any may be old enough to purge. `instanceId` is new for every process, so
a member of `Instances` starts at most once.

**Violations.** `log` is the file `audit.jsonl` of one run. A line is a violation (`block` or `warn`, with
the command or file it is about, and its timestamp), a `pass`, or the markers `resolveViolations`
appends, which name timestamps. The index of the code is rebuilt from the log at each query, since it
asks for rotated logs and nothing rotates one, so it is the operator `Unresolved` of what a
read returned (`Readings`: everything, or nothing when the read fails). `appendLog` swallows its errors
and may be cut off in the middle of a line: `AppendLog` then leaves a prefix of the lines and perhaps a
`torn` one, and the next line is glued to it and lost with it (`Whole`, `Partly`). `RunFails` and
`RunSucceeds` are the observer after a command or a write, `Refuse` the refusals of handler and
interceptor, `RefuseCompletion` and `CompletePhase` the two answers of the gate; completing a phase
resolves all that is left. A fresh timestamp is the position of the line, and `"same ms"` lets an entry
have an earlier one. The handler's query for the intervention bridge at `checkpoint.ts:570` passes
no severity, finds nothing under it in the index, and so the bridge call behind it is never made.

**Rules.** `disk`, `index` and `head` are the working tree, the index and the commit of one repository,
each a map from paths to files. A path is a directory, active or rejected, and one of a few names: the
rules modelled share scope, category and day, which is what makes them compete for names. A file is
reduced to the rule in it, its status, `conflicts_with` and whether YAML can read its frontmatter: the
tools that rewrite it write `key: value` without quotes (`Plain`), so some texts become unreadable
(`fragile`). A tool is an action that checks, and leaves its file and git steps in `todo`
(`Write`, `Unlink`, `AddAndCommit`, in the order of the code); `FileIsWritten`, `PathIsAdded`,
`IndexIsCommitted` and so on take one step, `GitFails` skips one the way `git_add_and_commit` does, and
`Dies` drops the rest. `CreateRollbackPoint`, `RollbackToStash` and `RollbackToTag` follow
`_tools_rollback.py`, with `git stash push` and `apply` external: `Changed`, `Untracked`, `Clashing`
and `Conflicted` say what git does with tracked, new and diverged files. A behaviour's `world` says
which tools are called and how much may fail.

## 3. Runs

| run | instance | shows |
|---|---|---|
| `phase_machine` | up to 3 phases, phase 2 followup, loops of up to 5 rounds, one contested issue | every event accepted or refused in every reachable state; type, ladder, approval, termination and dead-end invariants, no reopening, refinement of `PhaseLadder` |
| `handler_sequential` | 2 runs, owner and foreign session, 2 phases, staleness and crashes, one call at a time | writes are legal events, the pointer and the archive survive crashes, the cache is coherent |
| `handler_concurrent` | 2 runs, overlapping calls, multi-agent mode, staleness and corrupted files | every copy of a state is sound, counted rounds were observed |
| `handler_audit` | 1 run, 2 reviewed phases of 2 rounds, tool violations, interceptions, rejections, a failing observer | the exemption of a degraded round is the only way around AC-2; business code stays allowed |
| `nesting` | up to 4 runs and 3 stack entries, limit of depth 2, seven worlds: crashes, overlapping calls, stale or forced replacement, and the host's calls in pairs with these and each other | suspended runs are kept, the limit of nesting, finished runs stay finished, one run at work, resuming ends a standstill |
| `reflection_chain` | 1 host process, 2 workflows, a store of one, 4 sessions, 2 idle events at a time, failing messages, subprocesses and launches | the file mirrors the map, active workflows are neither evicted nor purged, every workflow ends |
| `reflection_processes` | 2 host processes, 1 workflow, 3 sessions, every fault: repeated idle events, crashes, failing prompts, clean-ups, processes that overlap | store and orchestrator agree on completion, one subagent works at a time, a Checker has work |
| `violation_log` | 2 targets, 2 phases, logs up to 5 lines before a violation is added, a resolve limit of 2, seven worlds: up to 2 appends that fail or are cut off, failing reads, equal timestamps, a degraded observer, rejected calls, interceptions and premature completions | what fails is seen up to what failed appends hide, what works again keeps no gate closed, nothing is forgiven without a success, a patient agent ends the run |
| `rule_repository` | 2 rules of one intent, 2 names, 1 rollback point, at most 2 stashes, eleven worlds of tools with up to 2 failures | no rule vanishes, none is committed unreviewed, unsynchronised rules are seen, conflicts are declared both ways, a rollback restores |
| `phases_forward`, `crash_recovery`, `fixed_phase_completes` | the smallest instances in which the question can be asked | a sentence of the repository that the code does not keep, see section 6 |

Bounds. `MIN_GATE_ROUNDS`, `EARLY_STOP_CONSECUTIVE` and `MAX_RALPH_ROUNDS` are constants because
the code compares with them only; the instances keep their order (gate below limit, streak at
most gate) and let each comparison go both ways, and the theorems hold for all values.
Three phases are enough for a first, a middle followup and a last phase. Two runs are enough for
one to replace the other while a call of the first still waits; a third would repeat this.
`RoundBound` caps the rounds of a loop in the guards: it exceeds `MAX_RALPH_ROUNDS` where the
limit matters. The runs stop when the last run of `Runs` is finished and its loops are used up,
so deadlock is not checked; `NoDeadEnd` states instead that an unfinished run has a next event.

In the nesting run a limit of depth 2 is the smallest at which a child may be suspended through the
fallback of `canSuspend` and not otherwise; three entries are enough for a duplicate entry of a crash
above and below another run, and a fourth run replaces the third. The properties of nesting name in
their hypotheses the calls under which the code does not keep them: with these TLC finds them violated.

The reflection runs need two workflows for one to evict the other, a store of one so that it is
full at once (`MAX_WORKFLOWS` is 50 in the code and only compared with the size), and two sessions
per workflow, Reflector and Checker; four sessions let both workflows run their whole chain. Two
processes with one workflow are enough for a stale copy, an overlap and a successor of a crashed
process. Liveness is checked without symmetry.

The violation run needs two targets so that a success of one can be mistaken for the other's and two
phases so that the end of one can resolve what belongs to the next; `RESOLVE_LIMIT` (100) and
`BUSINESS_CODE_PHASE` (5) are constants compared with once, here 2 and 2 so that both are reached.
`MaxLog` bounds the length at which violations are still recorded, not successes and completions. The
limit of five leaves room for a violation, its resolution, one more than the limit of the same target,
and a torn line. In the rule run two rules are enough to take each other's name, to conflict, and to be
swept into each other's commits; two failures are one to leave a path in the index and one to stop the
call after it. Two stashes tell the newest of a name from an older one, and one is kept by the clean-up.
The worlds pair the tools that disturb each other, as all of them at once are too many states: life of a
rule with restore, with the guard, with synchronisation, and rollback points with each half of it.

Fairness. For the phase machine, the handler and nesting none is assumed and no liveness is claimed:
their only scheduler is an LLM agent that may stop calling. What can be asked is that something is
always possible (`NoDeadEnd`), and that is checked and proved. `ViolationLog` asks what an agent gets that
does what the gate tells it: weak fairness that what fails is run again until it succeeds and that
`phase_complete` is called when the gate is open. It is a hypothesis about the agent, and the guidance
of the gate (`checkpoint.ts:542`) is its source; `PatientRunEnds` claims the end of the run only for it,
in the world where nothing else goes wrong, and except past the resolve limit. `FairSpec` of the bridge assumes weak fairness of
the program's own continuations: every wait of the idle handler ends (the subprocess has a limit
of 30 s, a snapshot one of 10 s; `session.messages`, `session.create` and `promptAsync` have none,
so this is an assumption about the host), `session.abort` returns, and a session that was prompted
goes idle. Nothing is assumed about agents: starting, aborting, undoing and drafting may never
happen. `EveryWorkflowEnds` is checked without crashes and without the failure of `promptAsync`;
with the latter the code does not keep it (a Reflector is registered as running before its
prompt, and `aristotle_fire_o` only reports the error).

## 4. Proofs

All theorems hold for any constants that satisfy the named assumptions of the modules
(`PhaseConstants`, `RoundConstants`, `HandlerConstants`, `NestingConstants`, `BridgeConstants`, `LogConstants`,
`RepositoryConstants`, and that `Nil` or `None` is none of the records).

`StateInv(s)` is the inductive invariant: type, ladder (the records of earlier phases are
approved, later ones absent), approval (approved implies reviewed or followup) and the agreement
of `phaseStatus` with record and loop. The properties alone are not inductive: `user_approval`
checks `ralphCompleted` and not the status, so that an approval cannot precede a review only
follows from what each status says about the record. `PhaseInvariants_proofs` shows for each
event that a valid transition keeps `StateInv`; `PhaseMachine_proofs` lifts this to
`TypeCorrect`, `PhasesClimbedInOrder`, `ApprovalAfterReview`, `ApprovalsArePermanent`, the
refinement `MachineImplementsLadder`, and `RunsCanGoOn` (`NoDeadEnd`). `TerminationsAreEarned` needs
`LoopInv` besides: the counters of a loop agree with its history and records (`LoopCounted`: the rounds
played are all there, and the history ends with as many clean rounds as were counted), and a termination
that stands has the reason it claims (`TerminationBacked`, which `EveryCopySound` of the handler says of every copy).
Histories may have any length; the recursive function `CompletedRecords` is reasoned about with
`BoundedInduction`. As for `NoUncommittedFindings`: the code counts the records of closed rounds only, to
exclude "uncommitted findings" (`transitions.ts:611`). The theorem says that this never excludes a
record, since each submission of a finding closes its round.

`CheckpointHandler_proofs` carries the same lemmas to the handler: every place that holds a copy
of a state (files, archive, cache, waiting calls) holds a sound one, because each copy is either
another copy or the result of a valid event applied to one. This is independent of interleaving,
crashes and losses, hence `CopiesStaySound` and `BusinessCodeStaysOpen`. `ActiveRunKeepsState`
needs in addition that waiting calls belong to runs that have a state. `CacheStaysCoherent` and
`FinishedRunsAreArchived` assume `Sequential` and no corruption, as their runs do. `TurnInv` then says that
a waiting call belongs to the active run, so every write goes to the active run or to one that begins
with it: the cache cannot fall behind the file of the active run, and a run that is no longer active
stopped being so in `phase_complete` or its replacement, which is where a finished run is archived.
`CountedRoundsObserved` (AC-2) assumes nothing: `ObservedInv` says that files and pending writes count
observed rounds only. The answer to the observation query is read before the wait and used after it,
but observations are only added, so it does not age. The other three hold for one call at a time. `EveryWriteIsAnEvent` refines
the handler to `PhaseMachine`: a write to a run's file is one event applied to what the file held. Its
invariant `PendingInv` says that at most one call waits, and that what it will write is an event of
the active state now, as nobody writes meanwhile. `PhasesForwardInTurn` and `ApprovalsLastInTurn` follow;
so the overlap of calls is the only cause of finding 1, not crashes, lost files or restarts.

`PipelineNesting_proofs` proves `NestingTypeCorrect`, `SuspendedRunsKept` and `NestingStaysLimited` for
any `MAX_DEPTH`. `Known` says that entries and waiting calls refer to started runs, with their depth.
A run is at a standstill (`Standing`) also while a paused run remembers that it was suspended, or a
waiting call does, hence `Standstill`. The first half of the argument is that nothing but a
suspension, which pushes first, brings a run to a standstill (`Quiet` collects what all other steps
have in common), so a standstill run is stacked (`Kept`). The second is `Limited`: as no entry leaves
the stack, the active run is at most one deeper than some entry (`ActiveAbove`), which is what makes
the fallback of `canSuspend` sound up to one level (`SuspendBelowLimit`). `StandstillsEnd` rests on
`LeadsOut`: only a suspension sets the status to resume to, and it refuses a run at a standstill.
`FinishedForGood` needs `DoneInv`: without triggers and orphan recovery no finished run is at a
standstill or about to be paused, so neither a resume, nor the repair of the pointer, nor an unpause
finds one to revive. `OneRunAtWork` needs `Alone`: whatever the stack names, and the pointer does not, is
suspended, complete or cancelled, so a run leaves the pointer only at rest and moves again only under it.

`ReflectionBridge_proofs` proves `BridgeTypeCorrect`, `CompletedIsDone`, `CheckersHaveWork`, `OneAtATime`,
`FileKeepsUp` and `ActiveStaysKnown` for any numbers of workflows, processes, sessions and events and every set of faults. `BridgeInv`
strengthens the two properties: what the orchestrator answered stays true while the handler waits
(`HandlerSound`), entries of the file are as sound as those of the maps (`StoreSound`, since a map
takes over entries of the file), whatever refers to a workflow refers to one that was handed out,
and no entry has the id of a process that is yet to start. This argument has two halves as well. `Grows`:
every step of the orchestrator forgets a workflow for good, finishes it, or adds a draft or a
record, so facts about a known workflow are stable (`ReflectedKept`, `CheckableKept`). The store:
`Merged`, `Marked`, eviction, purge and registration put only sound entries together
(`MarkSound`, `LaunchSound`). `NothingReconciled` is the fact behind finding 2: start-up finds no
entry of its own; were it to complete those of earlier processes, `CompletedMeansDone` would fail,
which is what its mutant shows.
`OneAtATime` needs `ChainInv`: a workflow leaves the phase "reflecting" only by the one answer `fire_sub`,
which is given once, so there is at most one handler on its way to a launch or one Checker (`OneCheck`,
`CheckBegun`), and by then the only Reflector (`OneReflector`) has gone idle (`ReflectedFirst`); repeated
idle events of the Reflector find another phase and get another answer. `FileKeepsUp` and
`ActiveStaysKnown` come from one fact: a step that changes a map writes all of the new map to the file
and leaves no active entry out (`Writes`, `Spares`), but for `Remove`, which follows the answer that the
workflow is unknown; and a forgotten workflow stays forgotten (`Answered`).

`ViolationLog_proofs` proves `ViolationLogTypeOK`, `ForgivenOnlyForSuccess` and
`ViolationLogFixedIsForgiven` for any number of targets, phases and lines. Every step appends
(`log' = log \o new`), so the first question is what the new lines resolve: `Whole` and `CutOff` resolve no
more than the call asked for, and a call asks only for what it found unresolved about a target that now
works, or, at the end of a phase, for what is left behind an open gate, among which there is no block.
`FixedIsForgiven` needs `FixedInv`: without faults the log holds no torn line (`Intact`) and no two
violations share a timestamp (`Distinct`), so resolving one leaves the others alone.
`ViolationLogNothingHidden` counts: `HiddenInv` says that the failing targets the gate does not see, and one
more if the log ends in a torn line, are at most twice the faults. A fault hides its own line and may tear
one; the line glued to a torn one is hidden without a fault, but uses the torn one up. It keeps `Distinct` in
the presence of faults, and with it `RefusalsShutTheGateForGood`, the general form of finding 3: a block without a target is
resolved by no success, since it shares its timestamp with no other block, and by no `phase_complete`,
since it shuts the gate.

`RuleRepository_proofs` proves `RepositoryTypeOK`, `PendingStaysUncommitted`, `RollbackRestoresFiles`,
`NoRuleVanishes`, `UnsyncedRulesAreSeen` and `ConflictsAreDeclared`.
`OnlyReviewedCommitted` speaks of the commit, but a commit takes the index, which a failed commit may
have left full; hence `ReviewedInv`: index and HEAD hold reviewed files only, and in `todo` each add
finds a reviewed file at its path or one that an earlier step of the same call writes or removes, and is
followed by its commit. It is kept by every step, by a failed one (which drops an add with its commit,
or a commit whose add was sound) and by the death of the process. `RollbackRestores` needs no invariant
but types: on a clean tree at the base of the stash nothing clashes, and what is neither changed nor
untracked is as the stash has it. `NoRuleVanishes` (`RulesKept`) rests on `KeptInv`. A file keeps the name its
rule was written under (`Named`), so a copy can only cover a rule of its own name; what is to be
unlinked has a copy, or the write of one comes first (`StepKeeps`); and HEAD and the bases of stashes
hold only what some commit had, so a stash that deletes a file deletes nothing that is not in the
history. `UnsyncedIsSeen` needs `SyncInv`: before the first failure git knows of each active file what the
tree has, or the call in progress is about to tell it (`UpToDate`); after it HEAD may still have the rule
that was at the path before, but the call that verifies the one there now commits it (`Catching`).
`ConflictsDeclared` needs `DeclaredInv`: a rule has at most one file besides its active one; an annotation
that missed the active file, because the rule was rejected just then, reached the other copy
(`Declared`); and no call removes a copy while it is the one that matters.

The attempt to prove `ConflictsDeclared` as it first stood failed for a good reason, and TLC then found both
counterexamples in worlds that no run had: the rollback point of a `phase_enter` stashes the
annotation of a rival away, which no commit had taken up, and after a call was cut off a
second rejection overwrites the annotated copy. The property now names these exceptions; section 6 lists them.

All invariants and action properties of the runs that pass are now stated by theorems. Model-checked only
are the two liveness properties, `EveryWorkflowEnds` and `PatientRunEnds`, as fairness and ENABLED are beyond the
prover. Induction is within its reach where the induction hypothesis can be written as a set
(`InductionLemmas`) and the recursion as a recursive function, whose value is then known to exist by
giving a witness; the modules use no RECURSIVE operators.

## 5. Not modelled

- rotation of logs and eviction of checkpoints (`checkpointEviction`), which only tests call; the
  observer's timeout path, whose check runs in code without an await and so never finds one;
- the articulation counters: planned, section 7;
- of nesting: parents in another project, forced resumes (no caller), the rate limit, the pause
  timeout (nothing calls its check), quarantine of files, takeover clean-up, regression counters,
  and the table `NESTING_TRANSITIONS`, which no code looks up;
- a double fault of the observer (its own error handler fails too), which exempts a whole run;
- `TEST_RUN_COMPLETE`, which only appends to the audit log;
- states without an owner (before schema version 2), which any session may drive;
- the learn and review flows of the orchestrator and re-reflection, parallel subprocesses that
  lose each other's writes, records past the fiftieth, the trigger files of the idle handler (a start
  trigger launches as `aristotle_fire_o` does, an abort trigger as `aristotle_abort`; what is left out is
  who writes the files, and that one may be read twice);
- of the rule repository: reading, listing and scoring of rules, feedback, the audit decision,
  migration and reset; two server processes on one repository, files torn by a crash, and paths of
  other scopes, which never meet the ones modelled;
- dual pass, contested issues, reviewer lifecycle, registry, and the quarantine and rollback engines of
  the intervention package: no tool or hook reaches them, only tests do, so there is no caller whose
  order of calls could be modelled;
- prompts, formatting, pattern scans, configuration parsing, installers.

## 6. Findings

1. *Phases can move backwards* (`phases_forward`): two overlapping `phase_enter` calls.
2. *Nothing is recovered after a crash* (`crash_recovery`): reconciliation looks for entries with
   the id of the process that reconciles, which no earlier process had. Active entries of dead
   processes stay for ever and fill the store.
3. *One premature `phase_complete` closes the gate for ever* (`fixed_phase_completes`). The refusal is
   appended as a BLOCK, and every BLOCK gets the severity the gate counts. It names no tool, file or
   command, so no success resolves it, and only an open gate resolves what is left. The guidance to fix
   the violations and complete the phase can then not be followed. Rejected calls and intercepted
   writes close the gate in the same way. The run shows one such behaviour, `RefusalsShutTheGateForGood` that
   it is so in all of them.

Seen while modelling, and not turned into runs:

The watchdog.
- A stale run that waits for approval is stuck: the recovery message sends its owner to
  `pipeline_start` (`checkpoint.ts:240`), which is refused while the status is `awaiting_approval`, even
  with `force`; every other event meets the stale check. Past the round limit and with an unreadable
  state file the advised `pipeline_start` is refused too (`StartAllowed`, `RoundsExceeded`).
- A suspended parent is forgotten once its child is reported: `getActiveRun` takes an entry whose child is
  the active run for the remains of an interrupted resume and pops it (`CleanStack`). With the entry goes the limit
  of nesting, whose fallback measures the entries left. No code calls `setChildRunId` yet; without it
  `pipeline_resume` is refused, as no entry names a child.
- `complete` is also the status between two phases, so any session may replace an unfinished run
  (`StartAllowed`), although the messages of the check say that only one pipeline is allowed and that
  sub-agents cannot create new ones.
- Observations carry no phase, so a reviewer of round 1 of an earlier phase satisfies AC-2 for round 1
  of a later one (`ReviewerSeen`).
- A second `pipeline_pause` loses the status to go back to (`PauseActive`); a `DEFERRED_PAUSE` entry is
  never cleared and pauses every later resume (`Resumed`).
- A waiting call that overlaps a suspension, and a resume while a grandchild is active, put two runs to
  work (`OneAtWork` excepts them); orphan recovery can make a finished run active again, and its scan of
  all states finds none, as the state store lists one directory only (`DetectOrphanedSuspend`);
  `pipeline_start` with `force` drains the stack also when the active run is suspended and becomes the
  parent (`StartPipeline`).
- The violation gate says it fails closed (`checkpoint.ts:523`), but reads that fail return an empty log
  and appends that fail are only logged, so it fails open (`Readings`, `MayFail`). Resolution goes by
  timestamp, so a violation recorded later in the millisecond of a resolved one is resolved from the
  start. Only Bash and Write are auto-resolved: a file fixed with Edit stays a violation. With a
  degraded observer everything is a warning and the gate sees nothing.

The reflection role and its orchestrator.
- A cancelled workflow comes back: the idle handler checks for `running`, waits for the messages and
  marks `chain_pending` whatever the status is by then (`Mark`); `register` and `cancel` overwrite terminal
  states as well, although `workflow-store.ts:281` calls them read-only and eviction relies on it.
- Sequence numbers are chosen at the start of a reflection and record ids at its end, so overlapping
  reflections share a draft and complete each other's record (`StartReflect`, `CheckerDone`).
- The orchestrator answers `notify` for a clean session, which the idle handler takes for an error.

The rule repository.
- `sync_rules` commits but never sets a rule back to `verified`: `update_frontmatter_field` is handed a
  string where it needs a path and its exception is swallowed (`_tools_sync.py:164`); what it marks
  loses `conflicts_with`, which becomes a string (`MarkedUnsynced`).
- Frontmatter is rewritten without quotes, so a rule with `: ` in one of its texts can no longer be
  read once it is staged and is then neither committable nor rejectable; a rejection reason of that
  kind makes the rejected copy impossible to restore (`Plain`, `RejectRule`). `check_sync_status` raises
  at such a file (`CheckRaises`).
- A rejected name is free again, and a second rejection under it overwrites the first copy, while
  `docs/GEAR.md:557` says that rejected rules are restorable without data loss (`RulesKept` excepts it);
  rejecting a file that is in the rejected directory already writes it and then unlinks it.
- The rollback point that every `phase_enter` creates stashes pending rules away (`CreateRollbackPoint`),
  while `docs/GEAR.md:226` keeps them in the working tree until review.
- The same stash takes an annotation `conflicts_with` that `commit_rule` has written into a verified rival
  and nobody has committed; the new rule then declares a conflict the rival does not. So does a second
  rejection, after a call that was cut off left an annotated copy behind (`ConflictsDeclared` excepts both).
- `commit_rule` without its guard commits a rule that was never staged (`CommitRule`), `restore_rule`
  and `sync_rules` commit pending ones (`OnlyReviewedCommitted` excepts them), and the orchestrator's
  `confirm` counts failed commits as committed.
- A stash of a name wins over a newer tag of the same name (`RollbackToTag`), and names are matched as
  substrings of the stash message.

## 7. Plan

In this order, each with its runs, mutants and, where it is named, its theorem:

1. `ReviewFlow`: review, re-reflection and learn flows of the orchestrator with sequences, parallel
   subprocesses on the list of records, and the trigger files of the idle handler.
2. Articulation counters, in memory and persisted, in `CheckpointHandler`.
3. Two server processes on one rule repository: overlapping calls with one index, in `RuleRepository`
   with a `todo` per process.
4. The intervention engine and the reviewer takeover, once a tool or a hook calls them.
5. Proofs: the refinement of `CheckpointHandler` with overlapping calls, where a write is an event of an
   earlier state of the file; and the safety half of the two liveness properties, that the action they
   wait for stays possible, stated without ENABLED.

Further questions share the runs there are, with the worlds of `PipelineNesting`, `ViolationLog` and
`RuleRepository` as the pattern: a behaviour chooses what can happen in it.

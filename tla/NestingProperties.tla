-------------------------- MODULE NestingProperties --------------------------
(* What pipeline nesting should guarantee, over PipelineNesting. *)
EXTENDS PipelineNesting

(* Every field has the values its declaration in schema.ts allows. *)
TypeOK ==
    /\ world \in Worlds
    /\ active \in Runs \cup {Nil}
    /\ stack \in Seq(Entry)
    /\ state \in [Runs -> NestedState \cup {Nil}]
    /\ finished \subseteq Runs
    /\ deferred \subseteq Runs
    /\ waiting \in WaitingCall \cup {Nil}

(* A suspended run can be found again: the pointer or the stack names it.  *)
(* suspendActive and resumeSuspended write three files one after the other *)
(* and getActiveRun repairs them on the strength of one field.             *)
SuspendedReachable == \A r \in Runs : IsSuspended(r) => r = active \/ OnStack(r)

(* So it is, whatever crashes, overlaps, pauses and is replaced, as long as *)
(* no stack is drained by force and the host repairs and reports nothing.   *)
SuspendedKept ==
    world.can \cap {"force", "setChildRunId", "detectOrphanedSuspend", "handlePhaseFail"} = {}
        => SuspendedReachable

(* canSuspend is to keep children of depth MAX_DEPTH out.  Its fallback,    *)
(* taken when stack and depth disagree, measures the entries below and not  *)
(* the run that is about to be suspended, and lets one more level through;  *)
(* they disagree after crashes and when a child is replaced between phases. *)
(* No more than one level, in any order of events, as long as no entry is   *)
(* dropped below a run that goes on (a reported child, an orphan repaired): *)
(* then the entries left say nothing of its depth, and nothing limits it.   *)
NestingLimited ==
    world.can \cap {"setChildRunId", "detectOrphanedSuspend"} = {}
        => \A r \in Started : state[r].depth <= MAX_DEPTH

(* The repair of the pointer in getActiveRun never brings back a run whose *)
(* last phase is complete, though crashes leave such runs on the stack.    *)
(* Orphan recovery does, and so does a pause trigger that marks such a run *)
(* after a crash: it is then resumed, paused, unpaused and suspended.      *)
FinishedStaysFinished ==
    world.can \cap {"detectOrphanedSuspend", "pauseTrigger"} = {} => active \notin finished

IsWorking(r) == state[r] # Nil /\ state[r].phaseStatus \in Working

(* Of the runs that pointer and stack name, one at most is at work: a parent *)
(* stands still while its child works.  Three things break this: a handle()  *)
(* call that overlaps the suspension writes the status of before it; a run   *)
(* replaced at work may be left on the stack by a crash; and pipeline_resume *)
(* asks for the status of the named child only, not of the active run.       *)
OneAtWork ==
    world.can \cap {"overlap", "stale", "force", "setChildRunId"} = {} =>
        \A r, q \in Runs : /\ IsWorking(r) /\ IsWorking(q)
                           /\ r = active \/ OnStack(r)
                           /\ q = active \/ OnStack(q)
                           => r = q

(* A suspended run remembers a status that is not itself a standstill:     *)
(* resuming it, by its child or as an orphan, ends the standstill.         *)
ResumeLeadsOut ==
    \A r \in Runs : IsSuspended(r) =>
        state[r].preSuspendStatus \notin {Nil, "suspended", "paused"}
=============================================================================

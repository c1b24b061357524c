-------------------------- MODULE CheckpointProperties --------------------------
(***************************************************************************)
(* What the watchdog's checkpoint handler must keep, and what its messages *)
(* and comments say it keeps.                                              *)
(***************************************************************************)
EXTENDS CheckpointHandler

MaybeState == PipelineState \cup {Nil}

TypeOK ==
    /\ activeRun \in Runs \cup {Nil}
    /\ disk \in [Runs -> MaybeState]
    /\ archive \in [Runs -> MaybeState]
    /\ stale \in BOOLEAN
    /\ observations \subseteq Observation
    /\ blocks \in [Runs -> SUBSET BlockKinds]
    /\ cache \in [populated : BOOLEAN, run : Runs \cup {Nil}, state : MaybeState]
    /\ degraded \subseteq Runs \X Nat
    /\ calls \in [Calls -> WaitingCall \cup {Nil}]

-----------------------------------------------------------------------------
(* Properties that hold *)

SoundIfAny(s) == s # Nil => StateInv(s) /\ TerminationBacked(s)

(* Whatever interleaving of calls, crash or restart came before, every     *)
(* copy of a pipeline state (state file, archive, cache, the result of a   *)
(* waiting call) is one in which phases were entered in order, none was    *)
(* approved before its review, and no loop ended on a claim its rounds do  *)
(* not support: a late write may lose progress, but it never fabricates any. *)
EveryCopySound ==
    /\ \A r \in Runs : SoundIfAny(disk[r]) /\ SoundIfAny(archive[r])
    /\ SoundIfAny(cache.state)
    /\ \A c \in Calls : calls[c] # Nil => SoundIfAny(calls[c].new)

(* active.json never names a run without a readable state, even if the     *)
(* process dies between the two writes of pipeline_start: the pointer is   *)
(* written last (pipeline-store.ts, L5 fix).                               *)
ActiveRunHasState == activeRun # Nil => disk[activeRun] # Nil

Finished(s) == s.phaseStatus = "complete" /\ s.currentPhase = s.maxPhase

(* A run that finished and is no longer active is in the archive with its  *)
(* final state: also when the process died inside phase_complete and the   *)
(* run was replaced later, and although the archive is only a copy.        *)
FinishedRunArchived ==
    \A r \in Runs :
        disk[r] # Nil /\ r # activeRun /\ Finished(disk[r]) => archive[r] = disk[r]

(* The interceptor and the observer decide on what the file says: the      *)
(* memory state, when there is one, is the active run's state on disk.     *)
CacheCoherent ==
    CacheGet.state # Nil => CacheGet.run = activeRun /\ CacheGet.state = ActiveState

(* AC-2: each counted round of the active loop left an observation of its  *)
(* round number (a reviewer, or the observer's own failure) in the run's   *)
(* file, whatever restarts, retries and waiting calls there were.          *)
RoundsObserved ==
    ActiveState # Nil /\ ActiveState.ralph # Nil =>
        \A n \in 1..Len(ActiveState.ralph.tallyHistory) :
            \E o \in observations : o.run = activeRun /\ o.round = n

(* Once phase 5 is reached business code may be written for good: the      *)
(* gate on phase 4's record, read through the cache, never closes again.   *)
BusinessCodeOpens ==
    CacheGet.state # Nil /\ CacheGet.state.currentPhase > TEST_CODE_PHASE
        => ~BusinessCodeBlocked(CacheGet.state)

Machine(r) == INSTANCE PhaseMachine WITH state <- disk[r]

(* With one call at a time, every write to a run's state file is one valid *)
(* event of transitions.ts applied to what the file held: no write skips,  *)
(* merges or undoes anything, across crashes and restarts.                 *)
WritesAreEvents ==
    [][\A r \in Runs : disk[r] \in {Nil, disk'[r]} \/ Machine(r)!Next]_disk

-----------------------------------------------------------------------------
(* A property that a comment of the repository states and the code does not *)
(* keep.                                                                    *)

(* transitions.ts, phase_enter: "Phase transitions must be monotonically   *)
(* forward."                                                               *)
PhasesForward ==
    [][\A r \in Runs : disk[r] # Nil => disk'[r].currentPhase >= disk[r].currentPhase]_disk
=============================================================================

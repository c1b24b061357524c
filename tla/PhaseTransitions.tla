--------------------------- MODULE PhaseTransitions ---------------------------
(***************************************************************************)
(* packages/watchdog/src/transitions.ts: the pure half of the watchdog.    *)
(* For every checkpoint event, XValid is validateTransition's state check  *)
(* and X is what applyTransition returns.  Nothing here has a variable:    *)
(* PhaseMachine runs these functions from one caller, CheckpointHandler    *)
(* from concurrent calls over a disk, a cache and an audit log.            *)
(*                                                                         *)
(* Data abstraction.  A tally {C,H,M,P,L,I} and a round record's counts    *)
(* are read only through "C+H+M = 0", so a round is a Boolean, TRUE for    *)
(* clean.  A contested issue is its id.  Malformed payloads fail before    *)
(* the state is looked at and are one rejected call of CheckpointHandler.  *)
(* 'escalated' is left out: validateTransition rejects it as a             *)
(* termination and no code sets ralph.escalated.  The articulation fields  *)
(* of a phase record are never read by these checks.                       *)
(***************************************************************************)
EXTENDS Integers, Sequences

CONSTANTS
    MIN_GATE_ROUNDS,         \* constants.ts: 5
    EARLY_STOP_CONSECUTIVE,  \* constants.ts: 2
    MAX_RALPH_ROUNDS,        \* constants.ts: 20
    TEST_CODE_PHASE,         \* constants.ts: 4
    PhaseLimit,              \* largest phase number a payload names
    MaxPhases,               \* values of maxPhase ?? totalPhases
    FollowupPhases,          \* the phases loop-config marks 'followup'
    Issues,                  \* ids of contested issues
    Sessions,                \* session ids
    Nil                      \* null / undefined

ASSUME RoundConstants ==
    /\ MIN_GATE_ROUNDS \in Nat \ {0}
    /\ EARLY_STOP_CONSECUTIVE \in Nat \ {0}
    /\ MAX_RALPH_ROUNDS \in Nat \ {0}
    /\ TEST_CODE_PHASE \in Nat \ {0}

ASSUME PhaseConstants ==
    /\ PhaseLimit \in Nat \ {0}
    /\ MaxPhases \subseteq 1..PhaseLimit
    /\ FollowupPhases \subseteq 1..PhaseLimit
    /\ TEST_CODE_PHASE \notin FollowupPhases     \* loop-config.ts, step 12

-----------------------------------------------------------------------------
(* schema.ts *)

Phases == 1..PhaseLimit

PhaseStatus == {"idle", "active", "ralph_loop", "awaiting_approval", "complete",
                "suspended", "paused", "failed", "cancelled"}

Termination == {"gate_pass", "early_stop", "max_rounds"}

PhaseRecord == [ralphCompleted   : BOOLEAN,
                ralphTermination : Termination \cup {Nil},
                userApproved     : BOOLEAN]

RoundRecord == [round : Nat, clean : BOOLEAN]

RalphLoop == [round           : Nat,
              consecutiveZero : Nat,
              tallyHistory    : Seq(BOOLEAN),
              openContested   : SUBSET Issues,
              termination     : Termination \cup {Nil},
              roundRecords    : Seq(RoundRecord),
              autoValidated   : BOOLEAN]

PipelineState == [currentPhase          : 0..PhaseLimit,
                  phaseStatus           : PhaseStatus,
                  maxPhase              : MaxPhases,
                  phases                : [Phases -> PhaseRecord \cup {Nil}],
                  ralph                 : RalphLoop \cup {Nil},
                  testEvidenceConfirmed : BOOLEAN,
                  ownerSessionId        : Sessions]

(* Nil must not be mistaken for a record. *)
ASSUME NilAssumption ==
    /\ Nil \notin PhaseRecord
    /\ Nil \notin RalphLoop
    /\ Nil \notin PipelineState

-----------------------------------------------------------------------------
(* pipeline_start: maxPhase is the configured one, else the payload's total. *)
PipelineStart(max, session) ==
    [currentPhase          |-> 0,
     phaseStatus           |-> "idle",
     maxPhase              |-> max,
     phases                |-> [p \in Phases |-> Nil],
     ralph                 |-> Nil,
     testEvidenceConfirmed |-> FALSE,
     ownerSessionId        |-> session]

-----------------------------------------------------------------------------
(* phase_enter *)
EnterSkippingPhases(s, p) ==    \* mutant: phase - 1 is not looked up
    /\ p > s.currentPhase
    /\ p <= s.maxPhase
    /\ s.phaseStatus = IF p = 1 THEN "idle" ELSE "complete"

PhaseEnterValid(s, p) ==
    /\ p > s.currentPhase
    /\ p <= s.maxPhase
    /\ p = 1 => s.phaseStatus = "idle"
    /\ p # 1 => /\ s.phases[p - 1] # Nil
                /\ s.phases[p - 1].userApproved
                /\ s.phaseStatus = "complete"

FreshPhaseIncomplete ==         \* mutant: a field is left undefined
    [ralphCompleted |-> FALSE, userApproved |-> FALSE]

FreshPhase == [ralphCompleted |-> FALSE, ralphTermination |-> Nil, userApproved |-> FALSE]

PhaseEnter(s, p) ==
    [s EXCEPT !.currentPhase = p,
              !.phaseStatus  = "active",
              !.phases       = [s.phases EXCEPT ![p] = FreshPhase]]

-----------------------------------------------------------------------------
(* ralph_loop_start *)
IsFollowup(p) == p \in FollowupPhases

LoopStartAnyStatus(s, p) ==     \* mutant: the status check is dropped
    p = s.currentPhase /\ s.phases[p] # Nil /\ ~IsFollowup(p)

RalphLoopStartValid(s, p) ==
    /\ p = s.currentPhase
    /\ s.phaseStatus = "active"
    /\ ~IsFollowup(p)

FreshLoop == [round           |-> 0,
              consecutiveZero |-> 0,
              tallyHistory    |-> <<>>,
              openContested   |-> {},
              termination     |-> Nil,
              roundRecords    |-> <<>>,
              autoValidated   |-> FALSE]

RalphLoopStart(s, p) ==
    [s EXCEPT !.phaseStatus = "ralph_loop", !.ralph = FreshLoop]

-----------------------------------------------------------------------------
InLoop(s, p) ==
    /\ p = s.currentPhase
    /\ s.phaseStatus = "ralph_loop"
    /\ s.ralph # Nil

(***************************************************************************)
(* ralph_round_complete, legacy mode.  "mentioned" are the ids in          *)
(* contested_resolutions, "accepted" those resolved by 'accepted' (any     *)
(* other action keeps the issue open), "raised" the ids in new_contested.  *)
(***************************************************************************)
RalphRoundCompleteValid(s, p, round, mentioned) ==
    /\ InLoop(s, p)
    /\ round = s.ralph.round + 1
    /\ s.ralph.openContested # {} => mentioned \cap s.ralph.openContested # {}
    /\ ~s.ralph.autoValidated

RoundKeepsStreak(s, round, clean, accepted, raised) ==   \* mutant: no reset
    [s EXCEPT !.ralph =
        [s.ralph EXCEPT
                  !.round           = round,
                  !.consecutiveZero = IF clean THEN @ + 1 ELSE @,
                  !.tallyHistory    = Append(@, clean),
                  !.openContested   = (@ \ accepted) \cup raised]]

RalphRoundComplete(s, round, clean, accepted, raised) ==
    [s EXCEPT !.ralph =
        [s.ralph EXCEPT
                  !.round           = round,
                  !.consecutiveZero = IF clean THEN @ + 1 ELSE 0,
                  !.tallyHistory    = Append(@, clean),
                  !.openContested   = (@ \ accepted) \cup raised]]

(* ralph_round_finding switches the loop to GPAV mode for good. *)
RalphRoundFindingValid(s, p, round) ==
    /\ InLoop(s, p)
    /\ round = s.ralph.round + 1

RalphRoundFinding(s, round, clean) ==
    [s EXCEPT !.ralph =
        [s.ralph EXCEPT
                  !.round         = IF round > @ THEN round ELSE @,
                  !.roundRecords  = Append(@, [round |-> round, clean |-> clean]),
                  !.autoValidated = TRUE]]

-----------------------------------------------------------------------------
(* ralph_terminate: which rounds count, and what each termination demands. *)

CompletedRecords(r) ==
    LET records == r.roundRecords
        closed[n \in 0..Len(records)] ==
            IF n = 0 THEN <<>>
            ELSE IF records[n].round <= r.round THEN Append(closed[n - 1], records[n])
            ELSE closed[n - 1]
    IN  closed[Len(records)]

RecordsDecide(r) == r.autoValidated /\ CompletedRecords(r) # <<>>

Verdicts(r) ==
    IF RecordsDecide(r)
    THEN [i \in DOMAIN CompletedRecords(r) |-> CompletedRecords(r)[i].clean]
    ELSE r.tallyHistory

EndsWithClean(verdicts, n) ==
    /\ Len(verdicts) >= n
    /\ \A i \in (Len(verdicts) - n + 1)..Len(verdicts) : verdicts[i]

EndsDirty(verdicts) == verdicts # <<>> /\ ~verdicts[Len(verdicts)]

TerminationEarned(r, termination) ==
    \/ /\ termination = "gate_pass"
       /\ r.round >= MIN_GATE_ROUNDS
       /\ EndsWithClean(Verdicts(r), 1)
    \/ /\ termination = "early_stop"
       /\ IF RecordsDecide(r)
          THEN EndsWithClean(Verdicts(r), EARLY_STOP_CONSECUTIVE)
          ELSE r.consecutiveZero >= EARLY_STOP_CONSECUTIVE
    \/ /\ termination = "max_rounds"
       /\ r.round >= MAX_RALPH_ROUNDS
       /\ EndsDirty(Verdicts(r))

RalphTerminateValid(s, p, termination) ==
    /\ InLoop(s, p)
    /\ TerminationEarned(s.ralph, termination)

RalphTerminate(s, p, termination) ==
    [s EXCEPT !.phaseStatus = "awaiting_approval",
              !.ralph       = [s.ralph EXCEPT !.termination = termination],
              !.phases      = [s.phases EXCEPT ![p] =
                                 [s.phases[p] EXCEPT
                                           !.ralphCompleted   = TRUE,
                                           !.ralphTermination = termination]]]

-----------------------------------------------------------------------------
(* test_evidence (deprecated: gates nothing) *)
TestEvidenceValid(s) == s.currentPhase >= TEST_CODE_PHASE

TestEvidence(s) == [s EXCEPT !.testEvidenceConfirmed = TRUE]

ApprovalWithoutReview(s, p) ==  \* mutant: ralphCompleted is not looked at
    p = s.currentPhase /\ s.phases[p] # Nil

ApprovalNeedsReview(s, p) ==    \* mutant: followup phases are forgotten
    p = s.currentPhase /\ s.phases[p] # Nil /\ s.phases[p].ralphCompleted

(* user_approval: a followup phase needs no loop, any other a finished one. *)
UserApprovalValid(s, p) ==
    /\ p = s.currentPhase
    /\ s.phases[p] # Nil
    /\ IF IsFollowup(p) THEN s.phaseStatus = "active"
                        ELSE s.phases[p].ralphCompleted

UserApproval(s, p) ==
    [s EXCEPT !.phaseStatus = IF IsFollowup(p) THEN "awaiting_approval" ELSE @,
              !.phases      = [s.phases EXCEPT ![p] =
                                 [s.phases[p] EXCEPT !.userApproved = TRUE]]]

CompleteUnapproved(s, p) ==     \* mutant: userApproved is not looked at
    p = s.currentPhase /\ s.phaseStatus = "awaiting_approval"

(* phase_complete *)
PhaseCompleteValid(s, p) ==
    /\ p = s.currentPhase
    /\ s.phases[p] # Nil
    /\ s.phases[p].userApproved
    /\ s.phaseStatus = "awaiting_approval"

PhaseComplete(s) == [s EXCEPT !.phaseStatus = "complete", !.ralph = Nil]

(* why_articulation writes only articulation fields, which are not modelled. *)
WhyArticulationValid(s, p) ==
    /\ p = s.currentPhase
    /\ s.phaseStatus = "active"
    /\ s.phases[p] # Nil
=============================================================================

CONSTANTS
    MIN_GATE_ROUNDS = 3
    EARLY_STOP_CONSECUTIVE = 2
    MAX_RALPH_ROUNDS = 4
    TEST_CODE_PHASE = 3
    PhaseLimit = 3
    FollowupPhases <- MCFollowup
    MaxPhases <- MCMaxPhases
    Issues = {i1}
    Sessions = {owner}
    RoundBound = 5
    Nil = Nil
SPECIFICATION Spec
INVARIANTS TypeOK LadderInv ApprovalInv TerminationInv NoDeadEnd
PROPERTIES NeverReopened ImplementsLadder
CHECK_DEADLOCK FALSE

CONSTANTS
    MIN_GATE_ROUNDS = 1
    EARLY_STOP_CONSECUTIVE = 1
    MAX_RALPH_ROUNDS = 2
    TEST_CODE_PHASE = 1
    PhaseLimit = 3
    MaxPhases <- MCTop3
    FollowupPhases <- MCFollowup23
    Issues = {}
    Sessions = {owner}
    Runs = {r1}
    Calls = {c1, c2}
    Sequential = FALSE
    MultiAgent = FALSE
    Faults = {}
    RoundBound = 1
    Nil = Nil
SPECIFICATION Spec
CHECK_DEADLOCK FALSE
PROPERTY PhasesForward

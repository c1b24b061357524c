CONSTANTS
    MIN_GATE_ROUNDS = 2
    EARLY_STOP_CONSECUTIVE = 1
    MAX_RALPH_ROUNDS = 3
    TEST_CODE_PHASE = 1
    PhaseLimit = 2
    MaxPhases <- MCTop2
    FollowupPhases <- MCNoPhases
    Issues = {}
    Sessions = {owner}
    Runs = {r1}
    Calls = {c1}
    Sequential = TRUE
    MultiAgent = FALSE
    Faults = {"degraded", "violation", "rejection"}
    RoundBound = 2
    Nil = Nil
SPECIFICATION Spec
CHECK_DEADLOCK FALSE
INVARIANTS RoundsObserved BusinessCodeOpens

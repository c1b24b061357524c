CONSTANTS
    MIN_GATE_ROUNDS = 1
    EARLY_STOP_CONSECUTIVE = 1
    MAX_RALPH_ROUNDS = 3
    TEST_CODE_PHASE = 1
    PhaseLimit = 2
    MaxPhases <- MCTop2
    FollowupPhases <- MCFollowup
    Issues = {}
    Sessions = {owner}
    Runs = {r1, r2}
    Calls = {c1}
    Sequential = FALSE
    MultiAgent = TRUE
    Faults = {"stale", "corruption"}
    RoundBound = 1
    Nil = Nil
SPECIFICATION Spec
SYMMETRY MCSymmetry
CHECK_DEADLOCK FALSE
INVARIANTS EveryCopySound RoundsObserved

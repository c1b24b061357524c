CONSTANTS
    MIN_GATE_ROUNDS = 1
    EARLY_STOP_CONSECUTIVE = 1
    MAX_RALPH_ROUNDS = 2
    TEST_CODE_PHASE = 1
    PhaseLimit = 2
    MaxPhases <- MCTop2
    FollowupPhases <- MCFollowup
    Issues = {}
    Sessions = {owner, sub}
    Runs = {r1, r2}
    Calls = {c1}
    Sequential = TRUE
    MultiAgent = FALSE
    Faults = {"stale", "crash"}
    RoundBound = 1
    Nil = Nil
SPECIFICATION Spec
CHECK_DEADLOCK FALSE
INVARIANTS TypeOK ActiveRunHasState FinishedRunArchived CacheCoherent
PROPERTY WritesAreEvents

SPECIFICATION Spec
CONSTANTS
    Targets = {t1, t2}
    Phases = 2
    BUSINESS_CODE_PHASE = 2
    RESOLVE_LIMIT = 100
    MaxLog = 5
    MaxFaults = 0
    Worlds <- MCHasty
    None = None
INVARIANT FixedPhaseCompletes
CHECK_DEADLOCK FALSE

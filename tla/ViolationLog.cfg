SPECIFICATION Spec
CONSTANTS
    Targets = {t1, t2}
    Phases = 2
    BUSINESS_CODE_PHASE = 2
    RESOLVE_LIMIT = 2
    MaxLog = 5
    MaxFaults = 2
    Worlds <- MCWorlds
    None = None
INVARIANTS TypeOK NothingHidden FixedIsForgiven
PROPERTIES ForgivenOnlyFor PatientRunEnds
CHECK_DEADLOCK FALSE

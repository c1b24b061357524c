CONSTANTS
    Runs = {r1, r2, r3, r4}
    MAX_DEPTH = 2
    Worlds <- MCWorlds
    Nil = Nil
SPECIFICATION Spec
CHECK_DEADLOCK FALSE
SYMMETRY MCSymmetry
INVARIANTS TypeOK SuspendedKept NestingLimited FinishedStaysFinished OneAtWork ResumeLeadsOut

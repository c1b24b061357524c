CONSTANTS
    Workflows = {w1}
    Instances = {i1, i2}
    MaxSessions = 2
    MaxWorkflows = 1
    Handlers = {h1}
    Faults = {"crash"}
    Nil = Nil
SPECIFICATION Spec
CHECK_DEADLOCK FALSE
INVARIANT CrashRecovered

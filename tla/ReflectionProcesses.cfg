CONSTANTS
    Workflows = {w1}
    Instances = {i1, i2}
    MaxSessions = 3
    MaxWorkflows = 1
    Handlers = {h1, h2}
    Faults = {"messages", "mcp", "launch", "aged", "reidle", "crash", "overlap", "prompt"}
    Nil = Nil
SPECIFICATION Spec
CHECK_DEADLOCK FALSE
INVARIANTS CompletedMeansDone  CheckerHasWork

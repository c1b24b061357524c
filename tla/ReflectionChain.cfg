CONSTANTS
    Workflows = {w1, w2}
    Instances = {i1}
    MaxSessions = 4
    MaxWorkflows = 1
    Handlers = {h1, h2}
    Faults = {"messages", "mcp", "launch", "aged"}
    Nil = Nil
SPECIFICATION FairSpec
CHECK_DEADLOCK FALSE
INVARIANTS BridgeTypeOK 
PROPERTIES ActiveWorkflowKept EveryWorkflowEnds

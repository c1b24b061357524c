CONSTANTS
    Rules = {r1, r2}
    SameIntent = {r1, r2}
    MaxName = 2
    Points = {n1}
    STASH_HARD_LIMIT = 2
    STASH_CLEANUP_KEEP = 1
    Worlds <- MCWorlds
    None = None
SPECIFICATION Spec
SYMMETRY MCSymmetry
CHECK_DEADLOCK FALSE
INVARIANTS TypeOK RulesKept OnlyReviewedCommitted UnsyncedIsSeen ConflictsDeclared
 

--------------------------------- MODULE MCRules ---------------------------------
(* RuleRepository with values for TLC. *)
EXTENDS RuleProperties
LOCAL INSTANCE TLC
MCWorld(tools, fragile, failures) == [tools |-> tools, fragile |-> fragile, failures |-> failures]
MCLife == {"stage", "commit", "reject"}
MCWorlds ==
    {MCWorld(MCLife \cup {"restore", "check"}, {}, 2),
     MCWorld(MCLife \cup {"guard", "check"}, {}, 1),
     MCWorld(MCLife \cup {"restore", "verify", "sync", "sync one"}, {}, 1),
     MCWorld({"stage", "commit", "checkpoint", "rollback", "cleanup"}, {}, 0),
     MCWorld({"reject", "checkpoint", "rollback"}, {}, 1)}
    \cup {MCWorld(MCLife \cup {"reason", "check"}, {r}, 2) : r \in Rules}
    \cup {MCWorld(MCLife \cup {"restore", "rejected", "sync"}, {r}, 0) : r \in Rules}
    \cup {MCWorld({"commit", "reject", "checkpoint", "rollback"}, {r}, 0) : r \in Rules}
MCSymmetry == Permutations(Rules)
=============================================================================

-------------------------------- MODULE MCNesting --------------------------------
(* PipelineNesting with values for TLC. *)
EXTENDS NestingProperties
LOCAL INSTANCE TLC
(* What can happen, with 3 or 4 runs. *)
MCSmall(flags) == [can |-> flags, runs |-> 3, entries |-> 2]
MCDeep(flags)  == [can |-> flags, runs |-> 4, entries |-> 3]
MCWorlds == {MCDeep({"crash"}), MCSmall({"overlap"}), MCSmall({"stale", "force"}),
             MCSmall({"crash", "setChildRunId"}), MCSmall({"setChildRunId", "handlePhaseFail"}),
             MCSmall({"setChildRunId", "pauseTrigger"}),
             MCSmall({"crash", "detectOrphanedSuspend"})}
MCSymmetry == Permutations(Runs)
=============================================================================

-------------------------- MODULE MCCheckpointHandler --------------------------
(* CheckpointHandler with values for TLC.  Issues are PhaseMachine's matter. *)
EXTENDS CheckpointProperties
LOCAL INSTANCE TLC
MCNoPhases == {}
MCFollowup == {2}
MCTop2 == {2}
MCTop3 == {3}
MCFollowup23 == {2, 3}
(* Sound for the runs that check invariants only. *)
MCSymmetry == Permutations(Runs) \cup Permutations(Calls)
=============================================================================

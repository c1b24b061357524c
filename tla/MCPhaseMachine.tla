---------------------------- MODULE MCPhaseMachine ----------------------------
(* PhaseMachine with three phases, the second a followup phase. *)
EXTENDS PhaseMachine
MCFollowup == {2}
MCMaxPhases == {2, 3}
=============================================================================

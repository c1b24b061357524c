------------------------------- MODULE MCViolations -------------------------------
(* ViolationLog with values for TLC. *)
EXTENDS ViolationProperties
MCWorlds == {{}, {"cut off"}, {"unreadable"}, {"same ms"}, {"degraded"},
             {"rejection"}, {"intercept", "hasty"}}
(* Only phase_complete is ever refused. *)
MCHasty == {{"hasty"}}
=============================================================================

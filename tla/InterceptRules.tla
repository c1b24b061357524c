---------------------------- MODULE InterceptRules ----------------------------
(***************************************************************************)
(* packages/watchdog/src/intercept-rules.ts: which file writes the         *)
(* interceptor refuses in a pipeline state.  A file is "business_code",    *)
(* a "phase_deliverable" of some phase, or something no rule looks at;     *)
(* classifying paths is left out.                                          *)
(***************************************************************************)
EXTENDS PhaseInvariants

BusinessCodeBlockedByCurrent(s) ==   \* mutant: asks the current phase's record
    LET c == s.currentPhase
    IN  c >= TEST_CODE_PHASE /\ ~(Reviewed(s, c) /\ Approved(s, c))

(* Rule 1, NO_BUSINESS_CODE_BEFORE_PHASE5. *)
BusinessCodeBlocked(s) ==
    /\ s.currentPhase >= TEST_CODE_PHASE
    /\ \/ s.currentPhase = TEST_CODE_PHASE
       \/ ~Reviewed(s, TEST_CODE_PHASE)
       \/ ~Approved(s, TEST_CODE_PHASE)

(* Rule 2, NO_PHASE_ADVANCE_WITHOUT_GATE, for a deliverable of the next phase. *)
NextDeliverableBlocked(s) ==
    LET c == s.currentPhase
    IN  ~ /\ c \in Phases
          /\ Entered(s, c)
          /\ IsFollowup(c) \/ Reviewed(s, c)
          /\ Approved(s, c)
=============================================================================

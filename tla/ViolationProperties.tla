--------------------------- MODULE ViolationProperties ---------------------------
(* What the violation gate should guarantee, over ViolationLog. *)
EXTENDS ViolationLog

(* Lines carry the instant they were written at or an earlier one, and the  *)
(* run completes each of its phases once.                                   *)
TypeOK ==
    /\ can \in Worlds
    /\ log \in Seq(Line)
    /\ \A i \in DOMAIN log : log[i].ts <= i
    /\ failing \subseteq Targets
    /\ phase \in 0 .. Phases
    /\ faults \in 0 .. MaxFaults

(* The gate reads the log and fails open, though checkpoint.ts:523 calls it *)
(* fail-closed.  What a failed or cut-off append hides from it is bounded:  *)
(* its own line and the line glued to it.  Not counted are failures of the  *)
(* millisecond of a resolved one, which count as resolved from the start,   *)
(* those of a degraded observer, and those forgiven because a first read of *)
(* the log failed and the second, to resolve what is left, did not.         *)
NothingHidden ==
    can \cap {"same ms", "unreadable", "degraded"} = {} =>
        Cardinality({t \in failing : UnresolvedAbout(log, t) = {}}) <= 2 * faults

(* observer.ts:246: a success resolves all that is recorded of the same     *)
(* command or file, so what works now keeps no gate closed; except that     *)
(* more than RESOLVE_LIMIT entries are never resolved.                      *)
FixedIsForgiven ==
    can \cap {"same ms", "unreadable"} = {} /\ faults = 0 =>
        \A t \in Targets \ failing :
            LET open == UnresolvedAbout(log, t) IN open = {} \/ Cardinality(open) > RESOLVE_LIMIT

(* What failed at the instant of the line i works after the step. *)
ForgivenBySuccess(i) ==
    \E j \in DOMAIN log : log[j].ts = log[i].ts /\ log[j].about \in Targets \ failing'

(* A recorded violation becomes resolved only by a success of its target,   *)
(* or of the target of an entry of the same timestamp: not by the success   *)
(* of another one, nor by the end of a phase, which resolves all it finds.  *)
ForgivenOnlyFor ==
    [][\A i \in Unresolved(log, "block") :
          "unreadable" \notin can /\ i \notin Unresolved(log', "block") => ForgivenBySuccess(i)]_vars

(* checkpoint.ts:540: violations "must be fixed before phase can complete"; *)
(* when they are, and no call was refused, the run completes its phases.    *)
PatientRunEnds ==
    can = {} ~> \/ phase = Phases
                \/ \E t \in Targets : Cardinality(UnresolvedAbout(log, t)) > RESOLVE_LIMIT

(* checkpoint.ts:542, the guidance of the gate: fix the violations before   *)
(* completing this phase.  When all is fixed the gate should be open.       *)
FixedPhaseCompletes == failing = {} => GateOpens(log)
=============================================================================

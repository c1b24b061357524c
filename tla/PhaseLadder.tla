------------------------------ MODULE PhaseLadder ------------------------------
(***************************************************************************)
(* What a TDD pipeline promises its user, without rounds, reviewers or     *)
(* files: phases are climbed one at a time; a phase is approved only after *)
(* its review has ended, unless it is a followup phase, which has none;    *)
(* and the next one opens only once this one is approved and closed.       *)
(***************************************************************************)
EXTENDS Integers

CONSTANTS Tops,      \* the possible numbers of phases of a run
          Followup   \* the phases that need no review

VARIABLES top, rung, stage

Stages == {"closed", "open", "reviewed", "approved"}

Init == top \in Tops /\ rung = 0 /\ stage = "closed"

Open ==
    /\ stage = "closed"
    /\ rung < top
    /\ rung' = rung + 1
    /\ stage' = "open"
    /\ UNCHANGED top

Review ==
    /\ stage = "open"
    /\ rung \notin Followup
    /\ stage' = "reviewed"
    /\ UNCHANGED <<top, rung>>

Approve ==
    /\ \/ stage = "reviewed"
       \/ stage = "open" /\ rung \in Followup
    /\ stage' = "approved"
    /\ UNCHANGED <<top, rung>>

Close ==
    /\ stage = "approved"
    /\ stage' = "closed"
    /\ UNCHANGED <<top, rung>>

Next == Open \/ Review \/ Approve \/ Close

Spec == Init /\ [][Next]_<<top, rung, stage>>
=============================================================================

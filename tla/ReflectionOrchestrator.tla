------------------------- MODULE ReflectionOrchestrator -------------------------
(***************************************************************************)
(* The reflect flow of the Python orchestrator (aristotle_mcp/_orch_*.py,  *)
(* _tools_reflection.py, _tools_undo.py): one file per workflow, the list  *)
(* of reflection records and the drafts the Reflector leaves.  Each call   *)
(* is a process of its own that reads files, writes files and answers.     *)
(*                                                                         *)
(* A record's id is its place in the list (records are dropped only past   *)
(* 50).  The flag record_created is TRUE exactly when the phase is past    *)
(* "reflecting", as both are saved together, and is left out.              *)
(***************************************************************************)
EXTENDS WorkflowStore, Sequences

VARIABLES
    wfFile,        \* .workflows/<id>.json
    handedOut,     \* per workflow id (random, never reused): the sequence its prompts name
    records,       \* aristotle-state.json
    drafts         \* aristotle-drafts/rec_<n>.md

orchestrator == <<wfFile, handedOut, records, drafts>>

WorkflowFile == [phase    : {"reflecting", "checking", "done"},
                 sequence : Nat,
                 undone   : BOOLEAN]

ASSUME OrchestratorConstants == Nil \notin WorkflowFile

Record == [workflow : Workflows, status : {"processing", "complete"}]

OrchestratorInit ==
    /\ wfFile = [w \in Workflows |-> Nil]
    /\ handedOut = [w \in Workflows |-> Nil]
    /\ records = <<>>
    /\ drafts = {}

(* _cleanup_stale_workflows drops workflow files "old" that were last saved *)
(* a day (done) or two days ago, before the new one is written.            *)
StartReflect(w, old) ==
    /\ handedOut[w] = Nil
    /\ handedOut' = [handedOut EXCEPT ![w] = Len(records) + 1]
    /\ wfFile' = [v \in Workflows |->
                    IF v = w THEN [phase |-> "reflecting", sequence |-> handedOut'[w],
                                   undone |-> FALSE]
                    ELSE IF v \in old THEN Nil ELSE wfFile[v]]
    /\ UNCHANGED <<records, drafts>>

(* The Reflector names the sequence of its prompt. *)
PersistDraft(w) ==
    /\ handedOut[w] # Nil
    /\ drafts' = drafts \cup {handedOut[w]}
    /\ UNCHANGED <<wfFile, handedOut, records>>

OnUndo(w) ==
    /\ wfFile[w] # Nil
    /\ wfFile' = [wfFile EXCEPT ![w] = [wfFile[w] EXCEPT !.undone = TRUE]]
    /\ UNCHANGED <<handedOut, records, drafts>>

-----------------------------------------------------------------------------
(* orchestrate_on_event("subagent_done"), by the state of the workflow *)

Listens(w, phase) ==
    wfFile[w] # Nil /\ ~wfFile[w].undone /\ wfFile[w].phase = phase

EnterPhase(w, phase) == wfFile' = [wfFile EXCEPT ![w] = [wfFile[w] EXCEPT !.phase = phase]]

CreateRecord(w) == records' = Append(records, [workflow |-> w, status |-> "processing"])

UnknownWorkflow(w) == wfFile[w] = Nil /\ UNCHANGED orchestrator

IgnoredEvent(w) ==
    /\ wfFile[w] # Nil
    /\ wfFile[w].undone \/ wfFile[w].phase = "done"
    /\ UNCHANGED orchestrator

CheckWithoutDraft(w) ==                 \* mutant: the draft is not looked for
    /\ Listens(w, "reflecting")
    /\ CreateRecord(w)
    /\ EnterPhase(w, "checking")
    /\ UNCHANGED <<handedOut, drafts>>

CheckForgotten(w) ==                    \* mutant: "checking" is not saved
    /\ Listens(w, "reflecting")
    /\ wfFile[w].sequence \in drafts
    /\ CreateRecord(w)
    /\ UNCHANGED <<wfFile, handedOut, drafts>>

ReflectorDrafted(w) ==
    /\ Listens(w, "reflecting")
    /\ wfFile[w].sequence \in drafts
    /\ CreateRecord(w)
    /\ EnterPhase(w, "checking")
    /\ UNCHANGED <<handedOut, drafts>>

(* The Reflector found nothing, or was truncated: no Checker is needed. *)
ReflectorEmpty(w) ==
    /\ Listens(w, "reflecting")
    /\ wfFile[w].sequence \notin drafts
    /\ CreateRecord(w)
    /\ EnterPhase(w, "done")
    /\ UNCHANGED <<handedOut, drafts>>

CompleteRecord(n) ==
    records' = IF n \in DOMAIN records THEN [records EXCEPT ![n].status = "complete"] ELSE records

(* Whoever reports: the event does not say whether it was R or C. *)
CheckerDone(w) ==
    /\ Listens(w, "checking")
    /\ CompleteRecord(wfFile[w].sequence)
    /\ EnterPhase(w, "done")
    /\ UNCHANGED <<handedOut, drafts>>

SubagentDone(w, reply) ==
    \/ UnknownWorkflow(w) /\ reply = "unknown"
    \/ IgnoredEvent(w) /\ reply = "notify"
    \/ ReflectorDrafted(w) /\ reply = "fire_sub"
    \/ ReflectorEmpty(w) /\ reply = "notify"
    \/ CheckerDone(w) /\ reply = "done"

(* Killed by the caller's 30 s limit between its two files. *)
KilledHalfway(w) ==
    /\ \/ Listens(w, "reflecting") /\ CreateRecord(w)
       \/ Listens(w, "checking") /\ CompleteRecord(wfFile[w].sequence)
    /\ UNCHANGED <<wfFile, handedOut, drafts>>
=============================================================================

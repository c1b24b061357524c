-------------------------- MODULE ReflectionProperties --------------------------
(***************************************************************************)
(* What the reflection bridge must keep, and what its comments say of it.  *)
(***************************************************************************)
EXTENDS ReflectionBridge

BridgeTypeOK ==
    /\ wfFile \in [Workflows -> WorkflowFile \cup {Nil}]
    /\ handedOut \in [Workflows -> Nat \cup {Nil}]
    /\ records \in Seq(Record)
    /\ drafts \subseteq Nat
    /\ file \in Store
    /\ memory \in [Instances -> Store]
    /\ up \subseteq Instances /\ ended \subseteq Instances \ up
    /\ sessions \in [Sessions -> Session \cup {Nil}]
    /\ handlers \in [Handlers -> Handler \cup {Nil}]
    /\ aborting \subseteq up \X Workflows

-----------------------------------------------------------------------------
(* Properties that hold *)

(* A workflow the store calls completed is done for the orchestrator too:  *)
(* the two status records, one per language, are written by different      *)
(* processes and never agree by accident, whatever aborts, undo, late      *)
(* answers and restarts come between.                                      *)
CompletedMeansDone ==
    \A i \in up, w \in Workflows :
        memory[i][w] # Nil /\ memory[i][w].status = "completed" /\ wfFile[w] # Nil
            => wfFile[w].phase = "done"

(* At most one subagent of a workflow works at a time: the Checker starts  *)
(* after the Reflector has gone idle, and a second idle event of the same  *)
(* Reflector never leads to a second Checker.                              *)
OneSubagentAtWork ==
    \A s, t \in Sessions :
        /\ sessions[s] # Nil /\ sessions[s].state \in {"created", "prompted"}
        /\ sessions[t] # Nil /\ sessions[t].state \in {"created", "prompted"}
        /\ sessions[s].workflow = sessions[t].workflow
        => s = t

(* A Checker is launched only when the Reflector left the draft it is to   *)
(* check and the reflection has a record; the orchestrator says so in one  *)
(* process, the bridge launches in another, some time later.               *)
CheckerHasWork ==
    \A s \in Sessions :
        sessions[s] # Nil /\ sessions[s].agent = "C" =>
            LET w == sessions[s].workflow
            IN  /\ wfFile[w] # Nil => wfFile[w].sequence \in drafts
                /\ \E n \in DOMAIN records : records[n].workflow = w

(* A workflow that is still running or driven is never evicted or purged:  *)
(* it leaves a process's map only when the orchestrator has forgotten it,  *)
(* or with the process.                                                    *)
ActiveWorkflowKept ==
    [][\A i \in Instances, w \in Workflows :
        i \in up' /\ IsActive(memory[i], w) /\ memory'[i][w] = Nil => wfFile[w] = Nil]_vars

(* As long as no other host process has run, the file holds what the map   *)
(* holds, so that a crash at any moment loses nothing the process knew:    *)
(* evictions, purges and re-registrations included.                        *)
FileMirrorsMemory == \A i \in up : up \cup ended = {i} => file = memory[i]

(* Every workflow that is active in a running process comes to an end: a   *)
(* chain that is being driven when an error, an abort or an undo hits it   *)
(* is not left running or pending.                                         *)
EveryWorkflowEnds ==
    \A i \in Instances, w \in Workflows :
        IsActive(memory[i], w) ~> ~IsActive(memory[i], w)

-----------------------------------------------------------------------------
(* The inductive invariant behind CompletedMeansDone and CheckerHasWork *)

Reflected(w) == wfFile[w] # Nil => wfFile[w].phase = "done"

Checkable(w) ==
    /\ wfFile[w] # Nil => wfFile[w].sequence \in drafts
    /\ \E n \in DOMAIN records : records[n].workflow = w

(* An entry, wherever it is stored, is of a workflow that was handed out and *)
(* of a process that has been started, so none that starts later owns it.  *)
EntrySound(w, entry) ==
    entry # Nil =>
        /\ handedOut[w] # Nil
        /\ entry.instance \in up \cup ended
        /\ entry.status = "completed" => Reflected(w)

StoreSound(store) == \A w \in Workflows : EntrySound(w, store[w])

SessionSound(session) ==
    session # Nil =>
        /\ handedOut[session.workflow] # Nil
        /\ session.agent = "C" => Checkable(session.workflow)

(* What the orchestrator answered stays true until the handler acts on it. *)
HandlerSound(handler) ==
    handler # Nil =>
        /\ handedOut[handler.workflow] # Nil
        /\ handler.instance \in up
        /\ handler.step = "reply" /\ handler.reply = "done" => Reflected(handler.workflow)
        /\ handler.step = "reply" /\ handler.reply = "fire_sub" => Checkable(handler.workflow)
        /\ handler.step = "launch" => Checkable(handler.workflow)

BridgeInv ==
    /\ BridgeTypeOK
    /\ \A i \in Instances : StoreSound(memory[i])
    /\ StoreSound(file)
    /\ \A s \in Sessions : SessionSound(sessions[s])
    /\ \A h \in Handlers : HandlerSound(handlers[h])
    /\ \A w \in Workflows : wfFile[w] # Nil => handedOut[w] # Nil

-----------------------------------------------------------------------------
(* A property that a comment of the repository states and the code does not *)
(* keep.                                                                    *)

(* idle-handler.ts: chain_pending "ensures reconcileOnStartup can recover  *)
(* if we crash mid-chain": once a process has started, the workflows it    *)
(* holds are those of running processes, or have ended.                    *)
CrashRecovered ==
    \A i \in up, w \in Workflows :
        IsActive(memory[i], w) => memory[i][w].instance \in up
=============================================================================

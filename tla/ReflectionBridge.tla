---------------------------- MODULE ReflectionBridge ----------------------------
(***************************************************************************)
(* The reflection role of the plugin (packages/reflection/src) on top of   *)
(* the workflow store and the orchestrator: an agent starts a reflection,  *)
(* the bridge launches a Reflector session, and when that session goes     *)
(* idle the idle handler asks the orchestrator what comes next, which may  *)
(* be a Checker session.                                                   *)
(*                                                                         *)
(* The handler waits for the session's messages, for the orchestrator's    *)
(* process and for the launch; between two waits tools, other idle events  *)
(* and other host processes go on.  Host processes share the orchestrator's*)
(* files and the store's file; the store's map is their own.               *)
(***************************************************************************)
EXTENDS ReflectionOrchestrator

CONSTANTS
    Handlers,      \* bound: idle events being handled at the same time
    Faults         \* what this instance lets go wrong, see Fault

Fault == {"messages", "mcp", "launch", "prompt", "reidle", "aged", "crash", "overlap"}

VARIABLES
    file,          \* bridge-workflows.json
    memory,        \* per host process: WorkflowStore.workflows
    up,            \* host processes that run
    ended,         \* host processes that are gone, their ids with them
    sessions,      \* subagent sessions
    handlers,      \* idle events being handled
    aborting       \* aristotle_abort calls that wait for session.abort

vars == <<orchestrator, file, memory, up, ended, sessions, handlers, aborting>>

Session == [workflow : Workflows, agent : Agents, instance : Instances,
            state : {"created", "prompted", "idle", "failed"}]

Handler == [workflow : Workflows, session : Sessions, instance : Instances,
            step  : {"messages", "mcp", "reply", "launch"},
            reply : {Nil, "error", "unknown", "notify", "fire_sub", "done"}]

ASSUME BridgeConstants ==
    /\ Faults \subseteq Fault
    /\ Nil \notin Session \cup Handler

Init ==
    /\ OrchestratorInit
    /\ file = EmptyStore
    /\ memory = [i \in Instances |-> EmptyStore]
    /\ up = {}
    /\ ended = {}
    /\ sessions = [s \in Sessions |-> Nil]
    /\ handlers = [h \in Handlers |-> Nil]
    /\ aborting = {}

-----------------------------------------------------------------------------
(* Changes of the store *)

SaveAll(i, store) ==
    /\ memory' = [memory EXCEPT ![i] = Merged(store, file, i)]
    /\ file' = Merged(store, file, i)

MarkInMemory(i, w, status) ==           \* mutant: saveToDisk is not called
    /\ memory' = IF memory[i][w] = Nil THEN memory
                 ELSE [memory EXCEPT ![i] = Marked(memory[i], w, status)]
    /\ UNCHANGED file

(* markCompleted, markChainPending, markChainBroken, markError, cancel: the *)
(* status is not looked at, and an id that is not in the map is ignored.   *)
Mark(i, w, status) ==
    IF memory[i][w] = Nil THEN UNCHANGED <<memory, file>>
    ELSE SaveAll(i, Marked(memory[i], w, status))

Remove(i, w) ==
    IF memory[i][w] = Nil THEN UNCHANGED <<memory, file>>
    ELSE SaveAll(i, [memory[i] EXCEPT ![w] = Nil])

(* executor.launch: a session is created, and registered before its prompt. *)
(* An eviction writes the map without merging it.                          *)
Launch(i, w, agent) ==
    \E s \in Sessions, store \in WithRoom(memory[i], w) :
        /\ sessions[s] = Nil /\ \A t \in 1..(s - 1) : sessions[t] # Nil
        /\ sessions' = [sessions EXCEPT ![s] =
                [workflow |-> w, agent |-> agent, instance |-> i, state |-> "created"]]
        /\ LET onDisk == IF store = memory[i] THEN file ELSE store
               saved  == Merged([store EXCEPT ![w] = [status |-> "running", agent |-> agent,
                                                      session |-> s, instance |-> i]],
                                onDisk, i)
           IN  memory' = [memory EXCEPT ![i] = saved] /\ file' = saved

-----------------------------------------------------------------------------
(* Tools *)

Start(w) ==
    /\ \E old \in IF "aged" \in Faults THEN SUBSET Workflows ELSE {{}} : StartReflect(w, old)
    /\ UNCHANGED <<file, memory, up, ended, sessions, handlers, aborting>>

(* aristotle_fire_o, for a workflow that orchestrate_start handed out; the *)
(* agent calls it once.                                                    *)
FireReflector(i, w) ==
    /\ i \in up
    /\ handedOut[w] # Nil
    /\ \A s \in Sessions : sessions[s] # Nil => sessions[s].workflow # w
    /\ Launch(i, w, "R")
    /\ UNCHANGED <<orchestrator, up, ended, handlers, aborting>>

Undo(w) ==
    /\ OnUndo(w)
    /\ UNCHANGED <<file, memory, up, ended, sessions, handlers, aborting>>

(* aristotle_abort of an active workflow waits for session.abort ... *)
Abort(i, w) ==
    /\ i \in up
    /\ IsActive(memory[i], w)
    /\ aborting' = aborting \cup {<<i, w>>}
    /\ UNCHANGED <<orchestrator, file, memory, up, ended, sessions, handlers>>

CancelUndone(i, w) ==                   \* mutant: a status that the store does not know
    /\ <<i, w>> \in aborting
    /\ aborting' = aborting \ {<<i, w>>}
    /\ Mark(i, w, "undone")
    /\ UNCHANGED <<orchestrator, up, ended, sessions, handlers>>

(* ... and then cancels, whatever the status is by now. *)
Cancel(i, w) ==
    /\ <<i, w>> \in aborting
    /\ aborting' = aborting \ {<<i, w>>}
    /\ Mark(i, w, "cancelled")
    /\ UNCHANGED <<orchestrator, up, ended, sessions, handlers>>

-----------------------------------------------------------------------------
(* Sessions *)

SetState(s, state) == sessions' = [sessions EXCEPT ![s] = [sessions[s] EXCEPT !.state = state]]

Lives(s) == sessions[s] # Nil /\ sessions[s].instance \in up

PromptSession(s) ==
    /\ Lives(s) /\ sessions[s].state = "created"
    /\ SetState(s, "prompted")
    /\ UNCHANGED <<orchestrator, file, memory, up, ended, handlers, aborting>>

(* promptAsync fails: the idle handler breaks the chain of a Checker it    *)
(* launched; aristotle_fire_o only reports the error.                      *)
PromptFails(s) ==
    /\ "prompt" \in Faults
    /\ Lives(s) /\ sessions[s].state = "created"
    /\ SetState(s, "failed")
    /\ IF sessions[s].agent = "C"
       THEN Mark(sessions[s].instance, sessions[s].workflow, "chain_broken")
       ELSE UNCHANGED <<memory, file>>
    /\ UNCHANGED <<orchestrator, up, ended, handlers, aborting>>

DraftReport(s) ==
    /\ Lives(s) /\ sessions[s].state = "prompted" /\ sessions[s].agent = "R"
    /\ PersistDraft(sessions[s].workflow)
    /\ UNCHANGED <<file, memory, up, ended, sessions, handlers, aborting>>

(* findBySession, and the check that follows it *)
Expected(s) ==
    LET entry == memory[sessions[s].instance][sessions[s].workflow]
    IN  entry # Nil /\ entry.session = s /\ entry.status = "running"

(* session.idle: the session has finished, or (reidle) is idle once more. *)
Idle(s) ==
    /\ Lives(s)
    /\ sessions[s].state \in {"prompted"} \cup (IF "reidle" \in Faults THEN {"idle"} ELSE {})
    /\ SetState(s, "idle")
    /\ IF Expected(s)
       THEN \E h \in Handlers :
                /\ handlers[h] = Nil
                /\ handlers' = [handlers EXCEPT ![h] =
                        [workflow |-> sessions[s].workflow, session |-> s,
                         instance |-> sessions[s].instance, step |-> "messages", reply |-> Nil]]
       ELSE UNCHANGED handlers
    /\ UNCHANGED <<orchestrator, file, memory, up, ended, aborting>>

-----------------------------------------------------------------------------
(* The idle handler *)

At(h, step) == handlers[h] # Nil /\ handlers[h].step = step

Goto(h, step, reply) ==
    handlers' = [handlers EXCEPT ![h] = [handlers[h] EXCEPT !.step = step, !.reply = reply]]

Finish(h) == handlers' = [handlers EXCEPT ![h] = Nil]

(* The messages have arrived: chain_pending before the chain is driven. *)
ReadMessages(h) ==
    /\ At(h, "messages")
    /\ Mark(handlers[h].instance, handlers[h].workflow, "chain_pending")
    /\ Goto(h, "mcp", Nil)
    /\ UNCHANGED <<orchestrator, up, ended, sessions, aborting>>

(* They have not: what is marked depends on the entry of this session. *)
MessagesFail(h) ==
    /\ "messages" \in Faults
    /\ At(h, "messages")
    /\ LET i == handlers[h].instance
           w == handlers[h].workflow
           entry == memory[i][w]
           found == entry # Nil /\ entry.session = handlers[h].session
       IN  CASE found /\ entry.status = "chain_pending" -> Mark(i, w, "chain_broken")
             [] found /\ entry.status = "cancelled"     -> UNCHANGED <<memory, file>>
             [] OTHER                                   -> Mark(i, w, "error")
    /\ Finish(h)
    /\ UNCHANGED <<orchestrator, up, ended, sessions, aborting>>

CallOrchestrator(h) ==
    /\ At(h, "mcp")
    /\ \E reply \in {"unknown", "notify", "fire_sub", "done"} :
        /\ SubagentDone(handlers[h].workflow, reply)
        /\ Goto(h, "reply", reply)
    /\ UNCHANGED <<file, memory, up, ended, sessions, aborting>>

(* The process fails, or is killed after 30 s: before, between or after its writes. *)
OrchestratorFails(h) ==
    /\ "mcp" \in Faults
    /\ At(h, "mcp")
    /\ \/ UNCHANGED orchestrator
       \/ KilledHalfway(handlers[h].workflow)
       \/ \E reply \in {"notify", "fire_sub", "done"} : SubagentDone(handlers[h].workflow, reply)
    /\ Goto(h, "reply", "error")
    /\ UNCHANGED <<file, memory, up, ended, sessions, aborting>>

ChainBreaks(h) ==
    /\ At(h, "reply") /\ handlers[h].reply \in {"error", "notify"}
    /\ Mark(handlers[h].instance, handlers[h].workflow, "chain_broken")
    /\ Finish(h)
    /\ UNCHANGED <<orchestrator, up, ended, sessions, aborting>>

ChainCompletes(h) ==
    /\ At(h, "reply") /\ handlers[h].reply = "done"
    /\ Mark(handlers[h].instance, handlers[h].workflow, "completed")
    /\ Finish(h)
    /\ UNCHANGED <<orchestrator, up, ended, sessions, aborting>>

WorkflowForgotten(h) ==
    /\ At(h, "reply") /\ handlers[h].reply = "unknown"
    /\ Remove(handlers[h].instance, handlers[h].workflow)
    /\ Finish(h)
    /\ UNCHANGED <<orchestrator, up, ended, sessions, aborting>>

ChainGoesOn(h) ==
    /\ At(h, "reply") /\ handlers[h].reply = "fire_sub"
    /\ Goto(h, "launch", "fire_sub")
    /\ UNCHANGED <<orchestrator, file, memory, up, ended, sessions, aborting>>

LaunchChecker(h) ==
    /\ At(h, "launch")
    /\ Launch(handlers[h].instance, handlers[h].workflow, "C")
    /\ Finish(h)
    /\ UNCHANGED <<orchestrator, up, ended, aborting>>

LaunchFailureIgnored(h) ==              \* mutant: launchResult.status is not looked at
    /\ At(h, "launch")
    /\ "launch" \in Faults \/ WithRoom(memory[handlers[h].instance], handlers[h].workflow) = {}
    /\ Finish(h)
    /\ UNCHANGED <<orchestrator, file, memory, up, ended, sessions, aborting>>

(* session.create fails, or the store is full. *)
LaunchFails(h) ==
    /\ At(h, "launch")
    /\ "launch" \in Faults \/ WithRoom(memory[handlers[h].instance], handlers[h].workflow) = {}
    /\ Mark(handlers[h].instance, handlers[h].workflow, "chain_broken")
    /\ Finish(h)
    /\ UNCHANGED <<orchestrator, up, ended, sessions, aborting>>

-----------------------------------------------------------------------------
(* Host processes *)

(* A process loads the file, purges it and reconciles, before its hooks are *)
(* registered.                                                             *)
StartProcess(i) ==
    /\ i \notin up \cup ended
    /\ "overlap" \in Faults \/ up = {}
    /\ \E purged \in IF "aged" \in Faults THEN Purged(file) ELSE {file} :
        \E store \in Reconciled(purged, i) :
            memory' = [memory EXCEPT ![i] = store] /\ file' = store
    /\ up' = up \cup {i}
    /\ UNCHANGED <<orchestrator, ended, sessions, handlers, aborting>>

Crash(i) ==
    /\ "crash" \in Faults
    /\ i \in up
    /\ up' = up \ {i}
    /\ ended' = ended \cup {i}
    /\ memory' = [memory EXCEPT ![i] = EmptyStore]
    /\ handlers' = [h \in Handlers |->
            IF handlers[h] # Nil /\ handlers[h].instance = i THEN Nil ELSE handlers[h]]
    /\ aborting' = {a \in aborting : a[1] # i}
    /\ UNCHANGED <<orchestrator, file, sessions>>

-----------------------------------------------------------------------------
Handle(h) ==
    \/ ReadMessages(h) \/ MessagesFail(h)
    \/ CallOrchestrator(h) \/ OrchestratorFails(h)
    \/ ChainBreaks(h) \/ ChainCompletes(h) \/ WorkflowForgotten(h) \/ ChainGoesOn(h)
    \/ LaunchChecker(h) \/ LaunchFails(h)

Next ==
    \/ \E w \in Workflows : Start(w) \/ Undo(w)
    \/ \E i \in Instances, w \in Workflows : FireReflector(i, w) \/ Abort(i, w) \/ Cancel(i, w)
    \/ \E s \in Sessions : PromptSession(s) \/ PromptFails(s) \/ DraftReport(s) \/ Idle(s)
    \/ \E h \in Handlers : Handle(h)
    \/ \E i \in Instances : StartProcess(i) \/ Crash(i)

(* The process's own steps are taken: every wait of a handler ends (with a *)
(* result, an error or a timeout), and so does session.abort.  A session   *)
(* that was prompted goes idle, once it has been told to or not.           *)
Fairness ==
    /\ \A h \in Handlers : WF_vars(Handle(h))
    /\ \A s \in Sessions : WF_vars(PromptSession(s) \/ PromptFails(s)) /\ WF_vars(Idle(s))
    /\ \A i \in Instances, w \in Workflows : WF_vars(Cancel(i, w))

Spec == Init /\ [][Next]_vars

FairSpec == Spec /\ Fairness
=============================================================================

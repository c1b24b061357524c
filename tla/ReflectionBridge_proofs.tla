------------------------ MODULE ReflectionBridge_proofs ------------------------
(***************************************************************************)
(* Proofs about ReflectionBridge: type correctness, and that the store and *)
(* the orchestrator, which are written by different processes, agree on    *)
(* completed workflows and on the work a Checker finds.  The argument: the *)
(* orchestrator's files only grow (Grows), so what it answered stays true  *)
(* while the handler waits; and no step of the bridge invents an entry.    *)
(* Then: at most one subagent of a workflow works at a time; the file keeps *)
(* up with the only map; and an active workflow stays in the map.          *)
(***************************************************************************)
EXTENDS ReflectionProperties, SequenceTheorems, TLAPS

OrchestratorType ==
    /\ wfFile \in [Workflows -> WorkflowFile \cup {Nil}]
    /\ handedOut \in [Workflows -> Nat \cup {Nil}]
    /\ records \in Seq(Record)
    /\ drafts \subseteq Nat

FilesKnown == \A w \in Workflows : wfFile[w] # Nil => handedOut[w] # Nil

OrchestratorInv == OrchestratorType /\ FilesKnown

(* What a step may do to the orchestrator's files: forget a workflow for   *)
(* good, finish it, add a draft or a record; a workflow that is not yet    *)
(* handed out is not restricted.                                           *)
WorkflowGrows(w) ==
    handedOut[w] # Nil =>
        /\ handedOut'[w] # Nil
        /\ wfFile'[w] # Nil =>
            /\ wfFile[w] # Nil
            /\ wfFile'[w].sequence = wfFile[w].sequence
            /\ wfFile[w].phase = "done" => wfFile'[w].phase = "done"

RecordsGrow ==
    \A n \in DOMAIN records : n \in DOMAIN records' /\ records'[n].workflow = records[n].workflow

Grows ==
    /\ \A w \in Workflows : WorkflowGrows(w)
    /\ RecordsGrow
    /\ drafts \subseteq drafts'

-----------------------------------------------------------------------------
(* The orchestrator's files *)

LEMMA RecordCreated ==
    ASSUME OrchestratorType, NEW w \in Workflows, CreateRecord(w)
    PROVE  /\ records' \in Seq(Record)
           /\ RecordsGrow
           /\ \E n \in DOMAIN records' : records'[n].workflow = w
<1>1. [workflow |-> w, status |-> "processing"] \in Record
  BY DEF Record
<1>2. /\ records \in Seq(Record)
      /\ records' = Append(records, [workflow |-> w, status |-> "processing"])
  BY DEF OrchestratorType, CreateRecord
<1>3. records' \in Seq(Record)
  BY <1>1, <1>2
<1>4. /\ DOMAIN records' = 1..(Len(records) + 1)
      /\ \A n \in 1..Len(records) : records'[n] = records[n]
      /\ records'[Len(records) + 1] = [workflow |-> w, status |-> "processing"]
  BY <1>1, <1>2
<1>5. DOMAIN records = 1..Len(records) /\ Len(records) \in Nat
  BY <1>2
<1>6. RecordsGrow
  BY <1>4, <1>5 DEF RecordsGrow
<1>7. Len(records) + 1 \in DOMAIN records' /\ records'[Len(records) + 1].workflow = w
  BY <1>4, <1>5
<1> QED
  BY <1>3, <1>6, <1>7

LEMMA RecordCompleted ==
    ASSUME OrchestratorType, NEW n, CompleteRecord(n)
    PROVE  records' \in Seq(Record) /\ RecordsGrow
<1>1. CASE n \notin DOMAIN records
  BY <1>1 DEF OrchestratorType, CompleteRecord, RecordsGrow
<1>2. CASE n \in DOMAIN records
  <2>1. records \in Seq(Record) /\ records' = [records EXCEPT ![n].status = "complete"]
    BY <1>2 DEF OrchestratorType, CompleteRecord
  <2>2. n \in 1..Len(records)
    BY <1>2, <2>1
  <2> DEFINE entry == [records[n] EXCEPT !.status = "complete"]
  <2>3. records[n] \in Record
    BY <2>1, <2>2, ElementOfSeq
  <2>4. /\ entry \in Record
        /\ entry.workflow = records[n].workflow
        /\ records' = [records EXCEPT ![n] = entry]
    BY <2>1, <2>3 DEF Record
  <2> HIDE DEF entry
  <2>5. records' \in Seq(Record)
    BY <2>1, <2>2, <2>4, ExceptSeq
  <2>6. DOMAIN records' = DOMAIN records
    BY <2>1
  <2>7. RecordsGrow
    BY <2>1, <2>2, <2>4, <2>6 DEF RecordsGrow
  <2> QED
    BY <2>5, <2>7
<1> QED
  BY <1>1, <1>2

(* A step that leaves the list of records alone *)
LEMMA RecordsUnchanged ==
    records' = records => RecordsGrow
  BY DEF RecordsGrow

LEMMA StartGrows ==
    ASSUME OrchestratorInv, NEW w \in Workflows, NEW old \in SUBSET Workflows,
           StartReflect(w, old)
    PROVE  OrchestratorInv' /\ Grows
<1> USE DEF OrchestratorInv, OrchestratorType, StartReflect
<1>1. Len(records) + 1 \in Nat
  BY LenProperties
<1>2. handedOut' \in [Workflows -> Nat \cup {Nil}] /\ handedOut'[w] \in Nat
  BY <1>1
<1>3. wfFile' \in [Workflows -> WorkflowFile \cup {Nil}]
  BY <1>2 DEF WorkflowFile
<1>4. FilesKnown'
  BY <1>2, StoreConstants DEF FilesKnown
<1>5. \A v \in Workflows : WorkflowGrows(v)
  BY <1>2, StoreConstants DEF WorkflowGrows
<1> QED
  BY <1>2, <1>3, <1>4, <1>5, RecordsUnchanged DEF Grows

LEMMA DraftGrows ==
    ASSUME OrchestratorInv, NEW w \in Workflows, PersistDraft(w)
    PROVE  OrchestratorInv' /\ Grows
<1>1. handedOut[w] \in Nat
  BY DEF OrchestratorInv, OrchestratorType, PersistDraft
<1>2. OrchestratorInv'
  BY <1>1 DEF OrchestratorInv, OrchestratorType, PersistDraft, FilesKnown
<1>3. Grows
  BY RecordsUnchanged DEF PersistDraft, Grows, WorkflowGrows
<1> QED
  BY <1>2, <1>3

LEMMA UndoGrows ==
    ASSUME OrchestratorInv, NEW w \in Workflows, OnUndo(w)
    PROVE  OrchestratorInv' /\ Grows
<1> USE DEF OrchestratorInv, OrchestratorType, OnUndo
<1>1. wfFile[w] \in WorkflowFile
  OBVIOUS
<1>2. /\ wfFile' \in [Workflows -> WorkflowFile \cup {Nil}]
      /\ wfFile'[w].sequence = wfFile[w].sequence
      /\ wfFile'[w].phase = wfFile[w].phase
      /\ \A v \in Workflows \ {w} : wfFile'[v] = wfFile[v]
  BY <1>1 DEF WorkflowFile
<1>3. OrchestratorInv'
  BY <1>2 DEF FilesKnown
<1>4. Grows
  BY <1>2, RecordsUnchanged DEF Grows, WorkflowGrows
<1> QED
  BY <1>3, <1>4

(* The phase of a workflow that still listens changes; its sequence does not. *)
LEMMA PhaseEntered ==
    ASSUME OrchestratorInv, NEW w \in Workflows, NEW phase \in {"checking", "done"},
           Listens(w, "reflecting") \/ Listens(w, "checking"), EnterPhase(w, phase),
           handedOut' = handedOut
    PROVE  /\ wfFile' \in [Workflows -> WorkflowFile \cup {Nil}]
           /\ wfFile'[w] # Nil
           /\ wfFile'[w].phase = phase
           /\ wfFile'[w].sequence = wfFile[w].sequence
           /\ FilesKnown'
           /\ \A v \in Workflows : WorkflowGrows(v)
<1> USE DEF OrchestratorInv, OrchestratorType, EnterPhase
<1>1. wfFile[w] \in WorkflowFile /\ wfFile[w].phase # "done"
  BY DEF Listens
<1>2. /\ wfFile' \in [Workflows -> WorkflowFile \cup {Nil}]
      /\ wfFile'[w] \in WorkflowFile
      /\ wfFile'[w].sequence = wfFile[w].sequence
      /\ wfFile'[w].phase = phase
      /\ \A v \in Workflows \ {w} : wfFile'[v] = wfFile[v]
  BY <1>1 DEF WorkflowFile
<1>3. wfFile'[w] # Nil
  BY <1>2, OrchestratorConstants
<1>4. FilesKnown'
  BY <1>1, <1>2, OrchestratorConstants DEF FilesKnown
<1>5. \A v \in Workflows : WorkflowGrows(v)
  BY <1>1, <1>2, OrchestratorConstants DEF WorkflowGrows
<1> QED
  BY <1>2, <1>3, <1>4, <1>5

LEMMA EventGrows ==
    ASSUME OrchestratorInv, NEW w \in Workflows, NEW reply, SubagentDone(w, reply)
    PROVE  /\ OrchestratorInv' /\ Grows
           /\ reply = "done" => Reflected(w)'
           /\ reply = "fire_sub" => Checkable(w)'
<1>1. CASE \/ UnknownWorkflow(w) /\ reply = "unknown"
           \/ IgnoredEvent(w) /\ reply = "notify"
  <2>1. UNCHANGED orchestrator
    BY <1>1 DEF UnknownWorkflow, IgnoredEvent
  <2>2. OrchestratorInv' /\ Grows
    BY <2>1, RecordsUnchanged DEF orchestrator, OrchestratorInv, OrchestratorType, FilesKnown,
                                  Grows, WorkflowGrows
  <2> QED
    BY <1>1, <2>2
<1>2. CASE ReflectorDrafted(w) /\ reply = "fire_sub"
  <2>1. wfFile'[w].sequence \in drafts'
    BY <1>2, PhaseEntered DEF ReflectorDrafted
  <2> QED
    BY <1>2, <2>1, PhaseEntered, RecordCreated
       DEF ReflectorDrafted, OrchestratorInv, OrchestratorType, Grows, Checkable
<1>3. CASE ReflectorEmpty(w) /\ reply = "notify"
  BY <1>3, PhaseEntered, RecordCreated
     DEF ReflectorEmpty, OrchestratorInv, OrchestratorType, Grows
<1>4. CASE CheckerDone(w) /\ reply = "done"
  BY <1>4, PhaseEntered, RecordCompleted
     DEF CheckerDone, OrchestratorInv, OrchestratorType, Grows, Reflected
<1> QED
  BY <1>1, <1>2, <1>3, <1>4 DEF SubagentDone

LEMMA KilledGrows ==
    ASSUME OrchestratorInv, NEW w \in Workflows, KilledHalfway(w)
    PROVE  OrchestratorInv' /\ Grows
<1>1. records' \in Seq(Record) /\ RecordsGrow
  BY RecordCreated, RecordCompleted DEF KilledHalfway, OrchestratorInv
<1> QED
  BY <1>1 DEF KilledHalfway, OrchestratorInv, OrchestratorType, FilesKnown, Grows, WorkflowGrows

LEMMA NothingGrows ==
    ASSUME OrchestratorInv, UNCHANGED orchestrator
    PROVE  OrchestratorInv' /\ Grows
  BY RecordsUnchanged DEF orchestrator, OrchestratorInv, OrchestratorType, FilesKnown,
                          Grows, WorkflowGrows

-----------------------------------------------------------------------------
(* What was true of a workflow stays true. *)

LEMMA ReflectedKept ==
    ASSUME Grows, NEW w \in Workflows, handedOut[w] # Nil, Reflected(w)
    PROVE  Reflected(w)'
  BY DEF Grows, WorkflowGrows, Reflected

LEMMA CheckableKept ==
    ASSUME Grows, NEW w \in Workflows, handedOut[w] # Nil, Checkable(w)
    PROVE  Checkable(w)'
<1>1. wfFile'[w] # Nil => wfFile'[w].sequence \in drafts'
  BY DEF Grows, WorkflowGrows, Checkable
<1>2. PICK n \in DOMAIN records : records[n].workflow = w
  BY DEF Checkable
<1>3. n \in DOMAIN records' /\ records'[n].workflow = w
  BY <1>2 DEF Grows, RecordsGrow
<1> QED
  BY <1>1, <1>3 DEF Checkable

-----------------------------------------------------------------------------
(* The stores *)

StoresOf(mem, disk) ==
    /\ mem \in [Instances -> Store]
    /\ disk \in Store
    /\ \A i \in Instances : StoreSound(mem[i])
    /\ StoreSound(disk)

StoresInv == StoresOf(memory, file)

LEMMA EmptySound == EmptyStore \in Store /\ StoreSound(EmptyStore)
  BY DEF EmptyStore, Store, StoreSound, EntrySound

LEMMA PutSound ==
    ASSUME NEW store \in Store, StoreSound(store), NEW w \in Workflows,
           NEW entry \in Entry, EntrySound(w, entry)
    PROVE  [store EXCEPT ![w] = entry] \in Store /\ StoreSound([store EXCEPT ![w] = entry])
  BY DEF Store, StoreSound

LEMMA DropSound ==
    ASSUME NEW store \in Store, StoreSound(store), NEW w \in Workflows
    PROVE  [store EXCEPT ![w] = Nil] \in Store /\ StoreSound([store EXCEPT ![w] = Nil])
  BY DEF Store, StoreSound, EntrySound

LEMMA MergedSound ==
    ASSUME NEW store \in Store, StoreSound(store), NEW disk \in Store, StoreSound(disk), NEW i
    PROVE  Merged(store, disk, i) \in Store /\ StoreSound(Merged(store, disk, i))
  BY DEF Store, StoreSound, Merged

LEMMA MarkedSound ==
    ASSUME NEW store \in Store, StoreSound(store), NEW w \in Workflows, store[w] # Nil,
           NEW status \in Active \cup Terminal, status = "completed" => Reflected(w)
    PROVE  Marked(store, w, status) \in Store /\ StoreSound(Marked(store, w, status))
<1> DEFINE entry == [store[w] EXCEPT !.status = status]
<1>1. store[w] \in Entry
  BY DEF Store
<1>2. entry \in Entry /\ entry.status = status /\ entry.instance = store[w].instance
  BY <1>1 DEF Entry
<1>3. EntrySound(w, entry)
  BY <1>2 DEF StoreSound, EntrySound
<1> HIDE DEF entry
<1>4. [store EXCEPT ![w] = entry] \in Store /\ StoreSound([store EXCEPT ![w] = entry])
  BY <1>2, <1>3, PutSound
<1> QED
  BY <1>4 DEF Marked, entry

LEMMA SaveSound ==
    ASSUME StoresInv, NEW i \in Instances, NEW store \in Store, StoreSound(store),
           SaveAll(i, store)
    PROVE  StoresOf(memory', file')
<1>1. Merged(store, file, i) \in Store /\ StoreSound(Merged(store, file, i))
  BY MergedSound DEF StoresInv, StoresOf
<1> QED
  BY <1>1 DEF StoresInv, StoresOf, SaveAll

LEMMA MarkSound ==
    ASSUME StoresInv, NEW i \in Instances, NEW w \in Workflows,
           NEW status \in Active \cup Terminal, status = "completed" => Reflected(w),
           Mark(i, w, status)
    PROVE  StoresOf(memory', file')
<1>1. CASE memory[i][w] = Nil
  BY <1>1 DEF Mark, StoresInv
<1>2. CASE memory[i][w] # Nil
  <2>1. memory[i] \in Store /\ StoreSound(memory[i])
    BY DEF StoresInv, StoresOf
  <2>2. /\ Marked(memory[i], w, status) \in Store
        /\ StoreSound(Marked(memory[i], w, status))
    BY <1>2, <2>1, MarkedSound
  <2> QED
    BY <1>2, <2>2, SaveSound DEF Mark
<1> QED
  BY <1>1, <1>2

LEMMA RemoveSound ==
    ASSUME StoresInv, NEW i \in Instances, NEW w \in Workflows, Remove(i, w)
    PROVE  StoresOf(memory', file')
<1>1. CASE memory[i][w] = Nil
  BY <1>1 DEF Remove, StoresInv
<1>2. CASE memory[i][w] # Nil
  <2>1. memory[i] \in Store /\ StoreSound(memory[i])
    BY DEF StoresInv, StoresOf
  <2> QED
    BY <1>2, <2>1, DropSound, SaveSound DEF Remove
<1> QED
  BY <1>1, <1>2

LEMMA RoomSound ==
    ASSUME NEW store \in Store, StoreSound(store), NEW w \in Workflows,
           NEW room \in WithRoom(store, w)
    PROVE  room \in Store /\ StoreSound(room)
  BY DropSound DEF WithRoom, Evictions

(* A launch registers a running entry and creates one session. *)
LEMMA LaunchSound ==
    ASSUME StoresInv, sessions \in [Sessions -> Session \cup {Nil}],
           NEW i \in Instances, i \in up, NEW w \in Workflows, handedOut[w] # Nil,
           NEW agent \in Agents, Launch(i, w, agent)
    PROVE  /\ StoresOf(memory', file')
           /\ \E s \in Sessions : sessions' = [sessions EXCEPT ![s] =
                [workflow |-> w, agent |-> agent, instance |-> i, state |-> "created"]]
<1>1. memory[i] \in Store /\ StoreSound(memory[i]) /\ file \in Store /\ StoreSound(file)
  BY DEF StoresInv, StoresOf
<1>2. PICK s \in Sessions, room \in WithRoom(memory[i], w) :
        /\ sessions' = [sessions EXCEPT ![s] =
                [workflow |-> w, agent |-> agent, instance |-> i, state |-> "created"]]
        /\ LET onDisk == IF room = memory[i] THEN file ELSE room
               saved  == Merged([room EXCEPT ![w] = [status |-> "running", agent |-> agent,
                                                     session |-> s, instance |-> i]],
                                onDisk, i)
           IN  memory' = [memory EXCEPT ![i] = saved] /\ file' = saved
  BY DEF Launch
<1> DEFINE entry  == [status |-> "running", agent |-> agent, session |-> s, instance |-> i]
           onDisk == IF room = memory[i] THEN file ELSE room
           saved  == Merged([room EXCEPT ![w] = entry], onDisk, i)
<1>3. entry \in Entry /\ EntrySound(w, entry)
  BY DEF Entry, Active, EntrySound
<1>4. room \in Store /\ StoreSound(room)
  BY <1>1, RoomSound
<1>5. onDisk \in Store /\ StoreSound(onDisk)
  BY <1>1, <1>4
<1>6. memory' = [memory EXCEPT ![i] = saved] /\ file' = saved
  BY <1>2
<1> HIDE DEF entry, onDisk
<1>7. saved \in Store /\ StoreSound(saved)
  BY <1>3, <1>4, <1>5, PutSound, MergedSound
<1> HIDE DEF saved
<1> QED
  BY <1>2, <1>6, <1>7 DEF StoresInv, StoresOf

-----------------------------------------------------------------------------
(* The inductive invariant, by the part of the state it is about *)

SessionsOf(new) ==
    /\ new \in [Sessions -> Session \cup {Nil}]
    /\ \A s \in Sessions : SessionSound(new[s])

HandlersOf(new) ==
    /\ new \in [Handlers -> Handler \cup {Nil}]
    /\ \A h \in Handlers : HandlerSound(new[h])

SessionsInv == SessionsOf(sessions)

HandlersInv == HandlersOf(handlers)

ProcessesInv ==
    /\ up \subseteq Instances
    /\ ended \subseteq Instances \ up
    /\ aborting \subseteq up \X Workflows

Inv == OrchestratorInv /\ StoresInv /\ SessionsInv /\ HandlersInv /\ ProcessesInv

LEMMA InvIsBridgeInv == Inv <=> BridgeInv
  BY DEF Inv, OrchestratorInv, OrchestratorType, FilesKnown, StoresInv, StoresOf, SessionsInv,
         SessionsOf, HandlersInv, HandlersOf, ProcessesInv, BridgeInv, BridgeTypeOK

LEMMA StoresKept ==
    ASSUME Grows, StoresOf(memory', file'), up \cup ended \subseteq up' \cup ended'
    PROVE  StoresInv'
<1>1. ASSUME NEW w \in Workflows, NEW entry, EntrySound(w, entry)
      PROVE  entry # Nil =>
                /\ handedOut'[w] # Nil
                /\ entry.instance \in up' \cup ended'
                /\ entry.status = "completed" => Reflected(w)'
  BY <1>1, ReflectedKept DEF EntrySound, Grows, WorkflowGrows
<1> QED
  BY <1>1 DEF StoresInv, StoresOf, StoreSound, EntrySound

LEMMA SessionsKept ==
    ASSUME Grows, SessionsOf(sessions')
    PROVE  SessionsInv'
<1>1. ASSUME NEW session \in Session, SessionSound(session)
      PROVE  /\ handedOut'[session.workflow] # Nil
             /\ session.agent = "C" => Checkable(session.workflow)'
  <2>1. session # Nil /\ session.workflow \in Workflows
    BY BridgeConstants DEF Session
  <2> QED
    BY <1>1, <2>1, CheckableKept DEF SessionSound, Grows, WorkflowGrows
<1> QED
  BY <1>1 DEF SessionsInv, SessionsOf, SessionSound

LEMMA HandlersKept ==
    ASSUME Grows, HandlersOf(handlers'),
           \A h \in Handlers : handlers'[h] # Nil => handlers'[h].instance \in up'
    PROVE  HandlersInv'
<1>1. ASSUME NEW handler \in Handler, HandlerSound(handler)
      PROVE  LET w == handler.workflow
             IN  /\ handedOut'[w] # Nil
                 /\ handler.step = "reply" /\ handler.reply = "done" => Reflected(w)'
                 /\ handler.step = "reply" /\ handler.reply = "fire_sub" => Checkable(w)'
                 /\ handler.step = "launch" => Checkable(w)'
  <2>1. handler # Nil /\ handler.workflow \in Workflows
    BY BridgeConstants DEF Handler
  <2> QED
    BY <1>1, <2>1, CheckableKept, ReflectedKept DEF HandlerSound, Grows, WorkflowGrows
<1> QED
  BY <1>1 DEF HandlersInv, HandlersOf, HandlerSound

(* The steps of a process that goes on running *)
LEMMA StepKept ==
    ASSUME Inv, OrchestratorInv', Grows, StoresOf(memory', file'), SessionsOf(sessions'),
           HandlersInv', ProcessesInv', up \cup ended \subseteq up' \cup ended'
    PROVE  Inv'
  BY StoresKept, SessionsKept DEF Inv

LEMMA RunningStepKept ==
    ASSUME Inv, OrchestratorInv', Grows, StoresOf(memory', file'), SessionsOf(sessions'),
           HandlersOf(handlers'), aborting' \subseteq up \X Workflows, UNCHANGED <<up, ended>>
    PROVE  Inv'
<1>1. \A h \in Handlers : handlers'[h] # Nil => handlers'[h].instance \in up'
  BY DEF HandlersOf, HandlerSound
<1> QED
  BY <1>1, StepKept, HandlersKept DEF Inv, ProcessesInv

-----------------------------------------------------------------------------
(* Sessions and handlers *)

LEMMA StateSet ==
    ASSUME SessionsInv, NEW s \in Sessions, sessions[s] # Nil,
           NEW state \in {"created", "prompted", "idle", "failed"}, SetState(s, state)
    PROVE  SessionsOf(sessions')
<1> DEFINE session == [sessions[s] EXCEPT !.state = state]
<1>1. sessions[s] \in Session /\ SessionSound(sessions[s])
  BY DEF SessionsInv, SessionsOf
<1>2. /\ session \in Session
      /\ session.workflow = sessions[s].workflow /\ session.agent = sessions[s].agent
  BY <1>1 DEF Session
<1>3. SessionSound(session)
  BY <1>1, <1>2 DEF SessionSound
<1>4. sessions' = [sessions EXCEPT ![s] = session]
  BY DEF SetState
<1> HIDE DEF session
<1> QED
  BY <1>2, <1>3, <1>4 DEF SessionsInv, SessionsOf

LEMMA SessionAdded ==
    ASSUME SessionsInv, NEW s \in Sessions, NEW i \in Instances, NEW w \in Workflows,
           handedOut[w] # Nil, NEW agent \in Agents, agent = "C" => Checkable(w),
           sessions' = [sessions EXCEPT ![s] =
               [workflow |-> w, agent |-> agent, instance |-> i, state |-> "created"]]
    PROVE  SessionsOf(sessions')
  BY DEF SessionsInv, SessionsOf, SessionSound, Session

LEMMA HandlerFinished ==
    ASSUME HandlersInv, NEW h \in Handlers, Finish(h)
    PROVE  HandlersOf(handlers')
  BY DEF HandlersInv, HandlersOf, Finish, HandlerSound

LEMMA HandlerMoved ==
    ASSUME HandlersInv, NEW h \in Handlers, handlers[h] # Nil,
           NEW step \in {"messages", "mcp", "reply", "launch"},
           NEW reply \in {Nil, "error", "unknown", "notify", "fire_sub", "done"},
           Goto(h, step, reply)
    PROVE  /\ handlers[h].workflow \in Workflows /\ handedOut[handlers[h].workflow] # Nil
           /\ handlers[h].instance \in Instances /\ handlers[h].instance \in up
           /\ handlers' \in [Handlers -> Handler \cup {Nil}]
           /\ handlers'[h] # Nil
           /\ handlers'[h].workflow = handlers[h].workflow
           /\ handlers'[h].instance = handlers[h].instance
           /\ handlers'[h].step = step /\ handlers'[h].reply = reply
           /\ \A g \in Handlers \ {h} : handlers'[g] = handlers[g]
<1> DEFINE handler == [handlers[h] EXCEPT !.step = step, !.reply = reply]
<1>1. handlers[h] \in Handler /\ HandlerSound(handlers[h])
  BY DEF HandlersInv, HandlersOf
<1>2. /\ handler \in Handler
      /\ handler.workflow = handlers[h].workflow /\ handler.instance = handlers[h].instance
      /\ handler.step = step /\ handler.reply = reply
  BY <1>1 DEF Handler
<1>3. handlers' = [handlers EXCEPT ![h] = handler]
  BY DEF Goto
<1> HIDE DEF handler
<1>4. handlers' \in [Handlers -> Handler \cup {Nil}] /\ handlers'[h] = handler
  BY <1>2, <1>3 DEF HandlersInv, HandlersOf
<1>5. \A g \in Handlers \ {h} : handlers'[g] = handlers[g]
  BY <1>3 DEF HandlersInv, HandlersOf
<1>6. handler # Nil
  BY <1>2, BridgeConstants
<1>7. /\ handlers[h].workflow \in Workflows /\ handedOut[handlers[h].workflow] # Nil
      /\ handlers[h].instance \in Instances /\ handlers[h].instance \in up
  BY <1>1 DEF Handler, HandlerSound
<1> QED
  BY <1>2, <1>4, <1>5, <1>6, <1>7

-----------------------------------------------------------------------------
(* Tools *)

LEMMA Unmoved ==
    Inv => /\ StoresOf(memory, file) /\ SessionsOf(sessions) /\ HandlersOf(handlers)
           /\ aborting \subseteq up \X Workflows
           /\ OrchestratorInv
  BY DEF Inv, StoresInv, SessionsInv, HandlersInv, ProcessesInv

LEMMA WorkflowSteps ==
    ASSUME Inv, NEW w \in Workflows
    PROVE  Start(w) \/ Undo(w) => Inv'
<1>1. ASSUME Start(w) PROVE Inv'
  <2>1. PICK old \in SUBSET Workflows : StartReflect(w, old)
    BY <1>1 DEF Start
  <2>2. OrchestratorInv' /\ Grows
    BY <2>1, StartGrows DEF Inv
  <2> QED
    BY <1>1, <2>2, Unmoved, RunningStepKept DEF Start
<1>2. ASSUME Undo(w) PROVE Inv'
  <2>1. OrchestratorInv' /\ Grows
    BY <1>2, UndoGrows DEF Inv, Undo
  <2> QED
    BY <1>2, <2>1, Unmoved, RunningStepKept DEF Undo
<1> QED
  BY <1>1, <1>2

LEMMA ToolSteps ==
    ASSUME Inv, NEW i \in Instances, NEW w \in Workflows
    PROVE  FireReflector(i, w) \/ Abort(i, w) \/ Cancel(i, w) => Inv'
<1>1. ASSUME FireReflector(i, w) PROVE Inv'
  <2>1. OrchestratorInv' /\ Grows
    BY <1>1, NothingGrows DEF Inv, FireReflector
  <2>2. i \in up /\ handedOut[w] # Nil /\ Launch(i, w, "R") /\ "R" \in Agents
    BY <1>1 DEF FireReflector, Agents
  <2>3. /\ StoresOf(memory', file')
        /\ \E s \in Sessions : sessions' = [sessions EXCEPT ![s] =
                [workflow |-> w, agent |-> "R", instance |-> i, state |-> "created"]]
    BY <2>2, LaunchSound DEF Inv, SessionsInv, SessionsOf
  <2>4. SessionsOf(sessions')
    BY <2>2, <2>3, SessionAdded DEF Inv
  <2> QED
    BY <1>1, <2>1, <2>3, <2>4, Unmoved, RunningStepKept DEF FireReflector
<1>2. ASSUME Abort(i, w) PROVE Inv'
  <2>1. OrchestratorInv' /\ Grows
    BY <1>2, NothingGrows DEF Inv, Abort
  <2>2. aborting' \subseteq up \X Workflows
    BY <1>2, Unmoved DEF Abort
  <2> QED
    BY <1>2, <2>1, <2>2, Unmoved, RunningStepKept DEF Abort
<1>3. ASSUME Cancel(i, w) PROVE Inv'
  <2>1. OrchestratorInv' /\ Grows
    BY <1>3, NothingGrows DEF Inv, Cancel
  <2>2. StoresOf(memory', file')
    BY <1>3, MarkSound DEF Inv, Cancel, Active, Terminal
  <2> QED
    BY <1>3, <2>1, <2>2, Unmoved, RunningStepKept DEF Cancel
<1> QED
  BY <1>1, <1>2, <1>3

(* Sessions and their idle events *)
LEMMA SessionSteps ==
    ASSUME Inv, NEW s \in Sessions
    PROVE  PromptSession(s) \/ PromptFails(s) \/ DraftReport(s) \/ Idle(s) => Inv'
<1>1. ASSUME Lives(s)
      PROVE  /\ sessions[s] # Nil
             /\ sessions[s].workflow \in Workflows /\ sessions[s].instance \in Instances
             /\ sessions[s].instance \in up /\ handedOut[sessions[s].workflow] # Nil
  BY <1>1 DEF Lives, Inv, SessionsInv, SessionsOf, Session, SessionSound
<1>2. ASSUME PromptSession(s) PROVE Inv'
  <2>1. OrchestratorInv' /\ Grows
    BY <1>2, NothingGrows DEF Inv, PromptSession
  <2>2. SessionsOf(sessions')
    BY <1>1, <1>2, StateSet DEF Inv, PromptSession
  <2> QED
    BY <1>2, <2>1, <2>2, Unmoved, RunningStepKept DEF PromptSession
<1>3. ASSUME PromptFails(s) PROVE Inv'
  <2>1. OrchestratorInv' /\ Grows
    BY <1>3, NothingGrows DEF Inv, PromptFails
  <2>2. SessionsOf(sessions')
    BY <1>1, <1>3, StateSet DEF Inv, PromptFails
  <2>3. StoresOf(memory', file')
    BY <1>1, <1>3, MarkSound, Unmoved DEF Inv, PromptFails, Active, Terminal
  <2> QED
    BY <1>3, <2>1, <2>2, <2>3, Unmoved, RunningStepKept DEF PromptFails
<1>4. ASSUME DraftReport(s) PROVE Inv'
  <2>1. OrchestratorInv' /\ Grows
    BY <1>1, <1>4, DraftGrows DEF Inv, DraftReport
  <2> QED
    BY <1>4, <2>1, Unmoved, RunningStepKept DEF DraftReport
<1>5. ASSUME Idle(s) PROVE Inv'
  <2>1. OrchestratorInv' /\ Grows
    BY <1>5, NothingGrows DEF Inv, Idle
  <2>2. SessionsOf(sessions')
    BY <1>1, <1>5, StateSet DEF Inv, Idle
  <2>3. HandlersOf(handlers')
    <3>1. CASE UNCHANGED handlers
      BY <3>1, Unmoved
    <3>2. CASE handlers' # handlers
      <4> DEFINE new == [workflow |-> sessions[s].workflow, session |-> s,
                         instance |-> sessions[s].instance, step |-> "messages", reply |-> Nil]
      <4>1. PICK h \in Handlers : handlers' = [handlers EXCEPT ![h] = new]
        BY <1>5, <3>2 DEF Idle
      <4>2. new \in Handler /\ HandlerSound(new)
        BY <1>1, <1>5 DEF Idle, Handler, HandlerSound
      <4> HIDE DEF new
      <4> QED
        BY <4>1, <4>2 DEF Inv, HandlersInv, HandlersOf
    <3> QED
      BY <3>1, <3>2
  <2> QED
    BY <1>5, <2>1, <2>2, <2>3, Unmoved, RunningStepKept DEF Idle
<1> QED
  BY <1>2, <1>3, <1>4, <1>5

-----------------------------------------------------------------------------
(* The idle handler *)

(* A handler that only marks its workflow, and perhaps finishes *)
LEMMA HandlerAt ==
    ASSUME Inv, NEW h \in Handlers, handlers[h] # Nil
    PROVE  /\ handlers[h].workflow \in Workflows /\ handedOut[handlers[h].workflow] # Nil
           /\ handlers[h].instance \in Instances /\ handlers[h].instance \in up
           /\ handlers[h].step = "reply" /\ handlers[h].reply = "done"
                => Reflected(handlers[h].workflow)
           /\ handlers[h].step = "reply" /\ handlers[h].reply = "fire_sub"
                => Checkable(handlers[h].workflow)
           /\ handlers[h].step = "launch" => Checkable(handlers[h].workflow)
  BY DEF Inv, HandlersInv, HandlersOf, HandlerSound, Handler

LEMMA FinishingSteps ==
    ASSUME Inv, NEW h \in Handlers
    PROVE  \/ MessagesFail(h) \/ ChainBreaks(h) \/ ChainCompletes(h)
           \/ WorkflowForgotten(h) \/ LaunchFails(h)
           => Inv'
<1> DEFINE i == handlers[h].instance
           w == handlers[h].workflow
<1>1. ASSUME \/ MessagesFail(h) \/ ChainBreaks(h) \/ ChainCompletes(h)
             \/ WorkflowForgotten(h) \/ LaunchFails(h)
      PROVE  Inv'
  <2>1. /\ handlers[h] # Nil /\ Finish(h)
        /\ UNCHANGED <<orchestrator, up, ended, sessions, aborting>>
    BY <1>1 DEF MessagesFail, ChainBreaks, ChainCompletes, WorkflowForgotten, LaunchFails, At
  <2>2. OrchestratorInv' /\ Grows /\ HandlersOf(handlers')
    BY <2>1, NothingGrows, HandlerFinished DEF Inv
  <2>3. i \in Instances /\ w \in Workflows
    BY <2>1, HandlerAt
  <2>4. \/ UNCHANGED <<memory, file>>
        \/ \E status \in {"chain_broken", "error"} : Mark(i, w, status)
        \/ Mark(i, w, "completed") /\ Reflected(w)
        \/ Remove(i, w)
    BY <1>1, <2>1, HandlerAt
       DEF MessagesFail, ChainBreaks, ChainCompletes, WorkflowForgotten, LaunchFails, At
  <2>5. StoresOf(memory', file')
    <3> HIDE DEF i, w
    <3>1. CASE UNCHANGED <<memory, file>>
      BY <3>1, Unmoved
    <3>2. CASE \E status \in {"chain_broken", "error"} : Mark(i, w, status)
      BY <2>3, <3>2, MarkSound DEF Inv, Active, Terminal
    <3>3. CASE Mark(i, w, "completed") /\ Reflected(w)
      BY <2>3, <3>3, MarkSound DEF Inv, Active, Terminal
    <3>4. CASE Remove(i, w)
      BY <2>3, <3>4, RemoveSound DEF Inv
    <3> QED
      BY <2>4, <3>1, <3>2, <3>3, <3>4
  <2> QED
    BY <2>1, <2>2, <2>5, Unmoved, RunningStepKept
<1> QED
  BY <1>1

LEMMA MovingSteps ==
    ASSUME Inv, NEW h \in Handlers
    PROVE  ReadMessages(h) \/ ChainGoesOn(h) \/ LaunchChecker(h) => Inv'
<1>1. ASSUME ReadMessages(h) PROVE Inv'
  <2>1. OrchestratorInv' /\ Grows
    BY <1>1, NothingGrows DEF Inv, ReadMessages
  <2>2. HandlersOf(handlers')
    BY <1>1, HandlerMoved DEF Inv, HandlersInv, HandlersOf, HandlerSound, ReadMessages, At
  <2>3. StoresOf(memory', file')
    BY <1>1, HandlerAt, MarkSound DEF Inv, ReadMessages, At, Active, Terminal
  <2> QED
    BY <1>1, <2>1, <2>2, <2>3, Unmoved, RunningStepKept DEF ReadMessages
<1>2. ASSUME ChainGoesOn(h) PROVE Inv'
  <2>1. OrchestratorInv' /\ Grows
    BY <1>2, NothingGrows DEF Inv, ChainGoesOn
  <2>2. Checkable(handlers[h].workflow)
    BY <1>2, HandlerAt DEF ChainGoesOn, At
  <2>3. HandlersOf(handlers')
    BY <1>2, <2>2, HandlerMoved DEF Inv, HandlersInv, HandlersOf, HandlerSound, ChainGoesOn, At
  <2> QED
    BY <1>2, <2>1, <2>3, Unmoved, RunningStepKept DEF ChainGoesOn
<1>3. ASSUME LaunchChecker(h) PROVE Inv'
  <2> DEFINE i == handlers[h].instance
             w == handlers[h].workflow
  <2>1. OrchestratorInv' /\ Grows /\ HandlersOf(handlers')
    BY <1>3, NothingGrows, HandlerFinished DEF Inv, LaunchChecker
  <2>2. /\ i \in Instances /\ i \in up /\ w \in Workflows /\ handedOut[w] # Nil
        /\ Checkable(w) /\ Launch(i, w, "C") /\ "C" \in Agents
    BY <1>3, HandlerAt DEF LaunchChecker, At, Agents
  <2> HIDE DEF i, w
  <2>3. /\ StoresOf(memory', file')
        /\ \E s \in Sessions : sessions' = [sessions EXCEPT ![s] =
                [workflow |-> w, agent |-> "C", instance |-> i, state |-> "created"]]
    BY <2>2, LaunchSound DEF Inv, SessionsInv, SessionsOf
  <2>4. SessionsOf(sessions')
    BY <2>2, <2>3, SessionAdded DEF Inv
  <2> QED
    BY <1>3, <2>1, <2>3, <2>4, Unmoved, RunningStepKept DEF LaunchChecker
<1> QED
  BY <1>1, <1>2, <1>3

(* The answer of the orchestrator is true when it is given. *)
LEMMA OrchestratorSteps ==
    ASSUME Inv, NEW h \in Handlers
    PROVE  CallOrchestrator(h) \/ OrchestratorFails(h) => Inv'
<1>1. ASSUME CallOrchestrator(h) \/ OrchestratorFails(h) PROVE Inv'
  <2>1. handlers[h] # Nil
    BY <1>1 DEF CallOrchestrator, OrchestratorFails, At
  <2>2. PICK w \in Workflows : w = handlers[h].workflow
    BY <2>1, HandlerAt
  <2>3. PICK reply \in {"error", "unknown", "notify", "fire_sub", "done"} :
          /\ At(h, "mcp") /\ Goto(h, "reply", reply)
          /\ UNCHANGED <<file, memory, up, ended, sessions, aborting>>
          /\ \/ SubagentDone(w, reply)
             \/ /\ reply = "error"
                /\ \/ UNCHANGED orchestrator
                   \/ KilledHalfway(w)
                   \/ \E r \in {"notify", "fire_sub", "done"} : SubagentDone(w, r)
    BY <1>1, <2>2 DEF CallOrchestrator, OrchestratorFails
  <2>4. /\ OrchestratorInv' /\ Grows
        /\ reply = "done" => Reflected(w)'
        /\ reply = "fire_sub" => Checkable(w)'
    <3>1. OrchestratorInv
      BY DEF Inv
    <3>2. CASE SubagentDone(w, reply)
      BY <2>2, <3>1, <3>2, EventGrows
    <3>3. CASE reply = "error" /\ UNCHANGED orchestrator
      BY <3>1, <3>3, NothingGrows
    <3>4. CASE reply = "error" /\ KilledHalfway(w)
      BY <2>2, <3>1, <3>4, KilledGrows
    <3>5. CASE reply = "error" /\ \E r \in {"notify", "fire_sub", "done"} : SubagentDone(w, r)
      BY <2>2, <3>1, <3>5, EventGrows
    <3> QED
      BY <2>3, <3>2, <3>3, <3>4, <3>5
  <2>5. HandlersInv'
    <3>1. /\ handlers' \in [Handlers -> Handler \cup {Nil}]
          /\ handlers'[h] # Nil
          /\ handlers'[h].workflow = w /\ handlers'[h].instance = handlers[h].instance
          /\ handlers'[h].step = "reply" /\ handlers'[h].reply = reply
          /\ \A g \in Handlers \ {h} : handlers'[g] = handlers[g]
          /\ w \in Workflows /\ handedOut[w] # Nil /\ handlers[h].instance \in up
      BY <2>1, <2>3, <2>2, HandlerMoved DEF Inv
    <3>2. HandlerSound(handlers[h])'
      BY <2>3, <2>4, <3>1 DEF HandlerSound, Grows, WorkflowGrows
    <3>3. ASSUME NEW g \in Handlers \ {h}, handlers'[g] # Nil PROVE HandlerSound(handlers[g])'
      <4>1. handlers[g] \in Handler /\ HandlerSound(handlers[g]) /\ handlers[g] # Nil
        BY <3>1, <3>3 DEF Inv, HandlersInv, HandlersOf
      <4>2. handlers[g].workflow \in Workflows
        BY <4>1 DEF Handler
      <4> QED
        BY <2>3, <2>4, <3>1, <4>1, <4>2, CheckableKept, ReflectedKept
           DEF HandlerSound, Grows, WorkflowGrows
    <3> QED
      <4>1. \A g \in Handlers : HandlerSound(handlers[g])'
        BY <3>2, <3>3 DEF HandlerSound
      <4> QED
        BY <3>1, <4>1 DEF HandlersInv, HandlersOf
  <2>6. ProcessesInv'
    BY <2>3 DEF Inv, ProcessesInv
  <2> QED
    BY <2>3, <2>4, <2>5, <2>6, Unmoved, StepKept
<1> QED
  BY <1>1

-----------------------------------------------------------------------------
(* Host processes *)

LEMMA PurgedSound ==
    ASSUME NEW store \in Store, StoreSound(store), NEW purged \in Purged(store)
    PROVE  purged \in Store /\ StoreSound(purged)
  BY DEF Purged, Store, StoreSound, EntrySound

(* No entry has the id of a process that starts, so nothing is reconciled. *)
LEMMA NothingReconciled ==
    ASSUME NEW store \in Store, StoreSound(store), NEW i \in Instances, i \notin up \cup ended,
           NEW new \in Reconciled(store, i)
    PROVE  new = store
<1>1. \A w \in Workflows : ~(IsActive(store, w) /\ store[w].instance = i)
  BY DEF StoreSound, EntrySound, IsActive
<1>2. new = [w \in Workflows |-> store[w]]
  BY <1>1 DEF Reconciled
<1> QED
  BY <1>2 DEF Store

LEMMA ProcessSteps ==
    ASSUME Inv, NEW i \in Instances
    PROVE  StartProcess(i) \/ Crash(i) => Inv'
<1>1. ASSUME StartProcess(i) PROVE Inv'
  <2>1. OrchestratorInv' /\ Grows
    BY <1>1, NothingGrows DEF Inv, StartProcess
  <2>2. file \in Store /\ StoreSound(file)
    BY DEF Inv, StoresInv, StoresOf
  <2>3. PICK purged \in Purged(file) \cup {file} : \E store \in Reconciled(purged, i) :
            memory' = [memory EXCEPT ![i] = store] /\ file' = store
    BY <1>1 DEF StartProcess
  <2>4. purged \in Store /\ StoreSound(purged)
    BY <2>2, <2>3, PurgedSound
  <2>5. memory' = [memory EXCEPT ![i] = purged] /\ file' = purged
    BY <1>1, <2>3, <2>4, NothingReconciled DEF StartProcess
  <2>6. StoresOf(memory', file')
    BY <2>4, <2>5 DEF Inv, StoresInv, StoresOf
  <2>7. HandlersInv'
    BY <1>1, <2>1, Unmoved, HandlersKept DEF StartProcess, HandlersOf, HandlerSound
  <2>8. ProcessesInv'
    BY <1>1 DEF StartProcess, Inv, ProcessesInv
  <2> QED
    BY <1>1, <2>1, <2>6, <2>7, <2>8, Unmoved, StepKept DEF StartProcess
<1>2. ASSUME Crash(i) PROVE Inv'
  <2>1. OrchestratorInv' /\ Grows
    BY <1>2, NothingGrows DEF Inv, Crash
  <2>2. StoresOf(memory', file')
    BY <1>2, EmptySound DEF Inv, StoresInv, StoresOf, Crash
  <2>3. /\ HandlersOf(handlers')
        /\ \A h \in Handlers : handlers'[h] # Nil => handlers'[h].instance \in up'
    BY <1>2 DEF Inv, HandlersInv, HandlersOf, HandlerSound, Crash
  <2>4. HandlersInv'
    BY <2>1, <2>3, HandlersKept
  <2>5. ProcessesInv'
    BY <1>2 DEF Crash, Inv, ProcessesInv
  <2> QED
    BY <1>2, <2>1, <2>2, <2>4, <2>5, Unmoved, StepKept DEF Crash
<1> QED
  BY <1>1, <1>2

-----------------------------------------------------------------------------
(* The invariance theorem and what follows from it *)

LEMMA InvInit == Init => Inv
<1> SUFFICES ASSUME Init PROVE Inv
  OBVIOUS
<1>1. OrchestratorInv
  BY EmptySeq DEF Init, OrchestratorInit, OrchestratorInv, OrchestratorType, FilesKnown
<1>2. StoresInv
  BY EmptySound DEF Init, StoresInv, StoresOf
<1>3. SessionsInv /\ HandlersInv /\ ProcessesInv
  BY DEF Init, SessionsInv, SessionsOf, SessionSound, HandlersInv, HandlersOf, HandlerSound,
         ProcessesInv
<1> QED
  BY <1>1, <1>2, <1>3 DEF Inv

LEMMA InvNext == Inv /\ [Next]_vars => Inv'
<1> SUFFICES ASSUME Inv, [Next]_vars PROVE Inv'
  OBVIOUS
<1>1. CASE UNCHANGED vars
  <2>1. OrchestratorInv' /\ Grows
    BY <1>1, NothingGrows DEF Inv, vars
  <2> QED
    BY <1>1, <2>1, Unmoved, RunningStepKept DEF vars
<1>2. CASE Next
  <2>1. ASSUME NEW h \in Handlers, Handle(h) PROVE Inv'
    BY <2>1, FinishingSteps, MovingSteps, OrchestratorSteps DEF Handle
  <2> QED
    BY <1>2, <2>1, WorkflowSteps, ToolSteps, SessionSteps, ProcessSteps DEF Next
<1> QED
  BY <1>1, <1>2

LEMMA Invariance == Spec => []Inv
  BY InvInit, InvNext, PTL DEF Spec

(* Every variable keeps its shape, for any numbers of workflows, sessions, *)
(* host processes and idle events and any faults.                          *)
THEOREM BridgeTypeCorrect == Spec => []BridgeTypeOK
<1>1. Inv => BridgeTypeOK
  BY InvIsBridgeInv DEF BridgeInv
<1> QED
  BY <1>1, Invariance, PTL

(* A workflow that any host process calls completed is done for the        *)
(* orchestrator, or forgotten by it, whatever crashes, aborts, undo calls, *)
(* late answers and overlapping processes come between.                    *)
THEOREM CompletedIsDone == Spec => []CompletedMeansDone
<1>1. Inv => CompletedMeansDone
  BY DEF Inv, ProcessesInv, StoresInv, StoresOf, StoreSound, EntrySound, Reflected,
         CompletedMeansDone
<1> QED
  BY <1>1, Invariance, PTL

(* Whenever a Checker session exists, the reflection it belongs to has its *)
(* record, and its draft as long as the orchestrator knows the workflow.   *)
THEOREM CheckersHaveWork == Spec => []CheckerHasWork
<1>1. Inv => CheckerHasWork
  BY DEF Inv, SessionsInv, SessionsOf, SessionSound, Checkable, CheckerHasWork
<1> QED
  BY <1>1, Invariance, PTL

-----------------------------------------------------------------------------
(* One subagent of a workflow at a time.  The orchestrator leaves the phase *)
(* "reflecting" once, with the one answer that starts a Checker; so of a    *)
(* workflow there is at most one handler on the way to the launch or one    *)
(* Checker, and by then the one Reflector has gone idle for good.           *)

Of(s, w, agent) == sessions[s] # Nil /\ sessions[s].workflow = w /\ sessions[s].agent = agent

Resting(s) == sessions[s].state \in {"idle", "failed"}

Firing(h, w) ==
    /\ handlers[h] # Nil
    /\ handlers[h].workflow = w
    /\ handlers[h].step = "launch" \/ (handlers[h].step = "reply" /\ handlers[h].reply = "fire_sub")

CheckBegun(w) == (\E h \in Handlers : Firing(h, w)) \/ (\E s \in Sessions : Of(s, w, "C"))

NotReflecting(w) == wfFile[w] # Nil => wfFile[w].phase # "reflecting"

OneReflector ==
    \A w \in Workflows, s, t \in Sessions : Of(s, w, "R") /\ Of(t, w, "R") => s = t

OneCheck ==
    \A w \in Workflows :
        /\ \A s, t \in Sessions : Of(s, w, "C") /\ Of(t, w, "C") => s = t
        /\ \A g, h \in Handlers : Firing(g, w) /\ Firing(h, w) => g = h
        /\ \A h \in Handlers, s \in Sessions : ~(Firing(h, w) /\ Of(s, w, "C"))

ReflectedFirst ==
    \A w \in Workflows : CheckBegun(w) =>
        /\ NotReflecting(w)
        /\ \A s \in Sessions : Of(s, w, "R") => Resting(s)

(* The session whose idle event is handled is idle, and the answer that the *)
(* workflow is unknown stays true.                                          *)
Answered(h) ==
    handlers[h] # Nil =>
        /\ sessions[handlers[h].session] # Nil
        /\ sessions[handlers[h].session].workflow = handlers[h].workflow
        /\ sessions[handlers[h].session].state = "idle"
        /\ handlers[h].step = "reply" /\ handlers[h].reply = "unknown"
             => wfFile[handlers[h].workflow] = Nil

ChainInv ==
    /\ OneReflector
    /\ OneCheck
    /\ ReflectedFirst
    /\ \A h \in Handlers : Answered(h)

(* No workflow returns to "reflecting", and a forgotten one stays forgotten. *)
AdvancesOf(w) ==
    handedOut[w] # Nil =>
        /\ wfFile[w] = Nil => wfFile'[w] = Nil
        /\ NotReflecting(w) => NotReflecting(w)'

Advances == \A w \in Workflows : AdvancesOf(w)

LEMMA EventAdvances ==
    ASSUME OrchestratorInv, NEW w \in Workflows, NEW reply, SubagentDone(w, reply)
    PROVE  /\ Advances
           /\ reply = "fire_sub" => ~NotReflecting(w) /\ NotReflecting(w)'
           /\ reply = "unknown" => wfFile'[w] = Nil
<1>1. CASE \/ UnknownWorkflow(w) /\ reply = "unknown"
           \/ IgnoredEvent(w) /\ reply = "notify"
  BY <1>1 DEF UnknownWorkflow, IgnoredEvent, orchestrator, Advances, AdvancesOf, NotReflecting
<1>2. ASSUME NEW phase \in {"checking", "done"}, EnterPhase(w, phase), handedOut' = handedOut,
             Listens(w, "reflecting") \/ Listens(w, "checking")
      PROVE  Advances /\ NotReflecting(w)'
  <2>1. wfFile'[w] # Nil /\ wfFile'[w].phase = phase
    BY <1>2, PhaseEntered
  <2>2. \A v \in Workflows \ {w} : wfFile'[v] = wfFile[v]
    BY <1>2 DEF EnterPhase, OrchestratorInv, OrchestratorType
  <2>3. wfFile[w] # Nil
    BY <1>2 DEF Listens
  <2> QED
    BY <2>1, <2>2, <2>3 DEF Advances, AdvancesOf, NotReflecting
<1>3. CASE ReflectorDrafted(w) /\ reply = "fire_sub"
  BY <1>2, <1>3 DEF ReflectorDrafted, Listens, NotReflecting
<1>4. CASE ReflectorEmpty(w) /\ reply = "notify"
  BY <1>2, <1>4 DEF ReflectorEmpty
<1>5. CASE CheckerDone(w) /\ reply = "done"
  BY <1>2, <1>5 DEF CheckerDone
<1> QED
  BY <1>1, <1>3, <1>4, <1>5 DEF SubagentDone

LEMMA ToolsAdvance ==
    ASSUME OrchestratorInv, NEW w \in Workflows
    PROVE  /\ \A old \in SUBSET Workflows : StartReflect(w, old) => Advances
           /\ PersistDraft(w) \/ OnUndo(w) \/ KilledHalfway(w) \/ UNCHANGED orchestrator => Advances
<1>1. ASSUME NEW old \in SUBSET Workflows, StartReflect(w, old) PROVE Advances
  BY <1>1 DEF StartReflect, OrchestratorInv, OrchestratorType, Advances, AdvancesOf, NotReflecting
<1>2. ASSUME PersistDraft(w) \/ KilledHalfway(w) \/ UNCHANGED orchestrator PROVE Advances
  BY <1>2 DEF PersistDraft, KilledHalfway, orchestrator, Advances, AdvancesOf, NotReflecting
<1>3. ASSUME OnUndo(w) PROVE Advances
  <2>1. /\ wfFile'[w].phase = wfFile[w].phase /\ wfFile[w] # Nil
        /\ \A v \in Workflows \ {w} : wfFile'[v] = wfFile[v]
    BY <1>3 DEF OnUndo, OrchestratorInv, OrchestratorType, WorkflowFile
  <2> QED
    BY <2>1 DEF Advances, AdvancesOf, NotReflecting
<1> QED
  BY <1>1, <1>2, <1>3

(* Sessions grow older, none is added. *)
SessionAges(s) ==
    \/ sessions'[s] = sessions[s]
    \/ /\ sessions[s] # Nil /\ sessions'[s] # Nil
       /\ sessions'[s].workflow = sessions[s].workflow
       /\ sessions'[s].agent = sessions[s].agent
       /\ Resting(s) => Resting(s)'
       /\ sessions[s].state = "idle" => sessions'[s].state = "idle"

SessionsAge == \A s \in Sessions : SessionAges(s)

(* No handler gets on the way to a launch. *)
QuietHandler(h) ==
    /\ \A w \in Workflows : Firing(h, w)' => Firing(h, w)
    /\ Answered(h)'

LEMMA QuietChain ==
    ASSUME Inv, ChainInv, Advances, SessionsAge, \A h \in Handlers : QuietHandler(h)
    PROVE  ChainInv'
<1>1. \A s \in Sessions, w \in Workflows, agent \in Agents : Of(s, w, agent)' => Of(s, w, agent)
  BY DEF SessionsAge, SessionAges, Of
<1>2. \A h \in Handlers, w \in Workflows : Firing(h, w)' => Firing(h, w)
  BY DEF QuietHandler
<1>3. \A s \in Sessions, w \in Workflows : Of(s, w, "R")' /\ Resting(s) => Resting(s)'
  BY DEF SessionsAge, SessionAges, Of, Resting
<1>4. "R" \in Agents /\ "C" \in Agents
  BY DEF Agents
<1>5. OneReflector'
  BY <1>1, <1>4 DEF ChainInv, OneReflector
<1>6. OneCheck'
  BY <1>1, <1>2, <1>4 DEF ChainInv, OneCheck
<1>7. ReflectedFirst'
  <2>1. ASSUME NEW w \in Workflows, CheckBegun(w)'
        PROVE  NotReflecting(w)' /\ \A s \in Sessions : Of(s, w, "R")' => Resting(s)'
    <3>1. CheckBegun(w)
      BY <1>1, <1>2, <1>4, <2>1 DEF CheckBegun
    <3>2. handedOut[w] # Nil
      BY <3>1 DEF CheckBegun, Firing, Of, Inv, HandlersInv, HandlersOf, HandlerSound,
                  SessionsInv, SessionsOf, SessionSound
    <3> QED
      BY <1>1, <1>3, <1>4, <3>1, <3>2 DEF ChainInv, ReflectedFirst, Advances, AdvancesOf
  <2> QED
    BY <2>1 DEF ReflectedFirst
<1> QED
  BY <1>5, <1>6, <1>7 DEF ChainInv, QuietHandler

LEMMA AnswerKept ==
    ASSUME Inv, ChainInv, Advances, SessionsAge, NEW h \in Handlers,
           handlers'[h] \in {handlers[h], Nil}
    PROVE  QuietHandler(h)
<1>1. CASE handlers'[h] = Nil
  BY <1>1 DEF QuietHandler, Firing, Answered
<1>2. CASE handlers'[h] = handlers[h] /\ handlers[h] # Nil
  <2>1. /\ handlers[h].session \in Sessions /\ handlers[h].workflow \in Workflows
        /\ handedOut[handlers[h].workflow] # Nil
    BY <1>2 DEF Inv, HandlersInv, HandlersOf, Handler, HandlerSound
  <2>2. Answered(h)
    BY DEF ChainInv
  <2>3. Answered(h)'
    BY <1>2, <2>1, <2>2 DEF Answered, SessionsAge, SessionAges, Advances, AdvancesOf
  <2>4. \A w \in Workflows : Firing(h, w)' => Firing(h, w)
    BY <1>2 DEF Firing
  <2> QED
    BY <2>3, <2>4 DEF QuietHandler
<1> QED
  BY <1>1, <1>2

LEMMA AnswersKept ==
    ASSUME Inv, ChainInv, Advances, SessionsAge,
           \A h \in Handlers : handlers'[h] \in {handlers[h], Nil}
    PROVE  ChainInv'
  BY AnswerKept, QuietChain

LEMMA StateAges ==
    ASSUME SessionsInv, NEW s \in Sessions, sessions[s] # Nil,
           NEW state \in {"prompted", "idle", "failed"}, SetState(s, state),
           sessions[s].state \in {"idle", "failed"} => state = sessions[s].state
    PROVE  SessionsAge /\ sessions'[s] # Nil /\ sessions'[s].state = state
                       /\ sessions'[s].workflow = sessions[s].workflow
<1> DEFINE session == [sessions[s] EXCEPT !.state = state]
<1>1. sessions[s] \in Session
  BY DEF SessionsInv, SessionsOf
<1>2. /\ session \in Session /\ session.state = state
      /\ session.workflow = sessions[s].workflow /\ session.agent = sessions[s].agent
  BY <1>1 DEF Session
<1>3. sessions'[s] = session /\ \A t \in Sessions \ {s} : sessions'[t] = sessions[t]
  BY DEF SetState, SessionsInv, SessionsOf
<1> HIDE DEF session
<1>4. session # Nil
  BY <1>2, BridgeConstants
<1> QED
  BY <1>2, <1>3, <1>4 DEF SessionsAge, SessionAges, Resting

LEMMA SessionChain ==
    ASSUME Inv, ChainInv, NEW s \in Sessions
    PROVE  PromptSession(s) \/ PromptFails(s) \/ DraftReport(s) \/ Idle(s) => ChainInv'
<1>1. ASSUME PromptSession(s) \/ PromptFails(s) PROVE ChainInv'
  <2>1. SessionsAge
    BY <1>1, StateAges DEF PromptSession, PromptFails, Lives, Inv
  <2>2. Advances /\ UNCHANGED handlers
    BY <1>1, ToolsAdvance DEF PromptSession, PromptFails, Inv, orchestrator, Advances, AdvancesOf,
                              NotReflecting
  <2> QED
    BY <2>1, <2>2, AnswersKept
<1>2. ASSUME DraftReport(s) PROVE ChainInv'
  <2>1. sessions[s].workflow \in Workflows
    BY <1>2 DEF DraftReport, Lives, Inv, SessionsInv, SessionsOf, Session
  <2>2. Advances /\ UNCHANGED <<sessions, handlers>>
    BY <1>2, <2>1, ToolsAdvance DEF DraftReport, Inv
  <2> QED
    BY <2>2, AnswersKept DEF SessionsAge, SessionAges
<1>3. ASSUME Idle(s) PROVE ChainInv'
  <2>1. SessionsAge /\ sessions'[s] # Nil /\ sessions'[s].state = "idle"
                    /\ sessions'[s].workflow = sessions[s].workflow
    BY <1>3, StateAges DEF Idle, Lives, Inv
  <2>2. Advances
    BY <1>3 DEF Idle, orchestrator, Advances, AdvancesOf, NotReflecting
  <2>3. CASE UNCHANGED handlers
    BY <2>1, <2>2, <2>3, AnswersKept
  <2>4. CASE handlers' # handlers
    <3> DEFINE new == [workflow |-> sessions[s].workflow, session |-> s,
                       instance |-> sessions[s].instance, step |-> "messages", reply |-> Nil]
    <3>1. PICK h \in Handlers : handlers' = [handlers EXCEPT ![h] = new]
      BY <1>3, <2>4 DEF Idle
    <3>2. handlers'[h] = new /\ \A g \in Handlers \ {h} : handlers'[g] = handlers[g]
      BY <3>1 DEF Inv, HandlersInv, HandlersOf
    <3>3. QuietHandler(h)
      BY <2>1, <3>2 DEF QuietHandler, Firing, Answered
    <3>4. \A g \in Handlers \ {h} : QuietHandler(g)
      BY <2>1, <2>2, <3>2, AnswerKept
    <3> QED
      BY <2>1, <2>2, <3>3, <3>4, QuietChain
  <2> QED
    BY <2>3, <2>4
<1> QED
  BY <1>1, <1>2, <1>3

(* What launches one more session *)
LEMMA LaunchAdds ==
    ASSUME SessionsInv, NEW i \in Instances, NEW w \in Workflows, NEW agent \in Agents,
           Launch(i, w, agent)
    PROVE  \E s \in Sessions :
              /\ \A t \in Sessions \ {s} : sessions'[t] = sessions[t]
              /\ Of(s, w, agent)'
              /\ sessions[s] = Nil
<1> DEFINE new == [workflow |-> w, agent |-> agent, instance |-> i, state |-> "created"]
<1>1. PICK s \in Sessions : sessions[s] = Nil /\ sessions' = [sessions EXCEPT ![s] = new]
  BY DEF Launch
<1>2. new \in Session /\ new.workflow = w /\ new.agent = agent
  BY DEF Session
<1>3. new # Nil
  BY <1>2, BridgeConstants
<1> HIDE DEF new
<1>4. sessions'[s] = new /\ \A t \in Sessions \ {s} : sessions'[t] = sessions[t]
  BY <1>1 DEF SessionsInv, SessionsOf
<1> QED
  BY <1>1, <1>2, <1>3, <1>4 DEF Of

LEMMA FireChain ==
    ASSUME Inv, ChainInv, NEW i \in Instances, NEW w \in Workflows, FireReflector(i, w)
    PROVE  ChainInv'
<1>1. "R" \in Agents /\ "C" \in Agents /\ "R" # "C"
  BY DEF Agents
<1>2. PICK s \in Sessions :
        /\ \A t \in Sessions \ {s} : sessions'[t] = sessions[t]
        /\ Of(s, w, "R")'
        /\ sessions[s] = Nil
  BY <1>1, LaunchAdds DEF FireReflector, Inv
<1>3. UNCHANGED <<orchestrator, handlers>>
  BY DEF FireReflector
<1>4. \A t \in Sessions, agent \in Agents : ~Of(t, w, agent)
  BY DEF FireReflector, Of
<1>5. \A h \in Handlers : handlers[h] # Nil =>
         handlers[h].session \in Sessions /\ handlers[h].workflow # w
  BY DEF FireReflector, ChainInv, Answered, Inv, HandlersInv, HandlersOf, Handler
<1>6. \A t \in Sessions, v \in Workflows, agent \in Agents :
         Of(t, v, agent)' => Of(t, v, agent) \/ (t = s /\ v = w /\ agent = "R")
  BY <1>2 DEF Of
<1>7. \A h \in Handlers, v \in Workflows : Firing(h, v)' => Firing(h, v) /\ v # w
  BY <1>3, <1>5 DEF Firing
<1>8. OneReflector'
  BY <1>1, <1>4, <1>6 DEF ChainInv, OneReflector
<1>9. OneCheck'
  BY <1>1, <1>6, <1>7 DEF ChainInv, OneCheck
<1>10. ReflectedFirst'
  <2>1. ASSUME NEW v \in Workflows, CheckBegun(v)'
        PROVE  NotReflecting(v)' /\ \A t \in Sessions : Of(t, v, "R")' => Resting(t)'
    <3>1. CheckBegun(v) /\ v # w
      BY <1>1, <1>4, <1>6, <1>7, <2>1 DEF CheckBegun
    <3>2. \A t \in Sessions : Of(t, v, "R")' => t # s /\ Of(t, v, "R")
      BY <1>1, <1>2, <1>6, <3>1 DEF Of
    <3> QED
      BY <1>2, <1>3, <3>1, <3>2 DEF ChainInv, ReflectedFirst, NotReflecting, orchestrator, Resting
  <2> QED
    BY <2>1 DEF ReflectedFirst
<1>11. ASSUME NEW h \in Handlers PROVE Answered(h)'
  <2>1. CASE handlers[h] = Nil
    BY <1>3, <2>1 DEF Answered
  <2>2. CASE handlers[h] # Nil
    <3>1. sessions[handlers[h].session] # Nil /\ handlers[h].session \in Sessions
      BY <1>5, <2>2 DEF ChainInv, Answered
    <3>2. sessions'[handlers[h].session] = sessions[handlers[h].session]
      BY <1>2, <3>1
    <3> QED
      BY <1>3, <3>2 DEF ChainInv, Answered, orchestrator
  <2> QED
    BY <2>1, <2>2
<1> QED
  BY <1>8, <1>9, <1>10, <1>11 DEF ChainInv

LEMMA LaunchChain ==
    ASSUME Inv, ChainInv, NEW h \in Handlers, LaunchChecker(h)
    PROVE  ChainInv'
<1>1. "R" \in Agents /\ "C" \in Agents /\ "R" # "C"
  BY DEF Agents
<1>2. PICK i \in Instances, w \in Workflows :
        /\ i = handlers[h].instance /\ w = handlers[h].workflow /\ Firing(h, w)
  BY HandlerAt DEF LaunchChecker, At, Firing
<1>3. Launch(i, w, "C") /\ Finish(h) /\ UNCHANGED orchestrator
  BY <1>2 DEF LaunchChecker
<1>4. PICK s \in Sessions :
        /\ \A t \in Sessions \ {s} : sessions'[t] = sessions[t]
        /\ Of(s, w, "C")'
        /\ sessions[s] = Nil
  BY <1>1, <1>2, <1>3, LaunchAdds DEF Inv
<1>5. handlers'[h] = Nil /\ \A g \in Handlers \ {h} : handlers'[g] = handlers[g]
  BY <1>3 DEF Finish, Inv, HandlersInv, HandlersOf
<1>6. \A t \in Sessions, v \in Workflows, agent \in Agents :
         Of(t, v, agent)' => Of(t, v, agent) \/ (t = s /\ v = w /\ agent = "C")
  BY <1>4 DEF Of
<1>7. \A g \in Handlers, v \in Workflows : Firing(g, v)' => Firing(g, v) /\ g # h
  BY <1>5 DEF Firing
<1>8. \A g \in Handlers : ~Firing(g, w)'
  BY <1>2, <1>7 DEF ChainInv, OneCheck
<1>9. \A t \in Sessions : ~Of(t, w, "C")
  BY <1>2 DEF ChainInv, OneCheck
<1>10. OneReflector'
  BY <1>1, <1>6 DEF ChainInv, OneReflector
<1>11. OneCheck'
  BY <1>1, <1>6, <1>7, <1>8, <1>9 DEF ChainInv, OneCheck
<1>12. ReflectedFirst'
  <2>1. ASSUME NEW v \in Workflows, CheckBegun(v)'
        PROVE  NotReflecting(v)' /\ \A t \in Sessions : Of(t, v, "R")' => Resting(t)'
    <3>1. CheckBegun(v)
      BY <1>1, <1>2, <1>6, <1>7, <2>1 DEF CheckBegun
    <3>2. \A t \in Sessions : Of(t, v, "R")' => t # s /\ Of(t, v, "R")
      BY <1>1, <1>4, <1>6 DEF Of
    <3> QED
      BY <1>3, <1>4, <3>1, <3>2 DEF ChainInv, ReflectedFirst, NotReflecting, orchestrator, Resting
  <2> QED
    BY <2>1 DEF ReflectedFirst
<1>13. ASSUME NEW g \in Handlers PROVE Answered(g)'
  <2>1. CASE handlers'[g] = Nil
    BY <2>1 DEF Answered
  <2>2. CASE handlers'[g] # Nil
    <3>1. handlers'[g] = handlers[g] /\ handlers[g] # Nil
      BY <1>5, <2>2
    <3>2. handlers[g].session \in Sessions /\ sessions[handlers[g].session] # Nil
      BY <3>1 DEF ChainInv, Answered, Inv, HandlersInv, HandlersOf, Handler
    <3>3. sessions'[handlers[g].session] = sessions[handlers[g].session]
      BY <1>4, <3>2
    <3> QED
      BY <1>3, <3>1, <3>3 DEF ChainInv, Answered, orchestrator
  <2> QED
    BY <2>1, <2>2
<1> QED
  BY <1>10, <1>11, <1>12, <1>13 DEF ChainInv

(* Only the answer "fire_sub" puts a handler on the way to a launch, and    *)
(* the workflow was reflecting until then, so nothing else is.              *)
LEMMA EventChain ==
    ASSUME Inv, ChainInv, NEW h \in Handlers, CallOrchestrator(h) \/ OrchestratorFails(h)
    PROVE  ChainInv'
<1>1. PICK w \in Workflows : w = handlers[h].workflow /\ handlers[h] # Nil
  BY HandlerAt DEF CallOrchestrator, OrchestratorFails, At
<1>2. PICK reply \in {"error", "unknown", "notify", "fire_sub", "done"} :
        /\ Goto(h, "reply", reply)
        /\ UNCHANGED <<file, memory, up, ended, sessions, aborting>>
        /\ \/ SubagentDone(w, reply)
           \/ /\ reply = "error"
              /\ \/ UNCHANGED orchestrator
                 \/ KilledHalfway(w)
                 \/ \E r \in {"notify", "fire_sub", "done"} : SubagentDone(w, r)
  BY <1>1 DEF CallOrchestrator, OrchestratorFails
<1>3. OrchestratorInv
  BY DEF Inv
<1>4. /\ Advances
      /\ reply = "fire_sub" => ~NotReflecting(w) /\ NotReflecting(w)'
      /\ reply = "unknown" => wfFile'[w] = Nil
  BY <1>1, <1>2, <1>3, EventAdvances, ToolsAdvance
<1>5. SessionsAge
  BY <1>2 DEF SessionsAge, SessionAges
<1>6. /\ handlers'[h] # Nil
      /\ handlers'[h].workflow = w
      /\ handlers'[h].session = handlers[h].session
      /\ handlers'[h].step = "reply" /\ handlers'[h].reply = reply
      /\ \A g \in Handlers \ {h} : handlers'[g] = handlers[g]
      /\ handlers[h].session \in Sessions
  <2> DEFINE handler == [handlers[h] EXCEPT !.step = "reply", !.reply = reply]
  <2>1. handlers[h] \in Handler
    BY <1>1 DEF Inv, HandlersInv, HandlersOf
  <2>2. /\ handler \in Handler
        /\ handler.workflow = w /\ handler.session = handlers[h].session
        /\ handler.step = "reply" /\ handler.reply = reply
    BY <1>1, <2>1 DEF Handler
  <2>3. handlers'[h] = handler /\ \A g \in Handlers \ {h} : handlers'[g] = handlers[g]
    BY <1>2 DEF Goto, Inv, HandlersInv, HandlersOf
  <2> HIDE DEF handler
  <2> QED
    BY <2>1, <2>2, <2>3, BridgeConstants DEF Handler
<1>7. Answered(h)'
  BY <1>1, <1>2, <1>4, <1>6 DEF ChainInv, Answered
<1>8. \A g \in Handlers \ {h} : QuietHandler(g)
  BY <1>4, <1>5, <1>6, AnswerKept
<1>9. CASE reply # "fire_sub"
  <2>1. QuietHandler(h)
    BY <1>6, <1>7, <1>9 DEF QuietHandler, Firing
  <2> QED
    BY <1>4, <1>5, <1>8, <2>1, QuietChain
<1>10. CASE reply = "fire_sub"
  <2>1. ~CheckBegun(w)
    BY <1>4, <1>10 DEF ChainInv, ReflectedFirst
  <2>2. /\ \A g \in Handlers, v \in Workflows : Firing(g, v)' => Firing(g, v) \/ (g = h /\ v = w)
        /\ \A s \in Sessions, v \in Workflows, agent \in Agents :
              (Of(s, v, agent)' <=> Of(s, v, agent)) /\ (Resting(s)' <=> Resting(s))
    BY <1>2, <1>6 DEF Firing, Of, Resting
  <2>3. "R" \in Agents /\ "C" \in Agents
    BY DEF Agents
  <2>4. OneReflector'
    BY <2>2, <2>3 DEF ChainInv, OneReflector
  <2>5. OneCheck'
    BY <2>1, <2>2, <2>3 DEF ChainInv, OneCheck, CheckBegun
  <2>6. ReflectedFirst'
    <3>1. ASSUME NEW v \in Workflows \ {w}, CheckBegun(v)'
          PROVE  NotReflecting(v)' /\ \A s \in Sessions : Of(s, v, "R")' => Resting(s)'
      <4>1. CheckBegun(v)
        BY <2>2, <2>3, <3>1 DEF CheckBegun
      <4>2. handedOut[v] # Nil
        BY <4>1 DEF CheckBegun, Firing, Of, Inv, HandlersInv, HandlersOf, HandlerSound,
                    SessionsInv, SessionsOf, SessionSound
      <4> QED
        BY <1>4, <2>2, <2>3, <4>1, <4>2 DEF ChainInv, ReflectedFirst, Advances, AdvancesOf
    <3>2. \A s \in Sessions : Of(s, w, "R")' => Resting(s)'
      <4>1. Of(handlers[h].session, w, "R") /\ Resting(handlers[h].session)
        <5>1. /\ sessions[handlers[h].session] # Nil
              /\ sessions[handlers[h].session].workflow = w
              /\ sessions[handlers[h].session].state = "idle"
          BY <1>1 DEF ChainInv, Answered
        <5>2. sessions[handlers[h].session].agent \in {"R", "C"}
          BY <1>6, <5>1 DEF Inv, SessionsInv, SessionsOf, Session, Agents
        <5>3. ~Of(handlers[h].session, w, "C")
          BY <1>6, <2>1 DEF CheckBegun
        <5> QED
          BY <5>1, <5>2, <5>3 DEF Of, Resting
      <4> QED
        BY <1>6, <2>2, <2>3, <4>1 DEF ChainInv, OneReflector
    <3> QED
      BY <1>4, <1>10, <3>1, <3>2 DEF ReflectedFirst
  <2> QED
    BY <1>7, <1>8, <2>4, <2>5, <2>6 DEF ChainInv, QuietHandler
<1> QED
  BY <1>9, <1>10

LEMMA HandlerChain ==
    ASSUME Inv, ChainInv, NEW h \in Handlers
    PROVE  Handle(h) => ChainInv'
<1>1. ASSUME \/ MessagesFail(h) \/ ChainBreaks(h) \/ ChainCompletes(h)
             \/ WorkflowForgotten(h) \/ LaunchFails(h)
      PROVE  ChainInv'
  <2>1. Finish(h) /\ UNCHANGED <<orchestrator, sessions>>
    BY <1>1 DEF MessagesFail, ChainBreaks, ChainCompletes, WorkflowForgotten, LaunchFails
  <2>2. \A g \in Handlers : handlers'[g] \in {handlers[g], Nil}
    BY <2>1 DEF Finish, Inv, HandlersInv, HandlersOf
  <2>3. Advances /\ SessionsAge
    BY <2>1 DEF orchestrator, Advances, AdvancesOf, NotReflecting, SessionsAge, SessionAges
  <2> QED
    BY <2>2, <2>3, AnswersKept
<1>2. ASSUME ReadMessages(h) \/ ChainGoesOn(h) PROVE ChainInv'
  <2>1. Advances /\ SessionsAge
    BY <1>2 DEF ReadMessages, ChainGoesOn, orchestrator, Advances, AdvancesOf, NotReflecting,
                SessionsAge, SessionAges
  <2>2. PICK step \in {"mcp", "launch"}, reply \in {Nil, "fire_sub"} :
          /\ handlers[h] # Nil /\ Goto(h, step, reply)
          /\ step = "launch" => handlers[h].step = "reply" /\ handlers[h].reply = "fire_sub"
    BY <1>2 DEF ReadMessages, ChainGoesOn, At
  <2> DEFINE handler == [handlers[h] EXCEPT !.step = step, !.reply = reply]
  <2>3. /\ handler.workflow = handlers[h].workflow /\ handler.session = handlers[h].session
        /\ handler.step = step
        /\ handlers'[h] = handler /\ \A g \in Handlers \ {h} : handlers'[g] = handlers[g]
    BY <2>2 DEF Goto, Inv, HandlersInv, HandlersOf, Handler
  <2> HIDE DEF handler
  <2>4. QuietHandler(h)
    BY <1>2, <2>1, <2>2, <2>3 DEF QuietHandler, Firing, ChainInv, Answered, ReadMessages, ChainGoesOn
  <2>5. \A g \in Handlers \ {h} : QuietHandler(g)
    BY <2>1, <2>3, AnswerKept
  <2> QED
    BY <2>1, <2>4, <2>5, QuietChain
<1> QED
  BY <1>1, <1>2, LaunchChain, EventChain DEF Handle

LEMMA ChainNext == Inv /\ ChainInv /\ [Next]_vars => ChainInv'
<1> SUFFICES ASSUME Inv, ChainInv, [Next]_vars PROVE ChainInv'
  OBVIOUS
<1>1. ASSUME UNCHANGED <<orchestrator, sessions>>,
             \A h \in Handlers : handlers'[h] \in {handlers[h], Nil}
      PROVE  ChainInv'
  <2>1. Advances /\ SessionsAge
    BY <1>1 DEF orchestrator, Advances, AdvancesOf, NotReflecting, SessionsAge, SessionAges
  <2> QED
    BY <1>1, <2>1, AnswersKept
<1>2. CASE UNCHANGED vars
  BY <1>1, <1>2 DEF vars
<1>3. ASSUME NEW w \in Workflows, Start(w) \/ Undo(w) PROVE ChainInv'
  <2>1. Advances
    BY <1>3, ToolsAdvance DEF Start, Undo, Inv
  <2>2. SessionsAge /\ UNCHANGED handlers
    BY <1>3 DEF Start, Undo, SessionsAge, SessionAges
  <2> QED
    BY <2>1, <2>2, AnswersKept
<1>4. ASSUME NEW i \in Instances, NEW w \in Workflows, Abort(i, w) \/ Cancel(i, w) PROVE ChainInv'
  BY <1>1, <1>4 DEF Abort, Cancel
<1>5. ASSUME NEW i \in Instances, StartProcess(i) \/ Crash(i) PROVE ChainInv'
  BY <1>1, <1>5 DEF StartProcess, Crash
<1> QED
  BY <1>2, <1>3, <1>4, <1>5, FireChain, SessionChain, HandlerChain DEF Next

LEMMA ChainInit == Init => ChainInv
  BY DEF Init, ChainInv, OneReflector, OneCheck, ReflectedFirst, CheckBegun, Firing, Of, Answered

LEMMA ChainInvariance == Spec => [](Inv /\ ChainInv)
  BY InvInit, InvNext, ChainInit, ChainNext, PTL DEF Spec

(* At most one subagent of a workflow works at a time, whatever idle events *)
(* are repeated, processes overlap or die, and calls fail or are killed.    *)
THEOREM OneAtATime == Spec => []OneSubagentAtWork
<1>1. Inv /\ ChainInv => OneSubagentAtWork
  <2> SUFFICES ASSUME Inv, ChainInv, NEW s \in Sessions, NEW t \in Sessions,
                      sessions[s] # Nil, sessions[s].state \in {"created", "prompted"},
                      sessions[t] # Nil, sessions[t].state \in {"created", "prompted"},
                      sessions[s].workflow = sessions[t].workflow
               PROVE  s = t
    BY DEF OneSubagentAtWork
  <2>1. PICK w \in Workflows, a \in {"R", "C"}, b \in {"R", "C"} : Of(s, w, a) /\ Of(t, w, b)
    BY DEF Inv, SessionsInv, SessionsOf, Session, Agents, Of
  <2>2. a = "R" <=> b = "R"
    BY <2>1 DEF ChainInv, ReflectedFirst, CheckBegun, Resting
  <2> QED
    BY <2>1, <2>2 DEF ChainInv, OneReflector, OneCheck
<1> QED
  BY <1>1, ChainInvariance, PTL

-----------------------------------------------------------------------------
(* The store's file.  A process that changes its map writes all of it, and  *)
(* leaves out no active entry but one the orchestrator has forgotten.       *)

Spares(store, new) ==
    \A v \in Workflows : IsActive(store, v) /\ new[v] = Nil => wfFile[v] = Nil

Writes(i) == memory' = [memory EXCEPT ![i] = file'] /\ Spares(memory[i], file')

StoreStep == UNCHANGED <<memory, file>> \/ \E i \in up : Writes(i)

LEMMA SaveWrites ==
    ASSUME NEW i \in Instances, NEW store \in Store, SaveAll(i, store), Spares(memory[i], store)
    PROVE  Writes(i)
  BY DEF SaveAll, Merged, Writes, Spares, Store

LEMMA MarkWrites ==
    ASSUME StoresInv, NEW i \in Instances, i \in up, NEW w \in Workflows,
           NEW status \in Active \cup Terminal, Mark(i, w, status)
    PROVE  StoreStep
<1>1. CASE memory[i][w] = Nil
  BY <1>1 DEF Mark, StoreStep
<1>2. CASE memory[i][w] # Nil
  <2> DEFINE entry == [memory[i][w] EXCEPT !.status = status]
  <2>1. memory[i] \in Store /\ memory[i][w] \in Entry
    BY <1>2 DEF StoresInv, StoresOf, Store
  <2>2. entry \in Entry
    BY <2>1 DEF Entry
  <2>3. Marked(memory[i], w, status) = [memory[i] EXCEPT ![w] = entry]
    BY DEF Marked
  <2> HIDE DEF entry
  <2>4. /\ Marked(memory[i], w, status) \in Store
        /\ Spares(memory[i], Marked(memory[i], w, status))
    BY <2>1, <2>2, <2>3, StoreConstants DEF Store, Spares, IsActive
  <2> QED
    BY <1>2, <2>4, SaveWrites DEF Mark, StoreStep
<1> QED
  BY <1>1, <1>2

LEMMA RemoveWrites ==
    ASSUME StoresInv, NEW i \in Instances, i \in up, NEW w \in Workflows, wfFile[w] = Nil,
           Remove(i, w)
    PROVE  StoreStep
<1>1. memory[i] \in Store
  BY DEF StoresInv, StoresOf
<1>2. /\ [memory[i] EXCEPT ![w] = Nil] \in Store
      /\ Spares(memory[i], [memory[i] EXCEPT ![w] = Nil])
  BY <1>1 DEF Store, Spares, IsActive
<1> QED
  BY <1>2, SaveWrites DEF Remove, StoreStep

LEMMA LaunchWrites ==
    ASSUME StoresInv, NEW i \in Instances, i \in up, NEW w \in Workflows, NEW agent \in Agents,
           Launch(i, w, agent)
    PROVE  StoreStep
<1>1. memory[i] \in Store
  BY DEF StoresInv, StoresOf
<1>2. PICK s \in Sessions, room \in WithRoom(memory[i], w) :
        LET onDisk == IF room = memory[i] THEN file ELSE room
            saved  == Merged([room EXCEPT ![w] = [status |-> "running", agent |-> agent,
                                                  session |-> s, instance |-> i]], onDisk, i)
        IN  memory' = [memory EXCEPT ![i] = saved] /\ file' = saved
  BY DEF Launch
<1> DEFINE entry == [status |-> "running", agent |-> agent, session |-> s, instance |-> i]
           registered == [room EXCEPT ![w] = entry]
           disk == IF room = memory[i] THEN file ELSE room
<1>3. entry \in Entry
  BY DEF Entry, Active
<1>4. file' = Merged(registered, disk, i) /\ memory' = [memory EXCEPT ![i] = file']
  BY <1>2
<1> HIDE DEF entry, disk
<1>5. room \in Store /\ Spares(memory[i], room)
  BY <1>1 DEF WithRoom, Evictions, Store, Spares, IsActive, IsTerminal, Active, Terminal
<1>6. registered \in Store /\ Spares(memory[i], registered)
  BY <1>3, <1>5, StoreConstants DEF Store, Spares, IsActive
<1> HIDE DEF registered
<1>7. Spares(memory[i], file')
  BY <1>4, <1>6 DEF Merged, Spares, Store
<1> QED
  BY <1>4, <1>7 DEF StoreStep, Writes

LEMMA StoreSteps ==
    ASSUME Inv, ChainInv, Next
    PROVE  \/ StoreStep /\ UNCHANGED <<up, ended>>
           \/ \E i \in Instances : StartProcess(i) \/ Crash(i)
<1> USE DEF Active, Terminal
<1>1. ASSUME NEW w \in Workflows, Start(w) \/ Undo(w)
      PROVE  StoreStep /\ UNCHANGED <<up, ended>>
  BY <1>1 DEF Start, Undo, StoreStep
<1>2. ASSUME NEW i \in Instances, NEW w \in Workflows,
             FireReflector(i, w) \/ Abort(i, w) \/ Cancel(i, w)
      PROVE  StoreStep /\ UNCHANGED <<up, ended>>
  <2>1. CASE FireReflector(i, w)
    BY <2>1, LaunchWrites DEF FireReflector, Inv, Agents
  <2>2. CASE Abort(i, w)
    BY <2>2 DEF Abort, StoreStep
  <2>3. CASE Cancel(i, w)
    BY <2>3, MarkWrites DEF Cancel, Inv, ProcessesInv
  <2> QED
    BY <1>2, <2>1, <2>2, <2>3
<1>3. ASSUME NEW s \in Sessions,
             PromptSession(s) \/ PromptFails(s) \/ DraftReport(s) \/ Idle(s)
      PROVE  StoreStep /\ UNCHANGED <<up, ended>>
  <2>1. CASE PromptSession(s) \/ DraftReport(s) \/ Idle(s)
    BY <2>1 DEF PromptSession, DraftReport, Idle, StoreStep
  <2>2. CASE PromptFails(s)
    <3>1. /\ sessions[s].workflow \in Workflows /\ sessions[s].instance \in Instances
          /\ sessions[s].instance \in up
      BY <2>2 DEF PromptFails, Lives, Inv, SessionsInv, SessionsOf, Session
    <3> QED
      BY <2>2, <3>1, MarkWrites DEF PromptFails, Inv, StoreStep
  <2> QED
    BY <1>3, <2>1, <2>2
<1>4. ASSUME NEW h \in Handlers, Handle(h)
      PROVE  StoreStep /\ UNCHANGED <<up, ended>>
  <2>1. handlers[h] # Nil
    BY <1>4 DEF Handle, ReadMessages, MessagesFail, CallOrchestrator, OrchestratorFails,
                ChainBreaks, ChainCompletes, WorkflowForgotten, ChainGoesOn, LaunchChecker,
                LaunchFails, At
  <2>2. PICK i \in Instances, w \in Workflows :
          i = handlers[h].instance /\ w = handlers[h].workflow /\ i \in up
    BY <2>1, HandlerAt
  <2>3. UNCHANGED <<up, ended>>
    BY <1>4 DEF Handle, ReadMessages, MessagesFail, CallOrchestrator, OrchestratorFails,
                ChainBreaks, ChainCompletes, WorkflowForgotten, ChainGoesOn, LaunchChecker,
                LaunchFails
  <2>4. \/ UNCHANGED <<memory, file>>
        \/ \E status \in Active \cup Terminal : Mark(i, w, status)
        \/ Remove(i, w) /\ wfFile[w] = Nil
        \/ Launch(i, w, "C")
    <3>1. CASE ReadMessages(h) \/ ChainBreaks(h) \/ ChainCompletes(h) \/ LaunchFails(h)
      BY <2>2, <3>1 DEF ReadMessages, ChainBreaks, ChainCompletes, LaunchFails
    <3>2. CASE MessagesFail(h)
      BY <2>2, <3>2 DEF MessagesFail
    <3>3. CASE CallOrchestrator(h) \/ OrchestratorFails(h) \/ ChainGoesOn(h)
      BY <3>3 DEF CallOrchestrator, OrchestratorFails, ChainGoesOn
    <3>4. CASE WorkflowForgotten(h)
      BY <2>1, <2>2, <3>4 DEF WorkflowForgotten, At, ChainInv, Answered
    <3>5. CASE LaunchChecker(h)
      BY <2>2, <3>5 DEF LaunchChecker
    <3> QED
      BY <1>4, <3>1, <3>2, <3>3, <3>4, <3>5 DEF Handle
  <2>5. StoreStep
    BY <2>2, <2>4, MarkWrites, RemoveWrites, LaunchWrites DEF Inv, StoreStep, Agents
  <2> QED
    BY <2>3, <2>5
<1> QED
  BY <1>1, <1>2, <1>3, <1>4 DEF Next

(* A process that does not run has no map. *)
DownIsEmpty == \A i \in Instances : i \notin up => memory[i] = EmptyStore

FileInv == DownIsEmpty /\ FileMirrorsMemory

LEMMA FileNext == Inv /\ ChainInv /\ FileInv /\ [Next]_vars => FileInv'
<1> SUFFICES ASSUME Inv, ChainInv, FileInv, [Next]_vars PROVE FileInv'
  OBVIOUS
<1>1. up \subseteq Instances /\ ended \subseteq Instances \ up /\ memory \in [Instances -> Store]
  BY DEF Inv, ProcessesInv, StoresInv, StoresOf
<1>2. CASE StoreStep /\ UNCHANGED <<up, ended>>
  BY <1>1, <1>2 DEF StoreStep, Writes, FileInv, DownIsEmpty, FileMirrorsMemory
<1>3. ASSUME NEW i \in Instances, StartProcess(i) PROVE FileInv'
  <2>1. memory' = [memory EXCEPT ![i] = file'] /\ up' = up \cup {i} /\ UNCHANGED ended
    BY <1>3 DEF StartProcess
  <2> QED
    BY <1>1, <2>1 DEF FileInv, DownIsEmpty, FileMirrorsMemory
<1>4. ASSUME NEW i \in Instances, Crash(i) PROVE FileInv'
  BY <1>1, <1>4 DEF Crash, FileInv, DownIsEmpty, FileMirrorsMemory
<1>5. CASE UNCHANGED vars
  BY <1>2, <1>5 DEF vars, StoreStep
<1> QED
  BY <1>2, <1>3, <1>4, <1>5, StoreSteps

LEMMA FileInvariance == Spec => [](Inv /\ ChainInv /\ FileInv)
<1>1. Init => FileInv
  BY DEF Init, FileInv, DownIsEmpty, FileMirrorsMemory
<1> QED
  BY <1>1, InvInit, InvNext, ChainInit, ChainNext, FileNext, PTL DEF Spec

(* As long as one process is the only one that ever ran, the file holds     *)
(* what its map holds, evictions, purges and registrations included.        *)
THEOREM FileKeepsUp == Spec => []FileMirrorsMemory
<1>1. FileInv => FileMirrorsMemory
  BY DEF FileInv
<1> QED
  BY <1>1, FileInvariance, PTL

(* An active workflow leaves the map of a running process only when the     *)
(* orchestrator has forgotten it: no eviction and no purge takes it.        *)
THEOREM ActiveStaysKnown == Spec => ActiveWorkflowKept
<1> DEFINE Kept == \A i \in Instances, w \in Workflows :
                     i \in up' /\ IsActive(memory[i], w) /\ memory'[i][w] = Nil => wfFile[w] = Nil
<1>1. Inv /\ ChainInv /\ FileInv /\ [Next]_vars => [Kept]_vars
  <2> SUFFICES ASSUME Inv, ChainInv, FileInv, Next,
                      NEW i \in Instances, NEW w \in Workflows,
                      i \in up', IsActive(memory[i], w), memory'[i][w] = Nil
               PROVE  wfFile[w] = Nil
    OBVIOUS
  <2>1. i \in up /\ memory \in [Instances -> Store]
    BY DEF FileInv, DownIsEmpty, EmptyStore, IsActive, Inv, StoresInv, StoresOf
  <2>2. CASE StoreStep
    BY <2>1, <2>2 DEF StoreStep, Writes, Spares, IsActive, Inv, ProcessesInv
  <2>3. ASSUME NEW j \in Instances, StartProcess(j) \/ Crash(j) PROVE FALSE
    <3>1. i # j
      BY <2>1, <2>3 DEF StartProcess, Crash
    <3>2. memory'[i] = memory[i]
      BY <2>1, <2>3, <3>1 DEF StartProcess, Crash
    <3> QED
      BY <3>2 DEF IsActive
  <2> QED
    BY <2>2, <2>3, StoreSteps
<1>2. Spec => [][Kept]_vars
  BY <1>1, FileInvariance, PTL DEF Spec
<1> QED
  BY <1>2 DEF ActiveWorkflowKept
=============================================================================

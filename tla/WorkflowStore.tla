----------------------------- MODULE WorkflowStore -----------------------------
(***************************************************************************)
(* packages/core/src/store/workflow-store.ts: the reflection workflows a   *)
(* host process knows, as operators on its map.  The map is kept in memory *)
(* and, after every change, in one file that all host processes share.     *)
(* Results, error texts and times are left out; so the entry that is       *)
(* evicted is any terminal one, not the oldest.                            *)
(***************************************************************************)
EXTENDS Naturals, FiniteSets

CONSTANTS
    Workflows,       \* workflow ids
    Instances,       \* instanceIds: every host process makes its own, once
    MaxSessions,     \* bound: subagent sessions that are ever created
    MaxWorkflows,    \* MAX_WORKFLOWS
    Nil

Sessions == 1..MaxSessions        \* numbered in the order of their creation

Agents == {"R", "C"}              \* Reflector, Checker

Active   == {"running", "chain_pending"}
Terminal == {"completed", "error", "chain_broken", "cancelled"}

Entry == [status   : Active \cup Terminal,
          agent    : Agents,
          session  : Sessions,
          instance : Instances]

ASSUME StoreConstants ==
    /\ MaxSessions \in Nat /\ MaxWorkflows \in Nat \ {0}
    /\ Nil \notin Entry \cup Nat

Store == [Workflows -> Entry \cup {Nil}]

EmptyStore == [w \in Workflows |-> Nil]

Stored(store) == {w \in Workflows : store[w] # Nil}

IsActive(store, w) == store[w] # Nil /\ store[w].status \in Active

IsTerminal(store, w) == store[w] # Nil /\ store[w].status \in Terminal

Marked(store, w, status) == [store EXCEPT ![w] = [store[w] EXCEPT !.status = status]]

(* saveToDisk: an entry that only the file has is another process's and is kept. *)
Merged(store, file, instance) ==
    [w \in Workflows |->
        IF store[w] = Nil /\ file[w] # Nil /\ file[w].instance # instance
        THEN file[w] ELSE store[w]]

EvictAny(store) ==                      \* mutant: any entry may go
    {[store EXCEPT ![w] = Nil] : w \in Stored(store)}

(* evictOldestNonRunning *)
Evictions(store) ==
    {[store EXCEPT ![w] = Nil] : w \in {v \in Workflows : IsTerminal(store, v)}}

(* register: the maps in which there is room for w; none if the store is full. *)
WithRoom(store, w) ==
    IF store[w] # Nil \/ Cardinality(Stored(store)) < MaxWorkflows
    THEN {store} ELSE Evictions(store)

(* reconcileOnStartup, phase 0: terminal entries of more than 7 days are dropped. *)
Purged(store) ==
    {[w \in Workflows |-> IF w \in old THEN Nil ELSE store[w]] :
        old \in SUBSET {v \in Workflows : IsTerminal(store, v)}}

ReconciledAll(store, instance) ==       \* mutant: entries of every process are recovered
    {[w \in Workflows |-> IF IsActive(store, w) THEN Marked(store, w, "completed")[w] ELSE store[w]]}

(* Phases 2 and 3: the process's own entries that a crash left active. *)
Reconciled(store, instance) ==
    LET own(w) == IsActive(store, w) /\ store[w].instance = instance
    IN  {[w \in Workflows |->
            IF ~own(w) THEN store[w]
            ELSE IF store[w].status = "chain_pending"
                 THEN Marked(store, w, "completed")[w]
                 ELSE Marked(store, w, outcome[w])[w]] :
         outcome \in [Workflows -> {"completed", "error"}]}
=============================================================================

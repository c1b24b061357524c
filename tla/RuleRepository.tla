---------------------------- MODULE RuleRepository ----------------------------
(***************************************************************************)
(* The rule repository of the MCP server: aristotle_mcp/_tools_rules.py,   *)
(* _tools_sync.py, _tools_rollback.py and git_ops.py.  A rule is one file  *)
(* whose frontmatter carries its status.  The tools rewrite files, move    *)
(* them between the active and the rejected directory, and record what     *)
(* they did with git; each of these may fail or be cut off on its own.     *)
(*                                                                         *)
(* One tool call at a time, as one server process handles them.  A call    *)
(* does what its first lines do in one step and leaves the rest, file      *)
(* writes and git commands in the order of the code, in todo.              *)
(*                                                                         *)
(* All rules here are of one scope, category and day, so they compete for  *)
(* the same file names; rules of another kind never meet them.  Of the     *)
(* frontmatter the model keeps the rule (its id and text), its status,     *)
(* conflicts_with, and whether yaml.safe_load can read it.  Git itself is  *)
(* external: three trees of files and a stash list.                        *)
(***************************************************************************)
EXTENDS Integers, Sequences, FiniteSets

CONSTANTS
    Rules,       \* the rules that are ever written
    SameIntent,  \* those that declare one and the same domain, task goal and failed skill
    MaxName,     \* bound: file names 1 .. MaxName, in the order write_rule tries them
    Points,      \* names of rollback points
    STASH_HARD_LIMIT,    \* _tools_rollback.py: 10
    STASH_CLEANUP_KEEP,  \* _tools_rollback.py: 3
    Worlds,      \* instances, each with the tools that are called and the failures in it
    None         \* no file, no tree

(* "guard" is a commit under ARISTOTLE_CI or with enable_guard; "reason" a  *)
(* rejection whose reason needs quotes; "verify" a restore as verified;     *)
(* "rejected" means that stage, commit and reject are called on files of    *)
(* the rejected directory as well, which they do not exclude.               *)
Tool == {"stage", "commit", "guard", "reject", "reason", "rejected", "restore", "verify",
         "check", "sync", "sync one", "checkpoint", "rollback", "cleanup"}

(* fragile: rules with a text that YAML reads only in quotes, "Wrong: API". *)
(* failures: bound on git commands that fail and calls that are cut off.    *)
World == [tools : SUBSET Tool, fragile : SUBSET Rules, failures : Nat]

ASSUME RepositoryConstants ==
    /\ SameIntent \subseteq Rules
    /\ MaxName \in Nat
    /\ STASH_HARD_LIMIT \in Nat
    /\ STASH_CLEANUP_KEEP \in Nat
    /\ Worlds \subseteq World

Status == {"pending", "staging", "verified", "rejected", "needs_sync"}

File == [rule : Rules, status : Status, readable : BOOLEAN, conflicts : SUBSET Rules]

Name == 1 .. MaxName
Path == {"active", "rejected"} \X Name

MisspeltPath(p) == <<"reject", p[2]>>     \* mutant: not the directory restore_rule reads

ActivePath(p) == <<"active", p[2]>>
RejectedPath(p) == <<"rejected", p[2]>>
ActivePaths == {p \in Path : p[1] = "active"}

Tree == [Path -> File \cup {None}]

Stash == [point : Points, base : Tree, index : Tree, work : Tree]

Step == [op : {"write", "unlink", "add", "try add", "add all", "commit"},
         path : Path, file : File \cup {None}]

ASSUME NoneAssumption == None \notin File /\ None \notin Tree

VARIABLES
    world,     \* the member of Worlds this behaviour belongs to; never changes
    disk,      \* the working tree
    index,     \* what the next commit will record
    head,      \* the tree of HEAD
    history,   \* rules that some commit holds a file of
    unmerged,  \* paths left in conflict by a stash that was applied
    stashes,   \* rollback stashes, the newest first
    tags,      \* rollback tags: the tree of the tagged commit
    names,     \* the name each rule was written under, 0 before
    todo,      \* what the call in progress has yet to do
    failed     \* failures so far

repository == <<disk, index, head, history, unmerged>>
vars == <<world, disk, index, head, history, unmerged, stashes, tags, names, todo, failed>>

EmptyTree == [p \in Path |-> None]

(* init_repo has run: its commit holds no rule. *)
Init ==
    /\ world \in Worlds
    /\ disk = EmptyTree
    /\ index = EmptyTree
    /\ head = EmptyTree
    /\ history = {}
    /\ unmerged = {}
    /\ stashes = <<>>
    /\ tags = [n \in Points |-> None]
    /\ names = [r \in Rules |-> 0]
    /\ todo = <<>>
    /\ failed = 0

-----------------------------------------------------------------------------
(* Files *)

Quiet == todo = <<>>

Allowed(tool) == Quiet /\ tool \in world.tools

(* The tools take any path of the repository. *)
Reachable(p) == p[1] = "active" \/ "rejected" \in world.tools

Readable(p) == disk[p] # None /\ disk[p].readable

RulesIn(tree) == {tree[p].rule : p \in {q \in Path : tree[q] # None}}

(* stage, commit, reject and restore write "key: value" lines without quotes. *)
Plain(f) == [f EXCEPT !.readable = f.rule \notin world.fragile]

WithStatus(f, status) == Plain([f EXCEPT !.status = status])

(* update_frontmatter_field quotes what it writes, a list like any other    *)
(* value: conflicts_with becomes a string that json.loads does not take, so *)
(* it reads as no conflict from then on.                                    *)
MarkedUnsynced(f) == [f EXCEPT !.status = "needs_sync", !.readable = TRUE, !.conflicts = {}]

Write(p, f) == [op |-> "write", path |-> p, file |-> f]
Unlink(p)   == [op |-> "unlink", path |-> p, file |-> None]

AddAllAndCommit(p) ==           \* mutant: git add -A instead of the path
    <<[op |-> "add all", path |-> p, file |-> None], [op |-> "commit", path |-> p, file |-> None]>>

(* git_add_and_commit: the commit takes whatever else the index holds. *)
AddAndCommit(p) == <<[op |-> "add", path |-> p, file |-> None],
                     [op |-> "commit", path |-> p, file |-> None]>>

-----------------------------------------------------------------------------
(* Tools on rules *)

(* The first free name of the active directory; git is not involved. *)
FreeName(n) ==
    /\ disk[<<"active", n>>] = None
    /\ \A m \in 1 .. n - 1 : disk[<<"active", m>>] # None

WriteRule(r) ==
    /\ Quiet
    /\ names[r] = 0
    /\ \E n \in Name :
          /\ FreeName(n)
          /\ names' = [names EXCEPT ![r] = n]
          /\ disk' = [disk EXCEPT ![<<"active", n>>] =
                [rule |-> r, status |-> "pending", readable |-> TRUE, conflicts |-> {}]]
    /\ UNCHANGED <<world, index, head, history, unmerged, stashes, tags, todo, failed>>

(* Any status becomes staging. *)
StageRule(p) ==
    /\ Allowed("stage")
    /\ Reachable(p)
    /\ Readable(p)
    /\ disk' = [disk EXCEPT ![p] = WithStatus(@, "staging")]
    /\ UNCHANGED <<world, index, head, history, unmerged, stashes, tags, names, todo, failed>>

(* Verified rules with the same domain, task goal and failed skill. *)
Rivals(p) ==
    IF disk[p].rule \notin SameIntent THEN {}
    ELSE {disk[q].rule : q \in {q \in Path \ {p} : /\ Readable(q)
                                                  /\ disk[q].status = "verified"
                                                  /\ disk[q].rule \in SameIntent}}

(* The file found first with the id of the rival, wherever it is. *)
CopyOf(r, p) == Readable(p) /\ disk[p].rule = r

AnnotatedNowhere(copies, source) == disk  \* mutant: the reverse annotation is left out

Annotated(copies, source) ==
    [p \in Path |->
        IF p \in copies /\ source \notin disk[p].conflicts
        THEN Plain([disk[p] EXCEPT !.conflicts = @ \cup {source}])
        ELSE disk[p]]

(* Without the guard a rule of any status is committed.  The annotations of *)
(* the rivals stay in the working tree: only the rule's own path is added.  *)
CommitRule(p) ==
    /\ Allowed("commit")
    /\ Reachable(p)
    /\ Readable(p)
    /\ "guard" \in world.tools => disk[p].status = "staging"
    /\ \E copy \in [Rivals(p) -> Path] :
          /\ \A r \in Rivals(p) : CopyOf(r, copy[r])
          /\ disk' = Annotated({copy[r] : r \in Rivals(p)}, disk[p].rule)
    /\ LET own == [disk[p] EXCEPT !.conflicts = @ \cup Rivals(p)]
       IN todo' = <<Write(p, WithStatus(own, "verified"))>> \o AddAndCommit(p)
    /\ UNCHANGED <<world, index, head, history, unmerged, stashes, tags, names, failed>>

MoveUnlinkFirst(p, q, f) ==     \* mutant: the original is removed before the copy is written
    <<Unlink(p), Write(q, f)>> \o AddAndCommit(q) \o AddAndCommit(p)

(* The copy first, then the original, then both to git, one commit each. *)
Move(p, q, f) == <<Write(q, f), Unlink(p)>> \o AddAndCommit(q) \o AddAndCommit(p)

(* The name is kept, so a rule rejected earlier under it is overwritten. *)
RejectRule(p) ==
    /\ Allowed("reject")
    /\ Reachable(p)
    /\ Readable(p)
    /\ \E f \in {WithStatus(disk[p], "rejected")} \cup
                (IF "reason" \in world.tools
                 THEN {[WithStatus(disk[p], "rejected") EXCEPT !.readable = FALSE]} ELSE {}) :
          todo' = Move(p, RejectedPath(p), f)
    /\ UNCHANGED <<world, disk, index, head, history, unmerged, stashes, tags, names, failed>>

(* So is an active rule that has taken the name meanwhile. *)
RestoreRule(p) ==
    /\ Allowed("restore")
    /\ p[1] = "rejected"
    /\ Readable(p)
    /\ \E status \in {"pending"} \cup (IF "verify" \in world.tools THEN {"verified"} ELSE {}) :
          todo' = Move(p, ActivePath(p), WithStatus(disk[p], status))
    /\ UNCHANGED <<world, disk, index, head, history, unmerged, stashes, tags, names, failed>>

-----------------------------------------------------------------------------
(* Synchronisation *)

(* The status is found by a pattern, so the file need not be readable. *)
Committable(p) == disk[p] # None /\ disk[p].status \in {"verified", "needs_sync"}

UnsyncedInIndex == {p \in ActivePaths : Committable(p) /\ index[p] = None}  \* mutant: git ls-files

(* git_show_exists: whether HEAD has the path, not what it has there. *)
Unsynced == {p \in ActivePaths : Committable(p) /\ head[p] = None}

Marking(paths) == [p \in Path |-> IF p \in paths THEN MarkedUnsynced(disk[p]) ELSE disk[p]]

(* check_sync_status raises at the first file it cannot read; those before  *)
(* it are marked already.                                                   *)
CheckRaises ==
    /\ Quiet
    /\ world.tools \cap {"check", "sync"} # {}
    /\ \E p \in Unsynced : ~Readable(p)
    /\ \E paths \in SUBSET {p \in Unsynced : Readable(p)} : disk' = Marking(paths)
    /\ UNCHANGED <<world, index, head, history, unmerged, stashes, tags, names, todo, failed>>

CheckSyncStatus ==
    /\ Allowed("check")
    /\ Unsynced # {}
    /\ \A p \in Unsynced : Readable(p)
    /\ disk' = Marking(Unsynced)
    /\ UNCHANGED <<world, index, head, history, unmerged, stashes, tags, names, todo, failed>>

(* All of the working tree goes into the commit.  The status is meant to go *)
(* back to verified afterwards, but update_frontmatter_field is handed a    *)
(* string, which has no is_absolute, and its exception is swallowed.        *)
SyncRules ==
    /\ Allowed("sync")
    /\ Unsynced # {}
    /\ \A p \in Unsynced : Readable(p)
    /\ disk' = Marking(Unsynced)
    /\ \E p \in Unsynced :
          todo' = <<[op |-> "add all", path |-> p, file |-> None],
                    [op |-> "commit", path |-> p, file |-> None]>>
    /\ UNCHANGED <<world, index, head, history, unmerged, stashes, tags, names, failed>>

(* With file_paths any file of the repository is taken, in any status. *)
SyncFile(p) ==
    /\ Allowed("sync one")
    /\ disk[p] # None
    /\ todo' = <<[op |-> "try add", path |-> p, file |-> None],
                 [op |-> "commit", path |-> p, file |-> None]>>
    /\ UNCHANGED <<world, disk, index, head, history, unmerged, stashes, tags, names, failed>>

-----------------------------------------------------------------------------
(* Rollback points *)

Clean == disk = index /\ index = head

(* Also called whenever a phase is entered.  git stash push takes what is   *)
(* not committed, untracked files included, out of the working tree; with   *)
(* nothing to take a tag marks HEAD instead.                                *)
CreateRollbackPoint(n) ==
    /\ Allowed("checkpoint")
    /\ Len(stashes) < STASH_HARD_LIMIT
    /\ unmerged = {}
    /\ IF Clean
       THEN tags' = [tags EXCEPT ![n] = head] /\ UNCHANGED stashes
       ELSE /\ stashes' = <<[point |-> n, base |-> head, index |-> index, work |-> disk]>>
                              \o stashes
            /\ UNCHANGED tags
    /\ disk' = head
    /\ index' = head
    /\ UNCHANGED <<world, head, history, unmerged, names, todo, failed>>

TrackedIfInTree(s, p) == s.work[p] # None   \* mutant: deleted files are not restored

Tracked(s, p) == s.base[p] # None \/ s.index[p] # None

(* Paths the stash changed, files it brings that git did not know, and of   *)
(* the former those that were committed differently meanwhile.              *)
Changed(s)   == {p \in Path : Tracked(s, p) /\ s.work[p] # s.base[p] /\ s.work[p] # index[p]}
Untracked(s) == {p \in Path : ~Tracked(s, p) /\ s.work[p] # None}
Clashing(s)  == {p \in Changed(s) : index[p] # s.base[p]}

(* A file that both sides changed is left with conflict markers in it. *)
Conflicted(ours, theirs) ==
    IF ours = None THEN theirs
    ELSE IF theirs = None THEN ours
    ELSE [ours EXCEPT !.readable = FALSE]

(* git stash apply refuses to touch files with changes of their own. *)
Applicable(s) == unmerged = {} /\ \A p \in Changed(s) : disk[p] = index[p]

(* Files that the stash adds stay in the index; otherwise only a conflict   *)
(* leaves the other changes there too.  An untracked file in the way of one *)
(* of the stash stays, and the call reports an error.                       *)
Apply(s) ==
    /\ disk' = [p \in Path |->
                  IF p \in Clashing(s) THEN Conflicted(index[p], s.work[p])
                  ELSE IF p \in Changed(s) \/ (p \in Untracked(s) /\ disk[p] = None) THEN s.work[p]
                  ELSE disk[p]]
    /\ index' = [p \in Path |->
                  IF p \in Changed(s) \ Clashing(s) /\ (index[p] = None \/ Clashing(s) # {})
                  THEN s.work[p] ELSE index[p]]
    /\ unmerged' = Clashing(s)

(* The newest stash of that name counts, also when a tag is newer. *)
IsNewest(i, n) ==
    /\ stashes[i].point = n
    /\ \A j \in 1 .. i - 1 : stashes[j].point # n

(* git checkout of the tag over the tree, then git clean of untracked files. *)
BackToTag(tree) ==
    LET restored == [p \in Path |-> IF tree[p] # None THEN tree[p] ELSE index[p]]
    IN /\ index' = restored
       /\ disk' = [p \in Path |-> IF tree[p] # None THEN tree[p]
                                  ELSE IF index[p] = None THEN None ELSE disk[p]]
       /\ unmerged' = {p \in unmerged : tree[p] = None}

RollbackToStash(n) ==
    /\ Allowed("rollback")
    /\ \E i \in DOMAIN stashes :
          /\ IsNewest(i, n)
          /\ Applicable(stashes[i])
          /\ Apply(stashes[i])
    /\ UNCHANGED <<world, head, history, stashes, tags, names, todo, failed>>

RollbackToTag(n) ==
    /\ Allowed("rollback")
    /\ \A i \in DOMAIN stashes : stashes[i].point # n
    /\ tags[n] # None
    /\ BackToTag(tags[n])
    /\ UNCHANGED <<world, head, history, stashes, tags, names, todo, failed>>

CleanupRollbackStashes ==
    /\ Allowed("cleanup")
    /\ Len(stashes) > STASH_CLEANUP_KEEP
    /\ stashes' = SubSeq(stashes, 1, STASH_CLEANUP_KEEP)
    /\ UNCHANGED <<world, disk, index, head, history, unmerged, tags, names, todo, failed>>

-----------------------------------------------------------------------------
(* The rest of a call *)

Next1 == Head(todo)

At(op) == todo # <<>> /\ Next1.op = op

Rest == SubSeq(todo, 2, Len(todo))

(* When git add fails, git_add_and_commit returns without the commit. *)
AfterFailedAdd == SubSeq(todo, 3, Len(todo))

FileIsWritten ==
    /\ At("write")
    /\ disk' = [disk EXCEPT ![Next1.path] = Next1.file]
    /\ todo' = Rest
    /\ UNCHANGED <<world, index, head, history, unmerged, stashes, tags, names, failed>>

FileIsUnlinked ==
    /\ At("unlink")
    /\ disk' = [disk EXCEPT ![Next1.path] = None]
    /\ todo' = Rest
    /\ UNCHANGED <<world, index, head, history, unmerged, stashes, tags, names, failed>>

(* git add of a path that neither the tree nor the index has is an error. *)
PathIsAdded ==
    /\ At("add") \/ At("try add")
    /\ LET p == Next1.path
       IN IF disk[p] = None /\ index[p] = None
          THEN /\ todo' = (IF Next1.op = "add" THEN AfterFailedAdd ELSE Rest)
               /\ UNCHANGED <<index, unmerged>>
          ELSE /\ index' = [index EXCEPT ![p] = disk[p]]
               /\ unmerged' = unmerged \ {p}
               /\ todo' = Rest
    /\ UNCHANGED <<world, disk, head, history, stashes, tags, names, failed>>

AllIsAdded ==
    /\ At("add all")
    /\ index' = disk
    /\ unmerged' = {}
    /\ todo' = Rest
    /\ UNCHANGED <<world, disk, head, history, stashes, tags, names, failed>>

(* git refuses to commit while paths are unmerged. *)
IndexIsCommitted ==
    /\ At("commit")
    /\ IF unmerged = {}
       THEN head' = index /\ history' = history \cup RulesIn(index)
       ELSE UNCHANGED <<head, history>>
    /\ todo' = Rest
    /\ UNCHANGED <<world, disk, index, unmerged, stashes, tags, names, failed>>

(* A lock file, a full disk, a hook: git returns an error, and the tool     *)
(* goes on with what follows.                                               *)
GitFails ==
    /\ failed < world.failures
    /\ At("add") \/ At("try add") \/ At("add all") \/ At("commit")
    /\ failed' = failed + 1
    /\ todo' = (IF Next1.op = "add" THEN AfterFailedAdd ELSE Rest)
    /\ UNCHANGED <<world, stashes, tags, names>> /\ UNCHANGED repository

(* The server process dies in the middle of a call. *)
Dies ==
    /\ failed < world.failures
    /\ todo # <<>>
    /\ failed' = failed + 1
    /\ todo' = <<>>
    /\ UNCHANGED <<world, stashes, tags, names>> /\ UNCHANGED repository

-----------------------------------------------------------------------------
Goes ==
    FileIsWritten \/ FileIsUnlinked \/ PathIsAdded \/ AllIsAdded \/ IndexIsCommitted
        \/ GitFails \/ Dies

Next ==
    \/ \E r \in Rules : WriteRule(r)
    \/ \E p \in Path : StageRule(p) \/ CommitRule(p) \/ RejectRule(p) \/ RestoreRule(p) \/ SyncFile(p)
    \/ CheckRaises \/ CheckSyncStatus \/ SyncRules
    \/ \E n \in Points : CreateRollbackPoint(n) \/ RollbackToStash(n) \/ RollbackToTag(n)
    \/ CleanupRollbackStashes
    \/ Goes

Spec == Init /\ [][Next]_vars
=============================================================================

-------------------------- MODULE RuleRepository_proofs --------------------------
(***************************************************************************)
(* Proofs about RuleRepository: type correctness, that only reviewed rules *)
(* are committed, that a rollback restores every file, that no rule        *)
(* vanishes, that check_sync_status sees what is not committed, and that   *)
(* conflicts are declared in both directions.                              *)
(*                                                                         *)
(* A commit takes the whole index, so the invariant for the second is      *)
(* about the index and what the calls have yet to add to it: a path whose  *)
(* file was reviewed, or that the call writes or removes first.  That for  *)
(* the fourth says that what a call has yet to remove was written to       *)
(* another path, or is about to be.  That for the fifth says that before   *)
(* the first failure git knows of every active file what the working tree  *)
(* has, or the call in progress is about to tell it.  That for the last    *)
(* says that a rule has at most one file besides its active one, that an   *)
(* annotation which missed the active file reached that one, and that no   *)
(* call removes it while it matters.                                       *)
(***************************************************************************)
EXTENDS RuleProperties, SequenceTheorems, TLAPS

-----------------------------------------------------------------------------
(* Files and trees *)

LEMMA NoneIsNoFile == None \notin File /\ None \notin Tree
BY NoneAssumption

LEMMA PathsOfNames ==
    ASSUME NEW p \in Path
    PROVE  /\ p[1] \in {"active", "rejected"} /\ p[2] \in Name
           /\ ActivePath(p) \in Path /\ RejectedPath(p) \in Path
BY DEF Path, ActivePath, RejectedPath

LEMMA FileUpdates ==
    ASSUME NEW f \in File
    PROVE  /\ f.rule \in Rules /\ f.conflicts \in SUBSET Rules /\ f.status \in Status
           /\ Plain(f) \in File /\ Plain(f).status = f.status
           /\ MarkedUnsynced(f) \in File
           /\ \A s \in Status : WithStatus(f, s) \in File /\ WithStatus(f, s).status = s
           /\ \A c \in SUBSET Rules : /\ [f EXCEPT !.conflicts = c] \in File
                                      /\ [f EXCEPT !.conflicts = c].status = f.status
           /\ \A b \in BOOLEAN : /\ [f EXCEPT !.readable = b] \in File
                                 /\ [f EXCEPT !.readable = b].status = f.status
<1>1. f.rule \in Rules /\ f.conflicts \in SUBSET Rules /\ f.status \in Status
  BY DEF File
<1>2. \A b \in BOOLEAN : [f EXCEPT !.readable = b] \in File /\ [f EXCEPT !.readable = b].status = f.status
  BY DEF File
<1>3. \A c \in SUBSET Rules : [f EXCEPT !.conflicts = c] \in File /\ [f EXCEPT !.conflicts = c].status = f.status
  BY DEF File
<1>4. Plain(f) \in File /\ Plain(f).status = f.status
  BY DEF File, Plain
<1>5. MarkedUnsynced(f) \in File
  BY DEF File, MarkedUnsynced, Status
<1>6. ASSUME NEW s \in Status
      PROVE  WithStatus(f, s) \in File /\ WithStatus(f, s).status = s
  BY DEF File, Plain, WithStatus
<1> QED BY <1>1, <1>2, <1>3, <1>4, <1>5, <1>6

LEMMA TreeFiles ==
    ASSUME NEW tree \in Tree, NEW p \in Path, tree[p] # None
    PROVE  tree[p] \in File
BY DEF Tree

LEMMA TreeUpdate ==
    ASSUME NEW tree \in Tree, NEW p \in Path, NEW f \in File \cup {None}
    PROVE  [tree EXCEPT ![p] = f] \in Tree
BY DEF Tree

LEMMA RulesInTree ==
    ASSUME NEW tree \in Tree
    PROVE  RulesIn(tree) \subseteq Rules
BY TreeFiles, FileUpdates DEF RulesIn

-----------------------------------------------------------------------------
(* What is left of a call *)

LEMMA StepTypes ==
    ASSUME NEW p \in Path
    PROVE  /\ \A f \in File : Write(p, f) \in Step
           /\ Unlink(p) \in Step
           /\ \A op \in {"add", "try add", "add all", "commit"} : [op |-> op, path |-> p, file |-> None] \in Step
           /\ AddAndCommit(p) \in Seq(Step)
BY DEF Write, Unlink, Step, AddAndCommit

AddStep(p) == [op |-> "add", path |-> p, file |-> None]
CommitStep(p) == [op |-> "commit", path |-> p, file |-> None]

LEMMA TwoSteps ==
    ASSUME NEW a \in Step, NEW b \in Step
    PROVE  /\ <<a, b>> \in Seq(Step)
           /\ DOMAIN <<a, b>> = {1, 2} /\ <<a, b>>[1] = a /\ <<a, b>>[2] = b
OBVIOUS

LEMMA AddAndCommitSteps ==
    ASSUME NEW p \in Path
    PROVE  /\ AddAndCommit(p) \in Seq(Step) /\ Len(AddAndCommit(p)) = 2
           /\ AddAndCommit(p)[1] = AddStep(p) /\ AddAndCommit(p)[2] = CommitStep(p)
BY StepTypes DEF AddAndCommit, AddStep, CommitStep

LEMMA StepsConcat ==
    ASSUME NEW s \in Seq(Step), NEW u \in Seq(Step)
    PROVE  /\ s \o u \in Seq(Step)
           /\ Len(s \o u) = Len(s) + Len(u)
           /\ DOMAIN (s \o u) = 1 .. Len(s) + Len(u)
           /\ \A i \in 1 .. Len(s) + Len(u) : (s \o u)[i] = IF i <= Len(s) THEN s[i] ELSE u[i - Len(s)]
<1>1. s \o u \in Seq(Step) /\ Len(s \o u) = Len(s) + Len(u)
  BY ConcatProperties
<1>2. \A i \in 1 .. Len(s) + Len(u) : (s \o u)[i] = IF i <= Len(s) THEN s[i] ELSE u[i - Len(s)]
  BY ConcatProperties
<1>3. DOMAIN (s \o u) = 1 .. Len(s \o u)
  BY <1>1, LenProperties
<1> QED BY <1>1, <1>2, <1>3

LEMMA CommitSteps ==
    ASSUME NEW p \in Path, NEW f \in File
    PROVE  LET steps == <<Write(p, f)>> \o AddAndCommit(p) IN
           /\ steps \in Seq(Step)
           /\ DOMAIN steps = {1, 2, 3}
           /\ steps[1] = Write(p, f) /\ steps[2] = AddStep(p) /\ steps[3] = CommitStep(p)
<1> DEFINE s == <<Write(p, f)>>
           u == AddAndCommit(p)
<1>1. Write(p, f) \in Step /\ u \in Seq(Step) /\ Len(u) = 2 /\ u[1] = AddStep(p) /\ u[2] = CommitStep(p)
  BY StepTypes, AddAndCommitSteps
<1>2. s \in Seq(Step) /\ Len(s) = 1 /\ s[1] = Write(p, f)
  BY <1>1
<1> HIDE DEF s, u
<1>3. /\ s \o u \in Seq(Step) /\ DOMAIN (s \o u) = 1 .. 3
      /\ \A i \in 1 .. 3 : (s \o u)[i] = IF i <= 1 THEN s[i] ELSE u[i - 1]
  <2>1. /\ s \o u \in Seq(Step)
        /\ DOMAIN (s \o u) = 1 .. Len(s) + Len(u)
        /\ \A i \in 1 .. Len(s) + Len(u) : (s \o u)[i] = IF i <= Len(s) THEN s[i] ELSE u[i - Len(s)]
    BY <1>1, <1>2, StepsConcat
  <2>2. Len(s) = 1 /\ Len(s) + Len(u) = 3
    BY <1>1, <1>2
  <2> QED BY <2>1, <2>2
<1>4. 1 .. 3 = {1, 2, 3}
  OBVIOUS
<1> QED BY <1>1, <1>2, <1>3, <1>4 DEF s, u

LEMMA MoveSteps ==
    ASSUME NEW p \in Path, NEW q \in Path, NEW f \in File
    PROVE  LET steps == Move(p, q, f) IN
           /\ steps \in Seq(Step)
           /\ DOMAIN steps = 1 .. 6
           /\ steps[1] = Write(q, f) /\ steps[2] = Unlink(p)
           /\ steps[3] = AddStep(q) /\ steps[4] = CommitStep(q)
           /\ steps[5] = AddStep(p) /\ steps[6] = CommitStep(p)
<1> DEFINE s == <<Write(q, f), Unlink(p)>>
           u == AddAndCommit(q)
           v == AddAndCommit(p)
<1>1. Write(q, f) \in Step /\ Unlink(p) \in Step
  BY StepTypes
<1>2. s \in Seq(Step) /\ Len(s) = 2 /\ s[1] = Write(q, f) /\ s[2] = Unlink(p)
  BY <1>1
<1>3. u \in Seq(Step) /\ Len(u) = 2 /\ u[1] = AddStep(q) /\ u[2] = CommitStep(q)
  BY AddAndCommitSteps
<1>4. v \in Seq(Step) /\ Len(v) = 2 /\ v[1] = AddStep(p) /\ v[2] = CommitStep(p)
  BY AddAndCommitSteps
<1>5. Move(p, q, f) = (s \o u) \o v
  BY DEF Move
<1> HIDE DEF s, u, v
<1>6. /\ s \o u \in Seq(Step) /\ Len(s \o u) = 4
      /\ \A i \in 1 .. 4 : (s \o u)[i] = IF i <= 2 THEN s[i] ELSE u[i - 2]
  <2>1. /\ s \o u \in Seq(Step)
        /\ Len(s \o u) = Len(s) + Len(u)
        /\ \A i \in 1 .. Len(s) + Len(u) : (s \o u)[i] = IF i <= Len(s) THEN s[i] ELSE u[i - Len(s)]
    BY <1>2, <1>3, StepsConcat
  <2>2. Len(s) = 2 /\ Len(s) + Len(u) = 4
    BY <1>2, <1>3
  <2> QED BY <2>1, <2>2
<1> DEFINE t == s \o u
<1> HIDE DEF t
<1>7. /\ t \o v \in Seq(Step) /\ DOMAIN (t \o v) = 1 .. 6
      /\ \A i \in 1 .. 6 : (t \o v)[i] = IF i <= 4 THEN t[i] ELSE v[i - 4]
  <2>1. t \in Seq(Step) /\ Len(t) = 4 /\ Len(t) + Len(v) = 6
    BY <1>4, <1>6 DEF t
  <2>2. /\ t \o v \in Seq(Step)
        /\ DOMAIN (t \o v) = 1 .. Len(t) + Len(v)
        /\ \A i \in 1 .. Len(t) + Len(v) : (t \o v)[i] = IF i <= Len(t) THEN t[i] ELSE v[i - Len(t)]
    BY <1>4, <2>1, StepsConcat
  <2> QED BY <2>1, <2>2
<1> QED BY <1>2, <1>3, <1>4, <1>5, <1>6, <1>7 DEF t

LEMMA Remaining ==
    ASSUME TypeOK, todo # <<>>
    PROVE  /\ Next1 \in Step /\ Next1 = todo[1]
           /\ Len(todo) \in Nat \ {0} /\ DOMAIN todo = 1 .. Len(todo)
           /\ Rest \in Seq(Step) /\ AfterFailedAdd \in Seq(Step)
           /\ DOMAIN Rest = 1 .. Len(todo) - 1
           /\ \A i \in DOMAIN Rest : Rest[i] = todo[i + 1]
           /\ DOMAIN AfterFailedAdd = 1 .. Len(todo) - 2
           /\ \A i \in DOMAIN AfterFailedAdd : AfterFailedAdd[i] = todo[i + 2]
<1>1. todo \in Seq(Step) /\ Len(todo) \in Nat \ {0} /\ DOMAIN todo = 1 .. Len(todo)
  BY LenProperties, EmptySeq DEF TypeOK
<1>2. \A i \in 1 .. Len(todo) : todo[i] \in Step
  BY <1>1, ElementOfSeq
<1>3. Next1 = todo[1] /\ Next1 \in Step
  BY <1>1, <1>2, HeadTailProperties DEF Next1
<1>4. /\ Rest \in Seq(Step)
      /\ DOMAIN Rest = 1 .. Len(todo) - 1
      /\ \A i \in DOMAIN Rest : Rest[i] = todo[i + 1]
  BY <1>1, <1>2, SubSeqProperties, LenProperties DEF Rest
<1>5. /\ AfterFailedAdd \in Seq(Step)
      /\ DOMAIN AfterFailedAdd = 1 .. Len(todo) - 2
      /\ \A i \in DOMAIN AfterFailedAdd : AfterFailedAdd[i] = todo[i + 2]
  BY <1>1, <1>2, SubSeqProperties, LenProperties DEF AfterFailedAdd
<1> QED BY <1>1, <1>3, <1>4, <1>5

-----------------------------------------------------------------------------
(* Type correctness *)

LEMMA WriteRuleType ==
    ASSUME TypeOK, NEW r \in Rules, WriteRule(r)
    PROVE  TypeOK'
<1>1. PICK n \in Name :
         /\ names' = [names EXCEPT ![r] = n]
         /\ disk' = [disk EXCEPT ![<<"active", n>>] =
                [rule |-> r, status |-> "pending", readable |-> TRUE, conflicts |-> {}]]
  BY DEF WriteRule
<1>2. <<"active", n>> \in Path /\ n \in 0 .. MaxName
  BY RepositoryConstants DEF Path, Name
<1>3. [rule |-> r, status |-> "pending", readable |-> TRUE, conflicts |-> {}] \in File
  BY DEF File, Status
<1>4. disk' \in Tree
  BY <1>1, <1>2, <1>3, TreeUpdate DEF TypeOK
<1>5. names' \in [Rules -> 0 .. MaxName]
  BY <1>1, <1>2 DEF TypeOK
<1> QED BY <1>4, <1>5 DEF WriteRule, TypeOK

LEMMA StageRuleType ==
    ASSUME TypeOK, NEW p \in Path, StageRule(p)
    PROVE  TypeOK'
<1>1. disk[p] \in File /\ "staging" \in Status
  BY TreeFiles DEF StageRule, Readable, TypeOK, Status
<1>2. disk' \in Tree
  BY <1>1, FileUpdates, TreeUpdate DEF StageRule, TypeOK
<1> QED BY <1>2 DEF StageRule, TypeOK

LEMMA RivalRules ==
    ASSUME TypeOK, NEW p \in Path
    PROVE  Rivals(p) \subseteq Rules
BY TreeFiles, FileUpdates DEF Rivals, Readable, TypeOK

LEMMA AnnotatedTree ==
    ASSUME TypeOK, NEW copies, NEW source \in Rules, \A q \in copies : q \in Path /\ disk[q] # None
    PROVE  Annotated(copies, source) \in Tree
<1>1. ASSUME NEW q \in Path, q \in copies
      PROVE  Plain([disk[q] EXCEPT !.conflicts = @ \cup {source}]) \in File
  <2>1. disk[q] \in File
    BY <1>1, TreeFiles DEF TypeOK
  <2>2. disk[q].conflicts \cup {source} \in SUBSET Rules
    BY <2>1, FileUpdates
  <2>3. [disk[q] EXCEPT !.conflicts = disk[q].conflicts \cup {source}] \in File
    BY <2>1, <2>2, FileUpdates
  <2> QED BY <2>3, FileUpdates
<1>2. \A q \in Path : disk[q] \in File \cup {None}
  BY DEF TypeOK, Tree
<1> QED BY <1>1, <1>2 DEF Annotated, Tree

LEMMA CommitRuleType ==
    ASSUME TypeOK, NEW p \in Path, CommitRule(p)
    PROVE  TypeOK'
<1>1. disk[p] \in File /\ disk[p].rule \in Rules
  BY TreeFiles, FileUpdates DEF CommitRule, Readable, TypeOK
<1>2. PICK copy \in [Rivals(p) -> Path] :
         /\ \A r \in Rivals(p) : CopyOf(r, copy[r])
         /\ disk' = Annotated({copy[r] : r \in Rivals(p)}, disk[p].rule)
  BY DEF CommitRule
<1>3. disk' \in Tree
  BY <1>1, <1>2, AnnotatedTree DEF CopyOf, Readable
<1> DEFINE own == [disk[p] EXCEPT !.conflicts = @ \cup Rivals(p)]
<1>4. own \in File
  <2>1. disk[p].conflicts \cup Rivals(p) \in SUBSET Rules
    BY <1>1, FileUpdates, RivalRules
  <2> QED BY <1>1, <2>1, FileUpdates
<1>5. WithStatus(own, "verified") \in File
  BY <1>4, FileUpdates DEF Status
<1>6. todo' = <<Write(p, WithStatus(own, "verified"))>> \o AddAndCommit(p)
  BY DEF CommitRule
<1> HIDE DEF own
<1>7. todo' \in Seq(Step)
  BY <1>5, <1>6, CommitSteps
<1> QED BY <1>3, <1>7 DEF CommitRule, TypeOK

LEMMA RejectRuleType ==
    ASSUME TypeOK, NEW p \in Path, RejectRule(p)
    PROVE  TypeOK'
<1>1. disk[p] \in File /\ "rejected" \in Status /\ RejectedPath(p) \in Path
  BY TreeFiles, PathsOfNames DEF RejectRule, Readable, TypeOK, Status
<1>2. PICK f : /\ f = WithStatus(disk[p], "rejected") \/ f = [WithStatus(disk[p], "rejected") EXCEPT !.readable = FALSE]
               /\ todo' = Move(p, RejectedPath(p), f)
  BY DEF RejectRule
<1>3. f \in File
  <2>1. WithStatus(disk[p], "rejected") \in File
    BY <1>1, FileUpdates
  <2> QED BY <1>2, <2>1, FileUpdates
<1>4. todo' \in Seq(Step)
  BY <1>1, <1>2, <1>3, MoveSteps
<1> QED BY <1>4 DEF RejectRule, TypeOK

LEMMA RestoreRuleType ==
    ASSUME TypeOK, NEW p \in Path, RestoreRule(p)
    PROVE  TypeOK'
<1>1. disk[p] \in File /\ ActivePath(p) \in Path
  BY TreeFiles, PathsOfNames DEF RestoreRule, Readable, TypeOK
<1>2. PICK status \in {"pending", "verified"} : todo' = Move(p, ActivePath(p), WithStatus(disk[p], status))
  BY DEF RestoreRule
<1>3. WithStatus(disk[p], status) \in File
  BY <1>1, FileUpdates DEF Status
<1> DEFINE f == WithStatus(disk[p], status)
<1> HIDE DEF f
<1>4. todo' \in Seq(Step)
  BY <1>1, <1>2, <1>3, MoveSteps DEF f
<1> QED BY <1>4 DEF RestoreRule, TypeOK

LEMMA SyncFileType ==
    ASSUME TypeOK, NEW p \in Path, SyncFile(p)
    PROVE  TypeOK'
<1>1. /\ [op |-> "try add", path |-> p, file |-> None] \in Step
      /\ [op |-> "commit", path |-> p, file |-> None] \in Step
  BY StepTypes
<1>2. todo' \in Seq(Step)
  BY <1>1, TwoSteps DEF SyncFile
<1> QED BY <1>2 DEF SyncFile, TypeOK

LEMMA MarkingTree ==
    ASSUME TypeOK, NEW paths, \A p \in paths : disk[p] # None
    PROVE  Marking(paths) \in Tree
<1>1. \A p \in Path : disk[p] \in File \cup {None}
  BY DEF TypeOK, Tree
<1>2. \A p \in Path : p \in paths => MarkedUnsynced(disk[p]) \in File
  BY <1>1, FileUpdates
<1> QED BY <1>1, <1>2 DEF Marking, Tree

LEMMA SynchronisationType ==
    ASSUME TypeOK, CheckRaises \/ CheckSyncStatus \/ SyncRules
    PROVE  TypeOK'
<1>1. \A p \in Unsynced : p \in Path /\ disk[p] # None
  BY DEF Unsynced, Committable, ActivePaths
<1>2. CASE CheckRaises
  <2>1. PICK paths \in SUBSET {p \in Unsynced : Readable(p)} : disk' = Marking(paths)
    BY <1>2 DEF CheckRaises
  <2>2. disk' \in Tree
    BY <1>1, <2>1, MarkingTree
  <2> QED BY <1>2, <2>2 DEF CheckRaises, TypeOK
<1>3. CASE CheckSyncStatus
  <2>1. disk' \in Tree
    BY <1>1, <1>3, MarkingTree DEF CheckSyncStatus
  <2> QED BY <1>3, <2>1 DEF CheckSyncStatus, TypeOK
<1>4. CASE SyncRules
  <2>1. disk' \in Tree
    BY <1>1, <1>4, MarkingTree DEF SyncRules
  <2>2. PICK p \in Unsynced : todo' = <<[op |-> "add all", path |-> p, file |-> None],
                                       [op |-> "commit", path |-> p, file |-> None]>>
    BY <1>4 DEF SyncRules
  <2>3. /\ [op |-> "add all", path |-> p, file |-> None] \in Step
        /\ [op |-> "commit", path |-> p, file |-> None] \in Step
    BY <1>1, StepTypes
  <2>4. todo' \in Seq(Step)
    BY <2>2, <2>3, TwoSteps
  <2> QED BY <1>4, <2>1, <2>4 DEF SyncRules, TypeOK
<1> QED BY <1>2, <1>3, <1>4

LEMMA CreateRollbackPointType ==
    ASSUME TypeOK, NEW n \in Points, CreateRollbackPoint(n)
    PROVE  TypeOK'
<1>1. disk' = head /\ index' = head /\ head \in Tree
  BY DEF CreateRollbackPoint, TypeOK
<1>2. CASE Clean
  <2>1. tags' \in [Points -> Tree \cup {None}]
    BY <1>1, <1>2 DEF CreateRollbackPoint, TypeOK
  <2> QED BY <1>1, <1>2, <2>1 DEF CreateRollbackPoint, TypeOK
<1>3. CASE ~Clean
  <2> DEFINE stash == [point |-> n, base |-> head, index |-> index, work |-> disk]
  <2>1. stash \in Stash
    BY DEF Stash, TypeOK
  <2>2. <<stash>> \in Seq(Stash) /\ stashes \in Seq(Stash)
    BY <2>1 DEF TypeOK
  <2>3. stashes' = <<stash>> \o stashes
    BY <1>3 DEF CreateRollbackPoint
  <2>4. stashes' \in Seq(Stash)
    BY <2>2, <2>3, ConcatProperties
  <2> QED BY <1>1, <1>3, <2>4 DEF CreateRollbackPoint, TypeOK
<1> QED BY <1>2, <1>3

LEMMA ConflictedFile ==
    ASSUME NEW ours \in File \cup {None}, NEW theirs \in File \cup {None}
    PROVE  Conflicted(ours, theirs) \in File \cup {None}
BY FileUpdates DEF Conflicted

LEMMA RollbackToStashType ==
    ASSUME TypeOK, NEW n \in Points, RollbackToStash(n)
    PROVE  TypeOK'
<1>1. PICK i \in DOMAIN stashes : Apply(stashes[i])
  BY DEF RollbackToStash
<1> DEFINE s == stashes[i]
<1>2. s \in Stash
  BY ElementOfSeq, LenProperties DEF TypeOK
<1>3. s.work \in Tree /\ disk \in Tree /\ index \in Tree
  BY <1>2 DEF Stash, TypeOK
<1> HIDE DEF s
<1>4. \A p \in Path : /\ s.work[p] \in File \cup {None}
                      /\ disk[p] \in File \cup {None}
                      /\ index[p] \in File \cup {None}
  BY <1>3 DEF Tree
<1>5. \A p \in Path : Conflicted(index[p], s.work[p]) \in File \cup {None}
  BY <1>4, ConflictedFile
<1>6. /\ disk' = [p \in Path |->
                    IF p \in Clashing(s) THEN Conflicted(index[p], s.work[p])
                    ELSE IF p \in Changed(s) \/ (p \in Untracked(s) /\ disk[p] = None) THEN s.work[p]
                    ELSE disk[p]]
      /\ index' = [p \in Path |->
                    IF p \in Changed(s) \ Clashing(s) /\ (index[p] = None \/ Clashing(s) # {})
                    THEN s.work[p] ELSE index[p]]
      /\ unmerged' = Clashing(s)
  BY <1>1 DEF Apply, s
<1>7. disk' \in Tree
  BY <1>4, <1>5, <1>6 DEF Tree
<1>8. index' \in Tree
  BY <1>4, <1>6 DEF Tree
<1>9. unmerged' \subseteq Path
  BY <1>6 DEF Clashing, Changed
<1> QED BY <1>7, <1>8, <1>9 DEF RollbackToStash, TypeOK

LEMMA RollbackToTagType ==
    ASSUME TypeOK, NEW n \in Points, RollbackToTag(n)
    PROVE  TypeOK'
<1> DEFINE tree == tags[n]
<1>1. tree \in Tree /\ disk \in Tree /\ index \in Tree
  BY DEF RollbackToTag, TypeOK
<1>2. \A p \in Path : /\ tree[p] \in File \cup {None}
                      /\ disk[p] \in File \cup {None}
                      /\ index[p] \in File \cup {None}
  BY <1>1 DEF Tree
<1>3. /\ index' = [p \in Path |-> IF tree[p] # None THEN tree[p] ELSE index[p]]
      /\ disk' = [p \in Path |-> IF tree[p] # None THEN tree[p]
                                 ELSE IF index[p] = None THEN None ELSE disk[p]]
      /\ unmerged' = {p \in unmerged : tree[p] = None}
  BY DEF RollbackToTag, BackToTag
<1> HIDE DEF tree
<1>4. index' \in Tree /\ disk' \in Tree
  BY <1>2, <1>3 DEF Tree
<1>5. unmerged' \subseteq Path
  BY <1>3 DEF TypeOK
<1> QED BY <1>4, <1>5 DEF RollbackToTag, TypeOK

LEMMA CleanupType ==
    ASSUME TypeOK, CleanupRollbackStashes
    PROVE  TypeOK'
<1>1. stashes \in Seq(Stash) /\ Len(stashes) \in Nat /\ STASH_CLEANUP_KEEP \in Nat
  BY LenProperties, RepositoryConstants DEF TypeOK
<1>2. \A i \in 1 .. STASH_CLEANUP_KEEP : stashes[i] \in Stash
  BY <1>1, ElementOfSeq DEF CleanupRollbackStashes
<1>3. stashes' \in Seq(Stash)
  BY <1>1, <1>2, SubSeqProperties DEF CleanupRollbackStashes
<1> QED BY <1>3 DEF CleanupRollbackStashes, TypeOK

LEMMA GoesType ==
    ASSUME TypeOK, Goes
    PROVE  TypeOK'
<1>1. todo # <<>>
  BY DEF Goes, FileIsWritten, FileIsUnlinked, PathIsAdded, AllIsAdded, IndexIsCommitted, GitFails, Dies, At
<1>2. /\ Next1.path \in Path /\ Next1.file \in File \cup {None}
      /\ Rest \in Seq(Step) /\ AfterFailedAdd \in Seq(Step)
  BY <1>1, Remaining DEF Step
<1>3. CASE FileIsWritten
  <2>1. disk' \in Tree
    BY <1>2, <1>3, TreeUpdate DEF FileIsWritten, TypeOK
  <2> QED BY <1>2, <1>3, <2>1 DEF FileIsWritten, TypeOK
<1>4. CASE FileIsUnlinked
  <2>1. disk' \in Tree
    BY <1>2, <1>4, TreeUpdate DEF FileIsUnlinked, TypeOK
  <2> QED BY <1>2, <1>4, <2>1 DEF FileIsUnlinked, TypeOK
<1>5. CASE PathIsAdded
  <2>1. disk[Next1.path] \in File \cup {None}
    BY <1>2 DEF TypeOK, Tree
  <2>2. index' \in Tree
    <3>1. [index EXCEPT ![Next1.path] = disk[Next1.path]] \in Tree
      BY <1>2, <2>1, TreeUpdate DEF TypeOK
    <3>2. index' = index \/ index' = [index EXCEPT ![Next1.path] = disk[Next1.path]]
      BY <1>5 DEF PathIsAdded
    <3> QED BY <3>1, <3>2 DEF TypeOK
  <2>3. todo' \in Seq(Step)
    BY <1>2, <1>5 DEF PathIsAdded
  <2>4. unmerged' \subseteq Path
    BY <1>5 DEF PathIsAdded, TypeOK
  <2> QED BY <1>5, <2>2, <2>3, <2>4 DEF PathIsAdded, TypeOK
<1>6. CASE AllIsAdded
  BY <1>2, <1>6 DEF AllIsAdded, TypeOK
<1>7. CASE IndexIsCommitted
  <2>1. RulesIn(index) \subseteq Rules
    BY RulesInTree DEF TypeOK
  <2>2. head' \in Tree
    BY <1>7 DEF IndexIsCommitted, TypeOK
  <2>3. history' \subseteq Rules
    BY <1>7, <2>1 DEF IndexIsCommitted, TypeOK
  <2>4. todo' \in Seq(Step)
    BY <1>2, <1>7 DEF IndexIsCommitted
  <2>5. UNCHANGED <<world, disk, index, unmerged, stashes, tags, names, failed>>
    BY <1>7 DEF IndexIsCommitted
  <2> QED BY <2>2, <2>3, <2>4, <2>5 DEF TypeOK
<1>8. CASE GitFails
  <2>1. todo' \in Seq(Step)
    BY <1>2, <1>8 DEF GitFails
  <2>2. failed' \in Nat
    <3>1. failed' = failed + 1 /\ failed \in Nat
      BY <1>8 DEF GitFails, TypeOK
    <3> QED BY <3>1
  <2>3. UNCHANGED <<world, disk, index, head, history, unmerged, stashes, tags, names>>
    BY <1>8 DEF GitFails, repository
  <2> QED BY <2>1, <2>2, <2>3 DEF TypeOK
<1>9. CASE Dies
  <2>1. todo' \in Seq(Step)
    BY <1>9 DEF Dies
  <2>2. failed' \in Nat
    <3>1. failed' = failed + 1 /\ failed \in Nat
      BY <1>9 DEF Dies, TypeOK
    <3> QED BY <3>1
  <2>3. UNCHANGED <<world, disk, index, head, history, unmerged, stashes, tags, names>>
    BY <1>9 DEF Dies, repository
  <2> QED BY <2>1, <2>2, <2>3 DEF TypeOK
<1> QED BY <1>3, <1>4, <1>5, <1>6, <1>7, <1>8, <1>9 DEF Goes

(* Trees hold files under paths of the repository or nothing, and what a    *)
(* call has left to do is a list of file and git operations on such paths.  *)
THEOREM RepositoryTypeOK == Spec => []TypeOK
<1>1. Init => TypeOK
  <2> SUFFICES ASSUME Init PROVE TypeOK
    OBVIOUS
  <2>1. EmptyTree \in Tree
    BY DEF EmptyTree, Tree
  <2>2. <<>> \in Seq(Stash) /\ <<>> \in Seq(Step)
    OBVIOUS
  <2>3. names \in [Rules -> 0 .. MaxName]
    BY RepositoryConstants DEF Init
  <2>4. tags \in [Points -> Tree \cup {None}]
    BY DEF Init
  <2> QED BY <2>1, <2>2, <2>3, <2>4 DEF Init, TypeOK
<1>2. TypeOK /\ [Next]_vars => TypeOK'
  <2> SUFFICES ASSUME TypeOK, [Next]_vars PROVE TypeOK'
    OBVIOUS
  <2>1. CASE UNCHANGED vars
    BY <2>1 DEF vars, TypeOK
  <2>2. ASSUME NEW r \in Rules, WriteRule(r) PROVE TypeOK'
    BY <2>2, WriteRuleType
  <2>3. ASSUME NEW p \in Path,
               StageRule(p) \/ CommitRule(p) \/ RejectRule(p) \/ RestoreRule(p) \/ SyncFile(p)
        PROVE  TypeOK'
    BY <2>3, StageRuleType, CommitRuleType, RejectRuleType, RestoreRuleType, SyncFileType
  <2>4. CASE CheckRaises \/ CheckSyncStatus \/ SyncRules
    BY <2>4, SynchronisationType
  <2>5. ASSUME NEW n \in Points, CreateRollbackPoint(n) \/ RollbackToStash(n) \/ RollbackToTag(n)
        PROVE  TypeOK'
    BY <2>5, CreateRollbackPointType, RollbackToStashType, RollbackToTagType
  <2>6. CASE CleanupRollbackStashes
    BY <2>6, CleanupType
  <2>7. CASE Goes
    BY <2>7, GoesType
  <2> QED BY <2>1, <2>2, <2>3, <2>4, <2>5, <2>6, <2>7 DEF Next
<1> QED BY <1>1, <1>2, PTL DEF Spec

-----------------------------------------------------------------------------
(* Only reviewed rules are committed *)

Careful == world.tools \cap {"restore", "sync", "sync one", "rollback"} = {}

IsReviewed(f) == f # None => f.status \in {"verified", "rejected"}

(* The path of the i-th step is written or removed by a step before it. *)
Prepared(steps, i) ==
    \E j \in 1 .. i - 1 : steps[j].op \in {"write", "unlink"} /\ steps[j].path = steps[i].path

(* What an add finds was reviewed, in the tree or after the steps before it, *)
(* and the commit follows at once, so that a failed add skips no file        *)
(* operation.                                                                *)
StepReviewed(steps, i, tree) ==
    /\ steps[i].op \notin {"try add", "add all"}
    /\ steps[i].op = "write" => IsReviewed(steps[i].file)
    /\ steps[i].op = "add" => /\ IsReviewed(tree[steps[i].path]) \/ Prepared(steps, i)
                              /\ i + 1 \in DOMAIN steps => steps[i + 1].op = "commit"

ReviewedInv ==
    Careful => /\ \A p \in Path : IsReviewed(index[p]) /\ IsReviewed(head[p])
               /\ \A i \in DOMAIN todo : StepReviewed(todo, i, disk)

LEMMA RestReviewed ==
    ASSUME TypeOK, todo # <<>>, \A i \in DOMAIN todo : StepReviewed(todo, i, disk),
           NEW tree,
           \A q \in Path : tree[q] = disk[q] \/ IsReviewed(tree[q]),
           Next1.op \in {"write", "unlink"} => IsReviewed(tree[Next1.path])
    PROVE  \A i \in DOMAIN Rest : StepReviewed(Rest, i, tree)
<1> SUFFICES ASSUME NEW i \in DOMAIN Rest PROVE StepReviewed(Rest, i, tree)
  OBVIOUS
<1>1. /\ Len(todo) \in Nat \ {0} /\ DOMAIN todo = 1 .. Len(todo) /\ Next1 = todo[1]
      /\ DOMAIN Rest = 1 .. Len(todo) - 1
      /\ \A j \in DOMAIN Rest : Rest[j] = todo[j + 1]
  BY Remaining
<1>2. i \in Nat /\ i >= 1 /\ i + 1 \in DOMAIN todo /\ Rest[i] = todo[i + 1]
  BY <1>1
<1>3. StepReviewed(todo, i + 1, disk)
  BY <1>2
<1>4. ASSUME Rest[i].op = "add"
      PROVE  IsReviewed(tree[Rest[i].path]) \/ Prepared(Rest, i)
  <2>1. todo[i + 1].path \in Path
    <3>1. todo \in Seq(Step) /\ i + 1 \in 1 .. Len(todo)
      BY <1>1, <1>2 DEF TypeOK
    <3>2. todo[i + 1] \in Step
      BY <3>1, ElementOfSeq
    <3> QED BY <3>2 DEF Step
  <2>2. CASE IsReviewed(disk[todo[i + 1].path])
    BY <1>2, <2>1, <2>2
  <2>3. CASE Prepared(todo, i + 1)
    <3>1. PICK j \in 1 .. i : todo[j].op \in {"write", "unlink"} /\ todo[j].path = todo[i + 1].path
      <4>1. (i + 1) - 1 = i
        BY <1>2
      <4> QED BY <2>3, <4>1 DEF Prepared
    <3>2. CASE j = 1
      BY <1>1, <1>2, <3>1, <3>2
    <3>3. CASE j # 1
      <4>1. j - 1 \in 1 .. i - 1 /\ j - 1 \in DOMAIN Rest /\ (j - 1) + 1 = j
        BY <1>1, <1>2, <3>3
      <4>2. Rest[j - 1] = todo[j]
        BY <1>1, <4>1
      <4> QED BY <1>2, <3>1, <4>1, <4>2 DEF Prepared
    <3> QED BY <3>2, <3>3
  <2> QED BY <1>2, <1>3, <1>4, <2>2, <2>3 DEF StepReviewed
<1>5. ASSUME Rest[i].op = "add", i + 1 \in DOMAIN Rest
      PROVE  Rest[i + 1].op = "commit"
  <2>1. Rest[i + 1] = todo[(i + 1) + 1] /\ (i + 1) + 1 \in DOMAIN todo
    BY <1>1, <1>2, <1>5
  <2> QED BY <1>2, <1>3, <1>5, <2>1 DEF StepReviewed
<1> QED BY <1>2, <1>3, <1>4, <1>5 DEF StepReviewed

LEMMA AfterFailedAddReviewed ==
    ASSUME TypeOK, todo # <<>>, \A i \in DOMAIN todo : StepReviewed(todo, i, disk),
           Next1.op = "add"
    PROVE  \A i \in DOMAIN AfterFailedAdd : StepReviewed(AfterFailedAdd, i, disk)
<1> SUFFICES ASSUME NEW i \in DOMAIN AfterFailedAdd PROVE StepReviewed(AfterFailedAdd, i, disk)
  OBVIOUS
<1>1. /\ Len(todo) \in Nat \ {0} /\ DOMAIN todo = 1 .. Len(todo) /\ Next1 = todo[1]
      /\ DOMAIN AfterFailedAdd = 1 .. Len(todo) - 2
      /\ \A j \in DOMAIN AfterFailedAdd : AfterFailedAdd[j] = todo[j + 2]
  BY Remaining
<1>2. /\ i \in Nat /\ i >= 1 /\ i + 2 \in DOMAIN todo /\ AfterFailedAdd[i] = todo[i + 2]
      /\ 1 \in DOMAIN todo /\ 1 + 1 \in DOMAIN todo
  BY <1>1
<1>3. StepReviewed(todo, i + 2, disk)
  BY <1>2
<1>4. todo[1].op = "add" /\ todo[1 + 1].op = "commit"
  BY <1>1, <1>2 DEF StepReviewed
<1>5. ASSUME AfterFailedAdd[i].op = "add", Prepared(todo, i + 2)
      PROVE  Prepared(AfterFailedAdd, i)
  <2>1. (i + 2) - 1 = i + 1
    BY <1>2
  <2>2. PICK j \in 1 .. i + 1 : todo[j].op \in {"write", "unlink"} /\ todo[j].path = todo[i + 2].path
    BY <1>5, <2>1 DEF Prepared
  <2>3. j # 1 /\ j # 1 + 1
    BY <1>4, <2>2
  <2>4. j - 2 \in 1 .. i - 1 /\ j - 2 \in DOMAIN AfterFailedAdd /\ (j - 2) + 2 = j
    BY <1>1, <1>2, <2>3
  <2>5. AfterFailedAdd[j - 2] = todo[j]
    BY <1>1, <2>4
  <2> QED BY <1>2, <2>2, <2>4, <2>5 DEF Prepared
<1>6. ASSUME AfterFailedAdd[i].op = "add", i + 1 \in DOMAIN AfterFailedAdd
      PROVE  AfterFailedAdd[i + 1].op = "commit"
  <2>1. AfterFailedAdd[i + 1] = todo[(i + 2) + 1] /\ (i + 2) + 1 \in DOMAIN todo
    <3>1. (i + 1) + 2 = (i + 2) + 1
      BY <1>2
    <3> QED BY <1>1, <1>2, <1>6, <3>1
  <2> QED BY <1>2, <1>3, <1>6, <2>1 DEF StepReviewed
<1> QED BY <1>2, <1>3, <1>5, <1>6 DEF StepReviewed

LEMMA CommitReviewed ==
    ASSUME NEW p \in Path, NEW f \in File, IsReviewed(f), NEW tree,
           NEW steps, DOMAIN steps = {1, 2, 3},
           steps[1] = Write(p, f), steps[2] = AddStep(p), steps[3] = CommitStep(p)
    PROVE  \A i \in DOMAIN steps : StepReviewed(steps, i, tree)
<1>1. /\ DOMAIN steps = {1, 2, 3}
      /\ steps[1] = Write(p, f) /\ steps[2] = AddStep(p) /\ steps[3] = CommitStep(p)
  OBVIOUS
<1>2. Prepared(steps, 2)
  BY <1>1 DEF Prepared, Write, AddStep
<1>3. StepReviewed(steps, 1, tree)
  BY <1>1 DEF StepReviewed, Write
<1>4. StepReviewed(steps, 2, tree)
  BY <1>1, <1>2 DEF StepReviewed, AddStep, CommitStep
<1>5. StepReviewed(steps, 3, tree)
  BY <1>1 DEF StepReviewed, CommitStep
<1> QED BY <1>1, <1>3, <1>4, <1>5

LEMMA MoveReviewed ==
    ASSUME NEW p \in Path, NEW q \in Path, NEW f \in File, IsReviewed(f), NEW tree,
           NEW steps, steps = Move(p, q, f)
    PROVE  \A i \in DOMAIN steps : StepReviewed(steps, i, tree)
<1>1. /\ DOMAIN steps = 1 .. 6
      /\ steps[1] = Write(q, f) /\ steps[2] = Unlink(p)
      /\ steps[3] = AddStep(q) /\ steps[4] = CommitStep(q)
      /\ steps[5] = AddStep(p) /\ steps[6] = CommitStep(p)
  BY MoveSteps
<1>2. Prepared(steps, 3) /\ Prepared(steps, 5)
  BY <1>1 DEF Prepared, Write, Unlink, AddStep
<1>3. 1 .. 6 = {1, 2, 3, 4, 5, 6}
  OBVIOUS
<1>4. StepReviewed(steps, 1, tree) /\ StepReviewed(steps, 2, tree)
  BY <1>1 DEF StepReviewed, Write, Unlink
<1>5. StepReviewed(steps, 3, tree)
  BY <1>1, <1>2 DEF StepReviewed, AddStep, CommitStep
<1>6. StepReviewed(steps, 5, tree)
  BY <1>1, <1>2 DEF StepReviewed, AddStep, CommitStep
<1>7. StepReviewed(steps, 4, tree) /\ StepReviewed(steps, 6, tree)
  BY <1>1 DEF StepReviewed, CommitStep
<1> QED BY <1>1, <1>3, <1>4, <1>5, <1>6, <1>7

(* A tool that rewrites a rule leaves steps that only add what it wrote. *)
LEMMA ToolsReviewed ==
    ASSUME TypeOK, NEW p \in Path, CommitRule(p) \/ RejectRule(p)
    PROVE  \A i \in DOMAIN todo' : StepReviewed(todo', i, disk')
<1>1. CASE CommitRule(p)
  <2>1. disk[p] \in File
    BY <1>1, TreeFiles DEF CommitRule, Readable, TypeOK
  <2> DEFINE own == [disk[p] EXCEPT !.conflicts = @ \cup Rivals(p)]
  <2>2. own \in File
    <3>1. disk[p].conflicts \cup Rivals(p) \in SUBSET Rules
      BY <2>1, FileUpdates, RivalRules
    <3> QED BY <2>1, <3>1, FileUpdates
  <2> DEFINE f == WithStatus(own, "verified")
  <2>3. todo' = <<Write(p, f)>> \o AddAndCommit(p)
    BY <1>1 DEF CommitRule
  <2> HIDE DEF own
  <2>4. f \in File /\ IsReviewed(f)
    BY <2>2, FileUpdates DEF Status, IsReviewed
  <2> HIDE DEF f
  <2>5. /\ DOMAIN todo' = {1, 2, 3}
        /\ todo'[1] = Write(p, f) /\ todo'[2] = AddStep(p) /\ todo'[3] = CommitStep(p)
    BY <2>3, <2>4, CommitSteps
  <2> QED BY <2>4, <2>5, CommitReviewed
<1>2. CASE RejectRule(p)
  <2>1. disk[p] \in File /\ RejectedPath(p) \in Path
    BY <1>2, TreeFiles, PathsOfNames DEF RejectRule, Readable, TypeOK
  <2>2. PICK f : /\ f = WithStatus(disk[p], "rejected") \/ f = [WithStatus(disk[p], "rejected") EXCEPT !.readable = FALSE]
                 /\ todo' = Move(p, RejectedPath(p), f)
    BY <1>2 DEF RejectRule
  <2>3. WithStatus(disk[p], "rejected") \in File /\ WithStatus(disk[p], "rejected").status = "rejected"
    BY <2>1, FileUpdates DEF Status
  <2>4. f \in File /\ f.status = "rejected"
    BY <2>2, <2>3, FileUpdates
  <2>5. IsReviewed(f)
    BY <2>4 DEF IsReviewed
  <2> QED BY <2>1, <2>2, <2>4, <2>5, MoveReviewed
<1> QED BY <1>1, <1>2

LEMMA GoesReviewed ==
    ASSUME TypeOK, ReviewedInv, Careful, Goes
    PROVE  ReviewedInv'
<1>1. todo # <<>>
  BY DEF Goes, FileIsWritten, FileIsUnlinked, PathIsAdded, AllIsAdded, IndexIsCommitted, GitFails, Dies, At
<1>2. /\ \A p \in Path : IsReviewed(index[p]) /\ IsReviewed(head[p])
      /\ \A i \in DOMAIN todo : StepReviewed(todo, i, disk)
  BY DEF ReviewedInv
<1>3. Next1 = todo[1] /\ Next1 \in Step /\ 1 \in DOMAIN todo /\ Next1.path \in Path
  <2>1. /\ Next1 = todo[1] /\ Next1 \in Step
        /\ Len(todo) \in Nat \ {0} /\ DOMAIN todo = 1 .. Len(todo)
    BY <1>1, Remaining
  <2>2. 1 \in DOMAIN todo
    BY <2>1
  <2>3. Next1.path \in Path
    BY <2>1 DEF Step
  <2> QED BY <2>1, <2>2, <2>3
<1>4. /\ Next1.op \notin {"try add", "add all"}
      /\ Next1.op = "write" => IsReviewed(Next1.file)
      /\ Next1.op = "add" => IsReviewed(disk[Next1.path])
  <2>1. StepReviewed(todo, 1, disk) /\ ~Prepared(todo, 1)
    BY <1>2, <1>3 DEF Prepared
  <2>2. /\ todo[1].op \notin {"try add", "add all"}
        /\ todo[1].op = "write" => IsReviewed(todo[1].file)
        /\ todo[1].op = "add" => IsReviewed(disk[todo[1].path])
    BY <2>1 DEF StepReviewed
  <2> QED BY <1>3, <2>2
<1>5. disk \in Tree /\ index \in Tree
  BY DEF TypeOK
<1>6. CASE FileIsWritten
  <2>1. /\ disk' = [disk EXCEPT ![Next1.path] = Next1.file] /\ todo' = Rest
        /\ UNCHANGED <<index, head>> /\ Next1.op = "write"
    BY <1>6 DEF FileIsWritten, At
  <2>2. \A q \in Path : disk'[q] = disk[q] \/ IsReviewed(disk'[q])
    BY <1>3, <1>4, <1>5, <2>1 DEF Tree
  <2>3. IsReviewed(disk'[Next1.path])
    BY <1>3, <1>4, <1>5, <2>1 DEF Tree
  <2>4. \A i \in DOMAIN todo' : StepReviewed(todo', i, disk')
    BY <1>1, <1>2, <2>1, <2>2, <2>3, RestReviewed
  <2> QED BY <1>2, <2>1, <2>4 DEF ReviewedInv
<1>7. CASE FileIsUnlinked
  <2>1. /\ disk' = [disk EXCEPT ![Next1.path] = None] /\ todo' = Rest
        /\ UNCHANGED <<index, head>>
    BY <1>7 DEF FileIsUnlinked
  <2>2. IsReviewed(None)
    BY DEF IsReviewed
  <2>3. \A q \in Path : disk'[q] = disk[q] \/ IsReviewed(disk'[q])
    BY <1>3, <1>5, <2>1, <2>2 DEF Tree
  <2>4. IsReviewed(disk'[Next1.path])
    BY <1>3, <1>5, <2>1, <2>2 DEF Tree
  <2>5. \A i \in DOMAIN todo' : StepReviewed(todo', i, disk')
    BY <1>1, <1>2, <2>1, <2>3, <2>4, RestReviewed
  <2> QED BY <1>2, <2>1, <2>5 DEF ReviewedInv
<1>8. ASSUME Next1.op \in {"add", "commit"}
      PROVE  /\ \A i \in DOMAIN Rest : StepReviewed(Rest, i, disk)
             /\ Next1.op = "add" =>
                   \A i \in DOMAIN AfterFailedAdd : StepReviewed(AfterFailedAdd, i, disk)
  BY <1>1, <1>2, <1>8, RestReviewed, AfterFailedAddReviewed
<1>9. CASE PathIsAdded
  <2>1. Next1.op = "add" /\ UNCHANGED <<disk, head>> /\ (todo' = Rest \/ todo' = AfterFailedAdd)
    BY <1>4, <1>9 DEF PathIsAdded, At
  <2>2. index' = index \/ index' = [index EXCEPT ![Next1.path] = disk[Next1.path]]
    BY <1>9 DEF PathIsAdded
  <2>3. \A q \in Path : IsReviewed(index'[q])
    BY <1>2, <1>3, <1>4, <1>5, <2>1, <2>2 DEF Tree
  <2>4. \A i \in DOMAIN todo' : StepReviewed(todo', i, disk')
    BY <1>8, <2>1
  <2> QED BY <1>2, <2>1, <2>3, <2>4 DEF ReviewedInv
<1>10. CASE AllIsAdded
  BY <1>4, <1>10 DEF AllIsAdded, At
<1>11. CASE IndexIsCommitted
  <2>1. Next1.op = "commit" /\ UNCHANGED <<disk, index>> /\ todo' = Rest /\ head' \in {head, index}
    BY <1>11 DEF IndexIsCommitted, At
  <2>2. \A i \in DOMAIN todo' : StepReviewed(todo', i, disk')
    BY <1>8, <2>1
  <2> QED BY <1>2, <2>1, <2>2 DEF ReviewedInv
<1>12. CASE GitFails
  <2>1. /\ Next1.op \in {"add", "commit"} /\ UNCHANGED <<disk, index, head>>
        /\ todo' = Rest \/ (Next1.op = "add" /\ todo' = AfterFailedAdd)
    BY <1>4, <1>12 DEF GitFails, At, repository
  <2>2. \A i \in DOMAIN todo' : StepReviewed(todo', i, disk')
    BY <1>8, <2>1
  <2> QED BY <1>2, <2>1, <2>2 DEF ReviewedInv
<1>13. CASE Dies
  BY <1>2, <1>13 DEF Dies, repository, ReviewedInv
<1> QED BY <1>6, <1>7, <1>9, <1>10, <1>11, <1>12, <1>13 DEF Goes

LEMMA WorldStays ==
    ASSUME [Next]_vars
    PROVE  world' = world
<1>1. CASE UNCHANGED vars
  BY <1>1 DEF vars
<1>2. ASSUME NEW r \in Rules, WriteRule(r) PROVE world' = world
  BY <1>2 DEF WriteRule
<1>3. ASSUME NEW p \in Path,
             StageRule(p) \/ CommitRule(p) \/ RejectRule(p) \/ RestoreRule(p) \/ SyncFile(p)
      PROVE  world' = world
  BY <1>3 DEF StageRule, CommitRule, RejectRule, RestoreRule, SyncFile
<1>4. CASE CheckRaises \/ CheckSyncStatus \/ SyncRules
  BY <1>4 DEF CheckRaises, CheckSyncStatus, SyncRules
<1>5. ASSUME NEW n \in Points, CreateRollbackPoint(n) \/ RollbackToStash(n) \/ RollbackToTag(n)
      PROVE  world' = world
  BY <1>5 DEF CreateRollbackPoint, RollbackToStash, RollbackToTag
<1>6. CASE CleanupRollbackStashes
  BY <1>6 DEF CleanupRollbackStashes
<1>7. CASE Goes
  BY <1>7 DEF Goes, FileIsWritten, FileIsUnlinked, PathIsAdded, AllIsAdded, IndexIsCommitted, GitFails, Dies
<1> QED BY <1>1, <1>2, <1>3, <1>4, <1>5, <1>6, <1>7 DEF Next

(* A pending rule is not committed (docs/GEAR.md:226), whatever git command *)
(* fails and wherever a call is cut off, as long as no tool is called that  *)
(* commits files of any status.                                             *)
THEOREM PendingStaysUncommitted == Spec => []OnlyReviewedCommitted
<1>1. Init => ReviewedInv
  BY DEF Init, ReviewedInv, EmptyTree, IsReviewed
<1>2. TypeOK /\ ReviewedInv /\ [Next]_vars => ReviewedInv'
  <2> SUFFICES ASSUME TypeOK, ReviewedInv, [Next]_vars PROVE ReviewedInv'
    OBVIOUS
  <2>1. CASE UNCHANGED vars
    <3>1. UNCHANGED <<world, disk, index, head, todo>>
      BY <2>1 DEF vars
    <3> QED BY <3>1 DEF ReviewedInv, Careful
  <2>2. CASE ~Careful
    BY <2>2, WorldStays DEF ReviewedInv, Careful
  <2>3. ASSUME Careful, UNCHANGED <<index, head, todo>>, todo = <<>>
        PROVE  ReviewedInv'
    BY <2>3 DEF ReviewedInv
  <2>4. ASSUME NEW r \in Rules, WriteRule(r)
        PROVE  UNCHANGED <<index, head, todo>> /\ todo = <<>>
    BY <2>4 DEF WriteRule, Quiet
  <2>5. ASSUME NEW p \in Path, StageRule(p)
        PROVE  UNCHANGED <<index, head, todo>> /\ todo = <<>>
    BY <2>5 DEF StageRule, Allowed, Quiet
  <2>6. ASSUME NEW p \in Path, CommitRule(p) \/ RejectRule(p), Careful
        PROVE  ReviewedInv'
    <3>1. UNCHANGED <<index, head>>
      BY <2>6 DEF CommitRule, RejectRule
    <3> QED BY <2>6, <3>1, ToolsReviewed DEF ReviewedInv
  <2>7. ASSUME NEW p \in Path, RestoreRule(p) \/ SyncFile(p)
        PROVE  ~Careful
    BY <2>7 DEF RestoreRule, SyncFile, Allowed, Careful
  <2>8. CASE CheckRaises \/ CheckSyncStatus
    <3>1. UNCHANGED <<index, head, todo>> /\ todo = <<>>
      BY <2>8 DEF CheckRaises, CheckSyncStatus, Allowed, Quiet
    <3> QED BY <2>2, <2>3, <3>1
  <2>9. CASE SyncRules
    BY <2>2, <2>9 DEF SyncRules, Allowed, Careful
  <2>10. ASSUME NEW n \in Points, CreateRollbackPoint(n), Careful
         PROVE  ReviewedInv'
    <3>1. UNCHANGED <<head, todo>> /\ todo = <<>> /\ index' = head
      BY <2>10 DEF CreateRollbackPoint, Allowed, Quiet
    <3> QED BY <2>10, <3>1 DEF ReviewedInv
  <2>11. ASSUME NEW n \in Points, RollbackToStash(n) \/ RollbackToTag(n)
         PROVE  ~Careful
    BY <2>11 DEF RollbackToStash, RollbackToTag, Allowed, Careful
  <2>12. CASE CleanupRollbackStashes
    <3>1. UNCHANGED <<index, head, todo>> /\ todo = <<>>
      BY <2>12 DEF CleanupRollbackStashes, Allowed, Quiet
    <3> QED BY <2>2, <2>3, <3>1
  <2>13. CASE Goes
    BY <2>2, <2>13, GoesReviewed
  <2> QED BY <2>1, <2>2, <2>3, <2>4, <2>5, <2>6, <2>7, <2>8, <2>9, <2>10, <2>11, <2>12, <2>13 DEF Next
<1>3. ReviewedInv => OnlyReviewedCommitted
  BY DEF ReviewedInv, OnlyReviewedCommitted, Careful, IsReviewed
<1> QED BY <1>1, <1>2, <1>3, RepositoryTypeOK, PTL DEF Spec

-----------------------------------------------------------------------------
(* A rollback restores every file *)

LEMMA NewestIsUnique ==
    ASSUME NEW n, NEW i \in DOMAIN stashes, NEW j \in DOMAIN stashes, TypeOK,
           IsNewest(i, n), IsNewest(j, n)
    PROVE  i = j
<1>1. i \in Nat /\ j \in Nat /\ i >= 1 /\ j >= 1
  BY LenProperties DEF TypeOK
<1>2. ~(i < j) /\ ~(j < i)
  BY <1>1 DEF IsNewest
<1> QED BY <1>1, <1>2

LEMMA ApplyRestores ==
    ASSUME TypeOK, NEW s \in Stash, Clean, head = s.base, Apply(s)
    PROVE  disk' = s.work
<1>1. disk = s.base /\ index = s.base /\ s.base \in Tree /\ s.work \in Tree
  BY DEF Clean, Stash
<1>2. Clashing(s) = {}
  BY <1>1 DEF Clashing
<1>3. disk' = [p \in Path |->
                 IF p \in Changed(s) \/ (p \in Untracked(s) /\ disk[p] = None) THEN s.work[p] ELSE disk[p]]
  BY <1>2 DEF Apply
<1>4. ASSUME NEW p \in Path
      PROVE  disk'[p] = s.work[p]
  <2>1. CASE Tracked(s, p)
    BY <1>1, <1>3, <2>1 DEF Changed
  <2>2. CASE ~Tracked(s, p)
    BY <1>1, <1>3, <2>2 DEF Changed, Untracked, Tracked
  <2> QED BY <2>1, <2>2
<1>5. disk' \in [Path -> File \cup {None}]
  BY <1>1, <1>3 DEF Tree
<1> QED BY <1>1, <1>4, <1>5 DEF Tree

(* rollback_to on a clean tree at the commit the point was made on brings   *)
(* back every file as it was, whatever was staged, changed or deleted.      *)
THEOREM RollbackRestoresFiles == Spec => RollbackRestores
<1>1. ASSUME TypeOK, [Next]_vars,
             NEW i \in DOMAIN stashes, Clean, head = stashes[i].base,
             IsNewest(i, stashes[i].point), RollbackToStash(stashes[i].point)
      PROVE  disk' = stashes[i].work
  <2>1. PICK j \in DOMAIN stashes : IsNewest(j, stashes[i].point) /\ Apply(stashes[j])
    BY <1>1 DEF RollbackToStash
  <2>2. j = i
    BY <1>1, <2>1, NewestIsUnique
  <2>3. stashes[i] \in Stash
    <3>1. stashes \in Seq(Stash) /\ i \in 1 .. Len(stashes)
      BY <1>1, LenProperties DEF TypeOK
    <3> QED BY <3>1, ElementOfSeq
  <2> QED BY <1>1, <2>1, <2>2, <2>3, ApplyRestores
<1>2. TypeOK /\ [Next]_vars =>
        [\A i \in DOMAIN stashes :
            /\ Clean /\ head = stashes[i].base
            /\ IsNewest(i, stashes[i].point)
            /\ RollbackToStash(stashes[i].point)
            => disk' = stashes[i].work]_vars
  BY <1>1
<1> QED BY <1>2, RepositoryTypeOK, PTL DEF Spec, RollbackRestores
-----------------------------------------------------------------------------
(* No rule vanishes *)

Steady ==
    /\ world.tools \cap {"rejected", "cleanup"} = {}
    /\ \A n \in Points : tags[n] = None

(* A file keeps the name its rule was written under, wherever it is moved. *)
Named(tree) == \A p \in Path : tree[p] # None => names[tree[p].rule] = p[2]

HasRule(tree, r) == \E p \in Path : tree[p] # None /\ tree[p].rule = r

SameRules(t, u) ==
    \A p \in Path : /\ u[p] = None <=> t[p] = None
                    /\ u[p] # None => u[p].rule = t[p].rule

(* What is written is somewhere else already.  What is unlinked was written *)
(* to another path before, or is about to be.                               *)
StepKeeps(steps, i, tree) ==
    LET step == steps[i]
    IN /\ step.op = "write" => /\ i = 1
                               /\ step.file # None
                               /\ names[step.file.rule] = step.path[2]
                               /\ HasRule(tree, step.file.rule)
       /\ step.op = "unlink" =>
             \/ /\ i = 1
                /\ \E q \in Path \ {step.path} :
                      /\ tree[q] # None
                      /\ tree[step.path] # None => tree[q].rule = tree[step.path].rule
             \/ /\ i = 2
                /\ steps[1].op = "write"
                /\ steps[1].path # step.path
                /\ tree[step.path] # None
                /\ tree[step.path].rule = steps[1].file.rule

NamesInv ==
    /\ Named(disk) /\ Named(index) /\ Named(head)
    /\ \A i \in DOMAIN stashes : /\ Named(stashes[i].base)
                                 /\ Named(stashes[i].index)
                                 /\ Named(stashes[i].work)

HistoryInv ==
    /\ RulesIn(head) \subseteq history
    /\ \A i \in DOMAIN stashes : RulesIn(stashes[i].base) \subseteq history

Safe(r) ==
    OnDisk(r) \/ Stashed(r) \/ r \in history \/ \E s \in Written \ {r} : names[s] = names[r]

KeptInv ==
    Steady => /\ NamesInv
              /\ HistoryInv
              /\ \A i \in DOMAIN todo : StepKeeps(todo, i, disk)
              /\ \A r \in Written : Safe(r)

LEMMA RuleStays ==
    ASSUME NEW f \in File
    PROVE  /\ Plain(f).rule = f.rule
           /\ MarkedUnsynced(f).rule = f.rule
           /\ \A s \in Status : WithStatus(f, s).rule = f.rule
           /\ \A c \in SUBSET Rules : [f EXCEPT !.conflicts = c].rule = f.rule
           /\ \A b \in BOOLEAN : [f EXCEPT !.readable = b].rule = f.rule
<1>1. \A b \in BOOLEAN : [f EXCEPT !.readable = b].rule = f.rule
  BY DEF File
<1>2. \A c \in SUBSET Rules : [f EXCEPT !.conflicts = c].rule = f.rule
  BY DEF File
<1>3. Plain(f).rule = f.rule
  BY DEF File, Plain
<1>4. MarkedUnsynced(f).rule = f.rule
  BY DEF File, MarkedUnsynced
<1>5. \A s \in Status : WithStatus(f, s).rule = f.rule
  BY DEF File, Plain, WithStatus
<1> QED BY <1>1, <1>2, <1>3, <1>4, <1>5

LEMMA SameRulesNamed ==
    ASSUME NEW t, NEW u, SameRules(t, u), Named(t)
    PROVE  Named(u) /\ \A r : HasRule(t, r) <=> HasRule(u, r)
BY DEF SameRules, Named, HasRule

LEMMA StashTrees ==
    ASSUME TypeOK, NEW i \in DOMAIN stashes
    PROVE  /\ stashes[i] \in Stash
           /\ stashes[i].base \in Tree /\ stashes[i].index \in Tree /\ stashes[i].work \in Tree
<1>1. stashes[i] \in Stash
  BY ElementOfSeq, LenProperties DEF TypeOK
<1> QED BY <1>1 DEF Stash

(* A tool that changes no rule of a file and leaves safe steps. *)
LEMMA QuietToolKeeps ==
    ASSUME KeptInv, Steady, SameRules(disk, disk'),
           UNCHANGED <<index, head, history, stashes, names>>,
           \A i \in DOMAIN todo' : StepKeeps(todo, i, disk)'
    PROVE  KeptInv'
<1>1. NamesInv'
  BY SameRulesNamed DEF KeptInv, NamesInv, Named, SameRules
<1>2. HistoryInv'
  BY DEF KeptInv, HistoryInv, RulesIn
<1>3. Written' = Written /\ \A r : Stashed(r)' = Stashed(r)
  BY DEF Written, Stashed
<1>4. \A r : OnDisk(r) => OnDisk(r)'
  BY DEF OnDisk, SameRules
<1>5. \A r \in Written : Safe(r)'
  BY <1>3, <1>4 DEF KeptInv, Safe
<1> QED BY <1>1, <1>2, <1>3, <1>5 DEF KeptInv

(* Changing the text of a file keeps its rule. *)
LEMMA UpdatedRules ==
    ASSUME TypeOK, NEW paths, \A p \in paths : p \in Path /\ disk[p] # None,
           NEW tree, \A p \in Path : p \notin paths => tree[p] = disk[p],
           \A p \in paths : tree[p] \in File /\ tree[p].rule = disk[p].rule
    PROVE  SameRules(disk, tree)
BY NoneIsNoFile DEF SameRules

LEMMA NothingLeft ==
    ASSUME todo' = <<>>
    PROVE  \A i \in DOMAIN todo' : StepKeeps(todo, i, disk)'
OBVIOUS

LEMMA MarkingRules ==
    ASSUME TypeOK, NEW paths, \A p \in paths : p \in Path /\ disk[p] # None
    PROVE  SameRules(disk, Marking(paths))
<1>1. \A p \in paths : disk[p] \in File
  BY TreeFiles DEF TypeOK
<1>2. \A p \in paths : MarkedUnsynced(disk[p]) \in File /\ MarkedUnsynced(disk[p]).rule = disk[p].rule
  BY <1>1, FileUpdates, RuleStays
<1>3. /\ \A p \in Path : p \notin paths => Marking(paths)[p] = disk[p]
      /\ \A p \in paths : Marking(paths)[p] = MarkedUnsynced(disk[p])
  BY DEF Marking
<1> QED BY <1>2, <1>3, UpdatedRules

LEMMA AnnotatedRules ==
    ASSUME TypeOK, NEW copies, NEW source \in Rules, \A q \in copies : q \in Path /\ disk[q] # None
    PROVE  SameRules(disk, Annotated(copies, source))
<1> DEFINE marked(q) == Plain([disk[q] EXCEPT !.conflicts = @ \cup {source}])
           paths == {q \in copies : source \notin disk[q].conflicts}
<1>1. ASSUME NEW q \in copies
      PROVE  marked(q) \in File /\ marked(q).rule = disk[q].rule
  <2>1. disk[q] \in File
    BY <1>1, TreeFiles DEF TypeOK
  <2>2. disk[q].conflicts \cup {source} \in SUBSET Rules
    BY <2>1, FileUpdates
  <2> DEFINE f == [disk[q] EXCEPT !.conflicts = disk[q].conflicts \cup {source}]
  <2>3. f \in File /\ f.rule = disk[q].rule
    BY <2>1, <2>2, FileUpdates, RuleStays
  <2> HIDE DEF f
  <2>4. Plain(f) \in File /\ Plain(f).rule = f.rule
    BY <2>3, FileUpdates, RuleStays
  <2> QED BY <2>3, <2>4 DEF f
<1>2. \A p \in Path : Annotated(copies, source)[p] = IF p \in paths THEN marked(p) ELSE disk[p]
  BY DEF Annotated
<1> HIDE DEF marked
<1>3. \A p \in paths : p \in Path /\ disk[p] # None
  OBVIOUS
<1>4. \A p \in paths : marked(p) \in File /\ marked(p).rule = disk[p].rule
  BY <1>1
<1> HIDE DEF paths
<1> QED BY <1>2, <1>3, <1>4, UpdatedRules

LEMMA MoveKeeps ==
    ASSUME NEW p \in Path, NEW q \in Path, p # q, p[2] = q[2], NEW f \in File,
           NEW steps, steps = Move(p, q, f),
           NEW tree, tree[p] # None, tree[p].rule = f.rule, names[f.rule] = p[2]
    PROVE  \A i \in DOMAIN steps : StepKeeps(steps, i, tree)
<1>1. /\ DOMAIN steps = 1 .. 6
      /\ steps[1] = Write(q, f) /\ steps[2] = Unlink(p)
      /\ steps[3] = AddStep(q) /\ steps[4] = CommitStep(q)
      /\ steps[5] = AddStep(p) /\ steps[6] = CommitStep(p)
  BY MoveSteps
<1>2. 1 .. 6 = {1, 2, 3, 4, 5, 6}
  OBVIOUS
<1>3. HasRule(tree, f.rule) /\ f # None
  BY NoneIsNoFile DEF HasRule
<1>4. StepKeeps(steps, 1, tree)
  BY <1>1, <1>3 DEF StepKeeps, Write
<1>5. StepKeeps(steps, 2, tree)
  BY <1>1 DEF StepKeeps, Write, Unlink
<1>6. \A i \in {3, 4, 5, 6} : steps[i].op \notin {"write", "unlink"}
  BY <1>1 DEF AddStep, CommitStep
<1>7. \A i \in {3, 4, 5, 6} : StepKeeps(steps, i, tree)
  BY <1>6 DEF StepKeeps
<1> QED BY <1>1, <1>2, <1>4, <1>5, <1>7

(* A tool that rewrites a rule writes or moves a rule that has a file. *)
LEMMA CommitKeeps ==
    ASSUME TypeOK, KeptInv, Steady, NEW p \in Path, CommitRule(p)
    PROVE  KeptInv'
<1>1. disk[p] \in File /\ disk[p].rule \in Rules /\ disk[p] # None
  BY TreeFiles, FileUpdates DEF CommitRule, Readable, TypeOK
<1>2. PICK copy \in [Rivals(p) -> Path] :
         /\ \A r \in Rivals(p) : CopyOf(r, copy[r])
         /\ disk' = Annotated({copy[r] : r \in Rivals(p)}, disk[p].rule)
  BY DEF CommitRule
<1>3. SameRules(disk, disk')
  BY <1>1, <1>2, AnnotatedRules DEF CopyOf, Readable
<1> DEFINE own == [disk[p] EXCEPT !.conflicts = @ \cup Rivals(p)]
           f == WithStatus(own, "verified")
<1>4. own \in File /\ own.rule = disk[p].rule
  <2>1. disk[p].conflicts \cup Rivals(p) \in SUBSET Rules
    BY <1>1, FileUpdates, RivalRules
  <2> QED BY <1>1, <2>1, FileUpdates, RuleStays
<1>5. todo' = <<Write(p, f)>> \o AddAndCommit(p)
  BY DEF CommitRule
<1> HIDE DEF own
<1>6. f \in File /\ f.rule = disk[p].rule
  BY <1>4, FileUpdates, RuleStays DEF Status
<1> HIDE DEF f
<1>7. /\ DOMAIN todo' = {1, 2, 3}
      /\ todo'[1] = Write(p, f) /\ todo'[2] = AddStep(p) /\ todo'[3] = CommitStep(p)
  BY <1>5, <1>6, CommitSteps
<1>8. names' = names /\ UNCHANGED <<index, head, history, stashes>>
  BY DEF CommitRule
<1>9. f # None /\ names[f.rule] = p[2] /\ HasRule(disk', f.rule)
  <2>1. names[disk[p].rule] = p[2]
    BY <1>1 DEF KeptInv, NamesInv, Named
  <2>2. disk'[p] # None /\ disk'[p].rule = disk[p].rule
    BY <1>1, <1>3 DEF SameRules
  <2> QED BY <1>6, <2>1, <2>2, NoneIsNoFile DEF HasRule
<1>10. StepKeeps(todo, 1, disk)'
  BY <1>7, <1>8, <1>9 DEF StepKeeps, Write
<1>11. StepKeeps(todo, 2, disk)' /\ StepKeeps(todo, 3, disk)'
  BY <1>7 DEF StepKeeps, AddStep, CommitStep
<1> QED BY <1>3, <1>7, <1>8, <1>10, <1>11, QuietToolKeeps

LEMMA MovingKeeps ==
    ASSUME TypeOK, KeptInv, Steady, NEW p \in Path, RejectRule(p) \/ RestoreRule(p)
    PROVE  KeptInv'
<1>1. disk[p] # None /\ UNCHANGED <<disk, index, head, history, stashes, names>>
  BY DEF RejectRule, RestoreRule, Readable
<1>2. disk[p] \in File /\ names[disk[p].rule] = p[2]
  BY <1>1, TreeFiles DEF TypeOK, KeptInv, NamesInv, Named
<1>3. SameRules(disk, disk')
  BY <1>1 DEF SameRules
<1>4. SUFFICES ASSUME NEW q \in Path, p # q, p[2] = q[2],
                      NEW f \in File, f.rule = disk[p].rule, todo' = Move(p, q, f)
               PROVE  KeptInv'
  <2>1. CASE RejectRule(p)
    <3>1. p[1] = "active"
      BY <2>1 DEF RejectRule, Reachable, Steady
    <3>2. RejectedPath(p) \in Path /\ p # RejectedPath(p) /\ p[2] = RejectedPath(p)[2]
      BY <3>1, PathsOfNames DEF RejectedPath
    <3>3. PICK f : /\ f = WithStatus(disk[p], "rejected") \/ f = [WithStatus(disk[p], "rejected") EXCEPT !.readable = FALSE]
                   /\ todo' = Move(p, RejectedPath(p), f)
      BY <2>1 DEF RejectRule
    <3>4. WithStatus(disk[p], "rejected") \in File /\ WithStatus(disk[p], "rejected").rule = disk[p].rule
      BY <1>2, FileUpdates, RuleStays DEF Status
    <3>5. f \in File /\ f.rule = disk[p].rule
      BY <3>3, <3>4, FileUpdates, RuleStays
    <3> QED BY <1>4, <3>2, <3>3, <3>5
  <2>2. CASE RestoreRule(p)
    <3>1. ActivePath(p) \in Path /\ p # ActivePath(p) /\ p[2] = ActivePath(p)[2]
      BY <2>2, PathsOfNames DEF ActivePath, RestoreRule
    <3>2. PICK status \in {"pending", "verified"} : todo' = Move(p, ActivePath(p), WithStatus(disk[p], status))
      BY <2>2 DEF RestoreRule
    <3>3. status \in Status
      BY DEF Status
    <3>4. WithStatus(disk[p], status) \in File /\ WithStatus(disk[p], status).rule = disk[p].rule
      BY <1>2, <3>3, FileUpdates, RuleStays
    <3> QED BY <1>4, <3>1, <3>2, <3>4
  <2> QED BY <2>1, <2>2
<1>5. names[f.rule] = p[2]
  BY <1>2, <1>4
<1>6. \A i \in DOMAIN todo' : StepKeeps(todo', i, disk)
  BY <1>1, <1>4, <1>5, MoveKeeps
<1>7. \A i \in DOMAIN todo' : StepKeeps(todo, i, disk)'
  BY <1>1, <1>6 DEF StepKeeps
<1> QED BY <1>1, <1>3, <1>7, QuietToolKeeps

LEMMA AddingKeeps ==
    ASSUME NEW a \in Step, NEW b \in Step, todo' = <<a, b>>,
           a.op \notin {"write", "unlink"}, b.op \notin {"write", "unlink"}
    PROVE  \A i \in DOMAIN todo' : StepKeeps(todo, i, disk)'
<1>1. DOMAIN todo' = {1, 2} /\ todo'[1] = a /\ todo'[2] = b
  BY TwoSteps
<1> QED BY <1>1 DEF StepKeeps

LEMMA StageKeeps ==
    ASSUME TypeOK, KeptInv, Steady, NEW p \in Path, StageRule(p)
    PROVE  KeptInv'
<1>1. disk[p] \in File /\ disk[p] # None
  BY TreeFiles DEF StageRule, Readable, TypeOK
<1>2. disk' = [disk EXCEPT ![p] = WithStatus(disk[p], "staging")]
  BY DEF StageRule
<1>3. WithStatus(disk[p], "staging") \in File /\ WithStatus(disk[p], "staging").rule = disk[p].rule
  BY <1>1, FileUpdates, RuleStays DEF Status
<1>4. disk'[p] = WithStatus(disk[p], "staging") /\ \A q \in Path \ {p} : disk'[q] = disk[q]
  BY <1>2 DEF TypeOK, Tree
<1> DEFINE paths == {p}
<1>5. /\ \A q \in paths : q \in Path /\ disk[q] # None
      /\ \A q \in Path : q \notin paths => disk'[q] = disk[q]
      /\ \A q \in paths : disk'[q] \in File /\ disk'[q].rule = disk[q].rule
  BY <1>1, <1>3, <1>4
<1> HIDE DEF paths
<1>6. SameRules(disk, disk')
  BY <1>5, UpdatedRules
<1>7. UNCHANGED <<index, head, history, stashes, names>> /\ todo' = <<>>
  BY DEF StageRule, Allowed, Quiet
<1> QED BY <1>6, <1>7, NothingLeft, QuietToolKeeps

LEMMA CheckKeeps ==
    ASSUME TypeOK, KeptInv, Steady, CheckRaises \/ CheckSyncStatus
    PROVE  KeptInv'
<1>1. \A q \in Unsynced : q \in Path /\ disk[q] # None
  BY DEF Unsynced, Committable, ActivePaths
<1>2. PICK paths \in SUBSET Unsynced : disk' = Marking(paths)
  BY DEF CheckRaises, CheckSyncStatus
<1>3. SameRules(disk, disk')
  BY <1>1, <1>2, MarkingRules
<1>4. UNCHANGED <<index, head, history, stashes, names>> /\ todo' = <<>>
  BY DEF CheckRaises, CheckSyncStatus, Allowed, Quiet
<1> QED BY <1>3, <1>4, NothingLeft, QuietToolKeeps

LEMMA SyncFileKeeps ==
    ASSUME TypeOK, KeptInv, Steady, NEW p \in Path, SyncFile(p)
    PROVE  KeptInv'
<1>1. /\ [op |-> "try add", path |-> p, file |-> None] \in Step
      /\ [op |-> "commit", path |-> p, file |-> None] \in Step
  BY StepTypes
<1>2. todo' = <<[op |-> "try add", path |-> p, file |-> None], [op |-> "commit", path |-> p, file |-> None]>>
  BY DEF SyncFile
<1>3. UNCHANGED <<disk, index, head, history, stashes, names>>
  BY DEF SyncFile
<1>4. SameRules(disk, disk')
  BY <1>3 DEF SameRules
<1>5. \A i \in DOMAIN todo' : StepKeeps(todo, i, disk)'
  BY <1>1, <1>2, AddingKeeps
<1> QED BY <1>3, <1>4, <1>5, QuietToolKeeps

LEMMA SyncRulesKeeps ==
    ASSUME TypeOK, KeptInv, Steady, SyncRules
    PROVE  KeptInv'
<1>1. \A q \in Unsynced : q \in Path /\ disk[q] # None
  BY DEF Unsynced, Committable, ActivePaths
<1>2. PICK q \in Unsynced : todo' = <<[op |-> "add all", path |-> q, file |-> None],
                                     [op |-> "commit", path |-> q, file |-> None]>>
  BY DEF SyncRules
<1>3. /\ [op |-> "add all", path |-> q, file |-> None] \in Step
      /\ [op |-> "commit", path |-> q, file |-> None] \in Step
  BY <1>1, StepTypes
<1>4. UNCHANGED <<index, head, history, stashes, names>> /\ disk' = Marking(Unsynced)
  BY DEF SyncRules
<1>5. SameRules(disk, disk')
  BY <1>1, <1>4, MarkingRules
<1>6. \A i \in DOMAIN todo' : StepKeeps(todo, i, disk)'
  BY <1>2, <1>3, AddingKeeps
<1> QED BY <1>4, <1>5, <1>6, QuietToolKeeps

LEMMA WriteRuleKeeps ==
    ASSUME TypeOK, KeptInv, Steady, NEW r \in Rules, WriteRule(r)
    PROVE  KeptInv'
<1>1. PICK n \in Name :
         /\ disk[<<"active", n>>] = None
         /\ names' = [names EXCEPT ![r] = n]
         /\ disk' = [disk EXCEPT ![<<"active", n>>] =
                [rule |-> r, status |-> "pending", readable |-> TRUE, conflicts |-> {}]]
  BY DEF WriteRule, FreeName
<1> DEFINE new == <<"active", n>>
           file == [rule |-> r, status |-> "pending", readable |-> TRUE, conflicts |-> {}]
<1>2. file \in File /\ file.rule = r /\ file # None
  <2>1. file \in File
    BY DEF File, Status
  <2>2. file.rule = r
    OBVIOUS
  <2> HIDE DEF file
  <2> QED BY <2>1, <2>2, NoneIsNoFile
<1>3. new \in Path /\ new[2] = n /\ n # 0
  BY DEF Path, Name
<1>4. disk'[new] = file /\ \A q \in Path \ {new} : disk'[q] = disk[q]
  BY <1>1, <1>3 DEF TypeOK, Tree
<1> HIDE DEF new, file
<1>5. names[r] = 0 /\ UNCHANGED <<index, head, history, stashes>> /\ todo = <<>> /\ todo' = <<>>
  BY DEF WriteRule, Quiet
<1>6. names'[r] = n /\ \A s \in Rules : s # r => names'[s] = names[s]
  BY <1>1 DEF TypeOK
<1>7. ASSUME NEW tree \in Tree, Named(tree), NEW p \in Path, tree[p] # None
      PROVE  names'[tree[p].rule] = p[2]
  <2>1. tree[p].rule \in Rules
    BY <1>7, TreeFiles, FileUpdates
  <2>2. names[tree[p].rule] = p[2] /\ p[2] # 0
    BY <1>7, PathsOfNames DEF Named, Name
  <2>3. tree[p].rule # r
    BY <1>5, <2>2
  <2> QED BY <1>6, <2>1, <2>2, <2>3
<1>8. NamesInv'
  <2>1. Named(disk)'
    <3>1. disk \in Tree /\ Named(disk)
      BY DEF TypeOK, KeptInv, NamesInv
    <3>2. \A p \in Path : disk'[p] # None => names'[disk'[p].rule] = p[2]
      BY <1>2, <1>3, <1>4, <1>6, <1>7, <3>1
    <3> QED BY <3>2 DEF Named
  <2>2. Named(index)' /\ Named(head)'
    <3>1. index \in Tree /\ Named(index) /\ head \in Tree /\ Named(head)
      BY DEF TypeOK, KeptInv, NamesInv
    <3> QED BY <1>5, <1>7, <3>1 DEF Named
  <2>3. ASSUME NEW i \in DOMAIN stashes
        PROVE  Named(stashes[i].base)' /\ Named(stashes[i].index)' /\ Named(stashes[i].work)'
    <3>1. /\ stashes[i].base \in Tree /\ Named(stashes[i].base)
          /\ stashes[i].index \in Tree /\ Named(stashes[i].index)
          /\ stashes[i].work \in Tree /\ Named(stashes[i].work)
      BY StashTrees DEF KeptInv, NamesInv
    <3>2. stashes' = stashes
      BY <1>5
    <3> QED BY <1>7, <3>1, <3>2 DEF Named
  <2>4. stashes' = stashes
    BY <1>5
  <2> QED BY <2>1, <2>2, <2>3, <2>4 DEF NamesInv
<1>9. HistoryInv'
  BY <1>5 DEF KeptInv, HistoryInv, RulesIn
<1>10. \A s : (OnDisk(s) => OnDisk(s)') /\ (Stashed(s) => Stashed(s)')
  BY <1>1, <1>3, <1>4, <1>5 DEF OnDisk, Stashed, new
<1>11. Safe(r)'
  BY <1>2, <1>3, <1>4 DEF Safe, OnDisk
<1>12. ASSUME NEW s \in Written', s # r
       PROVE  Safe(s)'
  <2>1. s \in Written
    BY <1>6, <1>12 DEF Written
  <2>2. \A t \in Written \ {s} : names[t] = names[s] => t \in (Written \ {s})' /\ names'[t] = names'[s]
    BY <1>5, <1>6, <1>12, <2>1 DEF Written
  <2> QED BY <1>5, <1>10, <2>1, <2>2 DEF KeptInv, Safe
<1> QED BY <1>5, <1>8, <1>9, <1>11, <1>12 DEF KeptInv

(* A rollback point takes what it removes from the working tree. *)
LEMMA RollbackPointKeeps ==
    ASSUME TypeOK, KeptInv, Steady, Steady', NEW n \in Points, CreateRollbackPoint(n)
    PROVE  KeptInv'
<1>1. /\ disk' = head /\ index' = head /\ UNCHANGED <<head, history, names>>
      /\ todo' = <<>>
  BY DEF CreateRollbackPoint, Allowed, Quiet
<1>2. ~Clean
  <2>1. SUFFICES ASSUME Clean PROVE FALSE
    OBVIOUS
  <2>2. tags' = [tags EXCEPT ![n] = head]
    BY <2>1 DEF CreateRollbackPoint
  <2>3. tags'[n] = head
    BY <2>2 DEF TypeOK
  <2>4. head # None
    BY NoneIsNoFile DEF TypeOK
  <2> QED BY <2>3, <2>4 DEF Steady
<1> DEFINE stash == [point |-> n, base |-> head, index |-> index, work |-> disk]
<1>3. stash \in Stash /\ stash.base = head /\ stash.index = index /\ stash.work = disk
  BY DEF Stash, TypeOK
<1>4. stashes' = <<stash>> \o stashes
  BY <1>2 DEF CreateRollbackPoint
<1> HIDE DEF stash
<1>5. /\ DOMAIN stashes' = 1 .. Len(stashes) + 1 /\ stashes'[1] = stash
      /\ \A i \in DOMAIN stashes : i + 1 \in DOMAIN stashes' /\ stashes'[i + 1] = stashes[i]
      /\ \A i \in DOMAIN stashes' : i = 1 \/ (i - 1 \in DOMAIN stashes /\ stashes'[i] = stashes[i - 1])
      /\ 1 \in DOMAIN stashes'
  <2>1. stashes \in Seq(Stash) /\ <<stash>> \in Seq(Stash) /\ Len(<<stash>>) = 1 /\ <<stash>>[1] = stash
    BY <1>3 DEF TypeOK
  <2>2. Len(stashes) \in Nat /\ DOMAIN stashes = 1 .. Len(stashes)
    BY <2>1, LenProperties
  <2>3. /\ stashes' \in Seq(Stash) /\ Len(stashes') = 1 + Len(stashes)
        /\ \A i \in 1 .. 1 + Len(stashes) : stashes'[i] = IF i <= 1 THEN <<stash>>[i] ELSE stashes[i - 1]
    BY <1>4, <2>1, ConcatProperties
  <2>4. DOMAIN stashes' = 1 .. 1 + Len(stashes)
    BY <2>3, LenProperties
  <2> QED BY <2>1, <2>2, <2>3, <2>4
<1>6. NamesInv'
  <2>1. Named(head)' /\ Named(disk)' /\ Named(index)'
    BY <1>1 DEF KeptInv, NamesInv, Named
  <2>2. ASSUME NEW i \in DOMAIN stashes'
        PROVE  (Named(stashes[i].base) /\ Named(stashes[i].index) /\ Named(stashes[i].work))'
    <3>1. CASE i = 1
      BY <1>1, <1>3, <1>5, <3>1 DEF KeptInv, NamesInv, Named
    <3>2. CASE i # 1
      <4>1. i - 1 \in DOMAIN stashes /\ stashes'[i] = stashes[i - 1]
        BY <1>5, <3>2
      <4> QED BY <1>1, <4>1 DEF KeptInv, NamesInv, Named
    <3> QED BY <3>1, <3>2
  <2> QED BY <2>1, <2>2 DEF NamesInv
<1>7. HistoryInv'
  <2>1. RulesIn(head)' \subseteq history'
    BY <1>1 DEF KeptInv, HistoryInv, RulesIn
  <2>2. ASSUME NEW i \in DOMAIN stashes'
        PROVE  RulesIn(stashes'[i].base) \subseteq history'
    <3>1. CASE i = 1
      BY <1>1, <1>3, <1>5, <3>1 DEF KeptInv, HistoryInv
    <3>2. CASE i # 1
      <4>1. i - 1 \in DOMAIN stashes /\ stashes'[i] = stashes[i - 1]
        BY <1>5, <3>2
      <4> QED BY <1>1, <4>1 DEF KeptInv, HistoryInv
    <3> QED BY <3>1, <3>2
  <2> QED BY <2>1, <2>2 DEF HistoryInv, RulesIn
<1>8. \A r : (OnDisk(r) \/ Stashed(r)) => Stashed(r)'
  <2>1. \A r : OnDisk(r) => Stashed(r)'
    BY <1>3, <1>5 DEF OnDisk, Stashed
  <2>2. \A r : Stashed(r) => Stashed(r)'
    BY <1>5 DEF Stashed
  <2> QED BY <2>1, <2>2
<1>9. Written' = Written
  BY <1>1 DEF Written
<1>10. \A r \in Written' : Safe(r)'
  BY <1>1, <1>8, <1>9 DEF KeptInv, Safe
<1> QED BY <1>1, <1>6, <1>7, <1>10 DEF KeptInv

(* Applying a stash removes a file only if HEAD had it when it was made, and *)
(* a conflict keeps our rule.                                                *)
LEMMA RollbackKeeps ==
    ASSUME TypeOK, KeptInv, Steady, NEW n \in Points, RollbackToStash(n)
    PROVE  KeptInv'
<1>1. PICK i \in DOMAIN stashes : Applicable(stashes[i]) /\ Apply(stashes[i])
  BY DEF RollbackToStash
<1>2. UNCHANGED <<head, history, stashes, names>> /\ todo' = <<>>
  BY DEF RollbackToStash, Allowed, Quiet
<1> DEFINE s == stashes[i]
<1>3. /\ s.work \in Tree /\ s.base \in Tree
      /\ Named(s.work) /\ Named(s.base) /\ RulesIn(s.base) \subseteq history
      /\ \A p \in Path : s.work[p] # None => Stashed(s.work[p].rule)
  <2>1. s.work \in Tree /\ s.base \in Tree
    BY StashTrees
  <2>2. Named(s.work) /\ Named(s.base) /\ RulesIn(s.base) \subseteq history
    BY DEF KeptInv, NamesInv, HistoryInv
  <2> QED BY <2>1, <2>2 DEF Stashed
<1>4. Applicable(s) /\ Apply(s)
  BY <1>1
<1> HIDE DEF s
<1>5. /\ disk' = [p \in Path |->
                    IF p \in Clashing(s) THEN Conflicted(index[p], s.work[p])
                    ELSE IF p \in Changed(s) \/ (p \in Untracked(s) /\ disk[p] = None) THEN s.work[p]
                    ELSE disk[p]]
      /\ index' = [p \in Path |->
                    IF p \in Changed(s) \ Clashing(s) /\ (index[p] = None \/ Clashing(s) # {})
                    THEN s.work[p] ELSE index[p]]
  BY <1>4 DEF Apply
<1>6. Named(disk) /\ Named(index) /\ Named(head) /\ index \in Tree /\ disk \in Tree
  BY DEF KeptInv, NamesInv, TypeOK
<1>7. ASSUME NEW p \in Path
      PROVE  LET c == Conflicted(index[p], s.work[p]) IN
             /\ c # None => \/ index[p] # None /\ c.rule = index[p].rule
                            \/ s.work[p] # None /\ c.rule = s.work[p].rule
             /\ index[p] # None => c # None /\ c.rule = index[p].rule
  <2>1. CASE index[p] = None \/ s.work[p] = None
    BY <2>1 DEF Conflicted
  <2>2. CASE index[p] # None /\ s.work[p] # None
    <3>1. index[p] \in File
      BY <1>6, <2>2, TreeFiles
    <3>2. [index[p] EXCEPT !.readable = FALSE] \in File /\ [index[p] EXCEPT !.readable = FALSE].rule = index[p].rule
      BY <3>1, FileUpdates, RuleStays
    <3>3. Conflicted(index[p], s.work[p]) = [index[p] EXCEPT !.readable = FALSE]
      BY <2>2 DEF Conflicted
    <3> QED BY <2>2, <3>2, <3>3, NoneIsNoFile
  <2> QED BY <2>1, <2>2
<1>8. NamesInv'
  <2>1. \A p \in Path : disk'[p] # None => \/ disk[p] # None /\ disk'[p].rule = disk[p].rule
                                           \/ index[p] # None /\ disk'[p].rule = index[p].rule
                                           \/ s.work[p] # None /\ disk'[p].rule = s.work[p].rule
    BY <1>5, <1>7
  <2>2. Named(disk)'
    BY <1>2, <1>3, <1>6, <2>1 DEF Named
  <2>3. Named(index)'
    BY <1>2, <1>3, <1>5, <1>6 DEF Named
  <2> QED BY <1>2, <2>2, <2>3 DEF KeptInv, NamesInv, Named
<1>9. HistoryInv'
  BY <1>2 DEF KeptInv, HistoryInv, RulesIn
<1>10. ASSUME NEW r, NEW p \in Path, disk[p] # None, disk[p].rule = r
       PROVE  OnDisk(r)' \/ r \in history
  <2>1. CASE p \in Clashing(s)
    <3>1. disk[p] = index[p]
      BY <1>4, <2>1 DEF Applicable, Clashing
    <3>2. disk'[p] # None /\ disk'[p].rule = r
      BY <1>5, <1>7, <1>10, <2>1, <3>1
    <3> QED BY <3>2 DEF OnDisk
  <2>2. CASE p \in Changed(s) \ Clashing(s)
    <3>1. disk[p] = s.base[p]
      BY <1>4, <2>2 DEF Applicable, Clashing
    <3> QED BY <1>3, <1>10, <3>1 DEF RulesIn
  <2>3. CASE p \notin Changed(s)
    <3>1. p \notin Clashing(s) /\ disk'[p] = disk[p]
      BY <1>5, <1>10, <2>3 DEF Clashing
    <3> QED BY <1>10, <3>1 DEF OnDisk
  <2> QED BY <2>1, <2>2, <2>3
<1>11. \A r : OnDisk(r) => OnDisk(r)' \/ r \in history'
  BY <1>2, <1>10 DEF OnDisk
<1>12. Written' = Written /\ \A r : Stashed(r) => Stashed(r)'
  BY <1>2 DEF Written, Stashed
<1>13. \A r \in Written' : Safe(r)'
  BY <1>2, <1>11, <1>12 DEF KeptInv, Safe
<1> QED BY <1>2, <1>8, <1>9, <1>13 DEF KeptInv

(* The steps that are left, once the first is done. *)
LEMMA RestKeeps ==
    ASSUME TypeOK, todo # <<>>, \A i \in DOMAIN todo : StepKeeps(todo, i, disk)
    PROVE  /\ \A i \in DOMAIN Rest :
                 /\ Rest[i].op # "write"
                 /\ Rest[i].op = "unlink" =>
                       /\ i = 1
                       /\ Next1.op = "write"
                       /\ Next1.path # Rest[1].path
                       /\ disk[Rest[1].path] # None
                       /\ disk[Rest[1].path].rule = Next1.file.rule
           /\ \A i \in DOMAIN AfterFailedAdd :
                 Next1.op # "write" => AfterFailedAdd[i].op \notin {"write", "unlink"}
<1>1. /\ Len(todo) \in Nat \ {0} /\ DOMAIN todo = 1 .. Len(todo) /\ Next1 = todo[1]
      /\ DOMAIN Rest = 1 .. Len(todo) - 1
      /\ \A i \in DOMAIN Rest : Rest[i] = todo[i + 1]
      /\ DOMAIN AfterFailedAdd = 1 .. Len(todo) - 2
      /\ \A i \in DOMAIN AfterFailedAdd : AfterFailedAdd[i] = todo[i + 2]
  BY Remaining
<1>2. ASSUME NEW i \in DOMAIN Rest
      PROVE  /\ Rest[i].op # "write"
             /\ Rest[i].op = "unlink" =>
                   /\ i = 1
                   /\ Next1.op = "write"
                   /\ Next1.path # Rest[1].path
                   /\ disk[Rest[1].path] # None
                   /\ disk[Rest[1].path].rule = Next1.file.rule
  <2>1. i + 1 \in DOMAIN todo /\ i + 1 # 1 /\ (i + 1 = 2 => i = 1)
    BY <1>1
  <2>2. Rest[i] = todo[i + 1] /\ StepKeeps(todo, i + 1, disk)
    BY <1>1, <2>1
  <2>3. Rest[i].op # "write"
    BY <2>1, <2>2 DEF StepKeeps
  <2>4. ASSUME Rest[i].op = "unlink"
        PROVE  /\ i = 1
               /\ Next1.op = "write"
               /\ Next1.path # Rest[1].path
               /\ disk[Rest[1].path] # None
               /\ disk[Rest[1].path].rule = Next1.file.rule
    BY <1>1, <2>1, <2>2, <2>4 DEF StepKeeps
  <2> QED BY <2>3, <2>4
<1>3. ASSUME NEW i \in DOMAIN AfterFailedAdd, Next1.op # "write"
      PROVE  AfterFailedAdd[i].op \notin {"write", "unlink"}
  <2>1. i + 2 \in DOMAIN todo /\ i + 2 # 1 /\ i + 2 # 2
    BY <1>1
  <2>2. AfterFailedAdd[i] = todo[i + 2] /\ StepKeeps(todo, i + 2, disk)
    BY <1>1, <2>1
  <2> QED BY <2>1, <2>2 DEF StepKeeps
<1> QED BY <1>2, <1>3

(* No step of a call but its first may leave a write or an unlink behind. *)
LEMMA LaterStepsKeep ==
    ASSUME TypeOK, KeptInv, Steady, todo # <<>>,
           Next1.op \notin {"write", "unlink"} \/ todo' = <<>>,
           todo' = Rest \/ todo' = AfterFailedAdd \/ todo' = <<>>
    PROVE  \A i \in DOMAIN todo' : StepKeeps(todo, i, disk)'
<1>1. CASE todo' = <<>>
  BY <1>1
<1>2. CASE Next1.op \notin {"write", "unlink"} /\ (todo' = Rest \/ todo' = AfterFailedAdd)
  <2>1. \A i \in DOMAIN todo : StepKeeps(todo, i, disk)
    BY DEF KeptInv
  <2>2. \A i \in DOMAIN todo' : todo'[i].op \notin {"write", "unlink"}
    BY <1>2, <2>1, RestKeeps
  <2> QED BY <2>2 DEF StepKeeps
<1> QED BY <1>1, <1>2

(* What git does touches no file of the working tree. *)
LEMMA GitKeeps ==
    ASSUME TypeOK, KeptInv, Steady, todo # <<>>,
           UNCHANGED <<disk, stashes, names>>,
           \A i \in DOMAIN todo' : StepKeeps(todo, i, disk)',
           index' \in Tree,
           \A p \in Path : index'[p] = index[p] \/ index'[p] = disk[p],
           \/ head' = head /\ history' = history
           \/ head' = index /\ history' = history \cup RulesIn(index)
    PROVE  KeptInv'
<1>1. Named(disk) /\ Named(index) /\ Named(head) /\ RulesIn(head) \subseteq history
  BY DEF KeptInv, NamesInv, HistoryInv
<1>2. NamesInv'
  <2>1. Named(disk)' /\ Named(index)' /\ Named(head)'
    BY <1>1 DEF Named
  <2> QED BY <2>1 DEF KeptInv, NamesInv, Named
<1>3. HistoryInv'
  <2>1. RulesIn(head') \subseteq history' /\ history \subseteq history'
    BY <1>1
  <2>2. \A i \in DOMAIN stashes' : RulesIn(stashes'[i].base) \subseteq history'
    BY <2>1 DEF KeptInv, HistoryInv
  <2> QED BY <2>1, <2>2 DEF HistoryInv, RulesIn
<1>4. Written' = Written /\ \A r : (Stashed(r) => Stashed(r)') /\ (OnDisk(r) => OnDisk(r)')
  BY DEF Written, Stashed, OnDisk
<1>5. history \subseteq history'
  OBVIOUS
<1>6. \A r \in Written' : Safe(r)'
  BY <1>4, <1>5 DEF KeptInv, Safe
<1> QED BY <1>2, <1>3, <1>6 DEF KeptInv

(* A written copy may cover another rule, but only one of the same name. *)
LEMMA FileIsWrittenKeeps ==
    ASSUME TypeOK, KeptInv, Steady, FileIsWritten
    PROVE  KeptInv'
<1> DEFINE p == Next1.path
           f == Next1.file
<1>1. /\ todo # <<>> /\ Next1.op = "write"
      /\ disk' = [disk EXCEPT ![p] = f] /\ todo' = Rest
      /\ UNCHANGED <<index, head, history, stashes, names>>
  BY DEF FileIsWritten, At
<1>2. \A i \in DOMAIN todo : StepKeeps(todo, i, disk)
  BY DEF KeptInv
<1>3. /\ Next1 = todo[1] /\ 1 \in DOMAIN todo
      /\ p \in Path /\ f \in File \cup {None} /\ disk \in Tree
  <2>1. Next1 \in Step /\ Next1 = todo[1] /\ 1 \in DOMAIN todo
    BY <1>1, Remaining
  <2> QED BY <2>1 DEF Step, TypeOK
<1>4. f # None /\ f \in File /\ names[f.rule] = p[2] /\ HasRule(disk, f.rule)
  <2>1. StepKeeps(todo, 1, disk)
    BY <1>2, <1>3
  <2> QED BY <1>1, <1>3, <2>1 DEF StepKeeps
<1>5. \A i \in DOMAIN Rest :
         /\ Rest[i].op # "write"
         /\ Rest[i].op = "unlink" => /\ i = 1 /\ p # Rest[1].path
                                     /\ disk[Rest[1].path] # None
                                     /\ disk[Rest[1].path].rule = f.rule
  BY <1>1, <1>2, RestKeeps
<1> HIDE DEF p, f
<1>6. disk'[p] = f /\ \A q \in Path \ {p} : disk'[q] = disk[q]
  BY <1>1, <1>3 DEF Tree
<1>7. NamesInv'
  <2>1. Named(disk)'
    <3>1. Named(disk)
      BY DEF KeptInv, NamesInv
    <3> QED BY <1>1, <1>4, <1>6, <3>1 DEF Named
  <2> QED BY <1>1, <2>1 DEF KeptInv, NamesInv, Named
<1>8. HistoryInv'
  BY <1>1 DEF KeptInv, HistoryInv, RulesIn
<1>9. \A i \in DOMAIN todo' : StepKeeps(todo, i, disk)'
  <2> SUFFICES ASSUME NEW i \in DOMAIN todo', todo'[i].op = "unlink"
               PROVE  /\ i = 1
                      /\ \E q \in Path \ {todo'[i].path} :
                            /\ disk'[q] # None
                            /\ disk'[todo'[i].path] # None =>
                                  disk'[q].rule = disk'[todo'[i].path].rule
    BY <1>1, <1>5 DEF StepKeeps
  <2>1. i = 1 /\ p # todo'[1].path /\ disk[todo'[1].path].rule = f.rule
    BY <1>1, <1>5
  <2>2. todo'[1].path \in Path
    <3>1. Rest \in Seq(Step) /\ DOMAIN Rest = 1 .. Len(todo) - 1 /\ Len(todo) \in Nat \ {0}
      BY <1>1, Remaining
    <3>2. Len(Rest) \in Nat /\ DOMAIN Rest = 1 .. Len(Rest)
      BY <3>1, LenProperties
    <3>3. 1 \in 1 .. Len(Rest)
      BY <1>1, <2>1, <3>2
    <3>4. Rest[1] \in Step
      BY <3>1, <3>3, ElementOfSeq
    <3> QED BY <1>1, <3>4 DEF Step
  <2>3. p \in Path \ {todo'[i].path} /\ disk'[p] # None /\ disk'[todo'[i].path] = disk[todo'[i].path]
    BY <1>3, <1>4, <1>6, <2>1, <2>2
  <2>4. disk'[p].rule = disk'[todo'[i].path].rule
    BY <1>6, <2>1, <2>3
  <2> QED BY <2>1, <2>3, <2>4
<1>10. Written' = Written /\ \A r : Stashed(r)' <=> Stashed(r)
  BY <1>1 DEF Written, Stashed
<1>11. f.rule \in Written
  <2>1. f.rule \in Rules /\ p[2] # 0
    BY <1>3, <1>4, FileUpdates, PathsOfNames DEF Name
  <2> QED BY <1>4, <2>1 DEF Written
<1>12. ASSUME NEW r \in Written, OnDisk(r)
       PROVE  Safe(r)'
  <2>1. PICK q \in Path : disk[q] # None /\ disk[q].rule = r
    BY <1>12 DEF OnDisk
  <2>2. CASE q # p
    BY <1>6, <2>1, <2>2 DEF Safe, OnDisk
  <2>3. CASE r = f.rule
    BY <1>3, <1>4, <1>6, <2>3 DEF Safe, OnDisk
  <2>4. CASE q = p /\ r # f.rule
    <3>1. names[r] = p[2]
      BY <2>1, <2>4 DEF KeptInv, NamesInv, Named
    <3>2. f.rule \in (Written \ {r})' /\ names'[f.rule] = names'[r]
      BY <1>1, <1>4, <1>10, <1>11, <2>4, <3>1
    <3> QED BY <3>2 DEF Safe
  <2> QED BY <2>2, <2>3, <2>4
<1>13. \A r \in Written' : Safe(r)'
  <2> SUFFICES ASSUME NEW r \in Written PROVE Safe(r)'
    BY <1>10
  <2>1. Safe(r)
    BY DEF KeptInv
  <2>2. CASE OnDisk(r)
    BY <1>12, <2>2
  <2>3. CASE ~OnDisk(r)
    BY <1>1, <1>10, <2>1, <2>3 DEF Safe
  <2> QED BY <2>2, <2>3
<1> QED BY <1>7, <1>8, <1>9, <1>13 DEF KeptInv

(* What is unlinked has its copy. *)
LEMMA FileIsUnlinkedKeeps ==
    ASSUME TypeOK, KeptInv, Steady, FileIsUnlinked
    PROVE  KeptInv'
<1> DEFINE p == Next1.path
<1>1. /\ todo # <<>> /\ Next1.op = "unlink"
      /\ disk' = [disk EXCEPT ![p] = None] /\ todo' = Rest
      /\ UNCHANGED <<index, head, history, stashes, names>>
  BY DEF FileIsUnlinked, At
<1>2. \A i \in DOMAIN todo : StepKeeps(todo, i, disk)
  BY DEF KeptInv
<1>3. Next1 = todo[1] /\ 1 \in DOMAIN todo /\ p \in Path /\ disk \in Tree
  <2>1. Next1 \in Step /\ Next1 = todo[1] /\ 1 \in DOMAIN todo
    BY <1>1, Remaining
  <2> QED BY <2>1 DEF Step, TypeOK
<1>4. PICK q \in Path \ {p} : disk[q] # None /\ (disk[p] # None => disk[q].rule = disk[p].rule)
  <2>1. StepKeeps(todo, 1, disk)
    BY <1>2, <1>3
  <2> QED BY <1>1, <1>3, <2>1 DEF StepKeeps
<1>5. \A i \in DOMAIN todo' : StepKeeps(todo, i, disk)'
  <2>1. \A i \in DOMAIN todo' : todo'[i].op \notin {"write", "unlink"}
    BY <1>1, <1>2, RestKeeps
  <2> QED BY <2>1 DEF StepKeeps
<1> HIDE DEF p
<1>6. disk'[p] = None /\ \A t \in Path \ {p} : disk'[t] = disk[t]
  BY <1>1, <1>3 DEF Tree
<1>7. NamesInv'
  <2>1. Named(disk)'
    <3>1. Named(disk)
      BY DEF KeptInv, NamesInv
    <3> QED BY <1>1, <1>6, <3>1 DEF Named
  <2> QED BY <1>1, <2>1 DEF KeptInv, NamesInv, Named
<1>8. HistoryInv'
  BY <1>1 DEF KeptInv, HistoryInv, RulesIn
<1>9. \A r : OnDisk(r) => OnDisk(r)'
  BY <1>3, <1>4, <1>6 DEF OnDisk
<1>10. Written' = Written /\ \A r : Stashed(r)' <=> Stashed(r)
  BY <1>1 DEF Written, Stashed
<1>11. \A r \in Written' : Safe(r)'
  BY <1>1, <1>9, <1>10 DEF KeptInv, Safe
<1> QED BY <1>5, <1>7, <1>8, <1>11 DEF KeptInv

LEMMA GoesKeeps ==
    ASSUME TypeOK, TypeOK', KeptInv, Steady, Goes
    PROVE  KeptInv'
<1>1. todo # <<>> /\ index \in Tree /\ index' \in Tree
  BY DEF Goes, FileIsWritten, FileIsUnlinked, PathIsAdded, AllIsAdded, IndexIsCommitted, GitFails, Dies, At,
         TypeOK
<1>2. CASE FileIsWritten
  BY <1>2, FileIsWrittenKeeps
<1>3. CASE FileIsUnlinked
  BY <1>3, FileIsUnlinkedKeeps
<1>4. CASE PathIsAdded
  <2>1. Next1.op \notin {"write", "unlink"} /\ (todo' = Rest \/ todo' = AfterFailedAdd)
    BY <1>4 DEF PathIsAdded, At
  <2>2. UNCHANGED <<disk, head, history, stashes, names>>
    BY <1>4 DEF PathIsAdded
  <2>3. index' = index \/ index' = [index EXCEPT ![Next1.path] = disk[Next1.path]]
    BY <1>4 DEF PathIsAdded
  <2>4. \A p \in Path : index'[p] = index[p] \/ index'[p] = disk[p]
    BY <1>1, <2>3 DEF Tree
  <2>5. \A i \in DOMAIN todo' : StepKeeps(todo, i, disk)'
    BY <1>1, <2>1, LaterStepsKeep
  <2> QED BY <1>1, <2>2, <2>4, <2>5, GitKeeps
<1>5. CASE AllIsAdded
  <2>1. Next1.op \notin {"write", "unlink"} /\ todo' = Rest
    BY <1>5 DEF AllIsAdded, At
  <2>2. UNCHANGED <<disk, head, history, stashes, names>> /\ index' = disk
    BY <1>5 DEF AllIsAdded
  <2>3. \A i \in DOMAIN todo' : StepKeeps(todo, i, disk)'
    BY <1>1, <2>1, LaterStepsKeep
  <2> QED BY <1>1, <2>2, <2>3, GitKeeps
<1>6. CASE IndexIsCommitted
  <2>1. Next1.op \notin {"write", "unlink"} /\ todo' = Rest
    BY <1>6 DEF IndexIsCommitted, At
  <2>2. /\ UNCHANGED <<disk, index, stashes, names>>
        /\ \/ head' = head /\ history' = history
           \/ head' = index /\ history' = history \cup RulesIn(index)
    BY <1>6 DEF IndexIsCommitted
  <2>3. \A i \in DOMAIN todo' : StepKeeps(todo, i, disk)'
    BY <1>1, <2>1, LaterStepsKeep
  <2> QED BY <1>1, <2>2, <2>3, GitKeeps
<1>7. CASE GitFails
  <2>1. Next1.op \notin {"write", "unlink"} /\ (todo' = Rest \/ todo' = AfterFailedAdd)
    BY <1>7 DEF GitFails, At
  <2>2. UNCHANGED <<disk, index, head, history, stashes, names>>
    BY <1>7 DEF GitFails, repository
  <2>3. \A i \in DOMAIN todo' : StepKeeps(todo, i, disk)'
    BY <1>1, <2>1, LaterStepsKeep
  <2> QED BY <1>1, <2>2, <2>3, GitKeeps
<1>8. CASE Dies
  <2>1. UNCHANGED <<disk, index, head, history, stashes, names>> /\ todo' = <<>>
    BY <1>8 DEF Dies, repository
  <2>2. \A i \in DOMAIN todo' : StepKeeps(todo, i, disk)'
    BY <2>1
  <2> QED BY <1>1, <2>1, <2>2, GitKeeps
<1> QED BY <1>2, <1>3, <1>4, <1>5, <1>6, <1>7, <1>8 DEF Goes

(* Tags are never taken away, so a steady step begins in a steady state. *)
LEMMA SteadyBefore ==
    ASSUME TypeOK, [Next]_vars, Steady'
    PROVE  Steady
<1>1. world' = world
  BY WorldStays
<1>2. \A m \in Points : tags'[m] = None => tags[m] = None
  <2>1. CASE tags' = tags
    BY <2>1
  <2>2. ASSUME NEW n \in Points, CreateRollbackPoint(n)
        PROVE  \A m \in Points : tags'[m] = None => tags[m] = None
    <3>1. CASE Clean
      <4>1. tags' = [tags EXCEPT ![n] = head]
        BY <2>2, <3>1 DEF CreateRollbackPoint
      <4>2. head # None
        BY NoneIsNoFile DEF TypeOK
      <4> QED BY <4>1, <4>2 DEF TypeOK
    <3>2. CASE ~Clean
      BY <2>2, <3>2 DEF CreateRollbackPoint
    <3> QED BY <3>1, <3>2
  <2>3. CASE UNCHANGED vars
    BY <2>1, <2>3 DEF vars
  <2>4. ASSUME NEW r \in Rules, WriteRule(r) PROVE tags' = tags
    BY <2>4 DEF WriteRule
  <2>5. ASSUME NEW p \in Path, StageRule(p) \/ CommitRule(p) \/ RejectRule(p) \/ RestoreRule(p) \/ SyncFile(p)
        PROVE  tags' = tags
    BY <2>5 DEF StageRule, CommitRule, RejectRule, RestoreRule, SyncFile
  <2>6. CASE CheckRaises \/ CheckSyncStatus \/ SyncRules
    BY <2>1, <2>6 DEF CheckRaises, CheckSyncStatus, SyncRules
  <2>7. ASSUME NEW n \in Points, RollbackToStash(n) \/ RollbackToTag(n) PROVE tags' = tags
    BY <2>7 DEF RollbackToStash, RollbackToTag
  <2>8. CASE CleanupRollbackStashes
    BY <2>1, <2>8 DEF CleanupRollbackStashes
  <2>9. CASE Goes
    <3>1. tags' = tags
      BY <2>9 DEF Goes, FileIsWritten, FileIsUnlinked, PathIsAdded, AllIsAdded, IndexIsCommitted, GitFails, Dies
    <3> QED BY <2>1, <3>1
  <2> QED BY <2>1, <2>2, <2>3, <2>4, <2>5, <2>6, <2>7, <2>8, <2>9 DEF Next
<1> QED BY <1>1, <1>2 DEF Steady

(* Whichever git command fails, and wherever a call is cut off, every rule  *)
(* that was written stays on disk, in a stash, in a commit or in hand, but  *)
(* for one that another rule of its name has covered.                       *)
THEOREM NoRuleVanishes == Spec => []RulesKept
<1>1. Init => KeptInv
  <2> SUFFICES ASSUME Init PROVE KeptInv
    OBVIOUS
  <2>1. Written = {} /\ stashes = <<>> /\ todo = <<>>
    BY DEF Init, Written
  <2>2. Named(disk) /\ Named(index) /\ Named(head) /\ RulesIn(head) \subseteq history
    BY DEF Init, EmptyTree, Named, RulesIn
  <2> QED BY <2>1, <2>2 DEF KeptInv, NamesInv, HistoryInv
<1>2. TypeOK /\ TypeOK' /\ KeptInv /\ [Next]_vars => KeptInv'
  <2> SUFFICES ASSUME TypeOK, TypeOK', KeptInv, [Next]_vars, Steady' PROVE KeptInv'
    BY DEF KeptInv
  <2>1. Steady
    BY SteadyBefore
  <2>2. CASE UNCHANGED vars
    <3>1. UNCHANGED <<world, disk, index, head, history, stashes, tags, names, todo>>
      BY <2>2 DEF vars
    <3> QED BY <3>1 DEF KeptInv, Steady, NamesInv, HistoryInv, Named, RulesIn, StepKeeps, HasRule,
                        Safe, OnDisk, Stashed, Written
  <2>3. ASSUME NEW r \in Rules, WriteRule(r) PROVE KeptInv'
    BY <2>1, <2>3, WriteRuleKeeps
  <2>4. ASSUME NEW p \in Path,
               StageRule(p) \/ CommitRule(p) \/ RejectRule(p) \/ RestoreRule(p) \/ SyncFile(p)
        PROVE  KeptInv'
    BY <2>1, <2>4, StageKeeps, CommitKeeps, MovingKeeps, SyncFileKeeps
  <2>5. CASE CheckRaises \/ CheckSyncStatus \/ SyncRules
    BY <2>1, <2>5, CheckKeeps, SyncRulesKeeps
  <2>6. ASSUME NEW n \in Points, CreateRollbackPoint(n) PROVE KeptInv'
    BY <2>1, <2>6, RollbackPointKeeps
  <2>7. ASSUME NEW n \in Points, RollbackToStash(n) PROVE KeptInv'
    BY <2>1, <2>7, RollbackKeeps
  <2>8. ASSUME NEW n \in Points, RollbackToTag(n) PROVE FALSE
    BY <2>1, <2>8 DEF RollbackToTag, Steady
  <2>9. ~CleanupRollbackStashes
    BY <2>1 DEF CleanupRollbackStashes, Allowed, Steady
  <2>10. CASE Goes
    BY <2>1, <2>10, GoesKeeps
  <2> QED BY <2>2, <2>3, <2>4, <2>5, <2>6, <2>7, <2>8, <2>9, <2>10 DEF Next
<1>3. KeptInv => RulesKept
  BY DEF KeptInv, Safe, Steady, RulesKept, Kept
<1> QED BY <1>1, <1>2, <1>3, RepositoryTypeOK, PTL DEF Spec

-----------------------------------------------------------------------------
(* What check_sync_status does not see is committed *)

Watched == Careful /\ world.failures <= 1

NotRejected(f) == f # None => f.status # "rejected"

AddLeft(p) == \E i \in DOMAIN todo : todo[i].op = "add" /\ todo[i].path = p
CommitNext == todo # <<>> /\ todo[1].op = "commit"

(* A tree has another rule at p than the working tree, or one that is gone. *)
Other(tree, p) == tree[p] # None /\ disk[p] # None /\ tree[p].rule # disk[p].rule
Gone(tree, p)  == tree[p] # None /\ disk[p] = None

(* Of the steps of a call only the first writes an active file, what is     *)
(* written or unlinked there is added afterwards, and an add is committed.  *)
StepFollowed(steps, i) ==
    /\ steps[i].op \in {"write", "unlink", "add", "commit"}
    /\ steps[i].op = "write" /\ steps[i].path \in ActivePaths
       => i = 1 /\ NotRejected(steps[i].file)
    /\ steps[i].op \in {"write", "unlink"} /\ steps[i].path \in ActivePaths
       => \E j \in DOMAIN steps : j > i /\ steps[j].op = "add" /\ steps[j].path = steps[i].path
    /\ steps[i].op = "add" => i + 1 \in DOMAIN steps /\ steps[i + 1].op = "commit"

(* What is written to an active file is a new text of the rule it holds.    *)
RewritesOwn ==
    todo # <<>> /\ todo[1].op = "write" /\ todo[1].path \in ActivePaths
        => disk[todo[1].path] # None /\ todo[1].file.rule = disk[todo[1].path].rule

(* Before the first failure git knows of every active file what the working *)
(* tree has, or the call in progress is about to tell it.                   *)
UpToDate(p) ==
    /\ ~Other(index, p) /\ ~Other(head, p)
    /\ Gone(index, p) => AddLeft(p)
    /\ Gone(head, p) => AddLeft(p) \/ CommitNext
    /\ head[p] # None /\ index[p] = None => CommitNext

(* After it HEAD may have the rule that was at p before; but the call that  *)
(* verifies the one that is there now commits it.                           *)
Catching(p) ==
    Committable(p) => /\ Other(index, p) => AddLeft(p)
                      /\ Other(head, p) => AddLeft(p) \/ CommitNext

SyncInv ==
    Watched =>
        /\ \A p \in ActivePaths : NotRejected(disk[p]) /\ NotRejected(index[p]) /\ NotRejected(head[p])
        /\ \A i \in DOMAIN todo : StepFollowed(todo, i)
        /\ RewritesOwn
        /\ unmerged = {}
        /\ failed <= 1
        /\ failed = 0 => \A p \in ActivePaths : UpToDate(p)
        /\ \A p \in ActivePaths : Catching(p)

LEMMA RestFollowed ==
    ASSUME TypeOK, todo # <<>>, \A i \in DOMAIN todo : StepFollowed(todo, i)
    PROVE  /\ \A i \in DOMAIN Rest :
                 StepFollowed(Rest, i) /\ ~(Rest[i].op = "write" /\ Rest[i].path \in ActivePaths)
           /\ Next1.op = "add" => 1 \in DOMAIN Rest /\ Rest[1].op = "commit"
           /\ Next1.op = "add" =>
                 \A i \in DOMAIN AfterFailedAdd :
                    StepFollowed(AfterFailedAdd, i)
                    /\ ~(AfterFailedAdd[i].op = "write" /\ AfterFailedAdd[i].path \in ActivePaths)
<1>1. /\ Len(todo) \in Nat \ {0} /\ DOMAIN todo = 1 .. Len(todo) /\ Next1 = todo[1]
      /\ DOMAIN Rest = 1 .. Len(todo) - 1
      /\ \A j \in DOMAIN Rest : Rest[j] = todo[j + 1]
      /\ DOMAIN AfterFailedAdd = 1 .. Len(todo) - 2
      /\ \A j \in DOMAIN AfterFailedAdd : AfterFailedAdd[j] = todo[j + 2]
  BY Remaining
<1>2. Next1.op = "add" => 2 \in DOMAIN todo /\ todo[2].op = "commit"
  <2>1. 1 \in DOMAIN todo /\ 1 + 1 = 2
    BY <1>1
  <2>2. StepFollowed(todo, 1)
    BY <2>1
  <2> QED BY <1>1, <2>1, <2>2 DEF StepFollowed
<1>3. ASSUME NEW i \in DOMAIN Rest
      PROVE  StepFollowed(Rest, i) /\ ~(Rest[i].op = "write" /\ Rest[i].path \in ActivePaths)
  <2>1. i \in Nat /\ i >= 1 /\ i + 1 \in DOMAIN todo /\ i + 1 # 1 /\ Rest[i] = todo[i + 1]
    BY <1>1
  <2>2. StepFollowed(todo, i + 1)
    BY <2>1
  <2>3. ~(Rest[i].op = "write" /\ Rest[i].path \in ActivePaths)
    BY <2>1, <2>2 DEF StepFollowed
  <2>4. ASSUME Rest[i].op \in {"write", "unlink"}, Rest[i].path \in ActivePaths
        PROVE  \E j \in DOMAIN Rest : j > i /\ Rest[j].op = "add" /\ Rest[j].path = Rest[i].path
    <3>1. PICK j \in DOMAIN todo : j > i + 1 /\ todo[j].op = "add" /\ todo[j].path = todo[i + 1].path
      BY <2>1, <2>2, <2>4 DEF StepFollowed
    <3>2. j - 1 \in DOMAIN Rest /\ j - 1 > i /\ (j - 1) + 1 = j
      BY <1>1, <2>1, <3>1
    <3>3. Rest[j - 1] = todo[j]
      BY <1>1, <3>2
    <3> QED BY <2>1, <3>1, <3>2, <3>3
  <2>5. ASSUME Rest[i].op = "add"
        PROVE  i + 1 \in DOMAIN Rest /\ Rest[i + 1].op = "commit"
    <3>1. (i + 1) + 1 \in DOMAIN todo /\ todo[(i + 1) + 1].op = "commit"
      BY <2>1, <2>2, <2>5 DEF StepFollowed
    <3>2. i + 1 \in DOMAIN Rest
      BY <1>1, <2>1, <3>1
    <3> QED BY <1>1, <3>1, <3>2
  <2> QED BY <2>1, <2>2, <2>3, <2>4, <2>5 DEF StepFollowed
<1>4. ASSUME Next1.op = "add", NEW i \in DOMAIN AfterFailedAdd
      PROVE  /\ StepFollowed(AfterFailedAdd, i)
             /\ ~(AfterFailedAdd[i].op = "write" /\ AfterFailedAdd[i].path \in ActivePaths)
  <2>1. i \in Nat /\ i >= 1 /\ i + 2 \in DOMAIN todo /\ i + 2 # 1 /\ AfterFailedAdd[i] = todo[i + 2]
    BY <1>1
  <2>2. StepFollowed(todo, i + 2)
    BY <2>1
  <2>3. ~(AfterFailedAdd[i].op = "write" /\ AfterFailedAdd[i].path \in ActivePaths)
    BY <2>1, <2>2 DEF StepFollowed
  <2>4. ASSUME AfterFailedAdd[i].op \in {"write", "unlink"}, AfterFailedAdd[i].path \in ActivePaths
        PROVE  \E j \in DOMAIN AfterFailedAdd :
                  j > i /\ AfterFailedAdd[j].op = "add" /\ AfterFailedAdd[j].path = AfterFailedAdd[i].path
    <3>1. PICK j \in DOMAIN todo : j > i + 2 /\ todo[j].op = "add" /\ todo[j].path = todo[i + 2].path
      BY <2>1, <2>2, <2>4 DEF StepFollowed
    <3>2. j - 2 \in DOMAIN AfterFailedAdd /\ j - 2 > i /\ (j - 2) + 2 = j
      BY <1>1, <2>1, <3>1
    <3>3. AfterFailedAdd[j - 2] = todo[j]
      BY <1>1, <3>2
    <3> QED BY <2>1, <3>1, <3>2, <3>3
  <2>5. ASSUME AfterFailedAdd[i].op = "add"
        PROVE  i + 1 \in DOMAIN AfterFailedAdd /\ AfterFailedAdd[i + 1].op = "commit"
    <3>1. (i + 2) + 1 \in DOMAIN todo /\ todo[(i + 2) + 1].op = "commit"
      BY <2>1, <2>2, <2>5 DEF StepFollowed
    <3>2. i + 1 \in DOMAIN AfterFailedAdd /\ (i + 1) + 2 = (i + 2) + 1
      BY <1>1, <2>1, <3>1
    <3>3. AfterFailedAdd[i + 1] = todo[(i + 1) + 2]
      BY <1>1, <3>2
    <3> QED BY <3>1, <3>2, <3>3
  <2> QED BY <2>1, <2>2, <2>3, <2>4, <2>5 DEF StepFollowed
<1>5. Next1.op = "add" => 1 \in DOMAIN Rest /\ Rest[1].op = "commit"
  <2>1. Next1.op = "add" => 1 \in DOMAIN Rest /\ 1 + 1 = 2
    BY <1>1, <1>2
  <2> QED BY <1>1, <1>2, <2>1
<1> QED BY <1>3, <1>4, <1>5

(* What is left to add, once the first step is done or skipped. *)
LEMMA AddsLeft ==
    ASSUME TypeOK, todo # <<>>, \A i \in DOMAIN todo : StepFollowed(todo, i), NEW p, AddLeft(p)
    PROVE  /\ todo' = Rest /\ ~(Next1.op = "add" /\ Next1.path = p) => AddLeft(p)'
           /\ todo' = AfterFailedAdd /\ Next1.op = "add" /\ Next1.path # p => AddLeft(p)'
<1>1. /\ Len(todo) \in Nat \ {0} /\ DOMAIN todo = 1 .. Len(todo) /\ Next1 = todo[1]
      /\ DOMAIN Rest = 1 .. Len(todo) - 1
      /\ \A j \in DOMAIN Rest : Rest[j] = todo[j + 1]
      /\ DOMAIN AfterFailedAdd = 1 .. Len(todo) - 2
      /\ \A j \in DOMAIN AfterFailedAdd : AfterFailedAdd[j] = todo[j + 2]
  BY Remaining
<1>2. PICK i \in DOMAIN todo : todo[i].op = "add" /\ todo[i].path = p
  BY DEF AddLeft
<1>3. ASSUME todo' = Rest, ~(Next1.op = "add" /\ Next1.path = p) PROVE AddLeft(p)'
  <2>1. i # 1
    BY <1>1, <1>2, <1>3
  <2>2. i - 1 \in DOMAIN Rest /\ (i - 1) + 1 = i
    BY <1>1, <2>1
  <2>3. Rest[i - 1] = todo[i]
    BY <1>1, <2>2
  <2> QED BY <1>2, <1>3, <2>2, <2>3 DEF AddLeft
<1>4. ASSUME todo' = AfterFailedAdd, Next1.op = "add", Next1.path # p PROVE AddLeft(p)'
  <2>1. i # 1 /\ i # 2
    <3>1. StepFollowed(todo, 1) /\ 1 + 1 = 2
      BY <1>1
    <3>2. todo[2].op = "commit"
      BY <1>1, <1>4, <3>1 DEF StepFollowed
    <3> QED BY <1>1, <1>2, <1>4, <3>2
  <2>2. i - 2 \in DOMAIN AfterFailedAdd /\ (i - 2) + 2 = i
    BY <1>1, <1>2, <2>1
  <2>3. AfterFailedAdd[i - 2] = todo[i]
    BY <1>1, <2>2
  <2> QED BY <1>2, <1>4, <2>2, <2>3 DEF AddLeft
<1> QED BY <1>3, <1>4

(* A tool that changes no rule of a file and makes none ready to commit. *)
LEMMA QuietToolSyncs ==
    ASSUME SyncInv, Watched, Quiet, SameRules(disk, disk'),
           UNCHANGED <<index, head, unmerged, failed>>,
           \A p \in ActivePaths : NotRejected(disk[p]') /\ (Committable(p)' => Committable(p)),
           \A i \in DOMAIN todo' : StepFollowed(todo', i),
           RewritesOwn'
    PROVE  SyncInv'
<1>1. ~CommitNext /\ \A p : ~AddLeft(p)
  BY DEF Quiet, CommitNext, AddLeft
<1>2. \A p \in ActivePaths : p \in Path
  BY DEF ActivePaths
<1>3. ASSUME NEW p \in ActivePaths
      PROVE  /\ Other(index, p)' => Other(index, p)
             /\ Other(head, p)' => Other(head, p)
             /\ Gone(index, p)' => Gone(index, p)
             /\ Gone(head, p)' => Gone(head, p)
  BY <1>2 DEF Other, Gone, SameRules
<1>4. failed' = 0 => \A p \in ActivePaths : UpToDate(p)'
  BY <1>1, <1>3 DEF SyncInv, UpToDate
<1>5. \A p \in ActivePaths : Catching(p)'
  BY <1>1, <1>3 DEF SyncInv, Catching
<1> QED BY <1>4, <1>5 DEF SyncInv

LEMMA WriteRuleSyncs ==
    ASSUME TypeOK, SyncInv, Watched, NEW r \in Rules, WriteRule(r)
    PROVE  SyncInv'
<1> DEFINE f == [rule |-> r, status |-> "pending", readable |-> TRUE, conflicts |-> {}]
<1>1. PICK n \in Name : FreeName(n) /\ disk' = [disk EXCEPT ![<<"active", n>>] = f]
  BY DEF WriteRule
<1>2. Quiet /\ UNCHANGED <<world, index, head, unmerged, todo, failed>>
  BY DEF WriteRule
<1> DEFINE q == <<"active", n>>
<1>3. q \in ActivePaths /\ q \in Path /\ disk[q] = None
  BY <1>1 DEF FreeName, ActivePaths, Path
<1>4. \A p \in Path : disk'[p] = IF p = q THEN f ELSE disk[p]
  BY <1>1 DEF TypeOK, Tree
<1>5. f # None
  <2>1. f \in File
    BY DEF File, Status
  <2> QED BY <2>1, NoneIsNoFile
<1> DEFINE status == f.status
<1>6. status = "pending"
  OBVIOUS
<1> HIDE DEF f, q
<1>7. ~CommitNext /\ (\A p : ~AddLeft(p)) /\ \A p \in ActivePaths : p \in Path
  BY <1>2 DEF Quiet, CommitNext, AddLeft, ActivePaths
<1>8. ASSUME NEW p \in ActivePaths
      PROVE  NotRejected(disk[p])' /\ (failed = 0 => UpToDate(p)') /\ Catching(p)'
  <2>1. CASE p = q
    <3>1. disk'[p] = f
      BY <1>3, <1>4, <2>1
    <3>2. ~Committable(p)'
      BY <1>6, <3>1 DEF Committable
    <3>3. NotRejected(disk[p])'
      BY <1>6, <3>1 DEF NotRejected
    <3>4. failed = 0 => index[p] = None /\ head[p] = None
      BY <1>2, <1>3, <1>7, <2>1 DEF SyncInv, UpToDate, Gone
    <3>5. failed = 0 => UpToDate(p)'
      BY <1>2, <3>4 DEF UpToDate, Other, Gone
    <3> QED BY <3>2, <3>3, <3>5 DEF Catching
  <2>2. CASE p # q
    <3>1. disk'[p] = disk[p]
      BY <1>4, <1>7, <2>2
    <3> QED BY <1>2, <3>1 DEF SyncInv, UpToDate, Catching, Committable, Other, Gone, AddLeft, CommitNext
  <2> QED BY <2>1, <2>2
<1>9. \A p \in ActivePaths : NotRejected(index[p])' /\ NotRejected(head[p])'
  BY <1>2 DEF SyncInv
<1>10. RewritesOwn' /\ \A i \in DOMAIN todo' : StepFollowed(todo', i)
  BY <1>2 DEF Quiet, RewritesOwn
<1> QED BY <1>2, <1>8, <1>9, <1>10 DEF SyncInv

LEMMA StageSyncs ==
    ASSUME TypeOK, SyncInv, Watched, NEW p \in Path, StageRule(p)
    PROVE  SyncInv'
<1>1. disk[p] \in File /\ disk[p] # None /\ Quiet
  BY TreeFiles DEF StageRule, Readable, TypeOK, Allowed
<1> DEFINE f == WithStatus(disk[p], "staging")
<1>2. f \in File /\ f.status = "staging" /\ f.rule = disk[p].rule
  BY <1>1, FileUpdates, RuleStays DEF Status
<1>3. UNCHANGED <<index, head, unmerged, todo, failed>> /\ disk' = [disk EXCEPT ![p] = f]
  BY DEF StageRule
<1> HIDE DEF f
<1>4. \A q \in Path : disk'[q] = IF q = p THEN f ELSE disk[q]
  BY <1>3 DEF TypeOK, Tree
<1>5. SameRules(disk, disk')
  BY <1>1, <1>2, <1>4, NoneIsNoFile DEF SameRules
<1>6. \A q \in ActivePaths : NotRejected(disk[q]') /\ (Committable(q)' => Committable(q))
  <2> SUFFICES ASSUME NEW q \in ActivePaths
               PROVE  NotRejected(disk[q]') /\ (Committable(q)' => Committable(q))
    OBVIOUS
  <2>1. q \in Path /\ NotRejected(disk[q])
    BY DEF ActivePaths, SyncInv
  <2>2. CASE q = p
    BY <1>2, <1>4, <2>1, <2>2 DEF NotRejected, Committable
  <2>3. CASE q # p
    BY <1>4, <2>1, <2>3 DEF NotRejected, Committable
  <2> QED BY <2>2, <2>3
<1>7. RewritesOwn' /\ \A i \in DOMAIN todo' : StepFollowed(todo', i)
  BY <1>1, <1>3 DEF Quiet, RewritesOwn
<1> QED BY <1>1, <1>3, <1>5, <1>6, <1>7, QuietToolSyncs

LEMMA CommitSyncs ==
    ASSUME TypeOK, SyncInv, Watched, NEW p \in Path, CommitRule(p)
    PROVE  SyncInv'
<1>1. disk[p] \in File /\ disk[p] # None /\ disk[p].rule \in Rules /\ Quiet
  BY TreeFiles, FileUpdates DEF CommitRule, Readable, TypeOK, Allowed
<1>2. PICK copy \in [Rivals(p) -> Path] :
         /\ \A r \in Rivals(p) : CopyOf(r, copy[r])
         /\ disk' = Annotated({copy[r] : r \in Rivals(p)}, disk[p].rule)
  BY DEF CommitRule
<1> DEFINE copies == {copy[r] : r \in Rivals(p)}
<1>3. \A q \in copies : q \in Path /\ disk[q] # None
  BY <1>2 DEF CopyOf, Readable
<1> HIDE DEF copies
<1>4. SameRules(disk, disk')
  BY <1>1, <1>2, <1>3, AnnotatedRules DEF copies
<1>5. \A q \in Path : disk'[q].status = disk[q].status
  <2> SUFFICES ASSUME NEW q \in Path PROVE disk'[q].status = disk[q].status
    OBVIOUS
  <2> DEFINE source == disk[p].rule
  <2>1. disk'[q] = IF q \in copies /\ source \notin disk[q].conflicts
                   THEN Plain([disk[q] EXCEPT !.conflicts = @ \cup {source}])
                   ELSE disk[q]
    BY <1>2 DEF Annotated, copies
  <2>2. CASE q \in copies /\ source \notin disk[q].conflicts
    <3>1. disk[q] \in File
      BY <1>3, <2>2, TreeFiles DEF TypeOK
    <3>2. disk[q].conflicts \cup {source} \in SUBSET Rules
      BY <1>1, <3>1, FileUpdates
    <3> DEFINE g == [disk[q] EXCEPT !.conflicts = disk[q].conflicts \cup {source}]
    <3>3. g \in File /\ g.status = disk[q].status
      BY <3>1, <3>2, FileUpdates
    <3>4. disk'[q] = Plain(g)
      BY <2>1, <2>2
    <3> HIDE DEF g
    <3> QED BY <3>3, <3>4, FileUpdates
  <2>3. CASE ~(q \in copies /\ source \notin disk[q].conflicts)
    BY <2>1, <2>3
  <2> QED BY <2>2, <2>3
<1>6. \A q \in ActivePaths : NotRejected(disk[q]') /\ (Committable(q)' => Committable(q))
  <2> SUFFICES ASSUME NEW q \in ActivePaths
               PROVE  NotRejected(disk[q]') /\ (Committable(q)' => Committable(q))
    OBVIOUS
  <2>1. q \in Path /\ NotRejected(disk[q])
    BY DEF ActivePaths, SyncInv
  <2>2. disk'[q] = None <=> disk[q] = None
    BY <1>4, <2>1 DEF SameRules
  <2> QED BY <1>5, <2>1, <2>2 DEF NotRejected, Committable
<1> DEFINE own == [disk[p] EXCEPT !.conflicts = @ \cup Rivals(p)]
<1>7. own \in File /\ own.rule = disk[p].rule
  <2>1. disk[p].conflicts \cup Rivals(p) \in SUBSET Rules
    BY <1>1, FileUpdates, RivalRules
  <2> QED BY <1>1, <2>1, FileUpdates, RuleStays
<1> DEFINE f == WithStatus(own, "verified")
<1>8. todo' = <<Write(p, f)>> \o AddAndCommit(p) /\ UNCHANGED <<index, head, unmerged, failed>>
  BY DEF CommitRule
<1> HIDE DEF own
<1>9. f \in File /\ f.status = "verified" /\ f.rule = disk[p].rule
  BY <1>7, FileUpdates, RuleStays DEF Status
<1> HIDE DEF f
<1>10. /\ DOMAIN todo' = {1, 2, 3}
       /\ todo'[1] = Write(p, f) /\ todo'[2] = AddStep(p) /\ todo'[3] = CommitStep(p)
  BY <1>8, <1>9, CommitSteps
<1>11. \A i \in DOMAIN todo' : StepFollowed(todo', i)
  <2>1. StepFollowed(todo', 1)
    <3>1. 2 \in DOMAIN todo' /\ 2 > 1 /\ todo'[2].op = "add" /\ todo'[2].path = p
      BY <1>10 DEF AddStep
    <3>2. todo'[1].op = "write" /\ todo'[1].path = p /\ todo'[1].file = f
      BY <1>10 DEF Write
    <3> QED BY <1>9, <3>1, <3>2 DEF StepFollowed, NotRejected
  <2>2. StepFollowed(todo', 2)
    <3>1. 2 + 1 = 3
      OBVIOUS
    <3> QED BY <1>10, <3>1 DEF StepFollowed, AddStep, CommitStep
  <2>3. StepFollowed(todo', 3)
    BY <1>10 DEF StepFollowed, CommitStep
  <2> QED BY <1>10, <2>1, <2>2, <2>3
<1>12. RewritesOwn'
  <2>1. disk'[p] # None /\ disk'[p].rule = disk[p].rule
    BY <1>1, <1>4 DEF SameRules
  <2> QED BY <1>9, <1>10, <2>1 DEF RewritesOwn, Write
<1> QED BY <1>1, <1>4, <1>6, <1>8, <1>11, <1>12, QuietToolSyncs

LEMMA RejectSyncs ==
    ASSUME TypeOK, SyncInv, Watched, NEW p \in Path, RejectRule(p)
    PROVE  SyncInv'
<1> DEFINE q == RejectedPath(p)
<1>1. disk[p] \in File /\ q \in Path /\ q \notin ActivePaths /\ Quiet
  BY TreeFiles, PathsOfNames DEF RejectRule, Readable, TypeOK, Allowed, ActivePaths, RejectedPath
<1>2. PICK f : /\ f = WithStatus(disk[p], "rejected") \/ f = [WithStatus(disk[p], "rejected") EXCEPT !.readable = FALSE]
               /\ todo' = Move(p, q, f)
  BY DEF RejectRule
<1>3. f \in File
  <2>1. WithStatus(disk[p], "rejected") \in File
    BY <1>1, FileUpdates DEF Status
  <2> QED BY <1>2, <2>1, FileUpdates
<1> HIDE DEF q
<1>4. /\ DOMAIN todo' = 1 .. 6
      /\ todo'[1] = Write(q, f) /\ todo'[2] = Unlink(p)
      /\ todo'[3] = AddStep(q) /\ todo'[4] = CommitStep(q)
      /\ todo'[5] = AddStep(p) /\ todo'[6] = CommitStep(p)
  BY <1>1, <1>2, <1>3, MoveSteps
<1>5. 1 .. 6 = {1, 2, 3, 4, 5, 6} /\ 3 + 1 = 4 /\ 5 + 1 = 6
  OBVIOUS
<1>6. \A i \in DOMAIN todo' : StepFollowed(todo', i)
  <2>1. StepFollowed(todo', 1)
    BY <1>1, <1>4 DEF StepFollowed, Write
  <2>2. StepFollowed(todo', 2)
    <3>1. 5 \in DOMAIN todo' /\ 5 > 2 /\ todo'[5].op = "add" /\ todo'[5].path = p
      BY <1>4 DEF AddStep
    <3>2. todo'[2].op = "unlink" /\ todo'[2].path = p
      BY <1>4 DEF Unlink
    <3> QED BY <3>1, <3>2 DEF StepFollowed
  <2>3. StepFollowed(todo', 3) /\ StepFollowed(todo', 5)
    BY <1>4, <1>5 DEF StepFollowed, AddStep, CommitStep
  <2>4. StepFollowed(todo', 4) /\ StepFollowed(todo', 6)
    BY <1>4 DEF StepFollowed, CommitStep
  <2> QED BY <1>4, <1>5, <2>1, <2>2, <2>3, <2>4
<1>7. RewritesOwn'
  BY <1>1, <1>4 DEF RewritesOwn, Write
<1>8. UNCHANGED <<disk, index, head, unmerged, failed>>
  BY DEF RejectRule
<1>9. SameRules(disk, disk')
  BY <1>8 DEF SameRules
<1>10. \A r \in ActivePaths : NotRejected(disk[r]') /\ (Committable(r)' => Committable(r))
  BY <1>8 DEF SyncInv, Committable
<1> QED BY <1>1, <1>6, <1>7, <1>8, <1>9, <1>10, QuietToolSyncs

LEMMA CheckSyncs ==
    ASSUME TypeOK, SyncInv, Watched, CheckRaises \/ CheckSyncStatus
    PROVE  SyncInv'
<1>1. \A p \in Unsynced : p \in Path /\ disk[p] # None /\ Committable(p)
  BY DEF Unsynced, Committable, ActivePaths
<1>2. PICK paths \in SUBSET Unsynced : disk' = Marking(paths)
  BY DEF CheckRaises, CheckSyncStatus
<1>3. Quiet /\ UNCHANGED <<index, head, unmerged, todo, failed>>
  BY DEF CheckRaises, CheckSyncStatus, Allowed
<1>4. SameRules(disk, disk')
  BY <1>1, <1>2, MarkingRules
<1>5. \A p \in ActivePaths : NotRejected(disk[p]') /\ (Committable(p)' => Committable(p))
  <2> SUFFICES ASSUME NEW p \in ActivePaths
               PROVE  NotRejected(disk[p]') /\ (Committable(p)' => Committable(p))
    OBVIOUS
  <2>1. p \in Path /\ NotRejected(disk[p])
    BY DEF ActivePaths, SyncInv
  <2>2. disk'[p] = IF p \in paths THEN MarkedUnsynced(disk[p]) ELSE disk[p]
    BY <1>2, <2>1 DEF Marking
  <2>3. CASE p \in paths
    <3>1. disk[p] \in File
      BY <1>1, <2>3, TreeFiles DEF TypeOK
    <3>2. MarkedUnsynced(disk[p]).status = "needs_sync"
      BY <3>1 DEF MarkedUnsynced, File
    <3> QED BY <1>1, <2>2, <2>3, <3>2 DEF NotRejected
  <2>4. CASE p \notin paths
    BY <2>1, <2>2, <2>4 DEF NotRejected, Committable
  <2> QED BY <2>3, <2>4
<1>6. RewritesOwn' /\ \A i \in DOMAIN todo' : StepFollowed(todo', i)
  BY <1>3 DEF Quiet, RewritesOwn
<1> QED BY <1>3, <1>4, <1>5, <1>6, QuietToolSyncs

LEMMA RollbackPointSyncs ==
    ASSUME TypeOK, SyncInv, Watched, NEW n \in Points, CreateRollbackPoint(n)
    PROVE  SyncInv'
<1>1. /\ disk' = head /\ index' = head
      /\ UNCHANGED <<head, unmerged, todo, failed>> /\ todo = <<>>
  BY DEF CreateRollbackPoint, Allowed, Quiet
<1>2. \A p \in ActivePaths : NotRejected(disk[p])' /\ NotRejected(index[p])' /\ NotRejected(head[p])'
  BY <1>1 DEF SyncInv
<1>3. \A p \in ActivePaths : UpToDate(p)' /\ Catching(p)'
  BY <1>1 DEF UpToDate, Catching, Other, Gone
<1>4. RewritesOwn' /\ \A i \in DOMAIN todo' : StepFollowed(todo', i)
  BY <1>1 DEF RewritesOwn
<1> QED BY <1>1, <1>2, <1>3, <1>4 DEF SyncInv

(* What every later step of a call leaves behind. *)
LEMMA LaterSteps ==
    ASSUME TypeOK, SyncInv, Watched, todo # <<>>,
           todo' = Rest \/ (Next1.op = "add" /\ todo' = AfterFailedAdd) \/ todo' = <<>>
    PROVE  (\A i \in DOMAIN todo' : StepFollowed(todo', i)) /\ RewritesOwn'
<1>1. \A i \in DOMAIN todo : StepFollowed(todo, i)
  BY DEF SyncInv
<1>2. \A i \in DOMAIN todo' : /\ StepFollowed(todo', i)
                               /\ ~(todo'[i].op = "write" /\ todo'[i].path \in ActivePaths)
  BY <1>1, RestFollowed
<1>3. todo' # <<>> => 1 \in DOMAIN todo'
  <2>1. todo' \in Seq(Step)
    <3>1. Rest \in Seq(Step) /\ AfterFailedAdd \in Seq(Step)
      BY Remaining
    <3>2. <<>> \in Seq(Step)
      OBVIOUS
    <3> QED BY <3>1, <3>2
  <2>2. todo' # <<>> => Len(todo') \in Nat \ {0} /\ DOMAIN todo' = 1 .. Len(todo')
    BY <2>1, EmptySeq, LenProperties
  <2> QED BY <2>2
<1>4. RewritesOwn'
  BY <1>2, <1>3 DEF RewritesOwn
<1> QED BY <1>2, <1>4

LEMMA FirstStep ==
    ASSUME TypeOK, SyncInv, Watched, todo # <<>>
    PROVE  /\ Next1 = todo[1] /\ Next1 \in Step /\ Next1.path \in Path
           /\ StepFollowed(todo, 1) /\ Next1.op \in {"write", "unlink", "add", "commit"}
           /\ \A i \in DOMAIN todo : StepFollowed(todo, i)
           /\ CommitNext <=> Next1.op = "commit"
<1>1. Next1 = todo[1] /\ Next1 \in Step /\ 1 \in DOMAIN todo
  <2>1. Next1 = todo[1] /\ Next1 \in Step /\ Len(todo) \in Nat \ {0} /\ DOMAIN todo = 1 .. Len(todo)
    BY Remaining
  <2> QED BY <2>1
<1>2. Next1.path \in Path
  BY <1>1 DEF Step
<1>3. \A i \in DOMAIN todo : StepFollowed(todo, i)
  BY DEF SyncInv
<1>4. StepFollowed(todo, 1)
  BY <1>1, <1>3
<1>5. Next1.op \in {"write", "unlink", "add", "commit"}
  BY <1>1, <1>4 DEF StepFollowed
<1> QED BY <1>1, <1>2, <1>3, <1>4, <1>5 DEF CommitNext

LEMMA FileIsWrittenSyncs ==
    ASSUME TypeOK, SyncInv, Watched, FileIsWritten
    PROVE  SyncInv'
<1>1. /\ todo # <<>> /\ Next1.op = "write" /\ todo' = Rest
      /\ disk' = [disk EXCEPT ![Next1.path] = Next1.file]
      /\ UNCHANGED <<index, head, unmerged, failed>>
  BY DEF FileIsWritten, At
<1>2. PICK p \in Path, f \in File \cup {None} : p = Next1.path /\ f = Next1.file
  BY <1>1, FirstStep DEF Step
<1>3. \A q \in Path : disk'[q] = IF q = p THEN f ELSE disk[q]
  BY <1>1, <1>2 DEF TypeOK, Tree
<1>4. ~CommitNext /\ \A q : AddLeft(q) => AddLeft(q)'
  BY <1>1, FirstStep, AddsLeft
<1>5. p \in ActivePaths => /\ NotRejected(f)
                           /\ disk[p] # None /\ f.rule = disk[p].rule
                           /\ AddLeft(p)'
  <2> SUFFICES ASSUME p \in ActivePaths
               PROVE  /\ NotRejected(f)
                      /\ disk[p] # None /\ f.rule = disk[p].rule
                      /\ AddLeft(p)'
    OBVIOUS
  <2>1. NotRejected(f) /\ AddLeft(p)
    BY <1>1, <1>2, FirstStep DEF StepFollowed, AddLeft
  <2>2. disk[p] # None /\ f.rule = disk[p].rule
    BY <1>1, <1>2, FirstStep DEF SyncInv, RewritesOwn
  <2> QED BY <1>4, <2>1, <2>2
<1>6. ASSUME NEW q \in ActivePaths
      PROVE  NotRejected(disk[q])' /\ (failed = 0 => UpToDate(q)') /\ Catching(q)'
  <2>1. q \in Path /\ NotRejected(disk[q]) /\ Catching(q) /\ (failed = 0 => UpToDate(q))
    BY DEF ActivePaths, SyncInv
  <2>2. CASE q = p
    <3>1. disk'[q] = f
      BY <1>3, <2>1, <2>2
    <3>2. Other(index, q)' => Other(index, q)
      BY <1>1, <1>5, <2>2, <3>1 DEF Other
    <3>3. Other(head, q)' => Other(head, q)
      BY <1>1, <1>5, <2>2, <3>1 DEF Other
    <3>4. head' = head /\ index' = index
      BY <1>1
    <3>5. failed = 0 => UpToDate(q)'
      BY <1>4, <1>5, <2>1, <2>2, <3>2, <3>3, <3>4 DEF UpToDate
    <3> QED BY <1>5, <2>2, <3>1, <3>5 DEF Catching
  <2>3. CASE q # p
    <3>1. disk'[q] = disk[q]
      BY <1>3, <2>1, <2>3
    <3> QED BY <1>1, <1>4, <2>1, <3>1 DEF UpToDate, Catching, Committable, Other, Gone
  <2> QED BY <2>2, <2>3
<1>7. (\A i \in DOMAIN todo' : StepFollowed(todo', i)) /\ RewritesOwn'
  BY <1>1, LaterSteps
<1>8. \A q \in ActivePaths : NotRejected(index[q])' /\ NotRejected(head[q])'
  BY <1>1 DEF SyncInv
<1> QED BY <1>1, <1>6, <1>7, <1>8 DEF SyncInv

LEMMA FileIsUnlinkedSyncs ==
    ASSUME TypeOK, SyncInv, Watched, FileIsUnlinked
    PROVE  SyncInv'
<1>1. /\ todo # <<>> /\ Next1.op = "unlink" /\ todo' = Rest
      /\ disk' = [disk EXCEPT ![Next1.path] = None]
      /\ UNCHANGED <<index, head, unmerged, failed>>
  BY DEF FileIsUnlinked, At
<1>2. PICK p \in Path : p = Next1.path
  BY <1>1, FirstStep
<1>3. \A q \in Path : disk'[q] = IF q = p THEN None ELSE disk[q]
  BY <1>1, <1>2 DEF TypeOK, Tree
<1>4. ~CommitNext /\ \A q : AddLeft(q) => AddLeft(q)'
  BY <1>1, FirstStep, AddsLeft
<1>5. p \in ActivePaths => AddLeft(p)'
  <2>1. p \in ActivePaths => AddLeft(p)
    BY <1>1, <1>2, FirstStep DEF StepFollowed, AddLeft
  <2> QED BY <1>4, <2>1
<1>6. ASSUME NEW q \in ActivePaths
      PROVE  NotRejected(disk[q])' /\ (failed = 0 => UpToDate(q)') /\ Catching(q)'
  <2>1. q \in Path /\ NotRejected(disk[q]) /\ Catching(q) /\ (failed = 0 => UpToDate(q))
    BY DEF ActivePaths, SyncInv
  <2>2. CASE q = p
    <3>1. disk'[q] = None
      BY <1>3, <2>1, <2>2
    <3>2. failed = 0 => ~(head[q] # None /\ index[q] = None)
      BY <1>4, <2>1 DEF UpToDate
    <3>3. failed = 0 => UpToDate(q)'
      BY <1>1, <1>5, <2>2, <3>1, <3>2 DEF UpToDate, Other
    <3> QED BY <3>1, <3>3 DEF NotRejected, Catching, Committable
  <2>3. CASE q # p
    <3>1. disk'[q] = disk[q]
      BY <1>3, <2>1, <2>3
    <3> QED BY <1>1, <1>4, <2>1, <3>1 DEF UpToDate, Catching, Committable, Other, Gone
  <2> QED BY <2>2, <2>3
<1>7. (\A i \in DOMAIN todo' : StepFollowed(todo', i)) /\ RewritesOwn'
  BY <1>1, LaterSteps
<1>8. \A q \in ActivePaths : NotRejected(index[q])' /\ NotRejected(head[q])'
  BY <1>1 DEF SyncInv
<1> QED BY <1>1, <1>6, <1>7, <1>8 DEF SyncInv

LEMMA PathIsAddedSyncs ==
    ASSUME TypeOK, SyncInv, Watched, PathIsAdded
    PROVE  SyncInv'
<1>1. /\ todo # <<>> /\ Next1.op = "add"
      /\ UNCHANGED <<disk, head, failed>>
  <2>1. todo # <<>> /\ Next1.op \in {"add", "try add"}
    BY DEF PathIsAdded, At
  <2>2. Next1.op = "add"
    BY <2>1, FirstStep
  <2> QED BY <2>1, <2>2 DEF PathIsAdded
<1>2. PICK p \in Path : p = Next1.path
  BY <1>1, FirstStep
<1>3. \/ /\ disk[p] = None /\ index[p] = None
         /\ todo' = AfterFailedAdd /\ UNCHANGED <<index, unmerged>>
      \/ /\ index' = [index EXCEPT ![p] = disk[p]]
         /\ unmerged' = unmerged \ {p}
         /\ todo' = Rest
  BY <1>1, <1>2 DEF PathIsAdded
<1>4. ~CommitNext
  BY <1>1, FirstStep
<1>5. \A q : q # p /\ AddLeft(q) => AddLeft(q)'
  BY <1>1, <1>2, <1>3, FirstStep, AddsLeft
<1>6. unmerged' = {}
  BY <1>3 DEF SyncInv
<1>7. (\A i \in DOMAIN todo' : StepFollowed(todo', i)) /\ RewritesOwn'
  BY <1>1, <1>3, LaterSteps
<1>8. CASE disk[p] = None /\ index[p] = None /\ todo' = AfterFailedAdd /\ UNCHANGED <<index, unmerged>>
  <2>1. ASSUME NEW q \in ActivePaths
        PROVE  (failed = 0 => UpToDate(q)') /\ Catching(q)'
    <3>1. Catching(q) /\ (failed = 0 => UpToDate(q))
      BY DEF SyncInv
    <3>2. CASE q = p
      <4>1. ~Committable(q)' /\ ~Other(index, q)' /\ ~Other(head, q)' /\ ~Gone(index, q)'
        BY <1>1, <1>8, <3>2 DEF Committable, Other, Gone
      <4>2. failed = 0 => head[q] = None
        BY <1>4, <1>8, <3>1, <3>2 DEF UpToDate
      <4> QED BY <1>1, <4>1, <4>2 DEF UpToDate, Catching, Gone
    <3>3. CASE q # p
      BY <1>1, <1>4, <1>5, <1>8, <3>1, <3>3 DEF UpToDate, Catching, Committable, Other, Gone
    <3> QED BY <3>2, <3>3
  <2>2. \A q \in ActivePaths : NotRejected(disk[q])' /\ NotRejected(index[q])' /\ NotRejected(head[q])'
    BY <1>1, <1>8 DEF SyncInv
  <2> QED BY <1>1, <1>6, <1>7, <2>1, <2>2 DEF SyncInv
<1>9. CASE index' = [index EXCEPT ![p] = disk[p]] /\ todo' = Rest
  <2>1. \A q \in Path : index'[q] = IF q = p THEN disk[q] ELSE index[q]
    BY <1>9 DEF TypeOK, Tree
  <2>2. CommitNext'
    <3>1. 1 \in DOMAIN Rest /\ Rest[1].op = "commit"
      BY <1>1, FirstStep, RestFollowed
    <3>2. Rest # <<>>
      BY <3>1
    <3> QED BY <1>9, <3>1, <3>2 DEF CommitNext
  <2>3. ASSUME NEW q \in ActivePaths
        PROVE  (failed = 0 => UpToDate(q)') /\ Catching(q)' /\ NotRejected(index[q])'
    <3>1. /\ q \in Path /\ Catching(q) /\ (failed = 0 => UpToDate(q))
          /\ NotRejected(index[q]) /\ NotRejected(disk[q])
      BY DEF ActivePaths, SyncInv
    <3>2. CASE q = p
      <4>1. ~Other(index, q)' /\ ~Gone(index, q)'
        BY <1>1, <2>1, <3>1, <3>2 DEF Other, Gone
      <4>2. Other(head, q)' => Other(head, q)
        BY <1>1 DEF Other
      <4> QED BY <1>1, <2>1, <2>2, <3>1, <3>2, <4>1, <4>2 DEF UpToDate, Catching
    <3>3. CASE q # p
      <4>1. index'[q] = index[q] /\ disk'[q] = disk[q] /\ head'[q] = head[q]
        BY <1>1, <2>1, <3>1, <3>3
      <4> QED BY <1>5, <2>2, <3>1, <3>3, <4>1 DEF UpToDate, Catching, Committable, Other, Gone
    <3> QED BY <3>2, <3>3
  <2>4. \A q \in ActivePaths : NotRejected(disk[q])' /\ NotRejected(head[q])'
    BY <1>1 DEF SyncInv
  <2> QED BY <1>1, <1>6, <1>7, <2>3, <2>4 DEF SyncInv
<1> QED BY <1>3, <1>8, <1>9

LEMMA IndexIsCommittedSyncs ==
    ASSUME TypeOK, SyncInv, Watched, IndexIsCommitted
    PROVE  SyncInv'
<1>1. /\ todo # <<>> /\ Next1.op = "commit" /\ todo' = Rest /\ head' = index
      /\ UNCHANGED <<disk, index, unmerged, failed>>
  BY DEF IndexIsCommitted, At, SyncInv
<1>2. \A q : AddLeft(q) => AddLeft(q)'
  BY <1>1, FirstStep, AddsLeft
<1>3. ASSUME NEW q \in ActivePaths
      PROVE  (failed = 0 => UpToDate(q)') /\ Catching(q)'
  <2>1. Catching(q) /\ (failed = 0 => UpToDate(q))
    BY DEF SyncInv
  <2> QED BY <1>1, <1>2, <2>1 DEF UpToDate, Catching, Committable, Other, Gone
<1>4. (\A i \in DOMAIN todo' : StepFollowed(todo', i)) /\ RewritesOwn'
  BY <1>1, LaterSteps
<1>5. \A q \in ActivePaths : NotRejected(disk[q])' /\ NotRejected(index[q])' /\ NotRejected(head[q])'
  BY <1>1 DEF SyncInv
<1> QED BY <1>1, <1>3, <1>4, <1>5 DEF SyncInv

(* The one failure happens while git knows what the working tree has. *)
LEMMA FailureSyncs ==
    ASSUME TypeOK, SyncInv, Watched, GitFails \/ Dies
    PROVE  SyncInv'
<1>1. /\ todo # <<>> /\ failed < world.failures /\ failed' = failed + 1
      /\ UNCHANGED <<disk, index, head, unmerged>>
      /\ todo' = Rest \/ (Next1.op = "add" /\ todo' = AfterFailedAdd) \/ todo' = <<>>
  BY DEF GitFails, Dies, At, repository
<1>2. failed = 0 /\ failed' = 1
  <2>1. world.failures \in Nat /\ failed \in Nat
    BY RepositoryConstants DEF TypeOK, World
  <2>2. world.failures <= 1
    BY DEF Watched
  <2> QED BY <1>1, <2>1, <2>2
<1>3. \A q \in ActivePaths : Catching(q)'
  BY <1>1, <1>2 DEF SyncInv, UpToDate, Catching, Other
<1>4. (\A i \in DOMAIN todo' : StepFollowed(todo', i)) /\ RewritesOwn'
  BY <1>1, LaterSteps
<1>5. \A q \in ActivePaths : NotRejected(disk[q])' /\ NotRejected(index[q])' /\ NotRejected(head[q])'
  BY <1>1 DEF SyncInv
<1> QED BY <1>1, <1>2, <1>3, <1>4, <1>5 DEF SyncInv

(* A verified rule that check_sync_status does not find is in HEAD, verified, *)
(* under its path, after one failed git command or call cut off at most; with *)
(* two, another rule may stand there.                                       *)
THEOREM UnsyncedRulesAreSeen == Spec => []UnsyncedIsSeen
<1>1. Init => SyncInv
  <2> SUFFICES ASSUME Init PROVE SyncInv
    OBVIOUS
  <2>1. /\ todo = <<>> /\ unmerged = {} /\ failed = 0
        /\ \A p \in ActivePaths : disk[p] = None /\ index[p] = None /\ head[p] = None
    BY DEF Init, EmptyTree, ActivePaths
  <2>2. RewritesOwn /\ \A i \in DOMAIN todo : StepFollowed(todo, i)
    BY <2>1 DEF RewritesOwn
  <2>3. \A p \in ActivePaths : UpToDate(p) /\ Catching(p)
    BY <2>1 DEF UpToDate, Catching, Other, Gone
  <2> QED BY <2>1, <2>2, <2>3 DEF SyncInv, NotRejected
<1>2. TypeOK /\ SyncInv /\ [Next]_vars => SyncInv'
  <2> SUFFICES ASSUME TypeOK, SyncInv, [Next]_vars, Watched' PROVE SyncInv'
    BY DEF SyncInv
  <2>1. Watched
    BY WorldStays DEF Watched, Careful
  <2>2. CASE UNCHANGED vars
    <3>1. UNCHANGED <<world, disk, index, head, unmerged, todo, failed>>
      BY <2>2 DEF vars
    <3> QED BY <3>1 DEF SyncInv, Watched, Careful, RewritesOwn, UpToDate, Catching, Committable,
                        Other, Gone, AddLeft, CommitNext
  <2>3. ASSUME NEW r \in Rules, WriteRule(r) PROVE SyncInv'
    BY <2>1, <2>3, WriteRuleSyncs
  <2>4. ASSUME NEW p \in Path, StageRule(p) \/ CommitRule(p) \/ RejectRule(p) PROVE SyncInv'
    BY <2>1, <2>4, StageSyncs, CommitSyncs, RejectSyncs
  <2>5. ASSUME NEW p \in Path, RestoreRule(p) \/ SyncFile(p) PROVE FALSE
    BY <2>1, <2>5 DEF RestoreRule, SyncFile, Allowed, Watched, Careful
  <2>6. CASE CheckRaises \/ CheckSyncStatus
    BY <2>1, <2>6, CheckSyncs
  <2>7. ~SyncRules
    BY <2>1 DEF SyncRules, Allowed, Watched, Careful
  <2>8. ASSUME NEW n \in Points, CreateRollbackPoint(n) PROVE SyncInv'
    BY <2>1, <2>8, RollbackPointSyncs
  <2>9. ASSUME NEW n \in Points, RollbackToStash(n) \/ RollbackToTag(n) PROVE FALSE
    BY <2>1, <2>9 DEF RollbackToStash, RollbackToTag, Allowed, Watched, Careful
  <2>10. CASE CleanupRollbackStashes
    <3>1. UNCHANGED <<world, disk, index, head, unmerged, todo, failed>>
      BY <2>10 DEF CleanupRollbackStashes
    <3> QED BY <3>1 DEF SyncInv, Watched, Careful, RewritesOwn, UpToDate, Catching, Committable,
                        Other, Gone, AddLeft, CommitNext
  <2>11. CASE Goes
    <3>1. ~AllIsAdded
      <4>1. todo # <<>> => Next1.op # "add all"
        BY <2>1, FirstStep
      <4> QED BY <4>1 DEF AllIsAdded, At
    <3> QED BY <2>1, <2>11, <3>1, FileIsWrittenSyncs, FileIsUnlinkedSyncs, PathIsAddedSyncs,
               IndexIsCommittedSyncs, FailureSyncs DEF Goes
  <2> QED BY <2>2, <2>3, <2>4, <2>5, <2>6, <2>7, <2>8, <2>9, <2>10, <2>11 DEF Next
<1>3. SyncInv /\ OnlyReviewedCommitted => UnsyncedIsSeen
  <2> SUFFICES ASSUME SyncInv, OnlyReviewedCommitted, Quiet, Watched,
                      NEW p \in ActivePaths, Committable(p), p \notin Unsynced
               PROVE  head[p] # None /\ head[p].rule = disk[p].rule /\ head[p].status \in {"verified", "needs_sync"}
    BY DEF UnsyncedIsSeen, Watched, Careful
  <2>1. head[p] # None /\ disk[p] # None /\ p \in Path
    BY DEF Unsynced, Committable, ActivePaths
  <2>2. ~Other(head, p)
    BY DEF SyncInv, Catching, Quiet, AddLeft, CommitNext
  <2>3. head[p].status \in {"verified", "rejected"} /\ head[p].status # "rejected"
    BY <2>1 DEF SyncInv, NotRejected, OnlyReviewedCommitted, Watched, Careful
  <2> QED BY <2>1, <2>2, <2>3 DEF Other
<1> QED BY <1>1, <1>2, <1>3, RepositoryTypeOK, PendingStaysUncommitted, PTL DEF Spec

-----------------------------------------------------------------------------
(* Conflicts are declared in both directions *)

(* Without the tools and the double rejection that ConflictsDeclared excepts. *)
Annotating ==
    /\ world.tools \cap {"verify", "checkpoint", "rollback"} = {}
    /\ "rejected" \in world.tools => world.failures = 0

Holds(p, r) == disk[p] # None /\ disk[p].rule = r

(* The rule at p has a second file in the rejected directory. *)
Copied(p) == disk[p] # None /\ Holds(RejectedPath(p), disk[p].rule)

InForce(p) ==
    disk[p] # None /\ disk[p].readable /\ disk[p].status = "verified" /\ disk[p].rule \in SameIntent

(* An annotation goes to the first file found with the id of the rule: to   *)
(* p, if that is the only one.                                              *)
Declared(p, q) ==
    InForce(p) /\ InForce(q) => disk[q].rule \in disk[p].conflicts \/ Copied(p)

(* The text f that is about to be written to p declares the rivals it has   *)
(* if it is verified, and they declare its rule.                            *)
DeclaresAt(p, f) ==
    f.status = "verified" /\ f.rule \in SameIntent =>
        \A q \in ActivePaths \ {p} : InForce(q) =>
            disk[q].rule \in f.conflicts /\ (f.rule \in disk[q].conflicts \/ Copied(q))

(* Without the rejected file at p no annotation is missed. *)
Dispensable(p) == Copied(ActivePath(p)) => disk[ActivePath(p)].status # "verified"

Removes(steps, p) == \E i \in DOMAIN steps : steps[i].op = "unlink" /\ steps[i].path = p

(* Of a rule that is written under another path than its own one of the two *)
(* files is removed.                                                        *)
StepDeclares(steps, i) ==
    LET p == steps[i].path
        f == steps[i].file
    IN /\ steps[i].op = "write" =>
             /\ i = 1
             /\ f # None /\ names[f.rule] = p[2]
             /\ p \in ActivePaths => DeclaresAt(p, f)
             /\ p \notin ActivePaths /\ Copied(ActivePath(p)) => f.rule = disk[p].rule
             /\ Holds(p, f.rule) \/ Removes(steps, ActivePath(p)) \/ Removes(steps, RejectedPath(p))
       /\ steps[i].op = "unlink" =>
             \/ i = 1 /\ (p \notin ActivePaths => Dispensable(p))
             \/ /\ i = 2 /\ steps[1].op = "write"
                /\ p \notin ActivePaths =>
                      \/ steps[1].path = ActivePath(p) /\ steps[1].file.status # "verified"
                      \/ steps[1].path = p /\ Dispensable(p) /\ Holds(p, steps[1].file.rule)

DeclaredInv ==
    Annotating =>
        /\ Named(disk)
        /\ \A p, q \in ActivePaths : p # q => Declared(p, q)
        /\ \A i \in DOMAIN todo : StepDeclares(todo, i)
        /\ world.failures = 0 => \A p \in ActivePaths :
              Copied(p) => Removes(todo, p) \/ Removes(todo, RejectedPath(p))

LEMMA Places ==
    ASSUME NEW p \in Path
    PROVE  /\ p \in ActivePaths <=> p[1] = "active"
           /\ p \in ActivePaths => ActivePath(p) = p /\ RejectedPath(p) # p
           /\ p \notin ActivePaths => RejectedPath(p) = p /\ ActivePath(p) # p
           /\ ActivePath(p) \in ActivePaths /\ RejectedPath(p) \in Path \ ActivePaths
           /\ ActivePath(p)[2] = p[2] /\ RejectedPath(p)[2] = p[2]
           /\ ActivePath(RejectedPath(p)) = ActivePath(p) /\ RejectedPath(ActivePath(p)) = RejectedPath(p)
<1>1. PICK d \in {"active", "rejected"}, n \in Name : p = <<d, n>>
  BY DEF Path
<1>2. <<"active", n>> \in Path /\ <<"rejected", n>> \in Path
  BY DEF Path
<1>3. p[1] = d /\ p[2] = n
  BY <1>1
<1> QED BY <1>1, <1>2, <1>3 DEF ActivePaths, ActivePath, RejectedPath

(* A name stands for one active and one rejected path. *)
LEMMA SameName ==
    ASSUME NEW p \in Path, NEW q \in Path, p[2] = q[2]
    PROVE  /\ ActivePath(p) = ActivePath(q) /\ RejectedPath(p) = RejectedPath(q)
           /\ p = q \/ p = RejectedPath(q) \/ p = ActivePath(q)
           /\ p \in ActivePaths /\ q \in ActivePaths => p = q
<1>1. ActivePath(p) = ActivePath(q) /\ RejectedPath(p) = RejectedPath(q)
  BY DEF ActivePath, RejectedPath
<1>2. p = ActivePath(p) \/ p = RejectedPath(p)
  BY Places
<1>3. p \in ActivePaths /\ q \in ActivePaths => p = q
  BY <1>1, Places
<1> QED BY <1>1, <1>2, <1>3

LEMMA DeclaredParts ==
    ASSUME DeclaredInv, Annotating
    PROVE  /\ Named(disk)
           /\ \A p, q \in ActivePaths : p # q => Declared(p, q)
           /\ \A i \in DOMAIN todo : StepDeclares(todo, i)
           /\ world.failures = 0 => \A p \in ActivePaths :
                 Copied(p) => Removes(todo, p) \/ Removes(todo, RejectedPath(p))
BY DEF DeclaredInv

LEMMA SameCopies ==
    ASSUME SameRules(disk, disk')
    PROVE  /\ \A p \in Path : Copied(p)' <=> Copied(p)
           /\ \A p \in Path : \A r : Holds(p, r)' <=> Holds(p, r)
<1>1. \A p \in Path : \A r : Holds(p, r)' <=> Holds(p, r)
  BY DEF SameRules, Holds
<1>2. ASSUME NEW p \in Path
      PROVE  Copied(p)' <=> Copied(p)
  <2>1. RejectedPath(p) \in Path
    BY PathsOfNames
  <2>2. /\ disk'[p] # None <=> disk[p] # None
        /\ disk[p] # None => disk'[p].rule = disk[p].rule
        /\ disk'[RejectedPath(p)] # None <=> disk[RejectedPath(p)] # None
        /\ disk[RejectedPath(p)] # None => disk'[RejectedPath(p)].rule = disk[RejectedPath(p)].rule
    BY <2>1 DEF SameRules
  <2> QED BY <2>2 DEF Copied, Holds
<1> QED BY <1>1, <1>2

(* A tool that changes no rule of a file, puts none in force and takes no   *)
(* annotation away.                                                         *)
LEMMA QuietToolDeclares ==
    ASSUME DeclaredInv, Annotating, Quiet, SameRules(disk, disk'), UNCHANGED <<world, names>>,
           \A p \in ActivePaths : InForce(p)' => InForce(p) /\ disk[p].conflicts \subseteq disk'[p].conflicts,
           \A i \in DOMAIN todo' : StepDeclares(todo, i)'
    PROVE  DeclaredInv'
<1>1. Named(disk)'
  <2>1. Named(disk)
    BY DeclaredParts
  <2> QED BY <2>1 DEF Named, SameRules
<1>2. ASSUME NEW p \in ActivePaths, NEW q \in ActivePaths, p # q
      PROVE  Declared(p, q)'
  <2> SUFFICES ASSUME InForce(p)', InForce(q)'
               PROVE  disk'[q].rule \in disk'[p].conflicts \/ Copied(p)'
    BY DEF Declared
  <2>1. p \in Path /\ q \in Path
    BY DEF ActivePaths
  <2>2. InForce(p) /\ InForce(q) /\ disk[p].conflicts \subseteq disk'[p].conflicts
    BY <1>2
  <2>3. disk[q].rule \in disk[p].conflicts \/ Copied(p)
    BY <1>2, <2>2, DeclaredParts DEF Declared
  <2>4. disk'[q].rule = disk[q].rule
    BY <2>1, <2>2 DEF SameRules, InForce
  <2>5. Copied(p)' <=> Copied(p)
    BY <2>1, SameCopies
  <2> QED BY <2>2, <2>3, <2>4, <2>5
<1>3. world'.failures = 0 => \A p \in ActivePaths : ~(Copied(p)')
  <2> SUFFICES ASSUME world'.failures = 0, NEW p \in ActivePaths, Copied(p)'
               PROVE  FALSE
    OBVIOUS
  <2>1. world.failures = 0 /\ p \in Path
    BY DEF ActivePaths
  <2>2. Copied(p)
    BY <2>1, SameCopies
  <2>3. \A q : ~Removes(todo, q)
    BY DEF Quiet, Removes
  <2> QED BY <2>1, <2>2, <2>3, DeclaredParts
<1> QED BY <1>1, <1>2, <1>3 DEF DeclaredInv

LEMMA WriteRuleDeclares ==
    ASSUME TypeOK, DeclaredInv, Annotating, NEW r \in Rules, WriteRule(r)
    PROVE  DeclaredInv'
<1> DEFINE f == [rule |-> r, status |-> "pending", readable |-> TRUE, conflicts |-> {}]
<1>1. PICK n \in Name : FreeName(n) /\ names' = [names EXCEPT ![r] = n]
                        /\ disk' = [disk EXCEPT ![<<"active", n>>] = f]
  BY DEF WriteRule
<1>2. names[r] = 0 /\ todo = <<>> /\ todo' = <<>> /\ world' = world
  BY DEF WriteRule, Quiet
<1> DEFINE new == <<"active", n>>
<1>3. new \in ActivePaths /\ new \in Path /\ disk[new] = None /\ new[2] = n
  BY <1>1 DEF FreeName, ActivePaths, Path
<1>4. \A p \in Path : disk'[p] = IF p = new THEN f ELSE disk[p]
  BY <1>1, <1>3 DEF TypeOK, Tree
<1>5. f.rule = r /\ f.status # "verified"
  OBVIOUS
<1> HIDE DEF f, new
<1>6. names'[r] = n /\ \A s \in Rules : s # r => names'[s] = names[s]
  BY <1>1 DEF TypeOK
<1>7. ASSUME NEW p \in Path, disk[p] # None
      PROVE  disk[p].rule \in Rules \ {r} /\ names[disk[p].rule] = p[2]
  <2>1. disk[p].rule \in Rules
    BY <1>7, TreeFiles, FileUpdates DEF TypeOK
  <2>2. names[disk[p].rule] = p[2] /\ p[2] # 0
    BY <1>7, PathsOfNames, DeclaredParts DEF Named, Name
  <2> QED BY <1>2, <2>1, <2>2
<1>8. Named(disk)'
  <2> SUFFICES ASSUME NEW p \in Path, disk'[p] # None PROVE names'[disk'[p].rule] = p[2]
    BY DEF Named
  <2>1. CASE p = new
    BY <1>3, <1>4, <1>5, <1>6, <2>1
  <2>2. CASE p # new
    BY <1>4, <1>6, <1>7, <2>2
  <2> QED BY <2>1, <2>2
<1>9. ASSUME NEW p \in ActivePaths
      PROVE  /\ InForce(p)' => p # new /\ InForce(p) /\ disk'[p] = disk[p]
             /\ Copied(p)' <=> Copied(p)
  <2>1. p \in Path /\ RejectedPath(p) \in Path /\ RejectedPath(p) # new
    BY <1>3, Places DEF ActivePaths
  <2>2. disk'[RejectedPath(p)] = disk[RejectedPath(p)]
    BY <1>4, <2>1
  <2>3. CASE p = new
    <3>1. disk'[p] = f /\ ~(InForce(p)')
      BY <1>4, <1>5, <2>1, <2>3 DEF InForce
    <3>2. ~Copied(p)
      BY <1>3, <2>3 DEF Copied
    <3>3. ~(Copied(p)')
      BY <1>5, <1>7, <2>1, <2>2, <3>1 DEF Copied, Holds
    <3> QED BY <3>1, <3>2, <3>3
  <2>4. CASE p # new
    <3>1. disk'[p] = disk[p]
      BY <1>4, <2>1, <2>4
    <3> QED BY <2>2, <2>4, <3>1 DEF InForce, Copied, Holds
  <2> QED BY <2>3, <2>4
<1>10. \A p, q \in ActivePaths : p # q => Declared(p, q)'
  BY <1>9, DeclaredParts DEF Declared
<1>11. world'.failures = 0 => \A p \in ActivePaths :
          Copied(p)' => Removes(todo, p)' \/ Removes(todo, RejectedPath(p))'
  BY <1>2, <1>9, DeclaredParts DEF Removes
<1> QED BY <1>2, <1>8, <1>10, <1>11 DEF DeclaredInv

LEMMA StageDeclares ==
    ASSUME TypeOK, DeclaredInv, Annotating, NEW p \in Path, StageRule(p)
    PROVE  DeclaredInv'
<1>1. disk[p] \in File /\ disk[p] # None /\ Quiet /\ UNCHANGED <<world, names, todo>>
  BY TreeFiles DEF StageRule, Readable, TypeOK, Allowed
<1> DEFINE f == WithStatus(disk[p], "staging")
<1>2. f \in File /\ f.status = "staging" /\ f.rule = disk[p].rule
  BY <1>1, FileUpdates, RuleStays DEF Status
<1>3. disk' = [disk EXCEPT ![p] = f]
  BY DEF StageRule
<1> HIDE DEF f
<1>4. \A q \in Path : disk'[q] = IF q = p THEN f ELSE disk[q]
  BY <1>3 DEF TypeOK, Tree
<1>5. SameRules(disk, disk')
  BY <1>1, <1>2, <1>4, NoneIsNoFile DEF SameRules
<1>6. ASSUME NEW q \in ActivePaths, InForce(q)'
      PROVE  InForce(q) /\ disk[q].conflicts \subseteq disk'[q].conflicts
  <2>1. q \in Path
    BY DEF ActivePaths
  <2>2. q # p
    BY <1>2, <1>4, <1>6, <2>1 DEF InForce
  <2>3. disk'[q] = disk[q]
    BY <1>4, <2>1, <2>2
  <2> QED BY <1>6, <2>3 DEF InForce
<1>7. \A i \in DOMAIN todo' : StepDeclares(todo, i)'
  BY <1>1 DEF Quiet
<1> QED BY <1>1, <1>5, <1>6, <1>7, QuietToolDeclares

(* No step of these calls writes or removes a file. *)
LEMMA OnlyGit ==
    ASSUME NEW op, op \in {"add all", "try add"}, NEW p \in Path,
           todo' = <<[op |-> op, path |-> p, file |-> None], [op |-> "commit", path |-> p, file |-> None]>>
    PROVE  \A i \in DOMAIN todo' : StepDeclares(todo, i)'
<1>1. DOMAIN todo' = {1, 2} /\ todo'[1].op = op /\ todo'[2].op = "commit"
  <2>1. [op |-> op, path |-> p, file |-> None] \in Step /\ [op |-> "commit", path |-> p, file |-> None] \in Step
    BY StepTypes
  <2> QED BY <2>1, TwoSteps
<1>2. \A i \in DOMAIN todo' : todo'[i].op \notin {"write", "unlink"}
  BY <1>1
<1> QED BY <1>2 DEF StepDeclares

LEMMA MarkingDeclares ==
    ASSUME TypeOK, DeclaredInv, Annotating, Quiet, NEW paths \in SUBSET Unsynced, disk' = Marking(paths),
           UNCHANGED <<world, names>>, \A i \in DOMAIN todo' : StepDeclares(todo, i)'
    PROVE  DeclaredInv'
<1>1. \A p \in paths : p \in Path /\ disk[p] # None
  BY DEF Unsynced, Committable, ActivePaths
<1>2. SameRules(disk, disk')
  BY <1>1, MarkingRules
<1>3. ASSUME NEW p \in ActivePaths, InForce(p)'
      PROVE  InForce(p) /\ disk[p].conflicts \subseteq disk'[p].conflicts
  <2>1. p \in Path
    BY DEF ActivePaths
  <2>2. CASE p \in paths
    <3>1. disk[p] \in File /\ disk'[p] = MarkedUnsynced(disk[p])
      BY <1>1, <2>1, <2>2, TreeFiles DEF TypeOK, Marking
    <3>2. disk'[p].status = "needs_sync"
      BY <3>1 DEF MarkedUnsynced, File
    <3> QED BY <1>3, <3>2 DEF InForce
  <2>3. CASE p \notin paths
    <3>1. disk'[p] = disk[p]
      BY <2>1, <2>3 DEF Marking
    <3> QED BY <1>3, <3>1 DEF InForce
  <2> QED BY <2>2, <2>3
<1> QED BY <1>2, <1>3, QuietToolDeclares

LEMMA SynchronisationDeclares ==
    ASSUME TypeOK, DeclaredInv, Annotating,
           CheckRaises \/ CheckSyncStatus \/ SyncRules \/ \E p \in Path : SyncFile(p)
    PROVE  DeclaredInv'
<1>1. Quiet /\ UNCHANGED <<world, names>>
  BY DEF CheckRaises, CheckSyncStatus, SyncRules, SyncFile, Allowed
<1>2. CASE CheckRaises \/ CheckSyncStatus
  <2>1. PICK paths \in SUBSET Unsynced : disk' = Marking(paths)
    BY <1>2 DEF CheckRaises, CheckSyncStatus
  <2>2. todo' = <<>>
    BY <1>2, <1>1 DEF CheckRaises, CheckSyncStatus, Quiet
  <2> QED BY <1>1, <2>1, <2>2, MarkingDeclares
<1>3. CASE SyncRules
  <2>1. PICK p \in Unsynced : todo' = <<[op |-> "add all", path |-> p, file |-> None],
                                       [op |-> "commit", path |-> p, file |-> None]>>
    BY <1>3 DEF SyncRules
  <2>2. p \in Path
    BY DEF Unsynced, ActivePaths
  <2>3. \A i \in DOMAIN todo' : StepDeclares(todo, i)'
    BY <2>1, <2>2, OnlyGit
  <2> QED BY <1>1, <1>3, <2>3, MarkingDeclares DEF SyncRules
<1>4. ASSUME NEW p \in Path, SyncFile(p) PROVE DeclaredInv'
  <2>1. disk' = disk /\ todo' = <<[op |-> "try add", path |-> p, file |-> None],
                                  [op |-> "commit", path |-> p, file |-> None]>>
    BY <1>4 DEF SyncFile
  <2>2. \A i \in DOMAIN todo' : StepDeclares(todo, i)'
    BY <2>1, OnlyGit
  <2>3. SameRules(disk, disk')
    BY <2>1 DEF SameRules
  <2>4. \A q \in ActivePaths : InForce(q)' => InForce(q) /\ disk[q].conflicts \subseteq disk'[q].conflicts
    BY <2>1 DEF InForce
  <2> QED BY <1>1, <2>2, <2>3, <2>4, QuietToolDeclares
<1> QED BY <1>2, <1>3, <1>4

(* What an annotation does to a file: it adds to the conflicts it declares, *)
(* and may make it unreadable.                                              *)
LEMMA AnnotatedFile ==
    ASSUME NEW f \in File, NEW source \in Rules
    PROVE  LET g == Plain([f EXCEPT !.conflicts = @ \cup {source}])
           IN g.status = f.status /\ g.conflicts = f.conflicts \cup {source}
<1>1. f.conflicts \cup {source} \in SUBSET Rules
  BY FileUpdates
<1> DEFINE e == [f EXCEPT !.conflicts = f.conflicts \cup {source}]
<1>2. e \in File /\ e.status = f.status
  BY <1>1, FileUpdates
<1>3. e.conflicts = f.conflicts \cup {source}
  BY DEF File
<1> HIDE DEF e
<1>4. Plain(e).status = e.status /\ Plain(e).conflicts = e.conflicts
  BY <1>2 DEF Plain, File
<1> QED BY <1>2, <1>3, <1>4 DEF e

LEMMA CommitDeclares ==
    ASSUME TypeOK, DeclaredInv, Annotating, NEW p \in Path, CommitRule(p)
    PROVE  DeclaredInv'
<1>1. disk[p] \in File /\ disk[p].rule \in Rules /\ disk[p] # None
  BY TreeFiles, FileUpdates DEF CommitRule, Readable, TypeOK
<1>2. PICK copy \in [Rivals(p) -> Path] :
         /\ \A r \in Rivals(p) : CopyOf(r, copy[r])
         /\ disk' = Annotated({copy[r] : r \in Rivals(p)}, disk[p].rule)
  BY DEF CommitRule
<1> DEFINE copies == {copy[r] : r \in Rivals(p)}
<1>3. \A q \in copies : q \in Path /\ disk[q] # None /\ disk[q].readable /\ disk[q] \in File
  BY <1>2, TreeFiles DEF CopyOf, Readable, TypeOK
<1> HIDE DEF copies
<1>4. SameRules(disk, disk')
  BY <1>1, <1>2, <1>3, AnnotatedRules DEF copies
<1>5. Quiet /\ UNCHANGED <<world, names>>
  BY DEF CommitRule, Allowed
<1>6. ASSUME NEW q \in Path, disk[q] # None
      PROVE  /\ disk'[q].status = disk[q].status
             /\ disk[q].conflicts \subseteq disk'[q].conflicts
             /\ q \in copies => disk[p].rule \in disk'[q].conflicts
  <2>1. disk'[q] = IF q \in copies /\ disk[p].rule \notin disk[q].conflicts
                   THEN Plain([disk[q] EXCEPT !.conflicts = @ \cup {disk[p].rule}]) ELSE disk[q]
    BY <1>2 DEF copies, Annotated
  <2>2. CASE q \in copies /\ disk[p].rule \notin disk[q].conflicts
    BY <1>1, <1>3, <2>1, <2>2, AnnotatedFile
  <2>3. CASE ~(q \in copies /\ disk[p].rule \notin disk[q].conflicts)
    BY <2>1, <2>3
  <2> QED BY <2>2, <2>3
<1>7. ASSUME NEW q \in ActivePaths, InForce(q)'
      PROVE  InForce(q) /\ disk[q].conflicts \subseteq disk'[q].conflicts
  <2>1. q \in Path /\ disk[q] # None /\ disk'[q].rule = disk[q].rule
    BY <1>4, <1>7 DEF ActivePaths, SameRules, InForce
  <2>2. q \in copies \/ disk'[q] = disk[q]
    BY <1>2, <2>1 DEF copies, Annotated
  <2>3. disk[q].readable
    BY <1>3, <1>7, <2>2 DEF InForce
  <2> QED BY <1>6, <1>7, <2>1, <2>3 DEF InForce
<1>8. PICK f \in File : /\ f.rule = disk[p].rule /\ Rivals(p) \subseteq f.conflicts
                         /\ todo' = <<Write(p, f)>> \o AddAndCommit(p)
  <2> DEFINE own == [disk[p] EXCEPT !.conflicts = @ \cup Rivals(p)]
             g == WithStatus(own, "verified")
  <2>1. disk[p].conflicts \cup Rivals(p) \in SUBSET Rules
    BY <1>1, FileUpdates, RivalRules
  <2>2. own \in File /\ own.rule = disk[p].rule
    BY <1>1, <2>1, FileUpdates, RuleStays
  <2>3. own.conflicts = disk[p].conflicts \cup Rivals(p)
    BY <1>1 DEF File
  <2>4. todo' = <<Write(p, g)>> \o AddAndCommit(p)
    BY DEF CommitRule
  <2> HIDE DEF own
  <2>5. g \in File /\ g.rule = disk[p].rule
    BY <2>2, FileUpdates, RuleStays DEF Status
  <2>6. g.conflicts = own.conflicts
    BY <2>2 DEF WithStatus, Plain, File
  <2> HIDE DEF g
  <2> QED BY <2>3, <2>4, <2>5, <2>6
<1>9. f # None
  BY NoneIsNoFile
<1>11. /\ DOMAIN todo' = {1, 2, 3}
       /\ todo'[1] = Write(p, f) /\ todo'[2] = AddStep(p) /\ todo'[3] = CommitStep(p)
  BY <1>8, CommitSteps
<1>12. p \in ActivePaths => DeclaresAt(p, f)'
  <2> SUFFICES ASSUME p \in ActivePaths, f.rule \in SameIntent,
                      NEW q \in ActivePaths \ {p}, InForce(q)'
               PROVE  disk'[q].rule \in f.conflicts /\ (f.rule \in disk'[q].conflicts \/ Copied(q)')
    BY DEF DeclaresAt
  <2>1. q \in Path /\ InForce(q) /\ disk'[q].rule = disk[q].rule
    BY <1>4, <1>7 DEF ActivePaths, SameRules, InForce
  <2> DEFINE r == disk[q].rule
  <2>2. r \in Rivals(p)
    BY <1>8, <2>1 DEF Rivals, InForce, Readable
  <2>3. copy[r] \in Path /\ disk[copy[r]] # None /\ disk[copy[r]].rule = r /\ copy[r] \in copies
    BY <1>2, <2>2 DEF CopyOf, Readable, copies
  <2>4. copy[r][2] = q[2]
    BY <2>1, <2>3, DeclaredParts DEF Named, InForce
  <2>5. copy[r] = q \/ copy[r] = RejectedPath(q)
    BY <2>1, <2>3, <2>4, SameName, Places
  <2>6. CASE copy[r] = q
    BY <1>6, <1>8, <2>1, <2>2, <2>3, <2>6
  <2>7. CASE copy[r] = RejectedPath(q)
    <3>1. Copied(q)
      BY <2>1, <2>3, <2>7 DEF Copied, Holds, InForce
    <3>2. Copied(q)'
      BY <1>4, <2>1, <3>1, SameCopies
    <3> QED BY <1>8, <2>1, <2>2, <3>2
  <2> QED BY <2>5, <2>6, <2>7
<1>13. Holds(p, f.rule)' /\ names'[f.rule] = p[2]
  <2>1. Holds(p, f.rule)'
    BY <1>1, <1>4, <1>8 DEF Holds, SameRules
  <2>2. names[disk[p].rule] = p[2]
    BY <1>1, DeclaredParts DEF Named
  <2> QED BY <1>5, <1>8, <2>1, <2>2
<1>14. StepDeclares(todo, 1)'
  <2>1. todo'[1].op = "write" /\ todo'[1].path = p /\ todo'[1].file = f
    BY <1>11 DEF Write
  <2>2. f.rule = disk'[p].rule
    BY <1>13 DEF Holds
  <2> QED BY <1>9, <1>12, <1>13, <2>1, <2>2 DEF StepDeclares
<1>15. StepDeclares(todo, 2)' /\ StepDeclares(todo, 3)'
  BY <1>11 DEF StepDeclares, AddStep, CommitStep
<1> QED BY <1>4, <1>5, <1>7, <1>11, <1>14, <1>15, QuietToolDeclares

(* The steps of a call that moves the rule at p to q. *)
LEMMA MoveDeclares ==
    ASSUME TypeOK, DeclaredInv, Annotating, Quiet, UNCHANGED <<world, disk, names>>,
           NEW p \in Path, disk[p] # None,
           NEW q \in Path, q[2] = p[2],
           NEW f \in File, f.rule = disk[p].rule, todo' = Move(p, q, f),
           q \in ActivePaths => f.status # "verified",
           q \notin ActivePaths /\ Copied(ActivePath(q)) => f.rule = disk[q].rule,
           p \notin ActivePaths => q = ActivePath(p) \/ (q = p /\ Dispensable(p))
    PROVE  DeclaredInv'
<1>1. /\ DOMAIN todo' = 1 .. 6
      /\ todo'[1] = Write(q, f) /\ todo'[2] = Unlink(p)
      /\ todo'[3] = AddStep(q) /\ todo'[4] = CommitStep(q)
      /\ todo'[5] = AddStep(p) /\ todo'[6] = CommitStep(p)
  BY MoveSteps
<1>2. /\ todo'[1].op = "write" /\ todo'[1].path = q /\ todo'[1].file = f
      /\ todo'[2].op = "unlink" /\ todo'[2].path = p
      /\ todo'[3].op = "add" /\ todo'[4].op = "commit" /\ todo'[5].op = "add" /\ todo'[6].op = "commit"
  BY <1>1 DEF Write, Unlink, AddStep, CommitStep
<1>3. names'[f.rule] = q[2]
  BY DeclaredParts DEF Named
<1>4. Removes(todo, p)'
  BY <1>1, <1>2 DEF Removes
<1>5. p = q \/ p = RejectedPath(q) \/ p = ActivePath(q)
  BY SameName
<1>6. Holds(q, f.rule)' \/ Removes(todo, ActivePath(q))' \/ Removes(todo, RejectedPath(q))'
  BY <1>4, <1>5 DEF Holds
<1>7. q \in ActivePaths => DeclaresAt(q, f)'
  BY DEF DeclaresAt
<1>8. q \notin ActivePaths /\ Copied(ActivePath(q))' => f.rule = disk'[q].rule
  BY DEF Copied, Holds
<1>9. StepDeclares(todo, 1)'
  BY <1>2, <1>3, <1>6, <1>7, <1>8, NoneIsNoFile DEF StepDeclares
<1>10. p \notin ActivePaths => \/ (q = ActivePath(p) /\ f.status # "verified")
                              \/ (q = p /\ Dispensable(p)' /\ Holds(p, f.rule)')
  <2>1. q = ActivePath(p) => q \in ActivePaths
    BY Places
  <2>2. Dispensable(p) => Dispensable(p)'
    BY DEF Dispensable, Copied, Holds
  <2> QED BY <2>1, <2>2 DEF Holds
<1>11. StepDeclares(todo, 2)'
  BY <1>2, <1>10 DEF StepDeclares
<1>12. \A i \in 3 .. 6 : StepDeclares(todo, i)'
  <2>1. \A i \in 3 .. 6 : todo'[i].op \notin {"write", "unlink"}
    BY <1>2
  <2> QED BY <2>1 DEF StepDeclares
<1>13. \A i \in DOMAIN todo' : StepDeclares(todo, i)'
  <2>1. \A i \in 1 .. 6 : i = 1 \/ i = 2 \/ i \in 3 .. 6
    OBVIOUS
  <2> QED BY <1>1, <1>9, <1>11, <1>12, <2>1
<1>14. SameRules(disk, disk')
  BY DEF SameRules
<1>15. \A s \in ActivePaths : InForce(s)' => InForce(s) /\ disk[s].conflicts \subseteq disk'[s].conflicts
  BY DEF InForce
<1> QED BY <1>13, <1>14, <1>15, QuietToolDeclares

LEMMA MovingDeclares ==
    ASSUME TypeOK, DeclaredInv, Annotating, NEW p \in Path, RejectRule(p) \/ RestoreRule(p)
    PROVE  DeclaredInv'
<1>1. disk[p] \in File /\ disk[p] # None /\ Quiet /\ UNCHANGED <<world, disk, names>>
  BY TreeFiles DEF RejectRule, RestoreRule, Readable, TypeOK, Allowed
<1>2. ActivePath(p) \in Path /\ RejectedPath(p) \in Path
  BY PathsOfNames
<1>3. CASE RejectRule(p)
  <2> DEFINE q == RejectedPath(p)
  <2>1. PICK f : /\ f = WithStatus(disk[p], "rejected") \/ f = [WithStatus(disk[p], "rejected") EXCEPT !.readable = FALSE]
                 /\ todo' = Move(p, q, f)
    BY <1>3 DEF RejectRule
  <2>2. WithStatus(disk[p], "rejected") \in File /\ WithStatus(disk[p], "rejected").rule = disk[p].rule
    BY <1>1, FileUpdates, RuleStays DEF Status
  <2>3. f \in File /\ f.rule = disk[p].rule
    BY <2>1, <2>2, FileUpdates, RuleStays
  <2>4. q \in Path \ ActivePaths /\ q[2] = p[2] /\ ActivePath(q) = ActivePath(p)
    BY Places
  <2>5. Copied(ActivePath(q)) => f.rule = disk[q].rule
    <3>1. CASE p \in ActivePaths
      BY <2>3, <2>4, <3>1, Places DEF Copied, Holds
    <3>2. CASE p \notin ActivePaths
      BY <2>3, <3>2, Places
    <3> QED BY <3>1, <3>2
  <2>6. p \notin ActivePaths => q = p /\ Dispensable(p)
    <3> SUFFICES ASSUME p \notin ActivePaths PROVE q = p /\ Dispensable(p)
      OBVIOUS
    <3>1. q = p
      BY Places
    <3>2. "rejected" \in world.tools
      BY <1>3, Places DEF RejectRule, Reachable
    <3>3. world.failures = 0
      BY <3>2 DEF Annotating
    <3>4. ~Copied(ActivePath(p))
      BY <1>1, <3>3, Places, DeclaredParts DEF Quiet, Removes
    <3> QED BY <3>1, <3>4 DEF Dispensable
  <2> HIDE DEF q
  <2> QED BY <1>1, <2>1, <2>3, <2>4, <2>5, <2>6, MoveDeclares
<1>4. CASE RestoreRule(p)
  <2> DEFINE q == ActivePath(p)
             f == WithStatus(disk[p], "pending")
  <2>1. todo' = Move(p, q, f)
    BY <1>4 DEF RestoreRule, Annotating
  <2>2. f \in File /\ f.rule = disk[p].rule /\ f.status = "pending"
    BY <1>1, FileUpdates, RuleStays DEF Status
  <2>3. q \in ActivePaths /\ q \in Path /\ q[2] = p[2]
    BY <1>2, Places
  <2> HIDE DEF f
  <2>4. p \notin ActivePaths => q = ActivePath(p)
    OBVIOUS
  <2> HIDE DEF q
  <2> QED BY <1>1, <2>1, <2>2, <2>3, <2>4, MoveDeclares
<1> QED BY <1>3, <1>4

(* The steps of a call in the order StepDeclares allows. *)
LEMMA StepOrder ==
    ASSUME TypeOK, DeclaredInv, Annotating, todo # <<>>
    PROVE  /\ Next1 = todo[1] /\ Next1 \in Step /\ Next1.path \in Path /\ StepDeclares(todo, 1)
           /\ \A i \in DOMAIN Rest :
                 /\ Rest[i].op # "write"
                 /\ Rest[i].op = "unlink" => i = 1 /\ Next1.op = "write" /\ Rest[1] = todo[2] /\ 2 \in DOMAIN todo
           /\ Next1.op # "write" =>
                 \A i \in DOMAIN AfterFailedAdd : AfterFailedAdd[i].op \notin {"write", "unlink"}
           /\ Next1.op \notin {"write", "unlink"} => \A p : ~Removes(todo, p)
<1>1. /\ Next1 \in Step /\ Next1 = todo[1]
      /\ Len(todo) \in Nat \ {0} /\ DOMAIN todo = 1 .. Len(todo)
      /\ DOMAIN Rest = 1 .. Len(todo) - 1
      /\ \A j \in DOMAIN Rest : Rest[j] = todo[j + 1]
      /\ DOMAIN AfterFailedAdd = 1 .. Len(todo) - 2
      /\ \A j \in DOMAIN AfterFailedAdd : AfterFailedAdd[j] = todo[j + 2]
  BY Remaining
<1>2. \A i \in DOMAIN todo : StepDeclares(todo, i)
  BY DeclaredParts
<1>3. Next1.path \in Path /\ StepDeclares(todo, 1)
  <2>1. 1 \in DOMAIN todo
    BY <1>1
  <2> QED BY <1>1, <1>2, <2>1 DEF Step
<1>4. ASSUME NEW i \in DOMAIN Rest
      PROVE  /\ Rest[i].op # "write"
             /\ Rest[i].op = "unlink" => i = 1 /\ Next1.op = "write" /\ Rest[1] = todo[2] /\ 2 \in DOMAIN todo
  <2>1. i \in Nat /\ i + 1 \in DOMAIN todo /\ i + 1 # 1 /\ Rest[i] = todo[i + 1] /\ (i + 1 = 2 <=> i = 1)
    BY <1>1
  <2>2. StepDeclares(todo, i + 1)
    BY <1>2, <2>1
  <2>3. todo[i + 1].op # "write"
    BY <2>1, <2>2 DEF StepDeclares
  <2>4. todo[i + 1].op = "unlink" => i + 1 = 2 /\ Next1.op = "write"
    BY <1>1, <2>1, <2>2 DEF StepDeclares
  <2> QED BY <2>1, <2>3, <2>4
<1>5. ASSUME Next1.op # "write", NEW i \in DOMAIN AfterFailedAdd
      PROVE  AfterFailedAdd[i].op \notin {"write", "unlink"}
  <2>1. i + 2 \in DOMAIN todo /\ i + 2 # 1 /\ AfterFailedAdd[i] = todo[i + 2]
    BY <1>1
  <2>2. StepDeclares(todo, i + 2)
    BY <1>2, <2>1
  <2>3. todo[i + 2].op # "write"
    BY <2>1, <2>2 DEF StepDeclares
  <2>4. todo[i + 2].op # "unlink"
    BY <1>1, <1>5, <2>1, <2>2 DEF StepDeclares
  <2> QED BY <2>1, <2>3, <2>4
<1>6. ASSUME Next1.op \notin {"write", "unlink"}, NEW p, Removes(todo, p) PROVE FALSE
  <2>1. PICK i \in DOMAIN todo : todo[i].op = "unlink"
    BY <1>6 DEF Removes
  <2>2. StepDeclares(todo, i)
    BY <1>2
  <2>3. i = 1 \/ (i = 2 /\ todo[1].op = "write")
    BY <2>1, <2>2 DEF StepDeclares
  <2> QED BY <1>1, <1>6, <2>1, <2>3
<1> QED BY <1>1, <1>3, <1>4, <1>5, <1>6

LEMMA RemovesLater ==
    ASSUME TypeOK, todo # <<>>, NEW p, Removes(todo, p), todo' = Rest, ~(Next1.op = "unlink" /\ Next1.path = p)
    PROVE  Removes(todo, p)'
<1>1. /\ Next1 = todo[1]
      /\ Len(todo) \in Nat \ {0} /\ DOMAIN todo = 1 .. Len(todo)
      /\ DOMAIN Rest = 1 .. Len(todo) - 1
      /\ \A j \in DOMAIN Rest : Rest[j] = todo[j + 1]
  BY Remaining
<1>2. PICK i \in DOMAIN todo : todo[i].op = "unlink" /\ todo[i].path = p
  BY DEF Removes
<1>3. i - 1 \in DOMAIN Rest /\ (i - 1) + 1 = i
  BY <1>1, <1>2
<1>4. Rest[i - 1] = todo[i]
  BY <1>1, <1>3
<1> QED BY <1>2, <1>3, <1>4 DEF Removes

(* What is written replaces the rule at the path, or moves a rule whose     *)
(* other file goes next.                                                    *)
LEMMA FileIsWrittenDeclares ==
    ASSUME TypeOK, DeclaredInv, Annotating, FileIsWritten
    PROVE  DeclaredInv'
<1>1. /\ todo # <<>> /\ Next1.op = "write" /\ todo' = Rest
      /\ disk' = [disk EXCEPT ![Next1.path] = Next1.file]
      /\ UNCHANGED <<world, names>>
  BY DEF FileIsWritten, At
<1>2. PICK p \in Path, f \in File : p = Next1.path /\ f = Next1.file
  <2>1. Next1 \in Step /\ Next1.file # None
    BY <1>1, StepOrder DEF StepDeclares
  <2> QED BY <2>1 DEF Step
<1>3. /\ names[f.rule] = p[2]
      /\ p \in ActivePaths => DeclaresAt(p, f)
      /\ p \notin ActivePaths /\ Copied(ActivePath(p)) => f.rule = disk[p].rule
      /\ Holds(p, f.rule) \/ Removes(todo, ActivePath(p)) \/ Removes(todo, RejectedPath(p))
  BY <1>1, <1>2, StepOrder DEF StepDeclares
<1>4. \A q \in Path : disk'[q] = IF q = p THEN f ELSE disk[q]
  BY <1>1, <1>2 DEF TypeOK, Tree
<1>5. f # None
  BY NoneIsNoFile
<1>6. Named(disk)'
  BY <1>1, <1>3, <1>4, DeclaredParts DEF Named
<1>7. ASSUME NEW q \in ActivePaths, q # p
      PROVE  /\ disk'[q] = disk[q] /\ (InForce(q)' <=> InForce(q))
             /\ p # RejectedPath(q) => (Copied(q)' <=> Copied(q))
  <2>1. q \in Path /\ RejectedPath(q) \in Path
    BY Places DEF ActivePaths
  <2>2. disk'[q] = disk[q]
    BY <1>4, <1>7, <2>1
  <2>3. p # RejectedPath(q) => disk'[RejectedPath(q)] = disk[RejectedPath(q)]
    BY <1>4, <2>1
  <2> QED BY <2>2, <2>3 DEF InForce, Copied, Holds
<1>8. ASSUME NEW q \in ActivePaths, p = RejectedPath(q), Copied(q)
      PROVE  Copied(q)'
  <2>1. q \in Path /\ p \notin ActivePaths /\ ActivePath(p) = q
    BY <1>8, Places DEF ActivePaths
  <2>2. f.rule = disk[p].rule
    BY <1>3, <1>8, <2>1
  <2>3. disk'[q] = disk[q] /\ disk'[p] = f
    BY <1>4, <2>1
  <2> QED BY <1>5, <1>8, <2>2, <2>3 DEF Copied, Holds
<1>9. ASSUME NEW q \in ActivePaths, NEW s \in ActivePaths, q # s
      PROVE  Declared(q, s)'
  <2> SUFFICES ASSUME InForce(q)', InForce(s)'
               PROVE  disk'[s].rule \in disk'[q].conflicts \/ Copied(q)'
    BY DEF Declared
  <2>1. q \in Path /\ s \in Path /\ p # RejectedPath(p) => p \in ActivePaths
    BY Places DEF ActivePaths
  <2>2. CASE q = p
    <3>1. disk'[q] = f /\ f.status = "verified" /\ f.rule \in SameIntent
      BY <1>4, <2>2 DEF InForce
    <3>2. InForce(s) /\ disk'[s] = disk[s]
      BY <1>7, <1>9, <2>2
    <3>3. DeclaresAt(p, f)
      BY <1>3, <2>2
    <3> QED BY <1>9, <2>2, <3>1, <3>2, <3>3 DEF DeclaresAt
  <2>3. CASE s = p
    <3>1. disk'[s] = f /\ f.status = "verified" /\ f.rule \in SameIntent
      BY <1>4, <2>3 DEF InForce
    <3>2. InForce(q) /\ disk'[q] = disk[q]
      BY <1>7, <1>9, <2>3
    <3>3. f.rule \in disk[q].conflicts \/ Copied(q)
      BY <1>3, <1>9, <2>3, <3>1, <3>2 DEF DeclaresAt
    <3>4. p # RejectedPath(q)
      BY <2>3, Places DEF ActivePaths
    <3> QED BY <1>7, <1>9, <2>3, <3>1, <3>2, <3>3, <3>4
  <2>4. CASE q # p /\ s # p
    <3>1. disk[s].rule \in disk[q].conflicts \/ Copied(q)
      BY <1>7, <1>9, <2>4, DeclaredParts DEF Declared
    <3>2. Copied(q) => Copied(q)'
      BY <1>7, <1>8, <2>4
    <3> QED BY <1>7, <2>4, <3>1, <3>2
  <2> QED BY <2>2, <2>3, <2>4
<1>10. ASSUME NEW i \in DOMAIN todo'
       PROVE  StepDeclares(todo, i)'
  <2>1. todo'[i].op # "write" /\ (todo'[i].op = "unlink" => i = 1 /\ todo'[1] = todo[2] /\ 2 \in DOMAIN todo)
    BY <1>1, <1>10, StepOrder
  <2>2. ASSUME todo'[i].op = "unlink", NEW s, s = todo'[i].path, s \notin ActivePaths
        PROVE  Dispensable(s)'
    <3>1. todo[2].op = "unlink" /\ s = todo[2].path /\ 2 \in DOMAIN todo
      BY <2>1, <2>2
    <3>3. s \in Path
      <4>1. todo[2] \in Step
        BY <3>1, ElementOfSeq, LenProperties DEF TypeOK
      <4> QED BY <3>1, <4>1 DEF Step
    <3>4. \/ p = ActivePath(s) /\ f.status # "verified"
          \/ p = s /\ Dispensable(s) /\ Holds(s, f.rule)
      <4>1. StepDeclares(todo, 2)
        BY <3>1, DeclaredParts
      <4>2. todo[1].path = p /\ todo[1].file = f
        BY <1>1, <1>2, StepOrder
      <4> QED BY <2>2, <3>1, <4>1, <4>2 DEF StepDeclares
    <3>5. Dispensable(s)'
      <4>1. CASE p = ActivePath(s) /\ f.status # "verified"
        BY <1>4, <4>1 DEF Dispensable
      <4>2. CASE p = s /\ Dispensable(s) /\ Holds(s, f.rule)
        <5>1. ActivePath(s) \in Path /\ ActivePath(s) # p /\ RejectedPath(ActivePath(s)) = s
          BY <2>2, <3>3, <4>2, Places DEF ActivePaths
        <5>2. disk'[ActivePath(s)] = disk[ActivePath(s)] /\ disk'[s] = f /\ disk[s] # None /\ disk[s].rule = f.rule
          BY <1>4, <4>2, <5>1 DEF Holds
        <5>3. Copied(ActivePath(s))' => Copied(ActivePath(s))
          BY <5>1, <5>2 DEF Copied, Holds
        <5> QED BY <4>2, <5>2, <5>3 DEF Dispensable
      <4> QED BY <3>4, <4>1, <4>2
    <3> QED BY <3>5
  <2>3. CASE todo'[i].op = "unlink"
    <3>1. PICK s : s = todo'[i].path
      OBVIOUS
    <3>2. s \notin ActivePaths => Dispensable(s)'
      BY <2>2, <2>3, <3>1
    <3> QED BY <2>1, <2>3, <3>1, <3>2 DEF StepDeclares
  <2>4. CASE todo'[i].op # "unlink"
    BY <2>1, <2>4 DEF StepDeclares
  <2> QED BY <2>3, <2>4
<1>11. ASSUME world'.failures = 0, NEW q \in ActivePaths, Copied(q)'
       PROVE  Removes(todo, q)' \/ Removes(todo, RejectedPath(q))'
  <2>1. q \in Path /\ world.failures = 0 /\ ActivePath(q) = q
    BY <1>1, <1>11, Places DEF ActivePaths
  <2>2. Removes(todo, q) \/ Removes(todo, RejectedPath(q))
    <3>1. CASE Copied(q)
      BY <2>1, <3>1, DeclaredParts
    <3>2. CASE ~Copied(q)
      <4>1. p = q \/ p = RejectedPath(q)
        BY <1>7, <1>11, <3>2
      <4>2. ActivePath(p) = q /\ RejectedPath(p) = RejectedPath(q)
        BY <2>1, <4>1, Places
      <4>3. CASE Holds(p, f.rule)
        <5>1. disk[p] # None /\ disk[p].rule = f.rule /\ disk'[p] = f
          BY <1>4, <4>3 DEF Holds
        <5>2. RejectedPath(q) \in Path /\ RejectedPath(q) # q
          BY <2>1, Places
        <5>3. \A s \in {q, RejectedPath(q)} : /\ disk'[s] = None <=> disk[s] = None
                                              /\ disk[s] # None => disk'[s].rule = disk[s].rule
          BY <1>4, <1>5, <2>1, <4>1, <5>1, <5>2
        <5>4. Copied(q)
          BY <1>11, <5>3 DEF Copied, Holds
        <5> QED BY <3>2, <5>4
      <4> QED BY <1>3, <4>2, <4>3
    <3> QED BY <3>1, <3>2
  <2> QED BY <1>1, <2>2, RemovesLater
<1> QED BY <1>6, <1>9, <1>10, <1>11 DEF DeclaredInv

LEMMA FileIsUnlinkedDeclares ==
    ASSUME TypeOK, DeclaredInv, Annotating, FileIsUnlinked
    PROVE  DeclaredInv'
<1>1. /\ todo # <<>> /\ Next1.op = "unlink" /\ todo' = Rest
      /\ disk' = [disk EXCEPT ![Next1.path] = None]
      /\ UNCHANGED <<world, names>>
  BY DEF FileIsUnlinked, At
<1>2. PICK p \in Path : p = Next1.path
  BY <1>1, StepOrder
<1>3. p \notin ActivePaths => Dispensable(p)
  BY <1>1, <1>2, StepOrder DEF StepDeclares
<1>4. \A q \in Path : disk'[q] = IF q = p THEN None ELSE disk[q]
  BY <1>1, <1>2 DEF TypeOK, Tree
<1>5. Named(disk)'
  BY <1>1, <1>4, DeclaredParts DEF Named
<1>6. ASSUME NEW q \in ActivePaths
      PROVE  /\ InForce(q)' => InForce(q) /\ disk'[q] = disk[q]
             /\ p # q /\ p # RejectedPath(q) => (Copied(q)' <=> Copied(q))
             /\ p = q \/ p = RejectedPath(q) => ~(Copied(q)')
  <2>1. q \in Path /\ RejectedPath(q) \in Path
    BY Places DEF ActivePaths
  <2>2. disk'[q] = IF q = p THEN None ELSE disk[q]
    BY <1>4, <2>1
  <2>3. disk'[RejectedPath(q)] = IF RejectedPath(q) = p THEN None ELSE disk[RejectedPath(q)]
    BY <1>4, <2>1
  <2> QED BY <2>2, <2>3 DEF InForce, Copied, Holds
<1>7. ASSUME NEW q \in ActivePaths, NEW s \in ActivePaths, q # s
      PROVE  Declared(q, s)'
  <2> SUFFICES ASSUME InForce(q)', InForce(s)'
               PROVE  disk'[s].rule \in disk'[q].conflicts \/ Copied(q)'
    BY DEF Declared
  <2>1. InForce(q) /\ InForce(s) /\ disk'[q] = disk[q] /\ disk'[s] = disk[s]
    BY <1>6
  <2>2. disk[s].rule \in disk[q].conflicts \/ Copied(q)
    BY <1>7, <2>1, DeclaredParts DEF Declared
  <2>3. q \in Path /\ p # q
    BY <1>4, <2>1 DEF ActivePaths, InForce
  <2>4. Copied(q) => p # RejectedPath(q)
    <3> SUFFICES ASSUME Copied(q), p = RejectedPath(q) PROVE FALSE
      OBVIOUS
    <3>1. p \notin ActivePaths /\ ActivePath(p) = q
      BY <2>3, Places
    <3> QED BY <1>3, <2>1, <3>1 DEF Dispensable, InForce
  <2> QED BY <1>6, <2>1, <2>2, <2>3, <2>4
<1>8. \A i \in DOMAIN todo' : StepDeclares(todo, i)'
  BY <1>1, StepOrder DEF StepDeclares
<1>9. ASSUME world'.failures = 0, NEW q \in ActivePaths, Copied(q)'
      PROVE  Removes(todo, q)' \/ Removes(todo, RejectedPath(q))'
  <2>1. p # q /\ p # RejectedPath(q) /\ Copied(q)
    BY <1>6, <1>9
  <2>2. Removes(todo, q) \/ Removes(todo, RejectedPath(q))
    BY <1>1, <1>9, <2>1, DeclaredParts
  <2> QED BY <1>1, <1>2, <2>1, <2>2, RemovesLater
<1> QED BY <1>5, <1>7, <1>8, <1>9 DEF DeclaredInv

(* Git commands come after the files are written and removed.  A process    *)
(* that dies before may leave both, but only where failures are allowed.    *)
LEMMA GitDeclares ==
    ASSUME TypeOK, DeclaredInv, Annotating, PathIsAdded \/ AllIsAdded \/ IndexIsCommitted \/ GitFails \/ Dies
    PROVE  DeclaredInv'
<1>1. todo # <<>> /\ UNCHANGED <<world, disk, names>>
  BY DEF PathIsAdded, AllIsAdded, IndexIsCommitted, GitFails, Dies, At, repository
<1>2. CASE Dies
  <2>1. todo' = <<>> /\ failed < world.failures
    BY <1>2 DEF Dies
  <2>2. world'.failures # 0
    <3>1. failed \in Nat /\ world.failures \in Nat
      BY RepositoryConstants DEF TypeOK, World
    <3> QED BY <1>1, <2>1, <3>1
  <2> QED BY <1>1, <2>1, <2>2 DEF DeclaredInv, Annotating, Named, Declared, InForce, Copied, Holds
<1>3. CASE ~Dies
  <2>1. Next1.op \notin {"write", "unlink"} /\ todo' \in {Rest, AfterFailedAdd}
    BY <1>3 DEF PathIsAdded, AllIsAdded, IndexIsCommitted, GitFails, At
  <2>2. \A i \in DOMAIN todo' : todo'[i].op \notin {"write", "unlink"}
    BY <1>1, <2>1, StepOrder
  <2>3. \A i \in DOMAIN todo' : StepDeclares(todo, i)'
    BY <2>2 DEF StepDeclares
  <2>4. world'.failures = 0 => \A q \in ActivePaths : ~(Copied(q)')
    <3>1. \A q : ~Removes(todo, q)
      BY <1>1, <2>1, StepOrder
    <3> QED BY <1>1, <3>1, DeclaredParts DEF Copied, Holds
  <2>5. Named(disk)' /\ \A q, s \in ActivePaths : q # s => Declared(q, s)'
    BY <1>1, DeclaredParts DEF Named, Declared, InForce, Copied, Holds
  <2> QED BY <2>3, <2>4, <2>5 DEF DeclaredInv
<1> QED BY <1>2, <1>3

(* Two verified rules with the same intent declare each other, through any  *)
(* sequence of the tools and failures ConflictsDeclared admits.             *)
THEOREM ConflictsAreDeclared == Spec => []ConflictsDeclared
<1>1. Init => DeclaredInv
  <2> SUFFICES ASSUME Init PROVE DeclaredInv
    OBVIOUS
  <2>1. todo = <<>> /\ \A p \in Path : disk[p] = None
    BY DEF Init, EmptyTree
  <2>2. \A p \in ActivePaths : ~InForce(p) /\ ~Copied(p)
    BY <2>1 DEF ActivePaths, InForce, Copied
  <2> QED BY <2>1, <2>2 DEF DeclaredInv, Named, Declared
<1>2. TypeOK /\ DeclaredInv /\ [Next]_vars => DeclaredInv'
  <2> SUFFICES ASSUME TypeOK, DeclaredInv, [Next]_vars, Annotating' PROVE DeclaredInv'
    BY DEF DeclaredInv
  <2>1. Annotating
    BY WorldStays DEF Annotating
  <2>2. CASE UNCHANGED <<world, disk, names, todo>>
    BY <2>2 DEF DeclaredInv, Annotating, Named, Declared, InForce, Copied, Holds, StepDeclares,
                DeclaresAt, Dispensable, Removes
  <2>3. ASSUME NEW r \in Rules, WriteRule(r) PROVE DeclaredInv'
    BY <2>1, <2>3, WriteRuleDeclares
  <2>4. ASSUME NEW p \in Path, StageRule(p) \/ CommitRule(p) \/ RejectRule(p) \/ RestoreRule(p)
        PROVE  DeclaredInv'
    BY <2>1, <2>4, StageDeclares, CommitDeclares, MovingDeclares
  <2>5. ASSUME CheckRaises \/ CheckSyncStatus \/ SyncRules \/ \E p \in Path : SyncFile(p)
        PROVE  DeclaredInv'
    BY <2>1, <2>5, SynchronisationDeclares
  <2>6. ASSUME NEW n \in Points, CreateRollbackPoint(n) \/ RollbackToStash(n) \/ RollbackToTag(n)
        PROVE  FALSE
    BY <2>1, <2>6 DEF CreateRollbackPoint, RollbackToStash, RollbackToTag, Allowed, Annotating
  <2>7. CASE CleanupRollbackStashes
    BY <2>2, <2>7 DEF CleanupRollbackStashes
  <2>8. CASE Goes
    BY <2>1, <2>8, FileIsWrittenDeclares, FileIsUnlinkedDeclares, GitDeclares DEF Goes
  <2>9. CASE UNCHANGED vars
    BY <2>2, <2>9 DEF vars
  <2> QED BY <2>3, <2>4, <2>5, <2>6, <2>7, <2>8, <2>9 DEF Next
<1>3. DeclaredInv => ConflictsDeclared
  <2> SUFFICES ASSUME DeclaredInv, Annotating,
                      NEW p \in ActivePaths, NEW q \in ActivePaths, p # q,
                      Readable(p), Readable(q),
                      disk[p].status = "verified", disk[q].status = "verified",
                      {disk[p].rule, disk[q].rule} \subseteq SameIntent,
                      \A t \in Path \ {p, q} : disk[t] # None => disk[t].rule \notin {disk[p].rule, disk[q].rule}
               PROVE  disk[q].rule \in disk[p].conflicts
    BY DEF ConflictsDeclared, Annotating
  <2>1. p \in Path /\ RejectedPath(p) \in Path \ {p, q}
    BY Places DEF ActivePaths
  <2>2. InForce(p) /\ InForce(q) /\ ~Copied(p)
    BY <2>1 DEF InForce, Readable, Copied, Holds
  <2> QED BY <2>2, DeclaredParts DEF Declared
<1> QED BY <1>1, <1>2, <1>3, RepositoryTypeOK, PTL DEF Spec
=============================================================================

----------------------------- MODULE RuleProperties -----------------------------
(* What the rule repository should guarantee, over RuleRepository. *)
EXTENDS RuleRepository

(* Trees hold files under the names they were written under or nothing,   *)
(* and what a call has left to do is a list of file and git operations.   *)
TypeOK ==
    /\ world \in Worlds
    /\ disk \in Tree
    /\ index \in Tree
    /\ head \in Tree
    /\ history \subseteq Rules
    /\ unmerged \subseteq Path
    /\ stashes \in Seq(Stash)
    /\ tags \in [Points -> Tree \cup {None}]
    /\ names \in [Rules -> 0 .. MaxName]
    /\ todo \in Seq(Step)
    /\ failed \in Nat

Written == {r \in Rules : names[r] # 0}

(* The four places a rule can be in: a file, a stash, a commit, and the     *)
(* text a call is about to write.                                           *)
OnDisk(r)  == \E p \in Path : disk[p] # None /\ disk[p].rule = r
Stashed(r) == \E i \in DOMAIN stashes, p \in Path :
                 stashes[i].work[p] # None /\ stashes[i].work[p].rule = r
InHand(r)  == todo # <<>> /\ Next1.op = "write" /\ Next1.file.rule = r

Kept(r) == OnDisk(r) \/ Stashed(r) \/ InHand(r) \/ r \in history

(* Whichever git command fails, and wherever a call is cut off, no rule     *)
(* vanishes: reject and restore write the copy before they remove the       *)
(* original, and a rollback point takes what it removes.  What the code     *)
(* does lose it loses to another rule of the same name, which write_rule    *)
(* hands out again once the first is rejected; to a second rejection of a   *)
(* rejected file; to git clean after a tag; and to the clean-up of stashes. *)
RulesKept ==
    world.tools \cap {"rejected", "cleanup"} = {} /\ (\A n \in Points : tags[n] = None) =>
        \A r \in Written : Kept(r) \/ \E s \in Written \ {r} : names[s] = names[r]

(* docs/GEAR.md:226: a pending rule must not be committed.  Tools commit the *)
(* index, not one file, so this has to hold of what a failed commit leaves  *)
(* there for the next one as well.  restore_rule commits what it restores,  *)
(* sync_rules everything there is, and a stash may add a file to the index. *)
OnlyReviewedCommitted ==
    world.tools \cap {"restore", "sync", "sync one", "rollback"} = {} =>
        \A p \in Path : head[p] # None => head[p].status \in {"verified", "rejected"}

(* _tools_sync.py:20: check_sync_status finds the verified rules that are   *)
(* not committed.  It asks whether HEAD has the path, so the path must not  *)
(* hold another status or another rule there.  With one failure it does     *)
(* not, as long as no rule is restored, synchronised or rolled back, which  *)
(* commits files of any status.                                             *)
UnsyncedIsSeen ==
    /\ Quiet
    /\ world.failures <= 1
    /\ world.tools \cap {"restore", "sync", "sync one", "rollback"} = {}
    => \A p \in ActivePaths : Committable(p) /\ p \notin Unsynced =>
            /\ head[p] # None
            /\ head[p].rule = disk[p].rule
            /\ head[p].status \in {"verified", "needs_sync"}

(* _tools_rules.py:615: conflicts are annotated in both directions, however *)
(* the rules were staged, rejected, restored and verified in between.       *)
(* Excepted are rules whose file cannot be read and a restore as verified,  *)
(* which looks for no conflict.  The annotation of a rival is not committed *)
(* with the rule, so a rollback point takes it out of the working tree; and *)
(* where a call was cut off between copy and original, the annotation may   *)
(* reach the copy only, which is worth nothing while there are two, nor     *)
(* after a second rejection has overwritten it.                             *)
ConflictsDeclared ==
    /\ Quiet
    /\ world.tools \cap {"verify", "checkpoint", "rollback"} = {}
    /\ "rejected" \in world.tools => world.failures = 0
    => \A p, q \in ActivePaths :
          /\ p # q
          /\ Readable(p) /\ Readable(q)
          /\ disk[p].status = "verified" /\ disk[q].status = "verified"
          /\ {disk[p].rule, disk[q].rule} \subseteq SameIntent
          /\ \A t \in Path \ {p, q} : disk[t] # None => disk[t].rule \notin {disk[p].rule, disk[q].rule}
          => disk[q].rule \in disk[p].conflicts

(* A rollback that meets a clean working tree at the commit the point was   *)
(* made on brings back every file as it was, new, changed or deleted.       *)
RollbackRestores ==
    [][\A i \in DOMAIN stashes :
          /\ Clean /\ head = stashes[i].base
          /\ IsNewest(i, stashes[i].point)
          /\ RollbackToStash(stashes[i].point)
          => disk' = stashes[i].work]_vars
=============================================================================

----------------------------- MODULE PlanMerge -----------------------------
(***************************************************************************)
(* The merge of one finished plan into its target branch, in consolidate   *)
(* mode: conductor/planmerge (Integrate, finishSuccessfulMerge, the        *)
(* cleanup matrix), the completion record conductor.PlanState keeps of it, *)
(* and the operator's recovery commands that rewrite that record.          *)
(*                                                                         *)
(* Every git command and every SaveState is a step of its own, so that a   *)
(* crash, a failed save or the user's own git commands can come between    *)
(* two of them.  What is abstract:                                         *)
(*   - a commit is a member of Commit; Reach gives its ancestors (itself   *)
(*     included) and Tree the files it holds;                              *)
(*   - the execution of the plan is one step, Execute (modules BatchExec   *)
(*     and PlanRun model it);                                              *)
(*   - messages, timestamps and the paths of worktrees are left out, and   *)
(*     of the source checkout's other branches all but their files.        *)
(*                                                                         *)
(* Bounds: MaxFaults crashes, failed saves and failed git commands in all. *)
(***************************************************************************)
EXTENDS Integers

CONSTANTS Commit,      \* the commits that exist or may be created
          Reach,       \* Reach[c]: the commits reachable from c, c included
          Tree,        \* Tree[c]: the files of commit c
          Origin,      \* the target's head before the first run
          None,        \* "no commit": a missing branch or worktree, "" in a record
          MaxFaults,   \* bound on crashes, failed saves and failed git commands
          Recover,     \* the recovery commands the operator may run
          LiveRecover, \* may they run while a merge is in progress (no lock is taken)
          User         \* what the user does to the repository meanwhile

ASSUME CommitAssumption ==
  /\ Origin \in Commit
  /\ None \notin Commit
  /\ Reach \in [Commit -> SUBSET Commit]
  /\ \A c \in Commit : c \in Reach[c]
  /\ \A c \in Commit : \A d \in Reach[c] : Reach[d] \subseteq Reach[c]
  /\ \A c, d \in Commit : c \in Reach[d] /\ d \in Reach[c] => c = d  \* no cycles
ASSUME BoundAssumption == MaxFaults \in Nat /\ LiveRecover \in BOOLEAN

Artifacts == {"merge", "exec", "branch"}
Steps == {"idle", "preflight", "clear", "add", "ff", "intent", "publish", "resync", "check",
          "reset", "save", "rm_merge", "rm_exec", "rm_branch", "save_cleanup"}

VARIABLES
  target,   \* head of the target branch
  src,      \* the source checkout: is the target checked out, its files, are there edits
  git,      \* merge worktree's head, execution worktree, plan branch's head
  disk,     \* the plan's record in .springfield/execution/state.json
  mem,      \* the running process's copy of it
  pc,       \* where the running merge is; "idle" when no process runs it
  seen,     \* currentTargetHead, as Integrate read it
  faults,   \* crashes and failures so far
  \* History, read by no action:
  work,     \* what the last execution left on the plan branch
  heads,    \* the heads the target has had since that execution
  landed,   \* what update-ref published, while the target contains it
  discarded, \* the operator discarded the attempt
  late      \* what the user did in the source checkout after a resync had looked: an
            \* edit since its dirty check, a switch since it read the branch

history == <<work, heads, landed, discarded, late>>
vars == <<target, src, git, disk, mem, pc, seen, faults, history>>

----------------------------------------------------------------------------
(* The durable record (conductor.PlanState, MergeOutcome, CleanupOutcome). *)

MergeStatus == {"none", "pending", "refused", "failed", "succeeded"}
SyncStatus  == {"none", "synced", "skipped", "failed"}
CleanStatus == {"none", "succeeded", "failed", "preserved", "skipped"}

PlanState ==
  [status : {"pending", "completed"},
   base   : Commit \cup {None},          \* BaseHead
   merge  : MergeStatus,                 \* Merge.Status, "none" when Merge is nil
   post   : Commit \cup {None},          \* Merge.PostMergeHead
   wt     : BOOLEAN,                     \* Merge.WorktreePath is recorded
   sync   : SyncStatus,                  \* Merge.SourceSyncStatus
   cleanup: CleanStatus,                 \* Cleanup.Status, "none" when nil
   ledger : [Artifacts -> CleanStatus]]  \* the three ArtifactCleanup records

NoLedger == [a \in Artifacts |-> "none"]

Fresh == [status |-> "pending", base |-> None, merge |-> "none", post |-> None,
          wt |-> FALSE, sync |-> "none", cleanup |-> "none", ledger |-> NoLedger]

\* PlanState.IsIntegrated.
IsIntegrated(p) ==
  /\ p.status = "completed"
  /\ p.merge # "none" => /\ p.merge = "succeeded"
                         /\ p.sync # "failed"
                         /\ p.cleanup \notin {"none", "failed"}

\* priorMergeWorktreePath: some earlier attempt recorded its merge worktree.
PriorMergeWorktree(p) ==
  p.wt \/ p.ledger["merge"] \in {"preserved", "succeeded", "failed"}

\* Mutant: a refusal forgets the head a previous attempt published.
Finalized_DropsPost(p, status, created) ==
  [p EXCEPT !.merge = status, !.post = None, !.wt = created \/ PriorMergeWorktree(p),
            !.cleanup = "skipped", !.ledger = [a \in Artifacts |-> "preserved"]]

\* The record finalize writes on every path that does not succeed:
\* refused/failedMerge carry PostMergeHead and the sync diagnostics forward,
\* preserveAllCleanup marks every artifact as kept.
Finalized(p, status, created) ==
  LET kept == created \/ PriorMergeWorktree(p) IN
  [p EXCEPT !.merge = status, !.wt = kept, !.cleanup = "skipped",
            !.ledger = [a \in Artifacts |->
                          IF a = "merge" /\ ~kept THEN "skipped" ELSE "preserved"]]

Init ==
  /\ target = Origin
  /\ src \in [on : BOOLEAN, tree : {Tree[Origin]}, edits : {FALSE}]
  /\ git = [merge |-> None, exec |-> FALSE, branch |-> None]
  /\ disk = Fresh /\ mem = Fresh
  /\ pc = "idle" /\ seen = None /\ faults = 0
  /\ work = None /\ heads = {Origin} /\ landed = None /\ discarded = FALSE /\ late = {}

----------------------------------------------------------------------------
(* The execution of the plan, up to the record SinglePlan leaves behind.   *)

\* A fresh run: preflight wants a clean source checkout, records the target's
\* head as base_head, creates branch and worktree; the run ends Completed
\* with a pending merge.  What the agents commit is any commit at all.
Execute(c) ==
  /\ pc = "idle" /\ disk.status = "pending"
  /\ ~src.edits /\ (src.on => src.tree = Tree[target])
  /\ git' = [git EXCEPT !.exec = TRUE, !.branch = c]
  /\ disk' = [Fresh EXCEPT !.status = "completed", !.base = target, !.merge = "pending"]
  /\ work' = c /\ heads' = {target} /\ landed' = None /\ discarded' = FALSE
  /\ UNCHANGED <<target, src, mem, pc, seen, faults, late>>

----------------------------------------------------------------------------
(* Integrate.                                                              *)

Goto(step) == pc' = step
Return == pc' = "idle" /\ mem' = Fresh /\ seen' = None

Fault == faults < MaxFaults /\ faults' = faults + 1
NoFault == UNCHANGED faults

\* Mutant: a recorded publish intent is taken for a publish.
Begin_TrustsIntent ==
  /\ pc = "idle" /\ disk.status = "completed" /\ ~IsIntegrated(disk)
  /\ mem' = [disk EXCEPT !.merge = IF disk.post # None THEN "succeeded" ELSE @]
  /\ Goto(IF disk.post # None THEN "resync" ELSE "preflight")
  /\ UNCHANGED <<target, src, git, disk, seen, faults>> /\ UNCHANGED history

\* A start reaches Integrate for a completed plan that is not integrated; a
\* recorded success goes straight to finishSuccessfulMerge.
Begin ==
  /\ pc = "idle" /\ disk.status = "completed" /\ ~IsIntegrated(disk)
  /\ mem' = disk
  /\ Goto(IF disk.merge = "succeeded" THEN "resync" ELSE "preflight")
  /\ UNCHANGED <<target, src, git, disk, seen, faults>> /\ UNCHANGED history

\* finalize: record the outcome, save it (or fail to save it), give up.
Finalize(p, status, created) ==
  /\ \/ disk' = Finalized(p, status, created) /\ NoFault
     \/ disk' = disk /\ Fault
  /\ Return

\* A git command that should have worked fails, and the outcome is saved.
GitFails(status, created) ==
  /\ Fault /\ disk' = Finalized(mem, status, created) /\ Return

\* Mutants: an intent is promoted without looking at the target; the publish
\* of a dead process is never recognised.
LandedBefore_Unchecked == mem.merge = "pending" /\ mem.post # None
LandedBefore_Never == FALSE

\* A publish intent is on record and the target is at the intended head.
LandedBefore == mem.merge = "pending" /\ mem.post # None /\ target = mem.post

\* An unreadable plan head or target ref, or a target that moved since the
\* run began: the merge is refused.
Refuse ==
  /\ pc = "preflight"
  /\ \/ /\ ~git.exec \/ (target # mem.base /\ ~LandedBefore)
        /\ Finalize(mem, "refused", FALSE)
     \/ GitFails("refused", FALSE)
  /\ UNCHANGED <<target, src, git>> /\ UNCHANGED history

\* A previous run published the merge but did not live to record it.
Promote ==
  /\ pc = "preflight" /\ git.exec /\ LandedBefore
  /\ mem' = [mem EXCEPT !.merge = "succeeded"]
  /\ Goto("resync")
  /\ UNCHANGED <<target, src, git, disk, seen, faults>> /\ UNCHANGED history

ReadTarget ==
  /\ pc = "preflight" /\ git.exec /\ ~LandedBefore /\ target = mem.base
  /\ seen' = target
  /\ Goto("clear")
  /\ UNCHANGED <<target, src, git, disk, mem, faults>> /\ UNCHANGED history

\* The merge worktree an earlier attempt recorded is removed first; whether that worked
\* is not looked at.
ClearMergeWorktree ==
  /\ pc = "clear"
  /\ \/ git' = [git EXCEPT !.merge = IF mem.wt THEN None ELSE @] /\ NoFault
     \/ mem.wt /\ Fault /\ UNCHANGED git
  /\ Goto("add")
  /\ UNCHANGED <<target, src, disk, mem, seen>> /\ UNCHANGED history

\* `worktree add` refuses a path that is taken.
MergePathFree == git.merge = None

AddMergeWorktree ==
  /\ pc = "add" /\ MergePathFree
  /\ git' = [git EXCEPT !.merge = target]
  /\ Goto("ff")
  /\ UNCHANGED <<target, src, disk, mem, seen, faults>> /\ UNCHANGED history

\* So may it, or the directory above it.
AddMergeWorktreeFails ==
  /\ \/ pc = "add" /\ ~MergePathFree /\ Finalize(mem, "failed", FALSE)
     \/ pc \in {"clear", "add"} /\ GitFails("failed", FALSE)
  /\ UNCHANGED <<target, src, git>> /\ UNCHANGED history

\* git merge --ff-only in the merge worktree: forward to the branch, or
\* already up to date, or refused.
FastForwards == git.branch # None /\ git.merge \in Reach[git.branch]
UpToDate     == git.branch # None /\ git.branch \in Reach[git.merge]

MergeFFOnly ==
  /\ pc = "ff" /\ (FastForwards \/ UpToDate)
  /\ git' = [git EXCEPT !.merge = IF FastForwards THEN git.branch ELSE @]
  /\ Goto("intent")
  /\ UNCHANGED <<target, src, disk, mem, seen, faults>> /\ UNCHANGED history

MergeFFOnlyFails ==
  /\ pc = "ff"
  /\ \/ ~FastForwards /\ ~UpToDate /\ Finalize(mem, "failed", TRUE)
     \/ GitFails("failed", TRUE)
  /\ UNCHANGED <<target, src, git>> /\ UNCHANGED history

\* The publish intent is saved before update-ref; a failed save gives up,
\* carrying the intended head forward.
Intent == [mem EXCEPT !.merge = "pending", !.post = git.merge, !.wt = TRUE, !.sync = "none"]

SaveIntent ==
  /\ pc = "intent"
  /\ mem' = Intent /\ disk' = Intent
  /\ Goto("publish")
  /\ UNCHANGED <<target, src, git, seen, faults>> /\ UNCHANGED history

SaveIntentFails ==
  /\ pc = "intent" /\ Fault
  /\ disk' \in {disk, Finalized(Intent, "failed", TRUE)}
  /\ Return
  /\ UNCHANGED <<target, src, git>> /\ UNCHANGED history

\* Mutant: update-ref without the expected old value.
Publish_NoCAS ==
  /\ pc = "publish"
  /\ target' = mem.post
  /\ mem' = [mem EXCEPT !.merge = "succeeded"]
  /\ heads' = heads \cup {target'} /\ landed' = target'
  /\ Goto("resync")
  /\ UNCHANGED <<src, git, disk, seen, faults, work, discarded, late>>

\* update-ref with the head Integrate read as the expected old value.
Publish ==
  /\ pc = "publish" /\ target = seen
  /\ target' = mem.post
  /\ mem' = [mem EXCEPT !.merge = "succeeded"]
  /\ heads' = heads \cup {target'} /\ landed' = target'
  /\ Goto("resync")
  /\ UNCHANGED <<src, git, disk, seen, faults, work, discarded, late>>

PublishLosesRace ==
  /\ pc = "publish"
  /\ \/ target # seen /\ Finalize(mem, "failed", TRUE)
     \/ GitFails("failed", TRUE)
  /\ UNCHANGED <<target, src, git>> /\ UNCHANGED history

----------------------------------------------------------------------------
(* finishSuccessfulMerge.                                                  *)

(* resyncSourceCheckout: the branch is read, the files are compared with    *)
(* base_head, and `reset --hard` follows, three git commands with no lock   *)
(* about them.                                                              *)

Synced(status) == mem' = [mem EXCEPT !.sync = status] /\ Goto("save")

\* Only a checkout of the target branch is touched; one whose branch cannot be read counts
\* as another's.
ReadBranch ==
  /\ pc = "resync" /\ late' = {}
  /\ \/ src.on /\ Goto("check") /\ UNCHANGED mem /\ NoFault
     \/ Synced("skipped") /\ IF src.on THEN Fault ELSE NoFault
  /\ UNCHANGED <<target, src, git, disk, seen, work, heads, landed, discarded>>

\* Mutant: the gate looks at the committed files only.
DirtyAgainst_IgnoresEdits(c) == c = None \/ src.tree # Tree[c]

\* The files, edits included, are not those of the commit.
DirtyAgainst(c) == src.edits \/ c = None \/ src.tree # Tree[c]

CheckClean ==
  /\ pc = "check" /\ late' = late \ {"edit"}
  /\ \/ ~DirtyAgainst(mem.base) /\ Goto("reset") /\ UNCHANGED mem /\ NoFault
     \/ Synced("failed") /\ IF DirtyAgainst(mem.base) THEN NoFault ELSE Fault
  /\ UNCHANGED <<target, src, git, disk, seen, work, heads, landed, discarded>>

\* Whatever branch is checked out by now is set to the merged head, files and all.
ResetHard ==
  /\ pc = "reset"
  /\ \/ /\ Synced("synced") /\ NoFault
        /\ src' = [src EXCEPT !.tree = Tree[mem.post], !.edits = FALSE]
        /\ target' = IF src.on THEN mem.post ELSE target
        /\ heads' = heads \cup {target'}
     \/ Synced("failed") /\ Fault /\ UNCHANGED <<src, target, heads>>
  /\ UNCHANGED <<git, disk, seen, work, landed, discarded, late>>

\* Mutant: the success is only saved after the cleanup.
SaveMerge_Skipped ==
  /\ pc = "save"
  /\ UNCHANGED <<disk, mem, seen>> /\ Goto("rm_merge") /\ NoFault
  /\ UNCHANGED <<target, src, git>> /\ UNCHANGED history

\* The success is saved before anything is deleted.
SaveMerge ==
  /\ pc = "save"
  /\ \/ disk' = mem /\ mem' = mem /\ Goto("rm_merge") /\ NoFault /\ UNCHANGED seen
     \/ disk' = disk /\ Return /\ Fault
  /\ UNCHANGED <<target, src, git>> /\ UNCHANGED history

\* retryArtifactRemove: a removal that succeeded before is carried forward,
\* any other is attempted.  Git refuses a worktree or branch that is not
\* there, and a branch some worktree has checked out.
Exists(a) ==
  CASE a = "merge"  -> git.merge # None
    [] a = "exec"   -> git.exec
    [] a = "branch" -> git.branch # None
Removable(a) == Exists(a) /\ (a = "branch" => ~git.exec)
Without(a) ==
  CASE a = "merge"  -> [git EXCEPT !.merge = None]
    [] a = "exec"   -> [git EXCEPT !.exec = FALSE]
    [] a = "branch" -> [git EXCEPT !.branch = None]

\* Mutant: an artifact kept by an earlier failure is carried forward as well.
Removal_CarriesPreserved(a) ==
  /\ IF mem.ledger[a] \in {"succeeded", "preserved"} THEN UNCHANGED <<mem, git>>
     ELSE git' = Without(a) /\ mem' = [mem EXCEPT !.ledger[a] = "succeeded"]
  /\ NoFault

Removal(a) ==
  \/ /\ mem.ledger[a] = "succeeded"
     /\ UNCHANGED <<mem, git, faults>>
  \/ /\ mem.ledger[a] # "succeeded" /\ Removable(a)
     /\ git' = Without(a)
     /\ mem' = [mem EXCEPT !.ledger[a] = "succeeded"]
     /\ NoFault
  \/ /\ mem.ledger[a] # "succeeded"
     /\ IF Removable(a) THEN Fault ELSE NoFault
     /\ mem' = [mem EXCEPT !.ledger[a] = "failed"]
     /\ UNCHANGED git

Remove(a, step, next) ==
  /\ pc = step /\ Removal(a) /\ Goto(next)
  /\ UNCHANGED <<target, src, disk, seen>> /\ UNCHANGED history

RemoveMergeWorktree == Remove("merge", "rm_merge", "rm_exec")
RemoveExecWorktree  == Remove("exec", "rm_exec", "rm_branch")
RemoveBranch        == Remove("branch", "rm_branch", "save_cleanup")

Aggregate(p) ==
  [p EXCEPT !.cleanup = IF \E a \in Artifacts : p.ledger[a] = "failed"
                        THEN "failed" ELSE "succeeded"]

SaveCleanup ==
  /\ pc = "save_cleanup"
  /\ \/ disk' = Aggregate(mem) /\ NoFault
     \/ disk' = disk /\ Fault
  /\ Return
  /\ UNCHANGED <<target, src, git>> /\ UNCHANGED history

\* The process dies; what is on disk and in git stays.
Crash ==
  /\ pc # "idle" /\ Fault /\ Return
  /\ UNCHANGED <<target, src, git, disk>> /\ UNCHANGED history

----------------------------------------------------------------------------
(* springfield recover --plan: the record is rewritten on disk; no lock is *)
(* taken, so a merge may be in progress when LiveRecover.                  *)

MayRecover(command) == command \in Recover /\ (LiveRecover \/ pc = "idle")

RetryMerge ==
  /\ MayRecover("retry-merge")
  /\ disk.status = "completed" /\ disk.merge \in {"refused", "failed"}
  /\ disk' = [disk EXCEPT !.merge = "none", !.post = None, !.wt = FALSE, !.sync = "none",
                          !.cleanup = "none", !.ledger = NoLedger]
  /\ UNCHANGED <<target, src, git, mem, pc, seen, faults>> /\ UNCHANGED history

RetryIntegration ==
  /\ MayRecover("retry-integration")
  /\ disk.status = "completed" /\ disk.merge = "succeeded" /\ ~IsIntegrated(disk)
  /\ disk' = [disk EXCEPT !.sync = "none", !.cleanup = "none", !.ledger = NoLedger]
  /\ UNCHANGED <<target, src, git, mem, pc, seen, faults>> /\ UNCHANGED history

\* recover --reset: execution worktree and branch are removed first, then the
\* cleared record is saved (or the save fails).
Reset ==
  /\ MayRecover("reset")
  /\ disk.status = "completed" /\ ~IsIntegrated(disk)
  /\ git' = [git EXCEPT !.exec = FALSE, !.branch = None]
  /\ \/ disk' = Fresh /\ NoFault
     \/ disk' = disk /\ Fault
  /\ discarded' = TRUE
  /\ UNCHANGED <<target, src, mem, pc, seen, work, heads, landed, late>>

----------------------------------------------------------------------------
(* The user at work in the same repository.  At any time the target may be *)
(* moved forward ("push"); between runs it may be set to any commit        *)
(* ("rewind").  What was published counts as landed while the target still *)
(* contains it.                                                            *)

UserMovesTarget(c) ==
  /\ c # target
  /\ \/ "push" \in User /\ target \in Reach[c]
     \/ "rewind" \in User /\ pc = "idle"
  /\ target' = c /\ heads' = heads \cup {c}
  /\ landed' = IF landed \in Reach[c] THEN landed ELSE None
  /\ src' = IF src.on THEN [src EXCEPT !.tree = Tree[c], !.edits = FALSE] ELSE src
  /\ UNCHANGED <<git, disk, mem, pc, seen, faults, work, discarded, late>>

UserEdits ==
  /\ "edit" \in User /\ ~src.edits
  /\ src' = [src EXCEPT !.edits = TRUE] /\ late' = late \cup {"edit"}
  /\ UNCHANGED <<target, git, disk, mem, pc, seen, faults, work, heads, landed, discarded>>

\* The edits are undone by hand, or stashed: git stash restores HEAD's files.
UserUndoesEdits ==
  /\ "edit" \in User /\ src.edits
  /\ src' = [src EXCEPT !.edits = FALSE]
  /\ UNCHANGED <<target, git, disk, mem, pc, seen, faults>> /\ UNCHANGED history

UserStashes ==
  /\ "stash" \in User /\ src.on /\ (src.edits \/ src.tree # Tree[target])
  /\ src' = [src EXCEPT !.edits = FALSE, !.tree = Tree[target]]
  /\ UNCHANGED <<target, git, disk, mem, pc, seen, faults>> /\ UNCHANGED history

\* git checkout, which carries edits along: to a branch with any files, or back.
UserSwitchesBranch(c) ==
  /\ "switch" \in User /\ (~src.on => c = target)
  /\ src' = [src EXCEPT !.on = ~@, !.tree = Tree[c]] /\ late' = late \cup {"switch"}
  /\ UNCHANGED <<target, git, disk, mem, pc, seen, faults, work, heads, landed, discarded>>

----------------------------------------------------------------------------
MergeStep ==
  \/ Refuse \/ Promote \/ ReadTarget
  \/ ClearMergeWorktree \/ AddMergeWorktree \/ AddMergeWorktreeFails
  \/ MergeFFOnly \/ MergeFFOnlyFails
  \/ SaveIntent \/ SaveIntentFails
  \/ Publish \/ PublishLosesRace
  \/ ReadBranch \/ CheckClean \/ ResetHard \/ SaveMerge
  \/ RemoveMergeWorktree \/ RemoveExecWorktree \/ RemoveBranch
  \/ SaveCleanup

Operator == RetryMerge \/ RetryIntegration \/ Reset

Developer ==
  \/ \E c \in Commit : UserMovesTarget(c) \/ UserSwitchesBranch(c)
  \/ UserEdits \/ UserUndoesEdits \/ UserStashes

Next ==
  \/ \E c \in Commit : Execute(c)
  \/ Begin \/ MergeStep \/ Crash
  \/ Operator \/ Developer

Spec == Init /\ [][Next]_vars

\* The process is scheduled: a merge in progress takes its next step.
FairSpec == Spec /\ WF_vars(MergeStep)

\* ... and an operator keeps running springfield start.
RestartSpec == FairSpec /\ WF_vars(Begin) /\ WF_vars(\E c \in Commit : Execute(c))

----------------------------------------------------------------------------
(* Properties.                                                             *)

TypeOK ==
  /\ target \in Commit
  /\ src \in [on : BOOLEAN, tree : {Tree[c] : c \in Commit}, edits : BOOLEAN]
  /\ git \in [merge : Commit \cup {None}, exec : BOOLEAN, branch : Commit \cup {None}]
  /\ disk \in PlanState /\ mem \in PlanState
  /\ pc \in Steps
  /\ seen \in Commit \cup {None}
  /\ faults \in 0..MaxFaults
  /\ work \in Commit \cup {None} /\ heads \subseteq Commit
  /\ landed \in Commit \cup {None} /\ discarded \in BOOLEAN /\ late \subseteq {"edit", "switch"}

\* The target has contained commit c since the last execution.
Merged(c) == \E h \in heads : c \in Reach[h]

\* The plan branch, the only other name of the plan's commits, is deleted only
\* after the target has contained them, whatever crashes, fails or moves in
\* between; the one exception is an operator who discards the attempt.
WorkNotLost ==
  disk.status = "completed" /\ git.branch = None => Merged(work) \/ discarded

\* A record of success is true: the recorded post-merge head was the target's
\* head, and it contains what the plan committed (Promote trusts a record
\* written before the publish).
SuccessIsTrue ==
  disk.merge = "succeeded" => disk.post \in heads /\ work \in Reach[disk.post]

\* What update-ref published stays in the record through every later refusal,
\* failure, crash and re-entry (the intent saved before the publish, the
\* carry-forward in refused and failedMerge).  A plan that changed nothing
\* publishes base_head itself and is left out.
PublishIsRecorded ==
  landed \notin {None, disk.base} /\ disk.status = "completed" /\ disk.merge # "none"
    => disk.post = landed

\* A plan the queue may move past after a recorded merge has left nothing
\* behind: no merge worktree, execution worktree or branch, even when the
\* cleanup took several runs.
IntegratedIsClean ==
  pc = "idle" /\ IsIntegrated(disk) /\ disk.merge # "none" =>
    git.merge = None /\ ~git.exec /\ git.branch = None

\* Nothing is deleted before the success is durable (H2 in
\* finishSuccessfulMerge): an execution worktree or branch goes only when the
\* record on disk already says succeeded, or the operator resets the plan.
DeleteAfterRecord ==
  [][(git.exec /\ ~git'.exec) \/ (git.branch # None /\ git'.branch = None)
       => disk.merge = "succeeded" \/ (discarded' /\ ~discarded)]_vars

\* The target never loses a commit to the publish: whatever the user pushes
\* between the drift check and update-ref, the new head contains the old one.
PublishFastForwards == [][pc = "publish" => target \in Reach[target']]_vars

\* What a merge overwrites in the source checkout came there behind its back: edits begun
\* after the dirty check of the resync, files of a branch switched to after it had read the
\* branch.  Edits that were there to be seen, on whatever branch and through whatever
\* retries, stay.
EditsSurvive ==
  [][pc # pc' /\ src' # src =>
       (src.edits => "edit" \in late) /\ (~src.on => "switch" \in late)]_vars

\* A re-entered cleanup converges: whatever it finds already removed, an
\* earlier cleanup recorded as removed (retryArtifactRemove carries it over).
CleanupConverges ==
  /\ pc = "rm_merge" /\ git.merge = None => mem.ledger["merge"] = "succeeded"
  /\ pc = "rm_exec" /\ ~git.exec => mem.ledger["exec"] = "succeeded"
  /\ pc = "rm_branch" /\ git.branch = None => mem.ledger["branch"] = "succeeded"

\* A publish is not forgotten: if the process died or could not save after
\* update-ref, a later start records the merge as succeeded, unless someone
\* moved the target or discarded the plan.
PublishIsCompleted ==
  landed # None ~> disk.merge = "succeeded" \/ target # landed \/ discarded

\* The merge phase keeps the promise of PlanCustody: its steps put the plan's
\* commits on the branch, into the target, and drop the branch only then.
Custody == INSTANCE PlanCustody WITH
             onBranch <- git.branch # None, inTarget <- Merged(work)
KeepsCustody == Custody!Spec

----------------------------------------------------------------------------
(* What comments of the code promise and its behaviour does not keep.      *)

\* conductor/recover.go: after retry-merge "the next springfield start
\* re-enters the full merge integration phase", so a plan only counts as
\* integrated once its commits reached the target.
IntegratedMeansMerged == IsIntegrated(disk) => Merged(work)

\* conductor/types.go, IsIntegrated: the "cleanup ledger MUST be durably recorded", and a
\* cleanup whose save failed "leaves Cleanup nil on disk", so that no start advances past
\* the plan: an integrated plan has a ledger of what its cleanup removed.
IntegratedHasLedger ==
  pc = "idle" /\ IsIntegrated(disk) /\ disk.merge # "none" =>
    \A a \in Artifacts : disk.ledger[a] = "succeeded"

\* integrate.go: "Commit or stash, then run springfield start to retry source
\* resync": with the edits stashed and the checkout clean at the published
\* head, the resync does not fail again.
StashedCheckoutSyncs ==
  [][pc = "check" /\ src.on /\ ~src.edits /\ target = mem.post /\ src.tree = Tree[target]
       => mem'.sync # "failed"]_vars

\* integrate.go, of the dirty check: "the data-loss invariant this gate protects": no step
\* of the merge overwrites an uncommitted edit.
NoEditIsOverwritten == [][pc # pc' /\ src.edits => src'.edits]_vars

\* integrate.go: the checkout is brought up to the merged head "when the target branch is
\* the source's current HEAD", so it is still when `reset --hard` comes.
ResetsTheTarget == pc = "reset" => src.on

\* git.go, ResetHard: what the user did "cannot be silently discarded by the
\* resync": where the plan changed anything, no step of the merge takes
\* commits off the target branch.
ResyncKeepsCommits ==
  [][pc # pc' /\ work # mem.base => target \in Reach[target']]_vars

\* execution/recover.go: after a reset the plan "can be re-created from base
\* without colliding with stale git state".
NoStaleMergeWorktree == pc = "clear" => mem.wt \/ MergePathFree

\* execution/recover.go: "a --reset on a live run is rejected before
\* cleanupPlanArtifacts could delete that run's worktree and branch".
LiveRunKeepsArtifacts ==
  pc \in {"clear", "add", "ff", "intent", "publish"} => git.exec /\ git.branch # None

=============================================================================

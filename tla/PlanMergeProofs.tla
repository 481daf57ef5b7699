--------------------------- MODULE PlanMergeProofs ---------------------------
(***************************************************************************)
(* Proofs about PlanMerge for every set of commits, every history graph,   *)
(* any number of faults and every choice of what operator and user may do  *)
(* (recover during a merge included).                                      *)
(***************************************************************************)
EXTENDS PlanMerge, TLAPS

----------------------------------------------------------------------------
(* The inductive invariant.                                                *)

\* A record is truthful: the head it names contains the plan's commits, and
\* if it claims success that head was the target's.
Truthful(p) ==
  /\ p.post # None => work \in Reach[p.post]
  /\ p.merge = "succeeded" => p.post \in heads

Resyncing == {"resync", "check", "reset"}
AfterPublish == Resyncing \cup {"save", "rm_merge", "rm_exec", "rm_branch", "save_cleanup"}
Removing == {"rm_merge", "rm_exec", "rm_branch"}

\* What the merge knows at each step: where the head it is about to publish
\* stands between the target it read and the plan's commits.
AtStep ==
  /\ pc = "idle" => mem = Fresh
  /\ pc # "idle" => mem.status = "completed"
  /\ pc \in {"clear", "add"} => seen # None /\ seen \in Reach[target]
  /\ pc \in {"ff", "intent"} =>
       seen # None /\ git.merge # None /\ seen \in Reach[git.merge]
  /\ pc = "intent" => work \in Reach[git.merge]
  /\ pc = "publish" => seen # None /\ mem.post # None /\ seen \in Reach[mem.post]
  /\ pc \in AfterPublish => mem.merge = "succeeded"
  /\ pc \in Removing =>
       disk.merge = "succeeded" \/ (~git.exec /\ git.branch = None)

BranchIsSafe ==
  /\ git.branch \in {None, work}
  /\ git.branch = None /\ work # None => Merged(work) \/ discarded
  /\ disk.status = "completed" \/ pc # "idle" => work # None
  /\ disk.status = "pending" => git.branch = None
  /\ discarded => ~git.exec /\ git.branch = None

IInv ==
  /\ TypeOK
  /\ target \in heads
  /\ Truthful(disk) /\ Truthful(mem)
  /\ AtStep
  /\ BranchIsSafe

----------------------------------------------------------------------------
(* The records the merge writes are well formed.                           *)

LEMMA FreshType == Fresh \in PlanState
BY DEF Fresh, PlanState, MergeStatus, SyncStatus, CleanStatus, NoLedger, Artifacts

LEMMA FinalizedType ==
  ASSUME NEW p \in PlanState, NEW status \in MergeStatus, NEW created \in BOOLEAN
  PROVE  /\ Finalized(p, status, created) \in PlanState
         /\ Finalized(p, status, created).status = p.status
         /\ Finalized(p, status, created).post = p.post
         /\ Finalized(p, status, created).merge = status
         /\ Finalized(p, status, created).base = p.base
         /\ Finalized(p, status, created).cleanup = "skipped"
         /\ \A a \in Artifacts : Finalized(p, status, created).ledger[a] # "succeeded"
<1>1. PriorMergeWorktree(p) \in BOOLEAN
  BY DEF PriorMergeWorktree, PlanState
<1>2. [a \in Artifacts |-> IF a = "merge" /\ ~(created \/ PriorMergeWorktree(p))
                           THEN "skipped" ELSE "preserved"]
        \in [Artifacts -> CleanStatus]
  BY DEF CleanStatus
<1> QED
  BY <1>1, <1>2 DEF Finalized, PlanState, CleanStatus

LEMMA LedgerType ==
  ASSUME NEW p \in PlanState, NEW a \in Artifacts, NEW s \in CleanStatus
  PROVE  /\ [p EXCEPT !.ledger[a] = s] \in PlanState
         /\ [p EXCEPT !.ledger[a] = s].status = p.status
         /\ [p EXCEPT !.ledger[a] = s].post = p.post
         /\ [p EXCEPT !.ledger[a] = s].merge = p.merge
         /\ [p EXCEPT !.ledger[a] = s].base = p.base
         /\ [p EXCEPT !.ledger[a] = s].cleanup = p.cleanup
         /\ [p EXCEPT !.ledger[a] = s].ledger = [p.ledger EXCEPT ![a] = s]
BY DEF PlanState

LEMMA AggregateType ==
  ASSUME NEW p \in PlanState
  PROVE  /\ Aggregate(p) \in PlanState
         /\ Aggregate(p).status = p.status
         /\ Aggregate(p).post = p.post
         /\ Aggregate(p).merge = p.merge
         /\ Aggregate(p).base = p.base
         /\ Aggregate(p).ledger = p.ledger
         /\ Aggregate(p).cleanup = "succeeded" => \A a \in Artifacts : p.ledger[a] # "failed"
BY DEF Aggregate, PlanState, CleanStatus

LEMMA IntentType ==
  ASSUME mem \in PlanState, git.merge \in Commit \cup {None}
  PROVE  /\ Intent \in PlanState
         /\ Intent.status = mem.status
         /\ Intent.post = git.merge
         /\ Intent.merge = "pending"
         /\ Intent.base = mem.base /\ Intent.cleanup = mem.cleanup /\ Intent.ledger = mem.ledger
BY DEF Intent, PlanState, MergeStatus, SyncStatus

LEMMA SucceededType ==
  ASSUME NEW p \in PlanState
  PROVE  /\ [p EXCEPT !.merge = "succeeded"] \in PlanState
         /\ [p EXCEPT !.merge = "succeeded"].status = p.status
         /\ [p EXCEPT !.merge = "succeeded"].post = p.post
         /\ [p EXCEPT !.merge = "succeeded"].merge = "succeeded"
         /\ [p EXCEPT !.merge = "succeeded"].base = p.base
         /\ [p EXCEPT !.merge = "succeeded"].cleanup = p.cleanup
         /\ [p EXCEPT !.merge = "succeeded"].ledger = p.ledger
BY DEF PlanState, MergeStatus

LEMMA SyncType ==
  ASSUME NEW p \in PlanState, NEW s \in SyncStatus
  PROVE  /\ [p EXCEPT !.sync = s] \in PlanState
         /\ [p EXCEPT !.sync = s].status = p.status
         /\ [p EXCEPT !.sync = s].post = p.post
         /\ [p EXCEPT !.sync = s].merge = p.merge
         /\ [p EXCEPT !.sync = s].base = p.base
         /\ [p EXCEPT !.sync = s].cleanup = p.cleanup
         /\ [p EXCEPT !.sync = s].ledger = p.ledger
BY DEF PlanState

----------------------------------------------------------------------------
(* Every way a merge ends before it succeeded, and a crash, has one shape. *)

GivesUp ==
  /\ pc' = "idle" /\ mem' = Fresh /\ seen' = None /\ faults' \in 0..MaxFaults
  /\ UNCHANGED <<target, src, git>> /\ UNCHANGED history

LEMMA GiveUpKeepsInvariant ==
  ASSUME IInv, pc # "idle", GivesUp,
         disk' = disk \/ (disk' \in PlanState /\ disk'.status = "completed"
                          /\ Truthful(disk'))
  PROVE  IInv'
<1>1. TypeOK'
  BY FreshType DEF IInv, TypeOK, GivesUp, Steps, history
<1>2. target' \in heads'
  BY DEF IInv, GivesUp, history
<1>3. Truthful(disk)' /\ Truthful(mem)'
  BY DEF IInv, GivesUp, Truthful, Fresh, history
<1>4. AtStep'
  BY DEF GivesUp, AtStep, AfterPublish, Resyncing, Removing, history
<1>5. BranchIsSafe'
  BY DEF IInv, GivesUp, BranchIsSafe, Merged, history
<1> QED  BY <1>1, <1>2, <1>3, <1>4, <1>5 DEF IInv

\* The record finalize writes.
LEMMA FinalizedIsTruthful ==
  ASSUME IInv, pc # "idle", NEW status \in MergeStatus \ {"succeeded"},
         NEW created \in BOOLEAN
  PROVE  /\ Finalized(mem, status, created) \in PlanState
         /\ Finalized(mem, status, created).status = "completed"
         /\ Truthful(Finalized(mem, status, created))
<1>1. mem \in PlanState /\ Truthful(mem) /\ mem.status = "completed"
  BY DEF IInv, TypeOK, AtStep
<1> QED  BY <1>1, FinalizedType DEF Truthful

LEMMA FinalizeKeepsInvariant ==
  ASSUME IInv, pc # "idle", NEW status \in MergeStatus \ {"succeeded"},
         NEW created \in BOOLEAN,
         Finalize(mem, status, created) \/ GitFails(status, created),
         UNCHANGED <<target, src, git>>, UNCHANGED history
  PROVE  IInv'
<1>1. faults' \in 0..MaxFaults
  BY BoundAssumption DEF IInv, TypeOK, Finalize, GitFails, Fault, NoFault
<1>2. GivesUp
  BY <1>1 DEF GivesUp, Finalize, GitFails, Return, history
<1>3. disk' = disk \/ disk' = Finalized(mem, status, created)
  BY DEF Finalize, GitFails
<1>4. ASSUME disk' = Finalized(mem, status, created)
      PROVE  disk' \in PlanState /\ disk'.status = "completed" /\ Truthful(disk')
  BY <1>4, FinalizedIsTruthful DEF Truthful
<1> QED  BY <1>2, <1>3, <1>4, GiveUpKeepsInvariant

----------------------------------------------------------------------------
(* Each action keeps the invariant.                                        *)

LEMMA InitEstablishes == Init => IInv
<1> SUFFICES ASSUME Init PROVE IInv
  OBVIOUS
<1> USE CommitAssumption, BoundAssumption
<1>1. TypeOK
  <2>1. src \in [on : BOOLEAN, tree : {Tree[c] : c \in Commit}, edits : BOOLEAN]
    BY DEF Init
  <2>2. git \in [merge : Commit \cup {None}, exec : BOOLEAN, branch : Commit \cup {None}]
    BY DEF Init
  <2>3. faults \in 0..MaxFaults
    BY DEF Init
  <2> QED  BY <2>1, <2>2, <2>3, FreshType DEF Init, TypeOK, Steps
<1>2. Truthful(disk) /\ Truthful(mem)
  BY DEF Init, Truthful, Fresh
<1>3. AtStep
  BY DEF Init, AtStep, AfterPublish, Resyncing, Removing
<1>4. BranchIsSafe
  BY DEF Init, BranchIsSafe, Fresh
<1> QED  BY <1>1, <1>2, <1>3, <1>4 DEF IInv, Init

LEMMA ExecuteKeeps ==
  ASSUME IInv, NEW c \in Commit, Execute(c)
  PROVE  IInv'
<1> USE CommitAssumption
<1>1. /\ disk' \in PlanState /\ disk'.status = "completed"
      /\ disk'.post = None /\ disk'.merge = "pending"
  BY FreshType DEF IInv, TypeOK, Execute, PlanState, Fresh, MergeStatus
<1>2. git' \in [merge : Commit \cup {None}, exec : BOOLEAN, branch : Commit \cup {None}]
      /\ git'.branch = c
  BY DEF IInv, TypeOK, Execute
<1>3. TypeOK'
  BY <1>1, <1>2 DEF IInv, TypeOK, Execute
<1>4. (target \in heads)'
  BY DEF Execute
<1>5. Truthful(disk)' /\ Truthful(mem)'
  BY <1>1 DEF IInv, AtStep, Execute, Truthful, Fresh
<1>6. AtStep'
  BY DEF IInv, AtStep, Execute, AfterPublish, Resyncing, Removing
<1>7. BranchIsSafe'
  BY <1>1, <1>2 DEF Execute, BranchIsSafe
<1> QED  BY <1>3, <1>4, <1>5, <1>6, <1>7 DEF IInv

LEMMA BeginKeeps == ASSUME IInv, Begin PROVE IInv'
<1>1. TypeOK'
  BY DEF IInv, TypeOK, Begin, Goto, Steps, history
<1>2. (target \in heads)' /\ Truthful(disk)' /\ Truthful(mem)'
  BY DEF IInv, Begin, Truthful, history
<1>3. AtStep'
  BY DEF IInv, Begin, Goto, AtStep, AfterPublish, Resyncing, Removing
<1>4. BranchIsSafe'
  BY DEF IInv, Begin, Goto, BranchIsSafe, Merged, history
<1> QED  BY <1>1, <1>2, <1>3, <1>4 DEF IInv

LEMMA GivingUpKeeps ==
  ASSUME IInv,
         Refuse \/ AddMergeWorktreeFails \/ MergeFFOnlyFails \/ PublishLosesRace
  PROVE  IInv'
<1>1. CASE Refuse
  BY <1>1, FinalizeKeepsInvariant DEF Refuse, MergeStatus
<1>2. CASE AddMergeWorktreeFails
  BY <1>2, FinalizeKeepsInvariant DEF AddMergeWorktreeFails, MergeStatus
<1>3. CASE MergeFFOnlyFails
  BY <1>3, FinalizeKeepsInvariant DEF MergeFFOnlyFails, MergeStatus
<1>4. CASE PublishLosesRace
  BY <1>4, FinalizeKeepsInvariant DEF PublishLosesRace, MergeStatus
<1> QED  BY <1>1, <1>2, <1>3, <1>4

LEMMA CrashKeeps == ASSUME IInv, Crash PROVE IInv'
<1>1. faults' \in 0..MaxFaults
  BY BoundAssumption DEF IInv, TypeOK, Crash, Fault
<1>2. GivesUp
  BY <1>1 DEF GivesUp, Crash, Return, history
<1> QED  BY <1>2, GiveUpKeepsInvariant DEF Crash

LEMMA PromoteKeeps == ASSUME IInv, Promote PROVE IInv'
<1> DEFINE m == [mem EXCEPT !.merge = "succeeded"]
<1>1. m \in PlanState /\ m.status = mem.status /\ m.post = mem.post /\ m.merge = "succeeded"
  BY SucceededType DEF IInv, TypeOK
<1>2. mem' = m
  BY DEF Promote
<1> HIDE DEF m
<1>3. TypeOK'
  BY <1>1, <1>2 DEF IInv, TypeOK, Promote, Goto, Steps, history
<1>4. (target \in heads)' /\ Truthful(disk)' /\ Truthful(mem)'
  BY <1>1, <1>2 DEF IInv, Promote, LandedBefore, Truthful, history
<1>5. AtStep'
  BY <1>1, <1>2 DEF IInv, Promote, Goto, AtStep, AfterPublish, Resyncing, Removing
<1>6. BranchIsSafe'
  BY DEF IInv, Promote, Goto, BranchIsSafe, Merged, history
<1> QED  BY <1>3, <1>4, <1>5, <1>6 DEF IInv

LEMMA ReadTargetKeeps == ASSUME IInv, ReadTarget PROVE IInv'
<1>1. TypeOK'
  BY DEF IInv, TypeOK, ReadTarget, Goto, Steps, history
<1>2. (target \in heads)' /\ Truthful(disk)' /\ Truthful(mem)'
  BY DEF IInv, ReadTarget, Truthful, history
<1>3. AtStep'
  BY CommitAssumption DEF IInv, TypeOK, ReadTarget, Goto, AtStep, AfterPublish, Resyncing, Removing, history
<1>4. BranchIsSafe'
  BY DEF IInv, ReadTarget, Goto, BranchIsSafe, Merged, history
<1> QED  BY <1>1, <1>2, <1>3, <1>4 DEF IInv

LEMMA AddMergeWorktreeKeeps == ASSUME IInv, AddMergeWorktree PROVE IInv'
<1>1. git' \in [merge : Commit \cup {None}, exec : BOOLEAN, branch : Commit \cup {None}]
      /\ git'.branch = git.branch /\ git'.exec = git.exec /\ git'.merge = target
  BY DEF IInv, TypeOK, AddMergeWorktree
<1>2. TypeOK'
  BY <1>1 DEF IInv, TypeOK, AddMergeWorktree, Goto, Steps, history
<1>3. (target \in heads)' /\ Truthful(disk)' /\ Truthful(mem)'
  BY DEF IInv, AddMergeWorktree, Truthful, history
<1>4. AtStep'
  BY <1>1, CommitAssumption
  DEF IInv, TypeOK, AddMergeWorktree, Goto, AtStep, AfterPublish, Resyncing, Removing, history
<1>5. BranchIsSafe'
  BY <1>1 DEF IInv, AddMergeWorktree, Goto, BranchIsSafe, Merged, history
<1> QED  BY <1>2, <1>3, <1>4, <1>5 DEF IInv

\* After the fast-forward the merge worktree's head contains both the target
\* as Integrate read it and the plan's commits.
LEMMA MergeFFOnlyKeeps == ASSUME IInv, MergeFFOnly PROVE IInv'
<1>1. git' \in [merge : Commit \cup {None}, exec : BOOLEAN, branch : Commit \cup {None}]
      /\ git'.branch = git.branch /\ git'.exec = git.exec
      /\ git'.merge = IF FastForwards THEN git.branch ELSE git.merge
  BY DEF IInv, TypeOK, MergeFFOnly, FastForwards
<1>2. git.branch = work /\ work # None /\ work \in Commit
  BY DEF IInv, TypeOK, BranchIsSafe, MergeFFOnly, FastForwards, UpToDate
<1>3. /\ git.merge \in Commit /\ seen \in Commit /\ seen \in Reach[git.merge]
  BY DEF IInv, TypeOK, AtStep, MergeFFOnly
<1>4. git'.merge # None /\ seen \in Reach[git'.merge] /\ work \in Reach[git'.merge]
  <2>1. CASE FastForwards
    <3>1. git'.merge = work /\ git.merge \in Reach[work]
      BY <1>1, <1>2, <2>1 DEF FastForwards
    <3>2. Reach[git.merge] \subseteq Reach[work]
      BY <1>2, <3>1, CommitAssumption
    <3> QED  BY <1>2, <1>3, <3>1, <3>2, CommitAssumption
  <2>2. CASE ~FastForwards
    BY <1>1, <1>2, <1>3, <2>2, CommitAssumption DEF MergeFFOnly, UpToDate
  <2> QED  BY <2>1, <2>2
<1>5. TypeOK'
  BY <1>1 DEF IInv, TypeOK, MergeFFOnly, Goto, Steps, history
<1>6. (target \in heads)' /\ Truthful(disk)' /\ Truthful(mem)'
  BY DEF IInv, MergeFFOnly, Truthful, history
<1>7. AtStep'
  BY <1>3, <1>4, CommitAssumption
  DEF IInv, MergeFFOnly, Goto, AtStep, AfterPublish, Resyncing, Removing, history
<1>8. BranchIsSafe'
  BY <1>1 DEF IInv, MergeFFOnly, Goto, BranchIsSafe, Merged, history
<1> QED  BY <1>5, <1>6, <1>7, <1>8 DEF IInv

LEMMA IntentIsTruthful ==
  ASSUME IInv, pc = "intent"
  PROVE  /\ Intent \in PlanState /\ Intent.status = "completed"
         /\ Intent.post = git.merge /\ Intent.merge = "pending"
         /\ git.merge # None /\ seen # None /\ seen \in Reach[git.merge]
         /\ Truthful(Intent)
<1>1. /\ mem \in PlanState /\ mem.status = "completed"
      /\ git.merge \in Commit \cup {None} /\ git.merge # None
      /\ seen # None /\ seen \in Reach[git.merge] /\ work \in Reach[git.merge]
  BY DEF IInv, TypeOK, AtStep
<1> QED  BY <1>1, IntentType DEF Truthful

LEMMA SaveIntentKeeps == ASSUME IInv, SaveIntent PROVE IInv'
<1>1. /\ Intent \in PlanState /\ Intent.status = "completed"
      /\ Intent.post = git.merge /\ Intent.merge = "pending"
      /\ git.merge # None /\ seen # None /\ seen \in Reach[git.merge]
      /\ Truthful(Intent)
  BY IntentIsTruthful DEF SaveIntent
<1>2. mem' = Intent /\ disk' = Intent
  BY DEF SaveIntent
<1>3. TypeOK'
  BY <1>1, <1>2 DEF IInv, TypeOK, SaveIntent, Goto, Steps, history
<1>4. (target \in heads)' /\ Truthful(disk)' /\ Truthful(mem)'
  BY <1>1, <1>2 DEF IInv, SaveIntent, Truthful, history
<1>5. AtStep'
  BY <1>1, <1>2 DEF SaveIntent, Goto, AtStep, AfterPublish, Resyncing, Removing
<1>6. BranchIsSafe'
  BY <1>1, <1>2 DEF IInv, SaveIntent, Goto, BranchIsSafe, Merged, history
<1> QED  BY <1>3, <1>4, <1>5, <1>6 DEF IInv

LEMMA SaveIntentFailsKeeps == ASSUME IInv, SaveIntentFails PROVE IInv'
<1>1. /\ Intent \in PlanState /\ Intent.status = "completed" /\ Truthful(Intent)
  BY IntentIsTruthful DEF SaveIntentFails
<1>2. faults' \in 0..MaxFaults
  BY BoundAssumption DEF IInv, TypeOK, SaveIntentFails, Fault
<1>3. GivesUp
  BY <1>2 DEF GivesUp, SaveIntentFails, Return, history
<1>4. ASSUME disk' = Finalized(Intent, "failed", TRUE)
      PROVE  disk' \in PlanState /\ disk'.status = "completed" /\ Truthful(disk')
  BY <1>1, <1>4, FinalizedType DEF Truthful, MergeStatus
<1> QED  BY <1>3, <1>4, GiveUpKeepsInvariant DEF SaveIntentFails

LEMMA PublishKeeps == ASSUME IInv, Publish PROVE IInv'
<1> DEFINE m == [mem EXCEPT !.merge = "succeeded"]
<1>1. m \in PlanState /\ m.status = mem.status /\ m.post = mem.post /\ m.merge = "succeeded"
  BY SucceededType DEF IInv, TypeOK
<1>2. mem' = m
  BY DEF Publish
<1> HIDE DEF m
<1>3. mem.post \in Commit
  BY DEF IInv, TypeOK, AtStep, Publish, PlanState
<1>4. TypeOK'
  BY <1>1, <1>2, <1>3 DEF IInv, TypeOK, Publish, Goto, Steps
<1>5. (target \in heads)' /\ Truthful(disk)' /\ Truthful(mem)'
  BY <1>1, <1>2 DEF IInv, Publish, Truthful
<1>6. AtStep'
  BY <1>1, <1>2 DEF IInv, Publish, Goto, AtStep, AfterPublish, Resyncing, Removing
<1>7. BranchIsSafe'
  BY DEF IInv, Publish, Goto, BranchIsSafe, Merged
<1> QED  BY <1>4, <1>5, <1>6, <1>7 DEF IInv

\* The merge worktree of an earlier attempt goes, or stays.
LEMMA ClearMergeWorktreeKeeps == ASSUME IInv, ClearMergeWorktree PROVE IInv'
<1>1. git' \in [merge : Commit \cup {None}, exec : BOOLEAN, branch : Commit \cup {None}]
      /\ git'.branch = git.branch /\ git'.exec = git.exec
  BY DEF IInv, TypeOK, ClearMergeWorktree
<1>2. faults' \in 0..MaxFaults
  BY BoundAssumption DEF IInv, TypeOK, ClearMergeWorktree, Fault, NoFault
<1>3. TypeOK'
  BY <1>1, <1>2 DEF IInv, TypeOK, ClearMergeWorktree, Goto, Steps, history
<1>4. (target \in heads)' /\ Truthful(disk)' /\ Truthful(mem)'
  BY DEF IInv, ClearMergeWorktree, Truthful, history
<1>5. AtStep'
  BY <1>1 DEF IInv, ClearMergeWorktree, Goto, AtStep, AfterPublish, Resyncing, Removing, history
<1>6. BranchIsSafe'
  BY <1>1 DEF IInv, ClearMergeWorktree, Goto, BranchIsSafe, Merged, history
<1> QED  BY <1>3, <1>4, <1>5, <1>6 DEF IInv

\* What the three commands of the resync have in common: they note an outcome, and may
\* set checkout and target to the head that was published.
Resync ==
  /\ pc \in Resyncing /\ pc' \in Resyncing \cup {"save"}
  /\ pc' = "save" \/ pc' # pc
  /\ mem' = mem \/ \E s \in SyncStatus : mem' = [mem EXCEPT !.sync = s]
  /\ target' \in {target, mem.post} /\ heads' \in {heads, heads \cup {target'}}
  /\ target' # target => target' \in heads'
  /\ src' = src \/ src' = [src EXCEPT !.tree = Tree[mem.post], !.edits = FALSE]
  /\ NoFault \/ Fault
  /\ late' \subseteq late
  /\ UNCHANGED <<git, disk, seen, work, landed, discarded>>

LEMMA ResyncStep ==
  ASSUME ReadBranch \/ CheckClean \/ ResetHard
  PROVE  Resync
<1>1. CASE ReadBranch
  BY <1>1 DEF ReadBranch, Synced, Goto, Resync, Resyncing, SyncStatus, NoFault
<1>2. CASE CheckClean
  BY <1>2 DEF CheckClean, Synced, Goto, Resync, Resyncing, SyncStatus, NoFault
<1>3. CASE ResetHard
  BY <1>3 DEF ResetHard, Synced, Goto, Resync, Resyncing, SyncStatus, NoFault
<1> QED  BY <1>1, <1>2, <1>3

LEMMA SyncedType ==
  ASSUME IInv, Resync
  PROVE  /\ mem' \in PlanState /\ mem'.status = mem.status /\ mem'.base = mem.base
         /\ mem'.post = mem.post /\ mem'.merge = mem.merge /\ mem'.wt = mem.wt
         /\ mem'.cleanup = mem.cleanup /\ mem'.ledger = mem.ledger
<1>1. mem \in PlanState
  BY DEF IInv, TypeOK
<1>2. ASSUME NEW s \in SyncStatus, mem' = [mem EXCEPT !.sync = s]
      PROVE  mem' \in PlanState /\ mem'.wt = mem.wt
  BY <1>1, <1>2 DEF PlanState
<1>3. CASE mem' = mem
  BY <1>1, <1>3
<1>4. CASE \E s \in SyncStatus : mem' = [mem EXCEPT !.sync = s]
  <2>1. PICK s \in SyncStatus : mem' = [mem EXCEPT !.sync = s]
    BY <1>4
  <2> QED  BY <1>1, <1>2, <2>1, SyncType
<1> QED  BY <1>3, <1>4 DEF Resync

LEMMA ResyncKeeps == ASSUME IInv, Resync PROVE IInv'
<1>1. /\ mem' \in PlanState /\ mem'.status = mem.status
      /\ mem'.post = mem.post /\ mem'.merge = mem.merge
  BY SyncedType
<1>2. mem.merge = "succeeded" /\ mem.post \in heads /\ mem.post \in Commit
  BY DEF IInv, TypeOK, AtStep, AfterPublish, Truthful, Resync
<1>3. faults' \in 0..MaxFaults
  BY BoundAssumption DEF IInv, TypeOK, Resync, Fault, NoFault
<1>4. src' \in [on : BOOLEAN, tree : {Tree[c] : c \in Commit}, edits : BOOLEAN]
  BY <1>2 DEF IInv, TypeOK, Resync
<1>5. target' \in Commit /\ target' \in heads' /\ heads' = heads
  <2>1. target' \in Commit /\ target' \in heads
    BY <1>2 DEF IInv, TypeOK, Resync
  <2>2. heads \cup {target'} = heads
    BY <2>1
  <2> QED  BY <2>1, <2>2 DEF Resync
<1>6. TypeOK'
  BY <1>1, <1>3, <1>4, <1>5 DEF IInv, TypeOK, Resync, Resyncing, Steps
<1>7. (target \in heads)' /\ Truthful(disk)' /\ Truthful(mem)'
  BY <1>1, <1>5 DEF IInv, Resync, Truthful
<1>8. AtStep'
  BY <1>1, <1>2 DEF IInv, Resync, AtStep, AfterPublish, Resyncing, Removing
<1>9. BranchIsSafe'
  BY <1>5 DEF IInv, Resync, Resyncing, BranchIsSafe, Merged
<1> QED  BY <1>6, <1>7, <1>8, <1>9 DEF IInv

\* The success is on disk before the first removal.
LEMMA SaveMergeKeeps == ASSUME IInv, SaveMerge PROVE IInv'
<1>1. CASE disk' = mem /\ mem' = mem /\ Goto("rm_merge") /\ NoFault /\ UNCHANGED seen
  <2>1. mem.merge = "succeeded" /\ mem.status = "completed"
    BY DEF IInv, AtStep, AfterPublish, Resyncing, SaveMerge
  <2>2. TypeOK'
    BY <1>1 DEF IInv, TypeOK, SaveMerge, Goto, NoFault, Steps, history
  <2>3. (target \in heads)' /\ Truthful(disk)' /\ Truthful(mem)'
    BY <1>1 DEF IInv, SaveMerge, Truthful, history
  <2>4. AtStep'
    BY <1>1, <2>1 DEF IInv, SaveMerge, Goto, AtStep, AfterPublish, Resyncing, Removing
  <2>5. BranchIsSafe'
    BY <1>1, <2>1 DEF IInv, SaveMerge, Goto, BranchIsSafe, Merged, history
  <2> QED  BY <2>2, <2>3, <2>4, <2>5 DEF IInv
<1>2. CASE disk' = disk /\ Return /\ Fault
  <2>1. faults' \in 0..MaxFaults
    BY <1>2, BoundAssumption DEF IInv, TypeOK, Fault
  <2>2. GivesUp
    BY <1>2, <2>1 DEF GivesUp, SaveMerge, Return, history
  <2> QED  BY <1>2, <2>2, GiveUpKeepsInvariant DEF SaveMerge
<1> QED  BY <1>1, <1>2 DEF SaveMerge

\* A removal takes at most one artifact away and notes what it did.  The head
\* the record names is in heads and contains the work, so the branch may go.
LEMMA RemoveKeeps ==
  ASSUME IInv, NEW a \in Artifacts, NEW step \in Removing, NEW next \in AfterPublish,
         Remove(a, step, next)
  PROVE  IInv'
<1>1. mem' = mem \/ \E s \in CleanStatus : mem' = [mem EXCEPT !.ledger[a] = s]
  BY DEF Remove, Removal, CleanStatus
<1>2. /\ mem' \in PlanState /\ mem'.status = mem.status
      /\ mem'.post = mem.post /\ mem'.merge = mem.merge
  <2>1. mem \in PlanState
    BY DEF IInv, TypeOK
  <2>2. ASSUME NEW s \in CleanStatus, mem' = [mem EXCEPT !.ledger[a] = s]
        PROVE  /\ mem' \in PlanState /\ mem'.status = mem.status
               /\ mem'.post = mem.post /\ mem'.merge = mem.merge
    BY <2>1, <2>2, LedgerType
  <2> QED  BY <1>1, <2>1, <2>2
<1>3. /\ git' \in [merge : Commit \cup {None}, exec : BOOLEAN, branch : Commit \cup {None}]
      /\ git'.branch \in {git.branch, None}
      /\ ~git.exec => ~git'.exec
  BY DEF IInv, TypeOK, Remove, Removal, Without, Artifacts
<1>4. faults' \in 0..MaxFaults
  BY BoundAssumption DEF IInv, TypeOK, Remove, Removal, Fault, NoFault
<1>5. /\ mem.merge = "succeeded" /\ pc \in Removing
      /\ pc' = next /\ pc' # "idle" /\ pc # "idle"
  BY DEF IInv, AtStep, AfterPublish, Resyncing, Removing, Remove, Goto
<1>6. Merged(work)
  BY <1>5, CommitAssumption DEF IInv, TypeOK, Truthful, Merged
<1>7. TypeOK'
  BY <1>2, <1>3, <1>4, <1>5 DEF IInv, TypeOK, Remove, AfterPublish, Resyncing, Steps, history
<1>8. (target \in heads)' /\ Truthful(disk)' /\ Truthful(mem)'
  BY <1>2 DEF IInv, Remove, Truthful, history
<1>9. AtStep'
  BY <1>2, <1>3, <1>5 DEF IInv, Remove, AtStep, AfterPublish, Resyncing, Removing
<1>10. BranchIsSafe'
  BY <1>3, <1>5, <1>6 DEF IInv, Remove, BranchIsSafe, Merged, history
<1> QED  BY <1>7, <1>8, <1>9, <1>10 DEF IInv

LEMMA SaveCleanupKeeps == ASSUME IInv, SaveCleanup PROVE IInv'
<1>1. mem \in PlanState /\ mem.status = "completed" /\ Truthful(mem)
  BY DEF IInv, TypeOK, AtStep, SaveCleanup
<1>2. faults' \in 0..MaxFaults
  BY BoundAssumption DEF IInv, TypeOK, SaveCleanup, Fault, NoFault
<1>3. GivesUp
  BY <1>2 DEF GivesUp, SaveCleanup, Return, history
<1>4. ASSUME disk' = Aggregate(mem)
      PROVE  disk' \in PlanState /\ disk'.status = "completed" /\ Truthful(disk')
  BY <1>1, <1>4, AggregateType DEF Truthful
<1> QED  BY <1>3, <1>4, GiveUpKeepsInvariant DEF SaveCleanup

LEMMA RetryMergeKeeps == ASSUME IInv, RetryMerge PROVE IInv'
<1>1. /\ disk' \in PlanState /\ disk'.status = disk.status
      /\ disk'.post = None /\ disk'.merge = "none"
  BY DEF IInv, TypeOK, RetryMerge, PlanState, MergeStatus, SyncStatus, CleanStatus,
         NoLedger, Artifacts
<1>2. disk.merge # "succeeded"
  BY DEF RetryMerge
<1>3. TypeOK'
  BY <1>1 DEF IInv, TypeOK, RetryMerge, history
<1>4. (target \in heads)' /\ Truthful(disk)' /\ Truthful(mem)'
  BY <1>1 DEF IInv, RetryMerge, Truthful, history
<1>5. AtStep'
  BY <1>2 DEF IInv, RetryMerge, AtStep, AfterPublish, Resyncing, Removing, history
<1>6. BranchIsSafe'
  BY <1>1 DEF IInv, RetryMerge, BranchIsSafe, Merged, history
<1> QED  BY <1>3, <1>4, <1>5, <1>6 DEF IInv

LEMMA RetryIntegrationKeeps == ASSUME IInv, RetryIntegration PROVE IInv'
<1>1. /\ disk' \in PlanState /\ disk'.status = disk.status
      /\ disk'.post = disk.post /\ disk'.merge = disk.merge
  BY DEF IInv, TypeOK, RetryIntegration, PlanState, SyncStatus, CleanStatus,
         NoLedger, Artifacts
<1>2. TypeOK'
  BY <1>1 DEF IInv, TypeOK, RetryIntegration, history
<1>3. (target \in heads)' /\ Truthful(disk)' /\ Truthful(mem)'
  BY <1>1 DEF IInv, RetryIntegration, Truthful, history
<1>4. AtStep'
  BY <1>1 DEF IInv, RetryIntegration, AtStep, AfterPublish, Resyncing, Removing, history
<1>5. BranchIsSafe'
  BY <1>1 DEF IInv, RetryIntegration, BranchIsSafe, Merged, history
<1> QED  BY <1>2, <1>3, <1>4, <1>5 DEF IInv

LEMMA ResetKeeps == ASSUME IInv, Reset PROVE IInv'
<1>1. /\ git' \in [merge : Commit \cup {None}, exec : BOOLEAN, branch : Commit \cup {None}]
      /\ git'.branch = None /\ ~git'.exec /\ git'.merge = git.merge
  BY DEF IInv, TypeOK, Reset
<1>2. disk' = disk \/ disk' = Fresh
  BY DEF Reset
<1>3. faults' \in 0..MaxFaults
  BY BoundAssumption DEF IInv, TypeOK, Reset, Fault, NoFault
<1>4. TypeOK'
  BY <1>1, <1>2, <1>3, FreshType DEF IInv, TypeOK, Reset
<1>5. (target \in heads)' /\ Truthful(disk)' /\ Truthful(mem)'
  BY <1>2 DEF IInv, Reset, Truthful, Fresh
<1>6. AtStep'
  BY <1>1 DEF IInv, Reset, AtStep, AfterPublish, Resyncing, Removing
<1>7. BranchIsSafe'
  BY <1>1, <1>2 DEF IInv, Reset, BranchIsSafe, Fresh
<1> QED  BY <1>4, <1>5, <1>6, <1>7 DEF IInv

\* While a merge runs the target only moves forward, so what Integrate read of
\* it stays an ancestor of the head the merge worktree starts from.
LEMMA UserMovesTargetKeeps ==
  ASSUME IInv, NEW c \in Commit, UserMovesTarget(c)
  PROVE  IInv'
<1>1. src' \in [on : BOOLEAN, tree : {Tree[d] : d \in Commit}, edits : BOOLEAN]
  BY DEF IInv, TypeOK, UserMovesTarget
<1> USE CommitAssumption
<1>2. landed' \in Commit \cup {None}
  BY DEF IInv, TypeOK, UserMovesTarget
<1>3. TypeOK'
  BY <1>1, <1>2 DEF IInv, TypeOK, UserMovesTarget
<1>4. (target \in heads)' /\ Truthful(disk)' /\ Truthful(mem)'
  BY DEF IInv, UserMovesTarget, Truthful
<1>5. pc # "idle" => Reach[target] \subseteq Reach[c]
  BY DEF IInv, TypeOK, UserMovesTarget
<1>6. AtStep'
  BY <1>5 DEF IInv, UserMovesTarget, AtStep, AfterPublish, Resyncing, Removing
<1>7. BranchIsSafe'
  BY DEF IInv, UserMovesTarget, BranchIsSafe, Merged
<1> QED  BY <1>3, <1>4, <1>6, <1>7 DEF IInv

\* What the user does to the source checkout touches nothing else.
LEMMA SourceKeeps ==
  ASSUME IInv,
         src' \in [on : BOOLEAN, tree : {Tree[c] : c \in Commit}, edits : BOOLEAN],
         late' \subseteq {"edit", "switch"},
         UNCHANGED <<target, git, disk, mem, pc, seen, faults, work, heads, landed, discarded>>
  PROVE  IInv'
<1>1. TypeOK'
  BY DEF IInv, TypeOK
<1>2. (target \in heads)' /\ Truthful(disk)' /\ Truthful(mem)'
  BY DEF IInv, Truthful
<1>3. AtStep' /\ BranchIsSafe'
  BY DEF IInv, AtStep, BranchIsSafe, Merged
<1> QED  BY <1>1, <1>2, <1>3 DEF IInv

LEMMA DeveloperKeeps == ASSUME IInv, Developer PROVE IInv'
<1>1. CASE \E c \in Commit : UserMovesTarget(c)
  BY <1>1, UserMovesTargetKeeps
<1>2. CASE UserEdits \/ UserUndoesEdits
  <2>1. src' \in [on : BOOLEAN, tree : {Tree[c] : c \in Commit}, edits : BOOLEAN]
        /\ late' \subseteq {"edit", "switch"}
    BY <1>2 DEF IInv, TypeOK, UserEdits, UserUndoesEdits, history
  <2> QED  BY <1>2, <2>1, SourceKeeps DEF UserEdits, UserUndoesEdits, history
<1>3. CASE UserStashes
  <2>1. src' \in [on : BOOLEAN, tree : {Tree[c] : c \in Commit}, edits : BOOLEAN]
        /\ late' \subseteq {"edit", "switch"}
    BY <1>3 DEF IInv, TypeOK, UserStashes, history
  <2> QED  BY <1>3, <2>1, SourceKeeps DEF UserStashes, history
<1>4. CASE \E c \in Commit : UserSwitchesBranch(c)
  <2>1. src' \in [on : BOOLEAN, tree : {Tree[c] : c \in Commit}, edits : BOOLEAN]
        /\ late' \subseteq {"edit", "switch"}
    BY <1>4 DEF IInv, TypeOK, UserSwitchesBranch
  <2> QED  BY <1>4, <2>1, SourceKeeps DEF UserSwitchesBranch
<1> QED  BY <1>1, <1>2, <1>3, <1>4 DEF Developer

LEMMA StepKeeps == IInv /\ [Next]_vars => IInv'
<1> SUFFICES ASSUME IInv, [Next]_vars PROVE IInv'
  OBVIOUS
<1>1. CASE \E c \in Commit : Execute(c)
  BY <1>1, ExecuteKeeps
<1>2. CASE Begin
  BY <1>2, BeginKeeps
<1>3. CASE MergeStep
  <2>1. CASE Refuse \/ AddMergeWorktreeFails \/ MergeFFOnlyFails \/ PublishLosesRace
    BY <2>1, GivingUpKeeps
  <2>2. CASE Promote \/ ReadTarget \/ ClearMergeWorktree \/ AddMergeWorktree \/ MergeFFOnly
    BY <2>2, PromoteKeeps, ReadTargetKeeps, ClearMergeWorktreeKeeps, AddMergeWorktreeKeeps, MergeFFOnlyKeeps
  <2>3. CASE SaveIntent \/ SaveIntentFails \/ Publish
    BY <2>3, SaveIntentKeeps, SaveIntentFailsKeeps, PublishKeeps
  <2>4. CASE ReadBranch \/ CheckClean \/ ResetHard \/ SaveMerge \/ SaveCleanup
    BY <2>4, ResyncStep, ResyncKeeps, SaveMergeKeeps, SaveCleanupKeeps
  <2>5. CASE RemoveMergeWorktree
    BY <2>5, RemoveKeeps DEF RemoveMergeWorktree, Artifacts, Removing, AfterPublish, Resyncing
  <2>6. CASE RemoveExecWorktree
    BY <2>6, RemoveKeeps DEF RemoveExecWorktree, Artifacts, Removing, AfterPublish, Resyncing
  <2>7. CASE RemoveBranch
    BY <2>7, RemoveKeeps DEF RemoveBranch, Artifacts, Removing, AfterPublish, Resyncing
  <2> QED  BY <1>3, <2>1, <2>2, <2>3, <2>4, <2>5, <2>6, <2>7 DEF MergeStep
<1>4. CASE Crash
  BY <1>4, CrashKeeps
<1>5. CASE Operator
  BY <1>5, RetryMergeKeeps, RetryIntegrationKeeps, ResetKeeps DEF Operator
<1>6. CASE Developer
  BY <1>6, DeveloperKeeps
<1>7. CASE UNCHANGED vars
  BY <1>7 DEF IInv, TypeOK, Truthful, AtStep, BranchIsSafe, Merged, vars, history
<1> QED  BY <1>1, <1>2, <1>3, <1>4, <1>5, <1>6, <1>7 DEF Next

\* The invariant holds in every reachable state of a merge.
THEOREM Invariance == Spec => []IInv
BY InitEstablishes, StepKeeps, PTL DEF Spec

----------------------------------------------------------------------------
(* What has been published, and what has been removed.                      *)

PrePublish == {"preflight", "clear", "add", "ff", "intent", "publish"}
Begun == {"clear", "add", "ff", "intent", "publish"}

\* A record of a completed plan stands on the commit the run began from: what it was
\* about to publish and what has been published contain it.
Based(p) ==
  p.status = "completed" =>
    /\ p.base \in Commit
    /\ p.post # None => p.base \in Reach[p.post]
    /\ landed # None => p.base \in Reach[landed]

\* A record that says anything of a merge names what has been published.
Recorded(p) ==
  landed \notin {None, p.base} /\ p.status = "completed" /\ p.merge # "none" => p.post = landed

RInv ==
  /\ landed # None => landed \in Reach[target]
  /\ Based(disk) /\ Based(mem)
  /\ Recorded(disk) /\ Recorded(mem)
  /\ pc # "idle" => mem.merge # "none"
  /\ pc \in Begun => seen = mem.base /\ landed \in {None, mem.base}
  /\ pc = "publish" => disk.status = "pending" \/ (disk = mem /\ mem.merge = "pending")

\* What a record says has been removed is gone, a cleanup that succeeded has removed
\* everything, and before a merge has succeeded nothing counts as removed.
Swept(p) ==
  /\ \A a \in Artifacts : p.ledger[a] = "succeeded" => ~Exists(a) /\ p.merge = "succeeded"
  /\ p.cleanup = "succeeded" => \A a \in Artifacts : p.ledger[a] = "succeeded"

Tried == {"succeeded", "failed"}
CInv ==
  /\ Swept(disk) /\ Swept(mem)
  /\ pc \in PrePublish => mem.merge # "succeeded" /\ disk.merge # "succeeded"
  /\ pc \in {"rm_exec", "rm_branch", "save_cleanup"} => mem.ledger["merge"] \in Tried
  /\ pc \in {"rm_branch", "save_cleanup"} => mem.ledger["exec"] \in Tried
  /\ pc = "save_cleanup" => mem.ledger["branch"] \in Tried

\* A merge that ends early leaves a record that is as good as its own, and so does a
\* crash.
LEMMA GiveUpKeepsRecord ==
  ASSUME RInv, pc # "idle", GivesUp,
         disk' = disk \/ (disk'.status = mem.status /\ disk'.base = mem.base /\ disk'.post = mem.post)
  PROVE  RInv'
<1>1. Based(disk)' /\ Recorded(disk)'
  BY DEF RInv, GivesUp, Based, Recorded, history
<1>2. Based(mem)' /\ Recorded(mem)'
  BY DEF GivesUp, Based, Recorded, Fresh
<1> QED  BY <1>1, <1>2 DEF RInv, GivesUp, Begun, history

LEMMA FinalizeKeepsRecord ==
  ASSUME IInv, RInv, pc # "idle", NEW status \in MergeStatus \ {"succeeded"}, NEW created \in BOOLEAN,
         Finalize(mem, status, created) \/ GitFails(status, created),
         UNCHANGED <<target, src, git>>, UNCHANGED history
  PROVE  RInv'
<1>1. faults' \in 0..MaxFaults
  BY BoundAssumption DEF IInv, TypeOK, Finalize, GitFails, Fault, NoFault
<1>2. GivesUp
  BY <1>1 DEF GivesUp, Finalize, GitFails, Return, history
<1>3. mem \in PlanState
  BY DEF IInv, TypeOK
<1>4. disk' = disk \/ disk' = Finalized(mem, status, created)
  BY DEF Finalize, GitFails
<1> QED  BY <1>2, <1>3, <1>4, FinalizedType, GiveUpKeepsRecord

\* Nothing but a publish, a push or a new run changes what counts as published, and a
\* record keeps what it names.
LEMMA RecordFrame ==
  ASSUME RInv, UNCHANGED <<target, landed, seen>>,
         disk' = disk \/ (pc' # "publish" /\ disk'.status = disk.status /\ disk'.base = disk.base
                          /\ disk'.post = disk.post /\ disk'.merge = disk.merge),
         mem'.status = mem.status /\ mem'.base = mem.base /\ mem'.post = mem.post,
         pc # "idle" => mem.merge # "none" /\ mem'.merge # "none",
         pc = "idle" => mem' = mem /\ pc' = pc,
         pc' \in Begun => pc \in Begun,
         pc' = "publish" => pc = "publish" /\ mem' = mem
  PROVE  RInv'
<1>1. Based(disk)' /\ Recorded(disk)'
  BY DEF RInv, Based, Recorded
<1>2. Based(mem)' /\ Recorded(mem)'
  BY DEF RInv, Based, Recorded
<1> QED  BY <1>1, <1>2 DEF RInv

\* Each step of the merge keeps RInv.
LEMMA MergeKeepsRecord == ASSUME IInv, RInv, MergeStep PROVE RInv'
<1>t. mem \in PlanState /\ disk \in PlanState /\ target \in Commit /\ git.merge \in Commit \cup {None}
      /\ landed \in Commit \cup {None} /\ None \notin Commit
  BY CommitAssumption DEF IInv, TypeOK
<1>1. CASE Refuse
  BY <1>1, FinalizeKeepsRecord DEF Refuse, MergeStatus
<1>2. CASE AddMergeWorktreeFails
  BY <1>2, FinalizeKeepsRecord DEF AddMergeWorktreeFails, MergeStatus
<1>3. CASE MergeFFOnlyFails
  BY <1>3, FinalizeKeepsRecord DEF MergeFFOnlyFails, MergeStatus
<1>4. CASE PublishLosesRace
  BY <1>4, FinalizeKeepsRecord DEF PublishLosesRace, MergeStatus
<1>5. CASE Promote
  <2>1. mem' = [mem EXCEPT !.merge = "succeeded"]
    BY <1>5 DEF Promote
  <2>2. mem'.status = mem.status /\ mem'.base = mem.base /\ mem'.post = mem.post
        /\ mem'.merge = "succeeded"
    BY <1>t, <2>1, SucceededType
  <2> QED  BY <1>5, <2>2, RecordFrame DEF Promote, RInv, Goto, Begun, history
<1>6. CASE ReadTarget
  <2>1. target = mem.base /\ mem.status = "completed" /\ pc' = "clear" /\ seen' = target
        /\ UNCHANGED <<target, landed, disk, mem>>
    BY <1>6 DEF IInv, AtStep, ReadTarget, Goto, history
  <2>2. landed # None => landed \in Reach[target] /\ target \in Reach[landed]
    BY <2>1 DEF RInv, Based
  <2>3. landed \in {None, mem.base}
    BY <1>t, <2>1, <2>2, CommitAssumption
  <2>4. Based(disk)' /\ Recorded(disk)' /\ Based(mem)' /\ Recorded(mem)'
    BY <2>1 DEF RInv, Based, Recorded
  <2> QED  BY <1>6, <2>1, <2>3, <2>4 DEF RInv, Begun, ReadTarget
<1>7. CASE ClearMergeWorktree \/ AddMergeWorktree \/ MergeFFOnly
  <2>1. pc \in Begun /\ pc' \in Begun \ {"publish"} /\ UNCHANGED <<target, landed, seen, disk, mem>>
    BY <1>7 DEF ClearMergeWorktree, AddMergeWorktree, MergeFFOnly, Goto, Begun, history
  <2>2. Based(disk)' /\ Recorded(disk)' /\ Based(mem)' /\ Recorded(mem)'
    BY <2>1 DEF RInv, Based, Recorded
  <2> QED  BY <2>1, <2>2 DEF RInv, Begun
<1>8. CASE SaveIntent
  <2>1. mem' = Intent /\ disk' = Intent /\ pc = "intent" /\ pc' = "publish"
        /\ UNCHANGED <<target, landed, seen>>
    BY <1>8 DEF SaveIntent, Goto, history
  <2>2. Intent.status = mem.status /\ Intent.base = mem.base /\ Intent.post = git.merge
        /\ Intent.merge = "pending"
    BY <1>t, IntentType
  <2>3. seen = mem.base /\ landed \in {None, mem.base} /\ seen \in Reach[git.merge]
    BY <2>1 DEF IInv, AtStep, RInv, Begun
  <2>4. Based(mem)' /\ Recorded(mem)'
    BY <2>1, <2>2, <2>3 DEF RInv, Based, Recorded
  <2>5. Based(disk)' /\ Recorded(disk)'
    BY <2>1, <2>4 DEF Based, Recorded
  <2> QED  BY <2>1, <2>2, <2>3, <2>4, <2>5 DEF RInv, Begun
<1>9. CASE SaveIntentFails
  <2>1. Intent \in PlanState /\ Intent.status = mem.status /\ Intent.base = mem.base
        /\ Intent.post = git.merge
    BY <1>t, IntentType
  <2>2. Finalized(Intent, "failed", TRUE).status = mem.status
        /\ Finalized(Intent, "failed", TRUE).base = mem.base
        /\ Finalized(Intent, "failed", TRUE).post = git.merge
    BY <2>1, FinalizedType DEF MergeStatus
  <2>3. disk' = disk \/ disk' = Finalized(Intent, "failed", TRUE)
    BY <1>9 DEF SaveIntentFails
  <2>4. seen = mem.base /\ landed \in {None, mem.base} /\ seen \in Reach[git.merge]
        /\ UNCHANGED <<target, landed>> /\ mem' = Fresh /\ pc' = "idle"
    BY <1>9 DEF IInv, AtStep, RInv, Begun, SaveIntentFails, Return, history
  <2>5. Based(disk)' /\ Recorded(disk)'
    BY <2>2, <2>3, <2>4 DEF RInv, Based, Recorded
  <2>6. Based(mem)' /\ Recorded(mem)'
    BY <2>4 DEF Based, Recorded, Fresh
  <2> QED  BY <2>4, <2>5, <2>6 DEF RInv, Begun
<1>10. CASE Publish
  <2>1. mem' = [mem EXCEPT !.merge = "succeeded"]
    BY <1>10 DEF Publish
  <2>2. mem'.status = mem.status /\ mem'.base = mem.base /\ mem'.post = mem.post
        /\ mem'.merge = "succeeded"
    BY <1>t, <2>1, SucceededType
  <2>3. mem.post \in Commit
    BY <1>10, <1>t DEF IInv, AtStep, Publish, PlanState
  <2>4. target' = mem.post /\ landed' = mem.post /\ disk' = disk /\ pc = "publish" /\ pc' = "resync"
    BY <1>10 DEF Publish, Goto
  <2>5. mem.status = "completed" /\ mem.base \in Reach[mem.post]
    BY <1>t, <2>3, <2>4 DEF IInv, AtStep, RInv, Based
  <2>6. disk.status = "pending" \/ disk = mem
    BY <2>4 DEF RInv
  <2>7. Based(mem)' /\ Recorded(mem)'
    BY <2>2, <2>3, <2>4, <2>5 DEF RInv, Based, Recorded
  <2>8. Based(disk)' /\ Recorded(disk)'
    BY <2>3, <2>4, <2>5, <2>6 DEF RInv, Based, Recorded
  <2>9. mem.post \in Reach[mem.post]
    BY <2>3, CommitAssumption
  <2> QED  BY <2>2, <2>4, <2>7, <2>8, <2>9 DEF RInv, Begun
<1>11. CASE ReadBranch \/ CheckClean \/ ResetHard
  <2>1. Resync
    BY <1>11, ResyncStep
  <2>2. mem'.status = mem.status /\ mem'.base = mem.base /\ mem'.post = mem.post
        /\ mem'.merge = mem.merge
    BY <2>1, SyncedType
  <2>3. mem.status = "completed" /\ mem.merge = "succeeded" /\ mem.post \in Commit
    BY <1>t, <2>1 DEF IInv, TypeOK, AtStep, AfterPublish, Resyncing, Truthful, Resync
  <2>4. target' \in {target, mem.post} /\ pc' \in AfterPublish /\ pc \in Resyncing
        /\ UNCHANGED <<landed, disk, seen>>
    BY <2>1 DEF Resync, AfterPublish, Resyncing
  <2>5. landed # None => landed \in Reach[mem.post]
    BY <1>t, <2>3, CommitAssumption DEF RInv, Based, Recorded
  <2>6. Based(disk)' /\ Recorded(disk)' /\ Based(mem)' /\ Recorded(mem)'
    BY <2>2, <2>4 DEF RInv, Based, Recorded
  <2> QED  BY <2>2, <2>3, <2>4, <2>5, <2>6 DEF RInv, Begun, AfterPublish, Resyncing
<1>12. CASE SaveMerge
  <2>1. CASE disk' = mem /\ mem' = mem /\ Goto("rm_merge") /\ UNCHANGED seen
    <3>1. UNCHANGED <<target, landed>> /\ pc # "idle" /\ pc' = "rm_merge"
      BY <1>12, <2>1 DEF SaveMerge, Goto, history
    <3>2. Based(disk)' /\ Recorded(disk)' /\ Based(mem)' /\ Recorded(mem)'
      BY <2>1, <3>1 DEF RInv, Based, Recorded
    <3> QED  BY <2>1, <3>1, <3>2 DEF RInv, Begun
  <2>2. CASE disk' = disk /\ Return /\ Fault
    <3>1. GivesUp
      BY <1>12, <2>2, BoundAssumption DEF IInv, TypeOK, Fault, GivesUp, SaveMerge, Return, history
    <3> QED  BY <1>12, <2>2, <3>1, GiveUpKeepsRecord DEF SaveMerge
  <2> QED  BY <1>12, <2>1, <2>2 DEF SaveMerge
<1>13. CASE RemoveMergeWorktree \/ RemoveExecWorktree \/ RemoveBranch
  <2>1. PICK a \in Artifacts, step \in Removing, next \in AfterPublish \ Resyncing : Remove(a, step, next)
    BY <1>13 DEF RemoveMergeWorktree, RemoveExecWorktree, RemoveBranch, Artifacts, Removing,
       AfterPublish, Resyncing
  <2>2. mem' = mem \/ \E s \in CleanStatus : mem' = [mem EXCEPT !.ledger[a] = s]
    BY <2>1 DEF Remove, Removal, CleanStatus
  <2>3. mem'.status = mem.status /\ mem'.base = mem.base /\ mem'.post = mem.post
        /\ mem'.merge = mem.merge
    <3>1. ASSUME NEW s \in CleanStatus, mem' = [mem EXCEPT !.ledger[a] = s]
          PROVE  mem'.status = mem.status /\ mem'.base = mem.base /\ mem'.post = mem.post
                 /\ mem'.merge = mem.merge
      BY <1>t, <3>1, LedgerType
    <3> QED  BY <2>2, <3>1
  <2> QED
    BY <2>1, <2>3, RecordFrame DEF RInv, Remove, Goto, Removing, AfterPublish, Resyncing, Begun, history
<1>14. CASE SaveCleanup
  <2>1. GivesUp
    BY <1>14, BoundAssumption DEF IInv, TypeOK, Fault, NoFault, GivesUp, SaveCleanup, Return, history
  <2> QED  BY <1>14, <1>t, <2>1, AggregateType, GiveUpKeepsRecord DEF SaveCleanup
<1> QED
  BY <1>1, <1>2, <1>3, <1>4, <1>5, <1>6, <1>7, <1>8, <1>9, <1>10, <1>11, <1>12, <1>13, <1>14 DEF MergeStep

\* So does every other step: a run starts a new record, and no recovery command takes a
\* published head off a record that still says anything of a merge.
LEMMA RecordStep == IInv /\ RInv /\ [Next]_vars => RInv'
<1> SUFFICES ASSUME IInv, RInv, [Next]_vars PROVE RInv'
  OBVIOUS
<1>t. mem \in PlanState /\ disk \in PlanState /\ target \in Commit /\ None \notin Commit
      /\ landed \in Commit \cup {None}
  BY CommitAssumption DEF IInv, TypeOK
<1>1. CASE \E c \in Commit : Execute(c)
  <2>1. /\ disk'.status = "completed" /\ disk'.post = None /\ disk'.base = target
        /\ landed' = None /\ pc = "idle" /\ pc' = "idle" /\ mem = Fresh /\ mem' = Fresh
    BY <1>1 DEF Execute, Fresh, IInv, AtStep
  <2>2. Based(disk)' /\ Recorded(disk)' /\ Based(mem)' /\ Recorded(mem)'
    BY <1>t, <2>1 DEF Based, Recorded, Fresh
  <2> QED  BY <2>1, <2>2 DEF RInv, Begun
<1>2. CASE Begin
  <2>1. /\ disk.merge # "none" /\ mem' = disk /\ pc' \in {"resync", "preflight"}
        /\ UNCHANGED <<target, landed, disk>>
    BY <1>2 DEF Begin, IsIntegrated, Goto, history
  <2>2. Based(disk)' /\ Recorded(disk)' /\ Based(mem)' /\ Recorded(mem)'
    BY <2>1 DEF RInv, Based, Recorded
  <2> QED  BY <2>1, <2>2 DEF RInv, Begun
<1>3. CASE MergeStep
  BY <1>3, MergeKeepsRecord
<1>4. CASE Crash
  <2>1. GivesUp
    BY <1>4, BoundAssumption DEF IInv, TypeOK, Fault, GivesUp, Crash, Return, history
  <2> QED  BY <1>4, <2>1, GiveUpKeepsRecord DEF Crash
<1>5. CASE RetryMerge
  <2>1. disk'.status = "completed" /\ disk'.base = disk.base /\ disk'.post = None
        /\ disk'.merge = "none" /\ disk.status = "completed" /\ disk.merge \in {"refused", "failed"}
    BY <1>5, <1>t DEF RetryMerge, PlanState
  <2>2. UNCHANGED <<target, landed, seen, mem, pc>> /\ pc # "publish"
    BY <1>5, <2>1 DEF RetryMerge, RInv, history
  <2>3. Based(disk)' /\ Recorded(disk)' /\ Based(mem)' /\ Recorded(mem)'
    BY <2>1, <2>2 DEF RInv, Based, Recorded
  <2> QED  BY <2>2, <2>3 DEF RInv
<1>6. CASE RetryIntegration
  <2>1. disk'.status = disk.status /\ disk'.base = disk.base /\ disk'.post = disk.post
        /\ disk'.merge = disk.merge /\ disk.status = "completed" /\ disk.merge = "succeeded"
    BY <1>6, <1>t DEF RetryIntegration, PlanState
  <2>2. UNCHANGED <<target, landed, seen, mem, pc>> /\ pc # "publish"
    BY <1>6, <2>1 DEF RetryIntegration, RInv, history
  <2>3. Based(disk)' /\ Recorded(disk)' /\ Based(mem)' /\ Recorded(mem)'
    BY <2>1, <2>2 DEF RInv, Based, Recorded
  <2> QED  BY <2>2, <2>3 DEF RInv
<1>7. CASE Reset
  <2>1. disk' = disk \/ disk' = Fresh
    BY <1>7 DEF Reset
  <2>2. UNCHANGED <<target, landed, seen, mem, pc>>
    BY <1>7 DEF Reset
  <2>3. Based(disk)' /\ Recorded(disk)' /\ Based(mem)' /\ Recorded(mem)'
    BY <2>1, <2>2 DEF RInv, Based, Recorded, Fresh
  <2> QED  BY <2>1, <2>2, <2>3 DEF RInv, Fresh
<1>8. CASE \E c \in Commit : UserMovesTarget(c)
  <2>1. UNCHANGED <<disk, mem, pc, seen>> /\ landed' \in {landed, None}
        /\ (landed' # None => landed' \in Reach[target'])
    BY <1>8 DEF UserMovesTarget
  <2>2. Based(disk)' /\ Recorded(disk)' /\ Based(mem)' /\ Recorded(mem)'
    BY <2>1 DEF RInv, Based, Recorded
  <2> QED  BY <2>1, <2>2 DEF RInv
<1>9. CASE UserEdits \/ UserUndoesEdits \/ UserStashes \/ UNCHANGED vars
           \/ \E c \in Commit : UserSwitchesBranch(c)
  <2>1. UNCHANGED <<target, landed, disk, mem, pc, seen>>
    BY <1>9 DEF UserEdits, UserUndoesEdits, UserStashes, UserSwitchesBranch, history, vars
  <2>2. Based(disk)' /\ Recorded(disk)' /\ Based(mem)' /\ Recorded(mem)'
    BY <2>1 DEF RInv, Based, Recorded
  <2> QED  BY <2>1, <2>2 DEF RInv
<1> QED  BY <1>1, <1>2, <1>3, <1>4, <1>5, <1>6, <1>7, <1>8, <1>9 DEF Next, Operator, Developer

\* A merge that ends early has swept what its record says, and forgets its own.
LEMMA GiveUpKeepsSwept ==
  ASSUME CInv, GivesUp,
         disk' = disk \/ Swept(disk')
  PROVE  CInv'
<1>1. Swept(disk)'
  BY DEF CInv, GivesUp, Swept, Exists
<1>2. Swept(mem)'
  BY DEF GivesUp, Swept, Fresh, NoLedger, Artifacts
<1> QED  BY <1>1, <1>2 DEF CInv, GivesUp, PrePublish

LEMMA FinalizedIsSwept ==
  ASSUME NEW p \in PlanState, NEW status \in MergeStatus, NEW created \in BOOLEAN
  PROVE  Swept(Finalized(p, status, created))
  BY FinalizedType DEF Swept, Artifacts

LEMMA FinalizeKeepsSwept ==
  ASSUME IInv, CInv, pc # "idle", NEW status \in MergeStatus \ {"succeeded"}, NEW created \in BOOLEAN,
         Finalize(mem, status, created) \/ GitFails(status, created),
         UNCHANGED <<target, src, git>>, UNCHANGED history
  PROVE  CInv'
<1>1. faults' \in 0..MaxFaults
  BY BoundAssumption DEF IInv, TypeOK, Finalize, GitFails, Fault, NoFault
<1>2. GivesUp
  BY <1>1 DEF GivesUp, Finalize, GitFails, Return, history
<1>3. Swept(Finalized(mem, status, created))
  BY FinalizedIsSwept DEF IInv, TypeOK
<1>4. disk' = disk \/ Swept(disk')
  BY <1>3 DEF Finalize, GitFails
<1> QED  BY <1>2, <1>4, GiveUpKeepsSwept

\* A removal leaves every other artifact where it is.
LEMMA RemovalKeepsSwept ==
  ASSUME IInv, CInv, NEW a \in Artifacts, Removal(a), mem.merge = "succeeded"
  PROVE  /\ Swept(mem)' /\ mem'.merge = "succeeded" /\ mem'.ledger[a] \in Tried
         /\ \A b \in Artifacts : mem.ledger[b] \in Tried => mem'.ledger[b] \in Tried
         /\ \A b \in Artifacts : ~Exists(b) => ~Exists(b)'
<1>t. mem \in PlanState /\ git \in [merge : Commit \cup {None}, exec : BOOLEAN, branch : Commit \cup {None}]
  BY DEF IInv, TypeOK
<1>1. mem' = mem \/ \E s \in {"succeeded", "failed"} : mem' = [mem EXCEPT !.ledger[a] = s]
  BY DEF Removal
<1>2. CASE mem.ledger[a] = "succeeded"
  BY <1>2 DEF Removal, CInv, Swept, Exists, Tried
<1>3. CASE mem.ledger[a] # "succeeded"
  <2>1. PICK s \in Tried : mem' = [mem EXCEPT !.ledger[a] = s]
                           /\ IF s = "succeeded" THEN git' = Without(a) ELSE git' = git
    BY <1>3 DEF Removal, Tried
  <2>2. /\ mem'.merge = "succeeded" /\ mem'.cleanup = mem.cleanup
        /\ mem'.ledger = [mem.ledger EXCEPT ![a] = s]
    BY <1>t, <2>1, LedgerType DEF Tried, CleanStatus
  <2>3. mem.ledger \in [Artifacts -> CleanStatus]
    BY <1>t DEF PlanState
  <2>4. mem.cleanup # "succeeded"
    BY <1>3 DEF CInv, Swept
  <2>5. \A b \in Artifacts : ~Exists(b) => ~Exists(b)'
    BY <1>t, <2>1 DEF Exists, Without, Artifacts
  <2>6. s = "succeeded" => ~Exists(a)'
    BY <1>t, <2>1 DEF Exists, Without, Artifacts
  <2> QED  BY <2>2, <2>3, <2>4, <2>5, <2>6 DEF CInv, Swept, Tried
<1> QED  BY <1>2, <1>3

\* Each removal takes the cleanup one step further.
LEMMA RemoveKeepsSwept ==
  ASSUME IInv, CInv, RemoveMergeWorktree \/ RemoveExecWorktree \/ RemoveBranch
  PROVE  CInv'
<1>1. mem.merge = "succeeded" /\ disk' = disk
  BY DEF IInv, AtStep, AfterPublish, Resyncing, RemoveMergeWorktree, RemoveExecWorktree, RemoveBranch, Remove
<1>2. PICK a \in Artifacts : Removal(a) /\
        \/ a = "merge" /\ pc = "rm_merge" /\ pc' = "rm_exec"
        \/ a = "exec" /\ pc = "rm_exec" /\ pc' = "rm_branch"
        \/ a = "branch" /\ pc = "rm_branch" /\ pc' = "save_cleanup"
  BY DEF RemoveMergeWorktree, RemoveExecWorktree, RemoveBranch, Remove, Goto, Artifacts
<1>3. /\ Swept(mem)' /\ mem'.ledger[a] \in Tried
      /\ \A b \in Artifacts : mem.ledger[b] \in Tried => mem'.ledger[b] \in Tried
      /\ \A b \in Artifacts : ~Exists(b) => ~Exists(b)'
  BY <1>1, <1>2, RemovalKeepsSwept
<1>4. Swept(disk)'
  BY <1>1, <1>3 DEF CInv, Swept
<1> QED  BY <1>2, <1>3, <1>4 DEF CInv, PrePublish, Artifacts

\* A step that leaves git and the ledgers alone.
LEMMA SweptFrame ==
  ASSUME CInv, UNCHANGED git,
         disk' = disk \/ disk' = Fresh,
         mem' = disk \/ (mem'.ledger = mem.ledger /\ mem'.cleanup = mem.cleanup
                         /\ (mem'.merge = mem.merge \/ mem'.merge = "succeeded")),
         pc' \notin {"rm_exec", "rm_branch", "save_cleanup"} \/ (pc' = pc /\ mem' = mem),
         pc' \in PrePublish => mem'.merge # "succeeded" /\ disk.merge # "succeeded"
  PROVE  CInv'
<1>1. Swept(disk)'
  BY DEF CInv, Swept, Exists, Fresh, NoLedger, Artifacts
<1>e. \A a \in Artifacts : ~Exists(a) => ~Exists(a)'
  BY DEF Exists
<1>2. CASE mem' = disk
  BY <1>1, <1>2, <1>e DEF CInv, Swept, Fresh
<1>3. CASE mem'.ledger = mem.ledger /\ mem'.cleanup = mem.cleanup
           /\ (mem'.merge = mem.merge \/ mem'.merge = "succeeded")
  <2>1. Swept(mem)'
    BY <1>3, <1>e DEF CInv, Swept
  <2> QED  BY <1>1, <1>3, <2>1 DEF CInv, Fresh
<1> QED  BY <1>2, <1>3

\* Each step of the merge keeps CInv.
LEMMA MergeKeepsSwept == ASSUME IInv, CInv, MergeStep PROVE CInv'
<1>t. mem \in PlanState /\ disk \in PlanState /\ git.merge \in Commit \cup {None}
      /\ git \in [merge : Commit \cup {None}, exec : BOOLEAN, branch : Commit \cup {None}]
  BY DEF IInv, TypeOK
<1>1. CASE Refuse
  BY <1>1, FinalizeKeepsSwept DEF Refuse, MergeStatus
<1>2. CASE AddMergeWorktreeFails
  BY <1>2, FinalizeKeepsSwept DEF AddMergeWorktreeFails, MergeStatus
<1>3. CASE MergeFFOnlyFails
  BY <1>3, FinalizeKeepsSwept DEF MergeFFOnlyFails, MergeStatus
<1>4. CASE PublishLosesRace
  BY <1>4, FinalizeKeepsSwept DEF PublishLosesRace, MergeStatus
<1>5. CASE Promote \/ Publish
  <2>1. mem' = [mem EXCEPT !.merge = "succeeded"]
    BY <1>5 DEF Promote, Publish
  <2>2. mem'.ledger = mem.ledger /\ mem'.cleanup = mem.cleanup /\ mem'.merge = "succeeded"
    BY <1>t, <2>1, SucceededType
  <2> QED  BY <1>5, <2>2, SweptFrame DEF Promote, Publish, Goto, PrePublish
<1>6. CASE ReadTarget
  BY <1>6, SweptFrame DEF ReadTarget, CInv, Goto, PrePublish
<1>7. CASE ClearMergeWorktree \/ AddMergeWorktree \/ MergeFFOnly
  <2>1. pc \in PrePublish /\ pc' \in PrePublish /\ UNCHANGED <<disk, mem>>
    BY <1>7 DEF ClearMergeWorktree, AddMergeWorktree, MergeFFOnly, Goto, PrePublish
  <2>2. Swept(disk)' /\ Swept(mem)'
    BY <2>1 DEF CInv, Swept, Artifacts
  <2> QED  BY <2>1, <2>2 DEF CInv, PrePublish
<1>8. CASE SaveIntent
  <2>1. mem' = Intent /\ disk' = Intent /\ pc = "intent" /\ pc' = "publish" /\ UNCHANGED git
    BY <1>8 DEF SaveIntent, Goto
  <2>2. Intent.ledger = mem.ledger /\ Intent.cleanup = mem.cleanup /\ Intent.merge = "pending"
    BY <1>t, IntentType
  <2>3. mem.merge # "succeeded"
    BY <2>1 DEF CInv, PrePublish
  <2>4. Swept(mem)'
    BY <2>1, <2>2, <2>3 DEF CInv, Swept, Exists
  <2> QED  BY <2>1, <2>2, <2>4 DEF CInv, Swept
<1>9. CASE SaveIntentFails
  <2>1. Swept(Finalized(Intent, "failed", TRUE))
    BY <1>t, IntentType, FinalizedIsSwept DEF MergeStatus
  <2>2. GivesUp
    BY <1>9, BoundAssumption DEF IInv, TypeOK, Fault, GivesUp, SaveIntentFails, Return, history
  <2> QED  BY <1>9, <2>1, <2>2, GiveUpKeepsSwept DEF SaveIntentFails
<1>10. CASE ReadBranch \/ CheckClean \/ ResetHard
  <2>1. Resync
    BY <1>10, ResyncStep
  <2>2. mem'.ledger = mem.ledger /\ mem'.cleanup = mem.cleanup /\ mem'.merge = mem.merge
    BY <2>1, SyncedType
  <2> QED  BY <2>1, <2>2, SweptFrame DEF Resync, Resyncing, PrePublish
<1>11. CASE SaveMerge
  <2>1. CASE disk' = mem /\ mem' = mem /\ Goto("rm_merge")
    <3>1. UNCHANGED git /\ pc' = "rm_merge"
      BY <1>11, <2>1 DEF SaveMerge, Goto
    <3>2. Swept(mem)'
      BY <2>1, <3>1 DEF CInv, Swept, Exists
    <3> QED  BY <2>1, <3>1, <3>2 DEF CInv, Swept, PrePublish
  <2>2. CASE disk' = disk /\ Return /\ Fault
    <3>1. GivesUp
      BY <1>11, <2>2, BoundAssumption DEF IInv, TypeOK, Fault, GivesUp, SaveMerge, Return, history
    <3> QED  BY <2>2, <3>1, GiveUpKeepsSwept
  <2> QED  BY <1>11, <2>1, <2>2 DEF SaveMerge
<1>12. CASE RemoveMergeWorktree \/ RemoveExecWorktree \/ RemoveBranch
  BY <1>12, RemoveKeepsSwept
<1>13. CASE SaveCleanup
  <2>1. GivesUp
    BY <1>13, BoundAssumption DEF IInv, TypeOK, Fault, NoFault, GivesUp, SaveCleanup, Return, history
  <2>2. /\ Aggregate(mem).ledger = mem.ledger /\ Aggregate(mem).merge = mem.merge
        /\ Aggregate(mem).cleanup = "succeeded" => \A a \in Artifacts : mem.ledger[a] # "failed"
    BY <1>t, AggregateType
  <2>3. \A a \in Artifacts : mem.ledger[a] \in Tried
    BY <1>13 DEF CInv, SaveCleanup, Artifacts
  <2>4. Swept(Aggregate(mem))
    BY <2>2, <2>3 DEF CInv, Swept, Tried
  <2> QED  BY <1>13, <2>1, <2>4, GiveUpKeepsSwept DEF SaveCleanup
<1> QED
  BY <1>1, <1>2, <1>3, <1>4, <1>5, <1>6, <1>7, <1>8, <1>9, <1>10, <1>11, <1>12, <1>13 DEF MergeStep

\* So does every other step.
LEMMA SweptStep == IInv /\ CInv /\ [Next]_vars => CInv'
<1> SUFFICES ASSUME IInv, CInv, [Next]_vars PROVE CInv'
  OBVIOUS
<1>t. mem \in PlanState /\ disk \in PlanState
      /\ git \in [merge : Commit \cup {None}, exec : BOOLEAN, branch : Commit \cup {None}]
  BY DEF IInv, TypeOK
<1>1. CASE \E c \in Commit : Execute(c)
  <2>1. /\ disk'.ledger = NoLedger /\ disk'.cleanup = "none" /\ pc = "idle" /\ pc' = "idle"
        /\ mem' = Fresh
    BY <1>1 DEF Execute, Fresh, IInv, AtStep
  <2>2. Swept(disk)' /\ Swept(mem)'
    BY <2>1 DEF Swept, Fresh, NoLedger, Artifacts
  <2> QED  BY <2>1, <2>2 DEF CInv, PrePublish
<1>2. CASE Begin
  BY <1>2, SweptFrame DEF Begin, Goto, PrePublish
<1>3. CASE MergeStep
  BY <1>3, MergeKeepsSwept
<1>4. CASE Crash
  <2>1. GivesUp
    BY <1>4, BoundAssumption DEF IInv, TypeOK, Fault, GivesUp, Crash, Return, history
  <2> QED  BY <1>4, <2>1, GiveUpKeepsSwept DEF Crash
<1>5. CASE RetryMerge \/ RetryIntegration
  <2>1. disk'.ledger = NoLedger /\ disk'.cleanup = "none" /\ disk'.merge \in {disk.merge, "none"}
    <3>1. CASE RetryMerge
      BY <1>t, <3>1 DEF RetryMerge, PlanState
    <3>2. CASE RetryIntegration
      BY <1>t, <3>2 DEF RetryIntegration, PlanState
    <3> QED  BY <1>5, <3>1, <3>2
  <2>2. UNCHANGED <<git, mem, pc>>
    BY <1>5 DEF RetryMerge, RetryIntegration
  <2>3. Swept(disk)' /\ Swept(mem)'
    BY <2>1, <2>2 DEF CInv, Swept, Exists, NoLedger
  <2> QED  BY <2>1, <2>2, <2>3 DEF CInv
<1>6. CASE Reset
  <2>1. disk' = disk \/ disk' = Fresh
    BY <1>6 DEF Reset
  <2>2. UNCHANGED <<mem, pc>> /\ \A a \in Artifacts : ~Exists(a) => ~Exists(a)'
    BY <1>6, <1>t DEF Reset, Exists, Artifacts
  <2>3. Swept(disk)' /\ Swept(mem)'
    BY <2>1, <2>2 DEF CInv, Swept, Fresh, NoLedger
  <2> QED  BY <2>1, <2>2, <2>3 DEF CInv, Fresh
<1>7. CASE Developer \/ UNCHANGED vars
  <2>1. UNCHANGED <<git, disk, mem, pc>>
    BY <1>7 DEF Developer, UserMovesTarget, UserEdits, UserUndoesEdits, UserStashes,
       UserSwitchesBranch, vars, history
  <2>2. Swept(disk)' /\ Swept(mem)'
    BY <2>1 DEF CInv, Swept, Exists
  <2> QED  BY <2>1, <2>2 DEF CInv
<1> QED  BY <1>1, <1>2, <1>3, <1>4, <1>5, <1>6, <1>7 DEF Next, Operator

----------------------------------------------------------------------------
(* One fault leaves nothing behind.                                         *)

\* A record that names a published head, or says anything of its merge worktree, knows
\* that there was one (priorMergeWorktreePath).
Kept(p) ==
  /\ p.post # None \/ p.ledger["merge"] \in {"preserved", "succeeded", "failed"} => p.wt
  /\ p.cleanup # "preserved"

\* The target, which nobody sets back, is at or above the base of the run.
Below(p) ==
  /\ p.base \in Reach[target]
  /\ p.merge = "succeeded" => p.base \in Reach[p.post]

OInv ==
  /\ Kept(disk) /\ Kept(mem)
  /\ disk.status = "completed" => Below(disk)
  /\ pc # "idle" => Below(mem) /\ (disk.status = "completed" => disk.base = mem.base)
  /\ pc = "ff" => git.merge \in Reach[target]
  /\ disk.status = "pending" => disk.cleanup = "none"

\* The cleanup outcome in the record is that of an attempt that did not publish.
Tainted(p) == p.cleanup = "skipped"

\* Why such an attempt cannot get further when it is made again: the target has moved
\* on, the branch is neither ahead of the base nor behind it, the path of the merge
\* worktree is taken, or the execution worktree is gone.
Drifted(p) == p.base # target
Parted(p) ==
  git.branch = None \/ (p.base \notin Reach[git.branch] /\ git.branch \notin Reach[p.base])
PathTaken(p) == git.merge # None /\ ~p.wt
Stuck(p) == Drifted(p) \/ ~git.exec \/ Parted(p) \/ PathTaken(p)

\* The record of a refusal without a fault stays stuck.  A success is next to it only
\* after a fault, and then the cleanup that is under way ends well.
TDisk ==
  Tainted(disk) =>
    /\ pc # "idle" => disk = mem
    /\ pc = "publish" \/ (disk.merge \in {"refused", "failed"} /\ Stuck(disk))
TMem ==
  Tainted(mem) =>
    /\ pc \in PrePublish
    /\ pc = "preflight" => mem.merge \in {"refused", "failed"} /\ Stuck(mem)
    /\ pc \in {"clear", "add"} => Drifted(mem) \/ Parted(mem) \/ PathTaken(mem)
    /\ pc = "ff" => Drifted(mem) \/ Parted(mem)
    /\ pc \in {"intent", "publish"} => Drifted(mem)
TInv ==
  /\ faults = 0 => TDisk /\ TMem /\ (pc = "add" /\ mem.wt => git.merge = None)
  /\ faults <= 1 /\ disk.merge = "succeeded" /\ Tainted(disk) =>
       faults = 1 /\ pc \in Removing \cup {"save_cleanup"}

LEMMA FinalizedKept ==
  ASSUME NEW p \in PlanState, NEW status \in MergeStatus, NEW created \in BOOLEAN, Kept(p)
  PROVE  /\ Kept(Finalized(p, status, created))
         /\ ~created /\ ~p.wt => ~Finalized(p, status, created).wt
<1> DEFINE r == Finalized(p, status, created)
           kept == created \/ PriorMergeWorktree(p)
<1>1. kept \in BOOLEAN
  BY DEF PriorMergeWorktree, PlanState
<1>2. r.wt = kept /\ r.ledger["merge"] = IF ~kept THEN "skipped" ELSE "preserved"
  BY DEF Finalized, PlanState, Artifacts
<1>3. r.post = p.post /\ r.cleanup = "skipped"
  BY FinalizedType
<1>4. p.wt => kept
  BY DEF PriorMergeWorktree
<1> QED  BY <1>1, <1>2, <1>3, <1>4 DEF Kept, PriorMergeWorktree, PlanState

LEMMA IntentKept ==
  ASSUME mem \in PlanState, git.merge \in Commit \cup {None}, Kept(mem)
  PROVE  Kept(Intent)
<1>1. Intent.wt = TRUE /\ Intent.cleanup = mem.cleanup
  BY DEF Intent, PlanState
<1> QED  BY <1>1 DEF Kept

LEMMA GiveUpKeepsOrder ==
  ASSUME IInv, OInv, pc # "idle", GivesUp,
         disk' = disk \/ (/\ disk'.status = "completed" /\ disk'.base = mem.base /\ Kept(disk')
                          /\ disk'.merge = "succeeded" => mem.merge = "succeeded" /\ disk'.post = mem.post)
  PROVE  OInv'
<1>1. Kept(mem)'
  BY DEF GivesUp, Kept, Fresh, NoLedger, Artifacts
<1>2. pc' = "idle" /\ target' = target
  BY DEF GivesUp
<1>3. CASE disk' = disk
  BY <1>1, <1>2, <1>3 DEF OInv, Kept, Below
<1>4. CASE disk' # disk
  <2>1. disk'.base \in Reach[target]
    BY <1>4 DEF OInv, Below
  <2>2. disk'.merge = "succeeded" => disk'.base \in Reach[disk'.post]
    BY <1>4 DEF OInv, Below
  <2>3. Below(disk)' /\ Kept(disk)'
    BY <1>2, <1>4, <2>1, <2>2 DEF Below, Kept
  <2> QED  BY <1>1, <1>2, <1>4, <2>3 DEF OInv
<1> QED  BY <1>3, <1>4

LEMMA FinalizeKeepsOrder ==
  ASSUME IInv, OInv, pc # "idle", NEW status \in MergeStatus \ {"succeeded"}, NEW created \in BOOLEAN,
         Finalize(mem, status, created) \/ GitFails(status, created),
         UNCHANGED <<target, src, git>>, UNCHANGED history
  PROVE  OInv'
<1>1. GivesUp
  BY BoundAssumption DEF IInv, TypeOK, Finalize, GitFails, Fault, NoFault, GivesUp, Return, history
<1>2. mem \in PlanState /\ mem.status = "completed" /\ Kept(mem)
  BY DEF IInv, TypeOK, AtStep, OInv
<1>3. disk' = disk \/ disk' = Finalized(mem, status, created)
  BY DEF Finalize, GitFails
<1>4. ASSUME disk' = Finalized(mem, status, created)
      PROVE  disk'.status = "completed" /\ disk'.base = mem.base /\ Kept(disk') /\ disk'.merge # "succeeded"
  BY <1>2, <1>4, FinalizedType, FinalizedKept
<1> QED  BY <1>1, <1>3, <1>4, GiveUpKeepsOrder

\* A step that leaves the target and both records' base and head alone.
LEMMA OrderFrame ==
  ASSUME OInv, UNCHANGED <<target, disk>>,
         pc' # "idle" => pc # "idle" /\ mem'.base = mem.base /\ mem'.post = mem.post
                         /\ (mem'.merge = mem.merge \/ (mem'.merge = "succeeded" => mem.base \in Reach[mem.post])),
         Kept(mem'),
         pc' = "ff" => git'.merge \in Reach[target]
  PROVE  OInv'
<1>1. Kept(disk)' /\ Kept(mem)'
  BY DEF OInv, Kept
<1>2. Below(disk)' <=> Below(disk)
  BY DEF Below
<1>3. pc' # "idle" => Below(mem)'
  BY DEF OInv, Below
<1> QED  BY <1>1, <1>2, <1>3 DEF OInv

\* Each step of the merge keeps OInv.
LEMMA MergeKeepsOrder == ASSUME IInv, RInv, OInv, MergeStep PROVE OInv'
<1>t. /\ mem \in PlanState /\ disk \in PlanState /\ target \in Commit /\ git.merge \in Commit \cup {None}
      /\ git \in [merge : Commit \cup {None}, exec : BOOLEAN, branch : Commit \cup {None}]
      /\ None \notin Commit /\ \A c \in Commit : c \in Reach[c]
  BY CommitAssumption DEF IInv, TypeOK
<1>p. mem.status = "completed" /\ pc # "idle"
  BY DEF IInv, AtStep, MergeStep, Refuse, Promote, ReadTarget, AddMergeWorktree, AddMergeWorktreeFails,
         MergeFFOnly, MergeFFOnlyFails, SaveIntent, SaveIntentFails, Publish, PublishLosesRace, ReadBranch,
         CheckClean, ResetHard, ClearMergeWorktree, SaveMerge, RemoveMergeWorktree, RemoveExecWorktree,
         RemoveBranch, Remove, SaveCleanup
<1>1. CASE Refuse \/ AddMergeWorktreeFails \/ MergeFFOnlyFails \/ PublishLosesRace
  BY <1>1, <1>p, FinalizeKeepsOrder
  DEF Refuse, AddMergeWorktreeFails, MergeFFOnlyFails, PublishLosesRace, MergeStatus
<1>2. CASE Promote
  <2>1. mem' = [mem EXCEPT !.merge = "succeeded"] /\ target = mem.post /\ pc' = "resync"
        /\ UNCHANGED <<target, disk, git>>
    BY <1>2 DEF Promote, LandedBefore, Goto
  <2>2. /\ mem'.base = mem.base /\ mem'.post = mem.post /\ mem'.wt = mem.wt /\ mem'.ledger = mem.ledger
        /\ mem'.cleanup = mem.cleanup
    BY <1>t, <2>1 DEF PlanState
  <2>3. mem.base \in Reach[mem.post]
    BY <1>p, <2>1 DEF OInv, Below
  <2>4. Kept(mem')
    BY <2>2 DEF OInv, Kept
  <2> QED  BY <1>p, <2>1, <2>2, <2>3, <2>4, OrderFrame
<1>3. CASE ReadTarget \/ ClearMergeWorktree \/ AddMergeWorktree \/ MergeFFOnly
  <2>1. UNCHANGED <<target, disk, mem>> /\ (pc' = "ff" => git'.merge = target)
    BY <1>3, <1>t DEF ReadTarget, ClearMergeWorktree, AddMergeWorktree, MergeFFOnly, Goto
  <2> QED  BY <1>t, <1>p, <2>1, OrderFrame DEF OInv
<1>4. CASE SaveIntent
  <2>1. mem' = Intent /\ disk' = Intent /\ pc' = "publish" /\ target' = target
    BY <1>4 DEF SaveIntent, Goto
  <2>2. Kept(Intent) /\ Intent.base = mem.base /\ Intent.merge = "pending" /\ Intent.status = "completed"
    BY <1>t, <1>p, IntentKept, IntentType DEF OInv
  <2>3. Below(mem)' /\ Below(disk)'
    BY <1>p, <2>1, <2>2 DEF OInv, Below
  <2> QED  BY <2>1, <2>2, <2>3 DEF OInv, Kept
<1>5. CASE SaveIntentFails
  <2>1. GivesUp
    BY <1>5, BoundAssumption DEF IInv, TypeOK, Fault, GivesUp, SaveIntentFails, Return, history
  <2>2. Kept(Intent) /\ Intent \in PlanState /\ Intent.base = mem.base /\ Intent.status = "completed"
    BY <1>t, <1>p, IntentKept, IntentType DEF OInv
  <2>3. disk' = disk \/ disk' = Finalized(Intent, "failed", TRUE)
    BY <1>5 DEF SaveIntentFails
  <2>4. ASSUME disk' = Finalized(Intent, "failed", TRUE)
        PROVE  disk'.status = "completed" /\ disk'.base = mem.base /\ Kept(disk') /\ disk'.merge # "succeeded"
    BY <2>2, <2>4, FinalizedType, FinalizedKept DEF MergeStatus
  <2> QED  BY <1>p, <2>1, <2>3, <2>4, GiveUpKeepsOrder
<1>6. CASE Publish
  <2>1. mem' = [mem EXCEPT !.merge = "succeeded"] /\ target' = mem.post /\ pc' = "resync" /\ disk' = disk
        /\ pc = "publish"
    BY <1>6 DEF Publish, Goto
  <2>2. /\ mem'.base = mem.base /\ mem'.post = mem.post /\ mem'.wt = mem.wt /\ mem'.ledger = mem.ledger
        /\ mem'.cleanup = mem.cleanup
    BY <1>t, <2>1 DEF PlanState
  <2>3. mem.base \in Reach[mem.post]
    BY <1>p, <2>1 DEF RInv, Based, IInv, AtStep
  <2>4. disk.merge = "succeeded" /\ disk.status = "completed" => disk.base \in Reach[disk.post]
    BY DEF OInv, Below
  <2>5. Below(mem)' /\ (disk.status = "completed" => Below(disk)')
    BY <1>p, <2>1, <2>2, <2>3, <2>4 DEF OInv, Below
  <2>6. Kept(mem)' /\ Kept(disk)'
    BY <2>1, <2>2 DEF OInv, Kept
  <2> QED  BY <1>p, <2>1, <2>2, <2>5, <2>6 DEF OInv
<1>7. CASE ReadBranch \/ CheckClean \/ ResetHard
  <2>1. Resync
    BY <1>7, ResyncStep
  <2>2. target' \in {target, mem.post} /\ disk' = disk /\ pc' \in AfterPublish /\ mem.merge = "succeeded"
    BY <2>1 DEF Resync, IInv, AtStep, AfterPublish, Resyncing
  <2>3. /\ mem'.base = mem.base /\ mem'.post = mem.post /\ mem'.wt = mem.wt /\ mem'.ledger = mem.ledger
        /\ mem'.cleanup = mem.cleanup /\ mem'.merge = mem.merge
    BY <2>1, SyncedType
  <2>4. mem.base \in Reach[target'] /\ mem.base \in Reach[mem.post]
    BY <1>p, <2>2 DEF OInv, Below
  <2>5. Below(mem)' /\ (disk.status = "completed" => Below(disk)')
    BY <1>p, <2>2, <2>3, <2>4 DEF OInv, Below
  <2>6. Kept(mem)' /\ Kept(disk)'
    BY <2>2, <2>3 DEF OInv, Kept
  <2> QED  BY <1>p, <2>2, <2>3, <2>5, <2>6 DEF OInv, AfterPublish, Resyncing
<1>8. CASE SaveMerge
  <2>1. CASE disk' = mem /\ mem' = mem /\ Goto("rm_merge")
    <3>1. UNCHANGED target /\ pc' = "rm_merge"
      BY <1>8, <2>1 DEF SaveMerge, Goto
    <3>2. Below(mem)' /\ Below(disk)'
      BY <1>p, <2>1, <3>1 DEF OInv, Below
    <3> QED  BY <1>p, <2>1, <3>1, <3>2 DEF OInv, Kept
  <2>2. CASE disk' = disk /\ Return /\ Fault
    <3>1. GivesUp
      BY <1>8, <2>2, BoundAssumption DEF IInv, TypeOK, Fault, GivesUp, SaveMerge, Return, history
    <3> QED  BY <1>p, <2>2, <3>1, GiveUpKeepsOrder
  <2> QED  BY <1>8, <2>1, <2>2 DEF SaveMerge
<1>9. CASE RemoveMergeWorktree \/ RemoveExecWorktree \/ RemoveBranch
  <2>1. UNCHANGED <<target, disk>> /\ pc \in Removing /\ pc' \in {"rm_exec", "rm_branch", "save_cleanup"}
    BY <1>9 DEF RemoveMergeWorktree, RemoveExecWorktree, RemoveBranch, Remove, Goto, Removing
  <2>2. mem' = mem \/ \E a \in Artifacts, s \in {"succeeded", "failed"} : mem' = [mem EXCEPT !.ledger[a] = s]
    BY <1>9 DEF RemoveMergeWorktree, RemoveExecWorktree, RemoveBranch, Remove, Removal, Artifacts
  <2>3. mem.wt
    <3>1. mem.merge = "succeeded"
      BY <2>1 DEF IInv, AtStep, AfterPublish, Resyncing, Removing
    <3>2. mem.post # None
      BY <1>t, <3>1 DEF IInv, TypeOK, Truthful
    <3> QED  BY <3>2 DEF OInv, Kept
  <2>4. /\ mem'.base = mem.base /\ mem'.post = mem.post /\ mem'.wt = mem.wt
        /\ mem'.cleanup = mem.cleanup /\ mem'.merge = mem.merge
    BY <1>t, <2>2 DEF PlanState
  <2>5. Kept(mem')
    BY <2>3, <2>4 DEF OInv, Kept
  <2> QED  BY <1>p, <2>1, <2>4, <2>5, OrderFrame
<1>10. CASE SaveCleanup
  <2>1. GivesUp
    BY <1>10, BoundAssumption DEF IInv, TypeOK, Fault, NoFault, GivesUp, SaveCleanup, Return, history
  <2>2. /\ Aggregate(mem).status = "completed" /\ Aggregate(mem).base = mem.base
        /\ Aggregate(mem).merge = mem.merge /\ Aggregate(mem).post = mem.post
    BY <1>t, <1>p, AggregateType
  <2>3. Aggregate(mem).wt = mem.wt /\ Aggregate(mem).ledger = mem.ledger
        /\ Aggregate(mem).cleanup # "preserved"
    BY <1>t DEF Aggregate, PlanState
  <2>4. Kept(Aggregate(mem))
    BY <2>2, <2>3 DEF OInv, Kept
  <2> QED  BY <1>10, <1>p, <2>1, <2>2, <2>4, GiveUpKeepsOrder DEF SaveCleanup
<1> QED
  BY <1>1, <1>2, <1>3, <1>4, <1>5, <1>6, <1>7, <1>8, <1>9, <1>10 DEF MergeStep

\* So does every other step, as long as nobody sets the target back.
LEMMA OrderStep ==
  ASSUME "rewind" \notin User
  PROVE  IInv /\ RInv /\ OInv /\ [Next]_vars => OInv'
<1> SUFFICES ASSUME IInv, RInv, OInv, [Next]_vars PROVE OInv'
  OBVIOUS
<1>t. mem \in PlanState /\ disk \in PlanState /\ target \in Commit /\ (\A c \in Commit : c \in Reach[c])
      /\ Fresh \in PlanState
  BY CommitAssumption, FreshType DEF IInv, TypeOK
<1>1. CASE \E c \in Commit : Execute(c)
  <2>1. /\ pc' = "idle" /\ target' = target /\ mem' = mem
        /\ disk' = [Fresh EXCEPT !.status = "completed", !.base = target, !.merge = "pending"]
    BY <1>1 DEF Execute
  <2>2. /\ disk'.status = "completed" /\ disk'.base = target /\ disk'.merge = "pending"
        /\ disk'.post = None /\ disk'.cleanup = "none" /\ disk'.ledger["merge"] = "none"
    BY <2>1 DEF Fresh, NoLedger, Artifacts
  <2> QED  BY <1>t, <2>1, <2>2 DEF OInv, Kept, Below
<1>2. CASE Begin
  BY <1>2 DEF Begin, OInv, Kept, Below, Goto
<1>3. CASE MergeStep
  BY <1>3, MergeKeepsOrder
<1>4. CASE Crash
  <2>1. GivesUp /\ pc # "idle" /\ disk' = disk
    BY <1>4, BoundAssumption DEF IInv, TypeOK, Fault, GivesUp, Crash, Return, history
  <2> QED  BY <2>1, GiveUpKeepsOrder
<1>5. CASE RetryMerge \/ RetryIntegration
  <2>1. /\ disk'.ledger = NoLedger /\ disk'.cleanup = "none" /\ disk'.merge \in {disk.merge, "none"}
        /\ disk'.base = disk.base /\ disk'.status = disk.status
        /\ (disk'.post = disk.post /\ disk'.wt = disk.wt) \/ (disk'.post = None /\ disk'.merge = "none")
    BY <1>5, <1>t DEF RetryMerge, RetryIntegration, PlanState
  <2>2. UNCHANGED <<git, mem, pc, target>>
    BY <1>5 DEF RetryMerge, RetryIntegration
  <2>3. Kept(disk)'
    BY <2>1, <2>2 DEF OInv, Kept, NoLedger, Artifacts
  <2> QED  BY <2>1, <2>2, <2>3 DEF OInv, Kept, Below
<1>6. CASE Reset
  <2>1. disk' = disk \/ disk' = Fresh
    BY <1>6 DEF Reset
  <2>2. UNCHANGED <<mem, pc, target>> /\ git'.merge = git.merge
    BY <1>6 DEF Reset, IInv, TypeOK
  <2>3. Kept(Fresh) /\ Fresh.status = "pending" /\ Fresh.cleanup = "none"
    BY DEF Kept, Fresh, NoLedger, Artifacts
  <2> QED  BY <2>1, <2>2, <2>3 DEF OInv, Kept, Below
<1>7. CASE Developer \/ UNCHANGED vars
  <2>1. UNCHANGED <<git, disk, mem, pc>>
    BY <1>7 DEF Developer, UserMovesTarget, UserEdits, UserUndoesEdits, UserStashes,
       UserSwitchesBranch, vars, history
  <2>2. target' \in Commit /\ target \in Reach[target']
    BY <1>7, <1>t DEF Developer, UserMovesTarget, UserEdits, UserUndoesEdits, UserStashes,
       UserSwitchesBranch, vars, history
  <2>3. \A d \in Reach[target] : d \in Reach[target']
    BY <2>2, CommitAssumption
  <2> QED  BY <2>1, <2>3 DEF OInv, Kept, Below
<1> QED  BY <1>1, <1>2, <1>3, <1>4, <1>5, <1>6, <1>7 DEF Next, Operator

\* The first fault: nothing was integrated by a stale outcome before it, and it
\* integrates nothing.
LEMMA FaultKeepsStuck ==
  ASSUME IInv, TInv, Fault, disk' = disk \/ disk'.merge # "succeeded" \/ ~Tainted(disk')
  PROVE  TInv'
<1>1. faults \in Nat /\ faults' = faults + 1
  BY BoundAssumption DEF IInv, TypeOK, Fault
<1> QED  BY <1>1 DEF TInv, Tainted

\* A refusal without a fault has a reason that stays.
LEMMA StuckRecord ==
  ASSUME IInv, TInv, GivesUp, disk'.merge \in {"refused", "failed"}, faults' = 0 => Stuck(disk')
  PROVE  TInv'
<1>1. mem'.cleanup = "none"
  BY DEF GivesUp, Fresh
<1>2. faults' = 0 => Stuck(disk)'
  BY DEF GivesUp, Stuck, Drifted, Parted, PathTaken
<1>3. TMem'
  BY <1>1 DEF TMem, Tainted
<1>4. faults' = 0 => TDisk'
  BY <1>2 DEF TDisk, GivesUp
<1> QED  BY <1>3, <1>4 DEF TInv, GivesUp

LEMMA FinalizeKeepsStuck ==
  ASSUME IInv, OInv, TInv, pc # "idle", NEW status \in {"refused", "failed"}, NEW created \in BOOLEAN,
         Finalize(mem, status, created) \/ GitFails(status, created),
         UNCHANGED <<target, src, git>>, UNCHANGED history,
         NoFault /\ faults = 0 => Stuck(Finalized(mem, status, created))
  PROVE  TInv'
<1>1. mem \in PlanState
  BY DEF IInv, TypeOK
<1>2. Finalized(mem, status, created).merge = status
  <2>1. status \in MergeStatus
    BY DEF MergeStatus
  <2> QED  BY <1>1, <2>1, FinalizedType
<1>3. CASE Fault
  BY <1>2, <1>3, FaultKeepsStuck DEF Finalize, GitFails
<1>4. CASE NoFault /\ disk' = Finalized(mem, status, created)
  <2>1. GivesUp
    BY <1>4, BoundAssumption DEF IInv, TypeOK, Finalize, GitFails, NoFault, GivesUp, Return, history
  <2> QED  BY <1>2, <1>4, <2>1, StuckRecord DEF NoFault
<1> QED  BY <1>3, <1>4 DEF Finalize, GitFails

\* The steps up to the publish.
LEMMA PrePublishKeepsStuck ==
  ASSUME IInv, RInv, CInv, OInv, TInv,
         \/ Refuse \/ Promote \/ ReadTarget
         \/ ClearMergeWorktree \/ AddMergeWorktree \/ AddMergeWorktreeFails
         \/ MergeFFOnly \/ MergeFFOnlyFails \/ SaveIntent \/ SaveIntentFails
         \/ Publish \/ PublishLosesRace
  PROVE  TInv'
<1>t. /\ mem \in PlanState /\ disk \in PlanState /\ target \in Commit /\ git.merge \in Commit \cup {None}
      /\ git \in [merge : Commit \cup {None}, exec : BOOLEAN, branch : Commit \cup {None}]
      /\ None \notin Commit /\ \A c \in Commit : c \in Reach[c]
  BY CommitAssumption DEF IInv, TypeOK
<1>p. mem.status = "completed" /\ pc # "idle" /\ pc \in PrePublish /\ mem.merge # "succeeded"
      /\ disk.merge # "succeeded"
  BY DEF IInv, AtStep, Refuse, Promote, ReadTarget, ClearMergeWorktree, AddMergeWorktree,
         AddMergeWorktreeFails, MergeFFOnly, MergeFFOnlyFails, SaveIntent, SaveIntentFails, Publish,
         PublishLosesRace, PrePublish, CInv
<1>b. mem.base \in Commit /\ mem.base \in Reach[target] /\ (pc \in Begun => seen = mem.base)
  BY <1>p DEF OInv, Below, RInv, Based
<1>n. NoFault => ~Fault
  BY BoundAssumption DEF IInv, TypeOK, Fault, NoFault
\* The record a refusal leaves has the base and the merge worktree of its run.
<1>f. ASSUME NEW status \in {"refused", "failed"}, NEW created \in BOOLEAN
      PROVE  /\ Finalized(mem, status, created).base = mem.base
             /\ ~created /\ ~mem.wt => ~Finalized(mem, status, created).wt
  <2>1. status \in MergeStatus
    BY <1>f DEF MergeStatus
  <2> QED  BY <1>t, <2>1, FinalizedType, FinalizedKept DEF OInv
<1>1. CASE Refuse
  <2>1. NoFault => ~git.exec \/ Drifted(mem)
    BY <1>1, <1>n DEF Refuse, Finalize, GitFails, Drifted
  <2>2. NoFault => Stuck(Finalized(mem, "refused", FALSE))
    BY <1>f, <2>1 DEF Stuck, Drifted
  <2> QED  BY <1>1, <1>p, <2>2, FinalizeKeepsStuck DEF Refuse
<1>2. CASE AddMergeWorktreeFails
  <2>1. NoFault => pc = "add" /\ ~MergePathFree
    BY <1>2, <1>n DEF AddMergeWorktreeFails, Finalize, GitFails
  <2>2. NoFault /\ faults = 0 => ~mem.wt
    BY <2>1 DEF TInv, MergePathFree
  <2>3. mem.wt \in BOOLEAN /\ Finalized(mem, "failed", FALSE).wt \in BOOLEAN
    BY <1>t, FinalizedType DEF MergeStatus, PlanState
  <2>4. NoFault /\ faults = 0 => Stuck(Finalized(mem, "failed", FALSE))
    BY <1>f, <2>1, <2>2, <2>3 DEF Stuck, PathTaken, MergePathFree
  <2> QED  BY <1>2, <1>p, <2>4, FinalizeKeepsStuck DEF AddMergeWorktreeFails
\* Without drift the merge worktree stands on the base itself.
<1>g. pc = "ff" /\ ~Drifted(mem) => git.merge = mem.base
  <2> SUFFICES ASSUME pc = "ff", mem.base = target PROVE git.merge = target
    BY DEF Drifted
  <2>1. git.merge \in Reach[target]
    BY DEF OInv
  <2>2. target \in Reach[git.merge] /\ git.merge \in Commit
    BY <1>b, <1>t DEF IInv, AtStep, Begun
  <2> QED  BY <1>t, <2>1, <2>2, CommitAssumption
<1>3. CASE MergeFFOnlyFails
  <2>1. NoFault => ~FastForwards /\ ~UpToDate
    BY <1>3, <1>n DEF MergeFFOnlyFails, Finalize, GitFails
  <2>2. NoFault => Drifted(mem) \/ Parted(mem)
    BY <1>3, <1>g, <2>1 DEF MergeFFOnlyFails, FastForwards, UpToDate, Parted
  <2>3. NoFault => Stuck(Finalized(mem, "failed", TRUE))
    BY <1>f, <2>2 DEF Stuck, Drifted, Parted
  <2> QED  BY <1>3, <1>p, <2>3, FinalizeKeepsStuck DEF MergeFFOnlyFails
<1>4. CASE PublishLosesRace
  <2>1. NoFault => target # seen
    BY <1>4, <1>n DEF PublishLosesRace, Finalize, GitFails
  <2>2. NoFault => Stuck(Finalized(mem, "failed", TRUE))
    BY <1>4, <1>b, <1>f, <2>1 DEF Stuck, Drifted, PublishLosesRace, Begun
  <2> QED  BY <1>4, <1>p, <2>2, FinalizeKeepsStuck DEF PublishLosesRace
<1>5. CASE SaveIntentFails
  <2>1. Fault /\ (disk' = disk \/ disk' = Finalized(Intent, "failed", TRUE))
    BY <1>5 DEF SaveIntentFails
  <2>2. Finalized(Intent, "failed", TRUE).merge = "failed"
    <3>1. Intent \in PlanState
      BY <1>t, IntentType
    <3>2. "failed" \in MergeStatus /\ TRUE \in BOOLEAN
      BY DEF MergeStatus
    <3> QED  BY <3>1, <3>2, FinalizedType
  <2> QED  BY <2>1, <2>2, FaultKeepsStuck
\* The others are no fault, and leave the record on disk, or write the intent.
<1>6. CASE Promote
  <2>1. /\ mem.merge = "pending" /\ pc = "preflight" /\ disk' = disk /\ faults' = faults
        /\ mem' = [mem EXCEPT !.merge = "succeeded"] /\ pc' = "resync"
    BY <1>6 DEF Promote, LandedBefore, Goto
  <2>2. mem'.cleanup = mem.cleanup
    BY <1>t, <2>1 DEF PlanState
  <2>3. faults = 0 => ~Tainted(mem) /\ ~Tainted(disk)
    BY <1>p, <2>1 DEF TInv, TMem, TDisk
  <2> QED  BY <1>p, <2>1, <2>2, <2>3 DEF TInv, TMem, TDisk, Tainted
<1>7. CASE ReadTarget
  <2>1. /\ pc = "preflight" /\ pc' = "clear" /\ UNCHANGED <<git, target, disk, mem, faults>> /\ target = mem.base
        /\ git.exec
    BY <1>7 DEF ReadTarget, Goto
  <2>2. faults = 0 /\ Tainted(mem) => Parted(mem) \/ PathTaken(mem)
    BY <2>1 DEF TInv, TMem, Stuck, Drifted
  <2>3. (Parted(mem) <=> Parted(mem)') /\ (PathTaken(mem) <=> PathTaken(mem)') /\ (Stuck(disk) <=> Stuck(disk)')
    BY <2>1 DEF Stuck, Drifted, Parted, PathTaken
  <2>4. faults = 0 => TMem' /\ TDisk'
    BY <1>p, <2>1, <2>2, <2>3 DEF TInv, TMem, TDisk, Tainted, PrePublish
  <2> QED  BY <1>p, <2>1, <2>4 DEF TInv
<1>8. CASE AddMergeWorktree
  <2>1. /\ pc = "add" /\ pc' = "ff" /\ UNCHANGED <<target, disk, mem, faults>> /\ MergePathFree
        /\ git'.merge = target /\ git'.exec = git.exec /\ git'.branch = git.branch
    BY <1>8, <1>t DEF AddMergeWorktree, Goto
  <2>2. faults = 0 /\ Tainted(mem) => Drifted(mem) \/ Parted(mem)
    BY <2>1 DEF TInv, TMem, PathTaken, MergePathFree
  <2>3. (Parted(mem) <=> Parted(mem)') /\ (Drifted(mem) <=> Drifted(mem)') /\ (Stuck(disk) => Stuck(disk)')
    BY <1>t, <2>1 DEF Stuck, Drifted, Parted, PathTaken
  <2>4. faults = 0 => TMem' /\ TDisk'
    BY <1>p, <2>1, <2>2, <2>3 DEF TInv, TMem, TDisk, Tainted, PrePublish
  <2> QED  BY <1>p, <2>1, <2>4 DEF TInv
<1>9. CASE MergeFFOnly
  <2>1. /\ pc = "ff" /\ pc' = "intent" /\ UNCHANGED <<target, disk, mem, faults>>
        /\ FastForwards \/ UpToDate
        /\ git'.merge # None /\ git'.exec = git.exec /\ git'.branch = git.branch
    BY <1>9, <1>t DEF MergeFFOnly, Goto, FastForwards, IInv, AtStep
  <2>2. faults = 0 /\ Tainted(mem) => Drifted(mem)
    BY <1>g, <2>1 DEF TInv, TMem, Parted, FastForwards, UpToDate
  <2>3. (Drifted(mem) <=> Drifted(mem)') /\ (Stuck(disk) => Stuck(disk)')
    BY <1>t, <2>1 DEF Stuck, Drifted, Parted, PathTaken
  <2>4. faults = 0 => TMem' /\ TDisk'
    BY <1>p, <2>1, <2>2, <2>3 DEF TInv, TMem, TDisk, Tainted, PrePublish
  <2> QED  BY <1>p, <2>1, <2>4 DEF TInv
<1>10. CASE SaveIntent
  <2>1. /\ pc = "intent" /\ pc' = "publish" /\ UNCHANGED <<git, target, faults>>
        /\ disk' = Intent /\ mem' = Intent
    BY <1>10 DEF SaveIntent, Goto
  <2>2. Intent.cleanup = mem.cleanup /\ Intent.merge = "pending" /\ Intent.base = mem.base
    BY <1>t, IntentType
  <2>3. faults = 0 => TMem' /\ TDisk'
    BY <2>1, <2>2 DEF TInv, TMem, TDisk, Tainted, PrePublish, Drifted
  <2> QED  BY <2>1, <2>2, <2>3 DEF TInv
<1>11. CASE Publish
  <2>1. /\ pc = "publish" /\ target = seen /\ disk' = disk /\ faults' = faults
        /\ mem' = [mem EXCEPT !.merge = "succeeded"] /\ pc' = "resync"
    BY <1>11 DEF Publish, Goto
  <2>2. mem'.cleanup = mem.cleanup
    BY <1>t, <2>1 DEF PlanState
  <2>3. faults = 0 => ~Tainted(mem) /\ ~Tainted(disk)
    BY <1>b, <1>p, <2>1 DEF TInv, TMem, TDisk, Drifted, Begun, Tainted
  <2> QED  BY <1>p, <2>1, <2>2, <2>3 DEF TInv, TMem, TDisk, Tainted
<1>12. CASE ClearMergeWorktree
  <2>1. /\ pc = "clear" /\ pc' = "add" /\ UNCHANGED <<target, disk, mem>>
        /\ git'.exec = git.exec /\ git'.branch = git.branch
    BY <1>12, <1>t DEF ClearMergeWorktree, Goto
  <2>2. CASE Fault
    BY <2>1, <2>2, FaultKeepsStuck
  <2>3. CASE NoFault /\ git'.merge = IF mem.wt THEN None ELSE git.merge
    <3>1. (Parted(mem) <=> Parted(mem)') /\ (Drifted(mem) <=> Drifted(mem)')
          /\ (PathTaken(mem) => PathTaken(mem)') /\ (Stuck(mem) => Stuck(mem)')
      BY <1>t, <2>1, <2>3 DEF Stuck, Drifted, Parted, PathTaken
    <3>2. faults = 0 => TMem' /\ TDisk'
      BY <1>p, <2>1, <3>1 DEF TInv, TMem, TDisk, Tainted, PrePublish
    <3> QED  BY <1>p, <2>1, <2>3, <3>2 DEF TInv, NoFault
  <2> QED  BY <1>12, <1>t, <2>2, <2>3 DEF ClearMergeWorktree
<1> QED  BY <1>1, <1>2, <1>3, <1>4, <1>5, <1>6, <1>7, <1>8, <1>9, <1>10, <1>11, <1>12

\* The steps after the publish: without a fault their cleanup outcome is their own.
LEMMA PostPublishKeepsStuck ==
  ASSUME IInv, TInv,
         \/ ReadBranch \/ CheckClean \/ ResetHard \/ SaveMerge \/ SaveCleanup
         \/ RemoveMergeWorktree \/ RemoveExecWorktree \/ RemoveBranch
  PROVE  TInv'
<1>t. mem \in PlanState /\ disk \in PlanState
  BY DEF IInv, TypeOK
<1>n. faults \in Nat /\ (Fault => faults' = faults + 1)
  BY BoundAssumption DEF IInv, TypeOK, Fault
<1>c. pc \in AfterPublish /\ (faults = 0 => ~Tainted(mem) /\ ~Tainted(disk))
  <2>1. pc \in AfterPublish
    BY DEF ReadBranch, CheckClean, ResetHard, SaveMerge, SaveCleanup, RemoveMergeWorktree, RemoveExecWorktree, RemoveBranch, Remove, AfterPublish, Resyncing
  <2>2. pc \notin PrePublish /\ pc # "idle"
    BY <2>1 DEF AfterPublish, Resyncing, PrePublish
  <2>3. faults = 0 => ~Tainted(mem)
    BY <2>2 DEF TInv, TMem
  <2>4. faults = 0 => ~Tainted(disk)
    BY <2>2, <2>3 DEF TInv, TDisk, PrePublish
  <2> QED  BY <2>1, <2>3, <2>4
<1>1. CASE ReadBranch \/ CheckClean \/ ResetHard
  <2>1. Resync
    BY <1>1, ResyncStep
  <2>2. mem'.cleanup = mem.cleanup
    BY <2>1, SyncedType
  <2>3. disk' = disk /\ pc \in Resyncing /\ pc' \in Resyncing \cup {"save"} /\ (faults' = faults \/ Fault)
    BY <2>1 DEF Resync, NoFault
  <2> QED  BY <1>c, <1>n, <2>2, <2>3, FaultKeepsStuck DEF TInv, TDisk, TMem, Tainted, Removing, Resyncing
<1>2. CASE SaveMerge
  <2>1. CASE disk' = mem /\ mem' = mem /\ Goto("rm_merge") /\ NoFault
    BY <1>c, <1>n, <2>1 DEF TInv, TDisk, TMem, Tainted, Goto, NoFault, Removing
  <2>2. CASE disk' = disk /\ Fault
    BY <2>2, FaultKeepsStuck
  <2> QED  BY <1>2, <2>1, <2>2 DEF SaveMerge
<1>3. CASE RemoveMergeWorktree \/ RemoveExecWorktree \/ RemoveBranch
  <2>1. disk' = disk /\ pc' \in Removing \cup {"save_cleanup"} /\ pc \in Removing
    BY <1>3 DEF RemoveMergeWorktree, RemoveExecWorktree, RemoveBranch, Remove, Goto, Removing
  <2>2. mem' = mem \/ \E a \in Artifacts, s \in {"succeeded", "failed"} : mem' = [mem EXCEPT !.ledger[a] = s]
    BY <1>3 DEF RemoveMergeWorktree, RemoveExecWorktree, RemoveBranch, Remove, Removal, Artifacts
  <2>3. mem'.cleanup = mem.cleanup /\ pc' # "add"
    BY <1>t, <2>1, <2>2 DEF PlanState, Removing
  <2>4. faults' = faults \/ Fault
    BY <1>3 DEF RemoveMergeWorktree, RemoveExecWorktree, RemoveBranch, Remove, Removal, NoFault
  <2> QED  BY <1>c, <1>n, <2>1, <2>3, <2>4, FaultKeepsStuck DEF TInv, TDisk, TMem, Tainted
<1>4. CASE SaveCleanup
  <2>1. CASE disk' = Aggregate(mem) /\ NoFault
    <3>1. Aggregate(mem).cleanup # "skipped" /\ mem'.cleanup = "none" /\ pc' = "idle"
      BY <1>4, <1>t DEF Aggregate, PlanState, SaveCleanup, Return, Fresh
    <3> QED  BY <2>1, <3>1 DEF TInv, TDisk, TMem, Tainted
  <2>2. CASE disk' = disk /\ Fault
    BY <2>2, FaultKeepsStuck
  <2> QED  BY <1>4, <2>1, <2>2 DEF SaveCleanup
<1> QED  BY <1>1, <1>2, <1>3, <1>4

\* A step of somebody else, which may only make an attempt more hopeless.
LEMMA StuckFrame ==
  ASSUME IInv, OInv, TInv, NoFault, UNCHANGED <<disk, mem, pc>>,
         git'.merge = git.merge, git'.exec => git.exec,
         git'.branch \in {git.branch, None},
         target' = target \/ (target' # target /\ target \in Reach[target'] /\ target' \in Commit)
  PROVE  TInv'
<1>1. ASSUME NEW p, p.base \in Reach[target], Drifted(p) PROVE Drifted(p)'
  <2> SUFFICES ASSUME target' # target, p.base = target' PROVE FALSE
    BY <1>1 DEF Drifted
  <2>1. target' \in Reach[target] /\ target \in Reach[target'] /\ target' \in Commit
    BY <1>1
  <2>2. target \in Commit
    BY <2>1, CommitAssumption
  <2> QED  BY <2>1, <2>2, CommitAssumption
<1>2. Tainted(disk) => disk.status = "completed"
  BY DEF IInv, TypeOK, PlanState, OInv, Tainted
<1>3. Tainted(disk) /\ Stuck(disk) => Stuck(disk)'
  <2>1. disk.status = "completed" /\ Drifted(disk) => Drifted(disk)'
    BY <1>1 DEF OInv, Below, Drifted
  <2> QED  BY <1>2, <2>1 DEF Stuck, Parted, PathTaken
<1>4. pc # "idle" => /\ Drifted(mem) => Drifted(mem)'
                     /\ Parted(mem) => Parted(mem)'
                     /\ PathTaken(mem) => PathTaken(mem)'
                     /\ Stuck(mem) => Stuck(mem)'
  <2>1. pc # "idle" /\ Drifted(mem) => Drifted(mem)'
    BY <1>1 DEF OInv, Below, Drifted
  <2> QED  BY <2>1 DEF Stuck, Parted, PathTaken
<1>5. faults = 0 => TDisk'
  BY <1>3 DEF TInv, TDisk, Tainted
<1>6. faults = 0 => TMem'
  BY <1>4 DEF TInv, TMem, Tainted, PrePublish
<1> QED  BY <1>5, <1>6 DEF TInv, Tainted, NoFault

\* Each step keeps TInv, as long as nobody sets the target back.
LEMMA StuckStep ==
  ASSUME "rewind" \notin User
  PROVE  IInv /\ RInv /\ CInv /\ OInv /\ TInv /\ [Next]_vars => TInv'
<1> SUFFICES ASSUME IInv, RInv, CInv, OInv, TInv, [Next]_vars PROVE TInv'
  OBVIOUS
<1>t. /\ mem \in PlanState /\ disk \in PlanState /\ target \in Commit /\ (\A c \in Commit : c \in Reach[c])
      /\ git \in [merge : Commit \cup {None}, exec : BOOLEAN, branch : Commit \cup {None}]
  BY CommitAssumption DEF IInv, TypeOK
\* A record that the operator has cleared, and one of a run that begins.
<1>k. ASSUME disk'.cleanup = "none", NoFault, UNCHANGED <<mem, pc, git, target>> PROVE TInv'
  <2>1. Stuck(mem)' <=> Stuck(mem)
    BY <1>k DEF Stuck, Drifted, Parted, PathTaken
  <2>2. TMem => TMem'
    BY <1>k, <2>1 DEF TMem, Tainted, Drifted, Parted, PathTaken
  <2> QED  BY <1>k, <2>2 DEF TInv, TDisk, Tainted, NoFault
<1>1. CASE \E c \in Commit : Execute(c)
  <2>1. disk'.cleanup = "none" /\ mem'.cleanup = "none" /\ pc' = "idle"
    BY <1>1 DEF Execute, Fresh, IInv, AtStep
  <2> QED  BY <2>1 DEF TInv, TDisk, TMem, Tainted
<1>2. CASE Begin
  <2>1. /\ pc = "idle" /\ mem' = disk /\ disk' = disk /\ UNCHANGED <<git, target, faults>>
        /\ pc' = IF disk.merge = "succeeded" THEN "resync" ELSE "preflight"
    BY <1>2 DEF Begin, Goto
  <2>2. faults = 0 /\ Tainted(disk) => disk.merge \in {"refused", "failed"} /\ Stuck(disk)
    BY <2>1 DEF TInv, TDisk
  <2>3. Stuck(disk) <=> Stuck(disk)'
    BY <2>1 DEF Stuck, Drifted, Parted, PathTaken
  <2>4. Stuck(disk) <=> Stuck(mem)'
    BY <2>1 DEF Stuck, Drifted, Parted, PathTaken
  <2>5. faults = 0 => TDisk' /\ TMem'
    BY <2>1, <2>2, <2>3, <2>4 DEF TDisk, TMem, Tainted, PrePublish
  <2> QED  BY <2>1, <2>5 DEF TInv, Tainted, Removing
<1>3. CASE MergeStep
  BY <1>3, PrePublishKeepsStuck, PostPublishKeepsStuck DEF MergeStep
<1>4. CASE Crash
  BY <1>4, FaultKeepsStuck DEF Crash
<1>5. CASE RetryMerge \/ RetryIntegration
  <2>1. disk'.cleanup = "none"
    BY <1>5, <1>t DEF RetryMerge, RetryIntegration, PlanState
  <2> QED  BY <1>5, <1>k, <2>1 DEF RetryMerge, RetryIntegration, NoFault
<1>6. CASE Reset
  <2>1. CASE disk' = disk /\ Fault
    BY <2>1, FaultKeepsStuck
  <2>2. CASE disk' = Fresh /\ NoFault
    <3>1. /\ UNCHANGED <<mem, pc, target>> /\ git'.merge = git.merge /\ ~git'.exec /\ git'.branch = None
          /\ disk'.cleanup = "none"
      BY <1>6, <1>t, <2>2 DEF Reset, Fresh
    <3>2. faults = 0 => TMem'
      BY <2>2, <3>1 DEF TInv, TMem, Tainted, Stuck, Drifted, Parted, PathTaken
    <3> QED  BY <2>2, <3>1, <3>2 DEF TInv, TDisk, Tainted, NoFault
  <2> QED  BY <1>6, <2>1, <2>2 DEF Reset
<1>7. CASE Developer \/ UNCHANGED vars
  <2>1. UNCHANGED <<git, disk, mem, pc, faults>>
    BY <1>7 DEF Developer, UserMovesTarget, UserEdits, UserUndoesEdits, UserStashes,
       UserSwitchesBranch, vars, history
  <2>2. target' = target \/ (target' # target /\ target' \in Commit /\ target \in Reach[target'])
    BY <1>7 DEF Developer, UserMovesTarget, UserEdits, UserUndoesEdits, UserStashes,
       UserSwitchesBranch, vars, history
  <2> QED  BY <2>1, <2>2, StuckFrame DEF NoFault
<1> QED  BY <1>1, <1>2, <1>3, <1>4, <1>5, <1>6, <1>7 DEF Next, Operator

----------------------------------------------------------------------------
(* What follows.                                                           *)

\* Type correctness.
THEOREM TypeCorrect == Spec => []TypeOK
<1>1. IInv => TypeOK  BY DEF IInv
<1> QED  BY <1>1, Invariance, PTL

\* The plan branch is deleted only when the target has contained the plan's
\* commits (or the operator discards them): RemoveBranch runs behind a record
\* of success, and a record that names a head names one containing the work.
THEOREM WorkIsNeverLost == Spec => []WorkNotLost
<1>1. IInv => WorkNotLost  BY DEF IInv, BranchIsSafe, WorkNotLost
<1> QED  BY <1>1, Invariance, PTL

\* A success on record names a head the target had, containing the plan's
\* commits, even when Promote took it from an intent a dead process left.
THEOREM SuccessIsTruthful == Spec => []SuccessIsTrue
<1>1. IInv => SuccessIsTrue
  BY CommitAssumption DEF IInv, TypeOK, Truthful, SuccessIsTrue
<1> QED  BY <1>1, Invariance, PTL

\* Nothing is deleted before the success is durable.
THEOREM DeletionFollowsRecord == Spec => DeleteAfterRecord
<1> DEFINE Deletes == (git.exec /\ ~git'.exec) \/ (git.branch # None /\ git'.branch = None)
           Allowed == disk.merge = "succeeded" \/ (discarded' /\ ~discarded)
<1>1. IInv /\ [Next]_vars => [Deletes => Allowed]_vars
  <2> SUFFICES ASSUME IInv, Next, Deletes PROVE Allowed
    BY DEF vars, history
  <2>1. CASE \E a \in Artifacts, step \in Removing, next \in AfterPublish :
               Remove(a, step, next)
    BY <2>1 DEF IInv, AtStep, TypeOK, Remove, Removal, Without, Artifacts
  <2>2. CASE Reset
    BY <2>2 DEF IInv, BranchIsSafe, TypeOK, Reset
  <2>3. CASE \E c \in Commit : Execute(c)
    BY <2>3, CommitAssumption DEF IInv, TypeOK, Execute
  <2>4. CASE ClearMergeWorktree \/ AddMergeWorktree \/ MergeFFOnly
    BY <2>4 DEF IInv, TypeOK, ClearMergeWorktree, AddMergeWorktree, MergeFFOnly
  <2>5. CASE git' = git
    BY <2>5
  <2>6. CASE RemoveMergeWorktree \/ RemoveExecWorktree \/ RemoveBranch
    BY <2>1, <2>6
    DEF RemoveMergeWorktree, RemoveExecWorktree, RemoveBranch, Artifacts, Removing, AfterPublish, Resyncing
  <2> QED
    BY <2>2, <2>3, <2>4, <2>5, <2>6
    DEF Next, Begin, MergeStep, Refuse, Promote, ReadTarget, AddMergeWorktreeFails,
        MergeFFOnlyFails, SaveIntent, SaveIntentFails, Publish, PublishLosesRace, ReadBranch,
        CheckClean, ResetHard, SaveMerge, SaveCleanup, Crash, Operator, RetryMerge, RetryIntegration, Developer,
        UserMovesTarget, UserEdits, UserUndoesEdits, UserStashes, UserSwitchesBranch
<1> QED  BY <1>1, Invariance, PTL DEF Spec, DeleteAfterRecord

\* The publish takes no commit off the target, whatever was pushed between the
\* drift check, the merge worktree and update-ref.
THEOREM PublishOnlyFastForwards == Spec => PublishFastForwards
<1>1. IInv /\ [Next]_vars => [pc = "publish" => target \in Reach[target']]_vars
  <2> SUFFICES ASSUME IInv, Next, pc = "publish" PROVE target \in Reach[target']
    BY DEF vars, history
  <2>1. target \in Commit /\ target \in Reach[target]
    BY CommitAssumption DEF IInv, TypeOK
  <2>2. CASE Publish
    BY <2>2 DEF IInv, AtStep, Publish
  <2>3. CASE \E c \in Commit : UserMovesTarget(c)
    BY <2>3 DEF UserMovesTarget
  <2>4. CASE target' = target
    BY <2>1, <2>4
  <2>5. CASE \E c \in Commit : Execute(c)
    BY <2>5 DEF Execute
  <2> QED
    BY <2>1, <2>2, <2>3, <2>4, <2>5
    DEF Next, Begin, MergeStep, Refuse, Promote, ReadTarget, AddMergeWorktree,
        AddMergeWorktreeFails, MergeFFOnly, MergeFFOnlyFails, SaveIntent, SaveIntentFails,
        PublishLosesRace, ReadBranch, CheckClean, ResetHard, ClearMergeWorktree, SaveMerge,
        RemoveMergeWorktree, RemoveExecWorktree,
        RemoveBranch, Remove, SaveCleanup, Crash, Operator, RetryMerge, RetryIntegration,
        Reset, Developer, UserEdits, UserUndoesEdits, UserStashes, UserSwitchesBranch
<1> QED  BY <1>1, Invariance, PTL DEF Spec, PublishFastForwards

\* PlanMerge implements PlanCustody: a run puts the commits on the branch, a
\* target move delivers them, and the branch is retired after that or discarded.
LEMMA CustodyInit == Init => Custody!Init
<1> SUFFICES ASSUME Init PROVE Custody!Init
  OBVIOUS
<1>1. ~Merged(work)
  BY CommitAssumption DEF Init, Merged
<1> QED  BY <1>1 DEF Init, Custody!Init

LEMMA CustodyStep == IInv /\ IInv' /\ [Next]_vars => [Custody!Next]_(Custody!vars)
<1> SUFFICES ASSUME IInv, IInv', [Next]_vars
             PROVE  Custody!Next \/ UNCHANGED Custody!vars
  BY DEF Custody!vars
<1> USE DEF Custody!vars, Custody!Next
\* A step that leaves branch and operator alone either delivers or stutters.
<1>1. ASSUME UNCHANGED <<work, discarded>>, git'.branch = git.branch, heads \subseteq heads'
      PROVE  Custody!Next \/ UNCHANGED Custody!vars
  <2>1. Merged(work) => Merged(work)'
    BY <1>1 DEF Merged
  <2>2. Merged(work) \in BOOLEAN /\ Merged(work)' \in BOOLEAN
    BY DEF Merged
  <2> QED  BY <1>1, <2>1, <2>2 DEF Custody!Deliver
<1>2. CASE \E c \in Commit : Execute(c)
  <2>1. git.branch = None
    BY <1>2 DEF IInv, BranchIsSafe, Execute
  <2>2. git'.branch # None /\ ~discarded'
    BY <1>2, CommitAssumption DEF IInv, TypeOK, Execute
  <2>3. Merged(work)' \in BOOLEAN
    BY DEF Merged
  <2> QED  BY <2>1, <2>2, <2>3 DEF Custody!Run
<1>3. CASE Reset
  <2>1. git'.branch = None /\ discarded' /\ UNCHANGED <<work, heads>>
    BY <1>3 DEF IInv, TypeOK, Reset
  <2>2. Merged(work)' <=> Merged(work)
    BY <2>1 DEF Merged
  <2> QED  BY <2>1, <2>2 DEF Custody!Discard, Merged
<1>4. CASE RemoveBranch
  <2>1. git'.branch \in {git.branch, None} /\ UNCHANGED <<work, heads, discarded>>
    BY <1>4 DEF IInv, TypeOK, RemoveBranch, Remove, Removal, Without, history
  <2>2. mem.merge = "succeeded" /\ work # None
    BY <1>4 DEF IInv, AtStep, AfterPublish, Resyncing, BranchIsSafe, RemoveBranch, Remove
  <2>3. Merged(work) /\ Merged(work)'
    BY <2>1, <2>2, CommitAssumption DEF IInv, TypeOK, Truthful, Merged
  <2>4. CASE git'.branch = git.branch
    BY <1>1, <2>1, <2>4
  <2>5. CASE git.branch # None /\ git'.branch = None
    BY <2>1, <2>3, <2>5 DEF Custody!Retire, Merged
  <2> QED  BY <2>1, <2>4, <2>5
<1>5. CASE UNCHANGED vars
  BY <1>1, <1>5 DEF vars, history
<1>6. CASE RemoveMergeWorktree \/ RemoveExecWorktree \/ ClearMergeWorktree
           \/ AddMergeWorktree \/ MergeFFOnly
  <2>1. git'.branch = git.branch
    BY <1>6 DEF IInv, TypeOK, RemoveMergeWorktree, RemoveExecWorktree, Remove, Removal,
                Without, ClearMergeWorktree, AddMergeWorktree, MergeFFOnly
  <2> QED
    BY <1>1, <1>6, <2>1
    DEF RemoveMergeWorktree, RemoveExecWorktree, Remove, ClearMergeWorktree, AddMergeWorktree,
        MergeFFOnly, history
<1>7. CASE Publish \/ ReadBranch \/ CheckClean \/ ResetHard \/ Developer
  <2>1. UNCHANGED <<work, discarded, git>> /\ heads \subseteq heads'
    BY <1>7 DEF Publish, ReadBranch, CheckClean, ResetHard, Developer, UserMovesTarget, UserEdits, UserUndoesEdits,
                UserStashes, UserSwitchesBranch, history
  <2> QED  BY <1>1, <2>1
<1> QED
  BY <1>1, <1>2, <1>3, <1>4, <1>5, <1>6, <1>7
  DEF Next, Begin, MergeStep, Refuse, Promote, ReadTarget, AddMergeWorktreeFails,
      MergeFFOnlyFails, SaveIntent, SaveIntentFails, PublishLosesRace, SaveMerge,
      SaveCleanup, Crash, Operator, RetryMerge, RetryIntegration, history

\* A merge implements the custody of the plan's work (module PlanCustody).
THEOREM MergeKeepsCustody == Spec => KeepsCustody
<1>1. Init => Custody!Init
  BY CustodyInit
<1>2. IInv /\ IInv' /\ [Next]_vars => [Custody!Next]_(Custody!vars)
  BY CustodyStep
<1> QED  BY <1>1, <1>2, Invariance, PTL DEF Spec, KeepsCustody, Custody!Spec

\* What update-ref published is in the record through every refusal, failure, crash,
\* re-entry and recovery (finalize's carry-forward, the saved intent), for every commit
\* graph.
THEOREM PublishIsRecordedHolds == Spec => []PublishIsRecorded
<1>1. Init => RInv
  BY CommitAssumption DEF Init, RInv, Based, Recorded, Begun, Fresh
<1>2. RInv => PublishIsRecorded
  BY DEF RInv, Recorded, PublishIsRecorded
<1> QED  BY <1>1, <1>2, RecordStep, Invariance, PTL DEF Spec

\* What a resync has seen stays so, unless the user has been at work since: the target
\* branch is checked out, and after the dirty check there are no edits.
LooksAhead ==
  /\ pc \in {"check", "reset"} /\ ~src.on => "switch" \in late
  /\ pc = "reset" /\ src.edits => "edit" \in late

LEMMA LooksAheadStep == IInv /\ LooksAhead /\ [Next]_vars => LooksAhead'
<1> SUFFICES ASSUME IInv, LooksAhead, [Next]_vars PROVE LooksAhead'
  OBVIOUS
<1>1. CASE ReadBranch \/ CheckClean \/ ResetHard
  BY <1>1 DEF ReadBranch, CheckClean, ResetHard, Synced, Goto, DirtyAgainst, LooksAhead
<1>2. CASE Developer
  <2>1. UNCHANGED pc
    BY <1>2 DEF Developer, UserMovesTarget, UserEdits, UserUndoesEdits, UserStashes, UserSwitchesBranch
  <2>2. /\ late \subseteq late'
        /\ src'.on = src.on \/ "switch" \in late'
        /\ (src'.edits => src.edits) \/ "edit" \in late'
    <3>1. src \in [on : BOOLEAN, tree : {Tree[c] : c \in Commit}, edits : BOOLEAN]
      BY DEF IInv, TypeOK
    <3>2. CASE \E c \in Commit : UserMovesTarget(c)
      BY <3>1, <3>2 DEF UserMovesTarget
    <3>3. CASE \E c \in Commit : UserSwitchesBranch(c)
      BY <3>1, <3>3 DEF UserSwitchesBranch
    <3>4. CASE UserEdits \/ UserUndoesEdits \/ UserStashes
      BY <3>1, <3>4 DEF UserEdits, UserUndoesEdits, UserStashes, history
    <3> QED  BY <1>2, <3>2, <3>3, <3>4 DEF Developer
  <2> QED  BY <2>1, <2>2 DEF LooksAhead
<1>3. CASE pc' \notin {"check", "reset"}
  BY <1>3 DEF LooksAhead
<1>4. CASE UNCHANGED <<pc, src, late>>
  BY <1>4 DEF LooksAhead
<1>5. CASE MergeStep /\ ~(ReadBranch \/ CheckClean \/ ResetHard)
  BY <1>3, <1>5
  DEF MergeStep, Refuse, Promote, ReadTarget, ClearMergeWorktree, AddMergeWorktree,
      AddMergeWorktreeFails, MergeFFOnly, MergeFFOnlyFails, SaveIntent, SaveIntentFails, Publish,
      PublishLosesRace, SaveMerge, RemoveMergeWorktree, RemoveExecWorktree, RemoveBranch, Remove,
      SaveCleanup, Finalize, GitFails, Return, Goto
<1> QED
  BY <1>1, <1>2, <1>3, <1>4, <1>5
  DEF Next, Begin, Goto, Crash, Return, Operator, RetryMerge, RetryIntegration, Reset, Execute, history, vars

\* What a merge overwrites in the source checkout was put there between the resync's look
\* and its reset: it sees every edit that was there before the dirty check, and every
\* branch that was checked out before it read the branch.
THEOREM EditsSurviveHolds == Spec => EditsSurvive
<1> DEFINE Survives == (src.edits => "edit" \in late) /\ (~src.on => "switch" \in late)
<1>1. LooksAhead /\ [Next]_vars => [pc # pc' /\ src' # src => Survives]_vars
  <2> SUFFICES ASSUME LooksAhead, Next, pc # pc', src' # src PROVE Survives
    BY DEF vars
  <2>1. CASE ResetHard
    BY <2>1 DEF ResetHard, LooksAhead
  <2>2. CASE Developer \/ Operator \/ \E c \in Commit : Execute(c)
    BY <2>2 DEF Developer, Operator, RetryMerge, RetryIntegration, Reset, Execute, UserMovesTarget,
       UserEdits, UserUndoesEdits, UserStashes, UserSwitchesBranch
  <2> QED
    BY <2>1, <2>2
    DEF Next, Begin, MergeStep, Refuse, Promote, ReadTarget, ClearMergeWorktree, AddMergeWorktree,
        AddMergeWorktreeFails, MergeFFOnly, MergeFFOnlyFails, SaveIntent, SaveIntentFails, Publish,
        PublishLosesRace, ReadBranch, CheckClean, SaveMerge, RemoveMergeWorktree, RemoveExecWorktree,
        RemoveBranch, Remove, SaveCleanup, Crash
<1>2. Init => LooksAhead
  BY DEF Init, LooksAhead
<1> QED  BY <1>1, <1>2, LooksAheadStep, Invariance, PTL DEF Spec, EditsSurvive

\* A cleanup that is on record as succeeded has left neither worktrees nor branch, even
\* when it took several runs, some of them cut short (retryArtifactRemove).  This is
\* the part of IntegratedIsClean that holds for every history: a plan may also count as
\* integrated by the cleanup outcome that an earlier refusal left in its record.
CleanedIsClean == disk.cleanup = "succeeded" => git.merge = None /\ ~git.exec /\ git.branch = None

\* CleanedIsClean in every reachable state, whatever fails, dies or is recovered.
THEOREM CleanupIsComplete == Spec => []CleanedIsClean
<1>1. Init => CInv
  BY DEF Init, CInv, Swept, PrePublish, Fresh, NoLedger, Artifacts
<1>2. CInv => CleanedIsClean
  BY DEF CInv, Swept, Exists, CleanedIsClean, Artifacts
<1> QED  BY <1>1, <1>2, SweptStep, Invariance, PTL DEF Spec

\* A plan that counts as integrated has left nothing behind, whatever one fault did to its
\* merge (a crash, a failed save or a failed git command), whatever the user pushed, edited
\* or switched to meanwhile, and whichever recovery commands were used, during a merge too.
\* A second fault is one too many, and so is a target set back to where the run began.
THEOREM OneFaultLeavesNothing ==
  ASSUME "rewind" \notin User
  PROVE  Spec => [](faults <= 1 => IntegratedIsClean)
<1>1. Init => RInv /\ CInv
  BY CommitAssumption
  DEF Init, RInv, Based, Recorded, Begun, CInv, Swept, PrePublish, Fresh, NoLedger, Artifacts
<1>2. Init => OInv /\ TInv
  <2> SUFFICES ASSUME Init PROVE OInv /\ TInv
    OBVIOUS
  <2>1. disk = Fresh /\ mem = Fresh /\ pc = "idle"
    BY DEF Init
  <2>2. Kept(Fresh) /\ ~Tainted(Fresh) /\ Fresh.status = "pending" /\ Fresh.cleanup = "none"
    BY DEF Kept, Tainted, Fresh, NoLedger, Artifacts
  <2> QED  BY <2>1, <2>2 DEF OInv, TInv, TDisk, TMem
<1>3. IInv /\ RInv /\ OInv /\ [Next]_vars => OInv'
  BY OrderStep
<1>4. IInv /\ RInv /\ CInv /\ OInv /\ TInv /\ [Next]_vars => TInv'
  BY StuckStep
<1>5. IInv /\ CInv /\ OInv /\ TInv => (faults <= 1 => IntegratedIsClean)
  <2> SUFFICES ASSUME IInv, CInv, OInv, TInv, faults <= 1, pc = "idle", IsIntegrated(disk), disk.merge # "none"
               PROVE  git.merge = None /\ ~git.exec /\ git.branch = None
    BY DEF IntegratedIsClean
  <2>1. disk.merge = "succeeded" /\ disk.cleanup \notin {"none", "failed"}
    BY DEF IsIntegrated
  <2>2. disk.cleanup \notin {"preserved", "skipped"}
    BY <2>1 DEF OInv, Kept, TInv, Tainted, Removing
  <2>3. disk.cleanup = "succeeded"
    BY <2>1, <2>2 DEF IInv, TypeOK, PlanState, CleanStatus
  <2> QED  BY <2>3 DEF CInv, Swept, Exists, Artifacts
<1> QED  BY <1>1, <1>2, <1>3, <1>4, <1>5, RecordStep, SweptStep, Invariance, PTL DEF Spec

=============================================================================

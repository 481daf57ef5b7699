----------------------------- MODULE BatchStart -----------------------------
(***************************************************************************)
(* What `springfield start` settles around a batch: whether its plans are  *)
(* merged into one branch (consolidate) or kept on branches of their own   *)
(* (per-plan), which branch they start from, the auto-branch cut off a     *)
(* protected one, and when each of these is written to run.json; then the  *)
(* base of each plan, and the end: the persisted pause, the archive, the   *)
(* notification and the status line.  A start may die or fail to write at  *)
(* every step, and the operator may start again with other flags, another  *)
(* configuration and another branch checked out.                           *)
(*                                                                         *)
(* What is abstract: a plan is its base, its run and its integration       *)
(* (modules PlanRun and PlanMerge have the rest), one plan at a time       *)
(* (module BatchExec has the phases); flags and configuration are given    *)
(* afresh to every start; a cap is above what was spent or not.            *)
(*                                                                         *)
(* Bounds: MaxFaults failed writes, failed git commands and crashes.       *)
(***************************************************************************)
EXTENDS Integers, Sequences, FiniteSets, SequencesExt

CONSTANTS Plans,      \* the plans of the batch, in order
          Ref,        \* Ref[p]: the base the plan itself names, or None
          Branch,     \* the operator's branches
          Protected,  \* main and master
          AutoNames,  \* the auto-branch's name and its numbered variants
          Requests,   \* flags and configuration a start may be given
          Losses,     \* the plans whose worktree the operator may delete
          MaxFaults,
          None        \* no branch

Plan == ToSet(Plans)

\* --per-plan-branches or branch_mode, --base, base_branch, auto_branch,
\* allow_protected_base, --cost-cap.
Request == [perPlan : BOOLEAN, flag : Branch \cup {None}, conf : Branch \cup {None},
            auto : BOOLEAN, allow : BOOLEAN, cap : {"none", "low", "high"}]

\* A draft has at least one workstream (planner/validate.go), and a workstream is a plan.
ASSUME BatchStartAssumption ==
  /\ Plans \in Seq(Plan) \ {<<>>} /\ AutoNames \in Seq(ToSet(AutoNames)) \ {<<>>}
  /\ Protected \subseteq Branch /\ ToSet(AutoNames) \cap Branch = {}
  /\ None \notin Branch \cup ToSet(AutoNames)
  /\ Ref \in [Plan -> Branch \cup {None}] /\ Losses \subseteq Plan
  /\ Requests \subseteq Request
  /\ MaxFaults \in Nat

VARIABLES
  disk,     \* run.json: [here, mode, base, auto, capped]
  mem,      \* the start's copy of it
  batch,    \* the compiled batch is still there
  archive,  \* its archive entry
  plan,     \* state.json: [status, base, tree] of each plan
  refs,     \* the local branches
  head,     \* the branch checked out, None when detached
  pc,       \* where the start is, "down" for none
  cmd,      \* its flags and configuration
  choice,   \* batchModeDecision: [perPlan, base]
  cur,      \* the plan at work
  res,      \* the BatchRunResult
  news,     \* the notifications it sent
  told,     \* its status line
  faults,   \* faults left
  \* History, read by no action:
  modes,    \* the modes plans of this batch ran under
  owed      \* a pause is on disk that no start has answered with a higher cap

started == <<cmd, choice, cur, res, news, told>>
history == <<modes, owed>>
vars == <<disk, mem, batch, archive, plan, refs, head, pc, started, faults, history>>

----------------------------------------------------------------------------
NoRun == [here |-> FALSE, mode |-> "none", base |-> None, auto |-> None, capped |-> FALSE]
NoRequest == [perPlan |-> FALSE, flag |-> None, conf |-> None, auto |-> FALSE,
              allow |-> FALSE, cap |-> "none"]
NoChoice == [perPlan |-> FALSE, base |-> None]
NewPlan == [status |-> "pending", base |-> None, tree |-> FALSE]

\* A compiled batch; or one that a build without modes has begun.
Init ==
  /\ disk = [NoRun EXCEPT !.here = TRUE] /\ mem = NoRun
  /\ batch = TRUE /\ archive = "none"
  /\ refs \in {Branch, Branch \cup {Head(AutoNames)}} /\ head \in Branch
  /\ pc = "down" /\ cmd = NoRequest /\ choice = NoChoice /\ cur = Head(Plans)
  /\ res = "none" /\ news = <<>> /\ told = "none" /\ faults = MaxFaults
  /\ owed = FALSE
  /\ \/ plan = [p \in Plan |-> NewPlan] /\ modes = {}
     \/ \E b \in Branch, s \in {"begun", "completed"} :
          /\ plan = [p \in Plan |-> IF p = Head(Plans)
                                    THEN [status |-> s, base |-> b, tree |-> TRUE]
                                    ELSE NewPlan]
          /\ modes = {"consolidate"}

Fault == faults > 0 /\ faults' = faults - 1
NoFault == UNCHANGED faults
Or(a, b) == IF a # None THEN a ELSE b

\* WriteRun of r; or it fails, and run.json stays.
Written(r) == disk' = r /\ NoFault
NotWritten == disk' = disk /\ Fault

\* The start returns.
Exit(line, sent) ==
  /\ pc' = "down" /\ told' = line /\ news' = news \o sent
  /\ UNCHANGED <<cmd, choice, cur, res>>

At(step) == pc' = step /\ UNCHANGED <<news, told, cmd, cur>>

----------------------------------------------------------------------------
(* RunE, up to the batch.                                                  *)

\* Mutant: the cap is not asked for.
Begin_AnyCap(c) ==
  /\ pc = "down" /\ disk.here
  /\ mem' = [disk EXCEPT !.capped = FALSE] /\ disk' = mem'
  /\ pc' = IF batch THEN "resolve" ELSE "orphan"
  /\ cmd' = c /\ choice' = NoChoice /\ cur' = Head(Plans)
  /\ res' = "none" /\ news' = <<>> /\ told' = "none"
  /\ owed' = (owed /\ c.cap # "high")
  /\ UNCHANGED <<batch, archive, plan, refs, head, faults, modes>>

\* A cost-capped batch starts only with a cap above what was spent, and the
\* pause is taken off run.json there and then.
Begin(c) ==
  /\ pc = "down" /\ disk.here
  /\ disk.capped => c.cap = "high"
  /\ mem' = [disk EXCEPT !.capped = FALSE] /\ disk' = mem'
  /\ pc' = IF batch THEN "resolve" ELSE "orphan"
  /\ cmd' = c /\ choice' = NoChoice /\ cur' = Head(Plans)
  /\ res' = "none" /\ news' = <<>> /\ told' = "none"
  /\ owed' = (owed /\ c.cap # "high")
  /\ UNCHANGED <<batch, archive, plan, refs, head, faults, modes>>

\* run.json names a batch that is gone: RecoverOrphan archives its name, unless
\* an entry is there, and clears run.json.
RecoverOrphan ==
  /\ pc = "orphan" /\ Exit("orphaned", <<>>)
  /\ archive' = IF archive = "none" THEN "orphaned" ELSE archive
  /\ disk' = NoRun
  /\ UNCHANGED <<mem, batch, plan, refs, head, faults, history>>

anyPlanStarted == \E p \in Plan : plan[p].status # "pending"

\* The mode: what run.json says, else consolidate for a batch in progress, else
\* what is asked for.
PerPlan ==
  IF mem.mode # "none" THEN mem.mode = "per-plan" ELSE ~anyPlanStarted /\ cmd.perPlan

\* The base of a per-plan batch: --base, the recorded one, base_branch, and at
\* last the branch checked out.
Base == Or(cmd.flag, Or(mem.base, Or(cmd.conf, head)))

resolveBatchModeAndBase ==
  /\ pc = "resolve"
  /\ IF PerPlan /\ Base = None THEN Exit("error", <<>>)
     ELSE /\ At("activate") /\ UNCHANGED res
          /\ choice' = [perPlan |-> PerPlan, base |-> IF PerPlan THEN Base ELSE None]
  /\ UNCHANGED <<disk, mem, batch, archive, plan, refs, head, faults, history>>

----------------------------------------------------------------------------
(* autobranch.Activate and its hook.                                       *)

Enabled == cmd.auto /\ ~choice.perPlan

\* A start that finds an auto-branch in run.json goes on with it, whatever the
\* mode, the configuration and the branch checked out are now.
Resume ==
  /\ pc = "activate" /\ mem.auto # None
  /\ At("stamp") /\ UNCHANGED <<choice, res>>
  /\ UNCHANGED <<disk, mem, batch, archive, plan, refs, head, faults, history>>

NoAutoBranch ==
  /\ pc = "activate" /\ mem.auto = None
  /\ ~Enabled \/ head \in Branch \ Protected
  /\ At("stamp") /\ UNCHANGED <<choice, res>>
  /\ UNCHANGED <<disk, mem, batch, archive, plan, refs, head, faults, history>>

\* The names no branch has yet; the first of them is taken.
Free == {k \in DOMAIN AutoNames : AutoNames[k] \notin refs}

\* A detached head, a dirty checkout, no free name left, or the hook's write
\* fails: the start ends as if nothing had been.
Refuse ==
  /\ pc = "activate" /\ mem.auto = None /\ Enabled /\ head \notin Branch \ Protected
  /\ NoFault \/ (Free # {} /\ Fault)
  /\ Exit("error", <<>>)
  /\ UNCHANGED <<disk, mem, batch, archive, plan, refs, head, history>>

\* The name of the auto-branch is on disk before the branch is made.
BeforePersistCreate ==
  /\ pc = "activate" /\ mem.auto = None /\ Enabled /\ head \in Protected
  /\ \E k \in Free : /\ \A j \in Free : k <= j
                    /\ mem' = [mem EXCEPT !.auto = AutoNames[k]] /\ disk' = mem'
  /\ At("create") /\ UNCHANGED <<choice, res>>
  /\ UNCHANGED <<batch, archive, plan, refs, head, faults, history>>

\* git branch; when it fails, run.json is rolled back, if it can be written.
CreateBranch ==
  /\ pc = "create"
  /\ \/ /\ At("stamp") /\ refs' = refs \cup {mem.auto}
        /\ NoFault /\ UNCHANGED <<disk, mem, choice, res>>
     \/ /\ Exit("error", <<>>) /\ mem' = [mem EXCEPT !.auto = None]
        /\ \/ Fault /\ disk' = mem'
           \/ faults > 1 /\ faults' = faults - 2 /\ disk' = disk
        /\ UNCHANGED refs
  /\ UNCHANGED <<batch, archive, plan, head, modes, owed>>

\* Mutants: the auto-branch is the base of the first start only; the mode is
\* not written.
BaseForBatch_Unthreaded == choice.base
Stamp_Forgets ==
  /\ pc = "stamp" /\ At("setup") /\ NoFault
  /\ UNCHANGED <<disk, mem, choice, res>>
  /\ UNCHANGED <<batch, archive, plan, refs, head, history>>

\* The auto-branch is the base, when there is one.
BaseForBatch == Or(mem.auto, choice.base)

\* Mode and base go to run.json once.
Stamp ==
  /\ pc = "stamp"
  /\ mem' = IF mem.mode # "none" THEN mem
            ELSE [mem EXCEPT !.mode = IF choice.perPlan THEN "per-plan" ELSE "consolidate",
                             !.base = choice.base]
  /\ \/ At("setup") /\ Written(mem') /\ UNCHANGED <<choice, res>>
     \/ mem.mode = "none" /\ NotWritten /\ Exit("error", <<>>)
  /\ UNCHANGED <<batch, archive, plan, refs, head, history>>

----------------------------------------------------------------------------
(* runBatchWithContext: the plans, one at a time.                          *)

Integrated(p) == plan[p].status \in {"merged", "retained"}
Result(r) == res' = r /\ At("report") /\ UNCHANGED choice

\* A signal that is already there, or a configuration that does not load, ends
\* the batch before anything has started.
Setup ==
  /\ pc = "setup"
  /\ \/ At("run") /\ UNCHANGED <<choice, res>>
     \/ Result("canceled") \/ Result("startup")
  /\ UNCHANGED <<disk, mem, batch, archive, plan, refs, head, faults, history>>

\* The first plan in order that is not integrated.
Due == {p \in Plan : \E k \in DOMAIN Plans :
          /\ p = Plans[k] /\ ~Integrated(p)
          /\ \A j \in 1..(k - 1) : Integrated(Plans[j])}

\* RunPlan of the next plan that is not integrated: a completed one is only
\* integrated.
NextPlan ==
  /\ pc = "run"
  /\ \/ (\A p \in Plan : Integrated(p)) /\ Result("ok")
     \/ /\ cur' \in Due
        /\ pc' = IF plan[cur'].status = "completed" THEN "integrate" ELSE "prepare"
        /\ UNCHANGED <<cmd, choice, res, news, told>>
     \/ Result("canceled")
  /\ UNCHANGED <<disk, mem, batch, archive, plan, refs, head, faults, history>>

\* Prepare: the base a new worktree is made from, and the one the guard looks at.
Named(p) == Or(Ref[p], BaseForBatch)
baseRef(p) == Or(Named(p), head)
effectiveBaseRef(p) == Or(plan[p].base, baseRef(p))

Rejected(p) ==
  \/ baseRef(p) = None
  \/ Named(p) # None /\ Named(p) \notin refs
  \/ ~cmd.allow /\ ~choice.perPlan /\ effectiveBaseRef(p) \in Protected

\* A recorded worktree that is there is used again with its base; otherwise a
\* new one is made from the base of now.  Any other preflight failure (a dirty
\* checkout, no space) ends it likewise.
Prepare ==
  /\ pc = "prepare"
  /\ \/ /\ ~Rejected(cur) /\ At("plan") /\ UNCHANGED <<choice, res>>
        /\ plan' = [plan EXCEPT ![cur] =
             [status |-> "begun", tree |-> TRUE,
              base |-> IF @.tree THEN @.base ELSE baseRef(cur)]]
        /\ modes' = modes \cup {IF choice.perPlan THEN "per-plan" ELSE "consolidate"}
     \/ /\ Result("failed") /\ UNCHANGED modes
        /\ plan' = [plan EXCEPT ![cur].status = "begun"]
  /\ UNCHANGED <<disk, mem, batch, archive, refs, head, faults, owed>>

\* SinglePlan ends.
RunPlan ==
  /\ pc = "plan"
  /\ \/ /\ pc' = "integrate" /\ UNCHANGED <<cmd, choice, cur, res, news, told>>
        /\ plan' = [plan EXCEPT ![cur].status = "completed"]
     \/ /\ \/ Result("failed") \/ Result("needs-human") \/ Result("canceled")
           \/ cmd.cap # "none" /\ Result("cost-capped")
        /\ UNCHANGED plan
  /\ UNCHANGED <<disk, mem, batch, archive, refs, head, faults, history>>

\* integratePlan: Retain or Integrate; a refusal or a failure halts the batch.
Integrate ==
  /\ pc = "integrate"
  /\ \/ /\ At("run") /\ UNCHANGED <<choice, res>>
        /\ plan' = [plan EXCEPT ![cur].tree = FALSE,
             ![cur].status = IF choice.perPlan THEN "retained" ELSE "merged"]
        /\ modes' = modes \cup {IF choice.perPlan THEN "per-plan" ELSE "consolidate"}
     \/ Result("failed") /\ UNCHANGED <<plan, modes>>
  /\ UNCHANGED <<disk, mem, batch, archive, refs, head, faults, owed>>

----------------------------------------------------------------------------
(* RunE, the result.                                                       *)

\* The one notification of a result, none for a batch that never started.
notifyBatchOutcome ==
  CASE res \in {"startup", "canceled"} -> <<>>
    [] res = "ok" -> <<"complete">>
    [] OTHER -> <<res>>

notifyBatchFailed == <<"failed">>

haltStatusLabels == IF res = "needs-human" THEN "needs-human" ELSE "failed"

\* Mutant: the pause is announced before it is written.
Pause_Early ==
  /\ pc = "report" /\ res = "cost-capped"
  /\ mem' = [mem EXCEPT !.capped = TRUE] /\ Exit("cost-capped", notifyBatchOutcome)
  /\ \/ Written(mem') /\ owed' = TRUE
     \/ NotWritten /\ UNCHANGED owed
  /\ UNCHANGED <<batch, archive, plan, refs, head, modes>>

\* The pause is written, then announced; a pause that cannot be written is
\* announced as a failure.
Pause ==
  /\ pc = "report" /\ res = "cost-capped"
  /\ mem' = [mem EXCEPT !.capped = TRUE]
  /\ \/ Exit("cost-capped", notifyBatchOutcome) /\ Written(mem') /\ owed' = TRUE
     \/ Exit("error", notifyBatchFailed) /\ NotWritten /\ UNCHANGED owed
  /\ UNCHANGED <<batch, archive, plan, refs, head, modes>>

\* An interrupt leaves everything as it is.
Interrupted ==
  /\ pc = "report" /\ res = "canceled" /\ Exit("interrupted", <<>>)
  /\ UNCHANGED <<disk, mem, batch, archive, plan, refs, head, faults, history>>

\* A failure is announced at once; the write of fatal_error changes neither the
\* outcome nor anything modelled here.
Halt ==
  /\ pc = "report" /\ res \in {"startup", "failed", "needs-human"}
  /\ Exit(haltStatusLabels, notifyBatchOutcome) /\ disk' = mem
  /\ UNCHANGED <<mem, batch, archive, plan, refs, head, faults, history>>

\* FinalizeBatch archives the batch, or warns that it cannot.
Archive ==
  /\ pc = "report" /\ res = "ok" /\ At("clear") /\ UNCHANGED <<choice, res>>
  /\ \/ NoFault /\ archive' = "completed" /\ batch' = FALSE
     \/ Fault /\ UNCHANGED <<archive, batch>>
  /\ UNCHANGED <<disk, mem, plan, refs, head, history>>

\* The cursor is cleared, and only then is the batch complete.
ClearRun ==
  /\ pc = "clear"
  /\ \/ Exit("completed", notifyBatchOutcome) /\ Written(NoRun)
     \/ Exit("error", notifyBatchFailed) /\ NotWritten
  /\ UNCHANGED <<mem, batch, archive, plan, refs, head, history>>

----------------------------------------------------------------------------
(* The world around it.                                                    *)

Crash ==
  /\ pc # "down" /\ Fault
  /\ pc' = "down"
  /\ UNCHANGED <<disk, mem, batch, archive, plan, refs, head, started, history>>

\* git switch; the operator's branch is his own while a batch runs.
Switch(b) ==
  /\ head # b /\ head' = b
  /\ UNCHANGED <<disk, mem, batch, archive, plan, refs, pc, started, faults, history>>

\* git worktree remove, of a plan that has begun.
LoseWorktree(p) ==
  /\ pc = "down" /\ p \in Losses /\ plan[p].status = "begun" /\ plan[p].tree
  /\ plan' = [plan EXCEPT ![p].tree = FALSE]
  /\ UNCHANGED <<disk, mem, batch, archive, refs, head, pc, started, faults, history>>

Step ==
  \/ RecoverOrphan \/ resolveBatchModeAndBase
  \/ Resume \/ NoAutoBranch \/ Refuse \/ BeforePersistCreate \/ CreateBranch \/ Stamp
  \/ Setup \/ NextPlan \/ Prepare \/ RunPlan \/ Integrate
  \/ Pause \/ Interrupted \/ Halt \/ Archive \/ ClearRun

Next ==
  \/ \E c \in Requests : Begin(c)
  \/ Step \/ Crash
  \/ \E b \in Branch \cup {None} : Switch(b)
  \/ \E p \in Plan : LoseWorktree(p)

Spec == Init /\ [][Next]_vars

----------------------------------------------------------------------------
(* Properties.                                                             *)

\* The mode of a batch never changes: whatever flag or configuration a later
\* start is given, and wherever an earlier one died, no batch has both merged
\* and retained plans, a batch begun by a build without modes included.
ModeIsFixed == Cardinality(modes) <= 1

\* Once run.json names an auto-branch, every plan that makes its worktree from
\* then on makes it from there, and not from the branch checked out, unless the
\* plan names a base of its own.
AutoBranchIsBase ==
  [][\A p \in Plan : plan[p].base # plan'[p].base /\ Ref[p] = None /\ disk.auto # None
       => plan'[p].base = disk.auto]_vars

\* What a start announces is so, and once: a pause is on disk, a complete batch
\* is integrated and off run.json, and the status line says the same.  Only a
\* start that ran plans announces something, and an interrupted one does not.
NewsIsTrue ==
  /\ Len(news) <= 1
  /\ pc = "down" => \A k \in DOMAIN news :
       /\ news[k] = "complete" => ~disk.here /\ \A p \in Plan : Integrated(p)
       /\ news[k] = "cost-capped" => disk.capped
       /\ told \in {news[k], "error"} \/ (news[k] = "complete" /\ told = "completed")
       /\ told = "error" => news[k] = "failed"
  /\ told \in {"completed", "cost-capped", "needs-human"} => news # <<>>
  /\ res \in {"startup", "canceled"} => news = <<>>

\* A pause on disk is answered: no plan is dispatched until some start has
\* passed a cap above what was spent, whatever died or failed since.
PauseIsAnswered == [][pc = "run" /\ pc' \in {"prepare", "integrate"} => ~owed]_vars

----------------------------------------------------------------------------
(* What comments of the code promise and its behaviour does not keep.      *)

\* planrun/manager.go: the base the guard looks at "is the base the merge phase
\* will actually publish into": no plan of a consolidated batch takes a
\* protected base that the configuration does not allow.
GuardSeesTheBase ==
  [][\A p \in Plan : plan'[p].base # plan[p].base /\ plan'[p].base \in Protected
                       /\ ~choice.perPlan => cmd.allow]_vars
=============================================================================

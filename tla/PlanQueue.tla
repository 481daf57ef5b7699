------------------------------ MODULE PlanQueue ------------------------------
(***************************************************************************)
(* `springfield start` without a batch: the plans of the registry, one     *)
(* after the other, each executed and merged before the next (cmd/start.go *)
(* tryRunSinglePlanUnit and runOnePlan, conductor/scheduler.go), and the   *)
(* commands an operator gives beside it: plans add, remove and reorder,    *)
(* status, and recover --plan in all its forms.                            *)
(*                                                                         *)
(* Two files hold everything: config.json (`units`) and state.json         *)
(* (`saved`).  Every process reads them once, works on its copy, and       *)
(* writes the whole of a file back.  A start holds the control lock        *)
(* (module ControlLock: never two starts); of the other commands only      *)
(* status looks at it, and none of them takes it.                          *)
(*                                                                         *)
(* What is abstract: an entry of state.json is one word, its status and,   *)
(* once the plan's execution has completed, what its merge record says;    *)
(* `known` are the plans whose entry records a worktree.                   *)
(* How a plan is executed is module PlanRun and how it is merged module    *)
(* PlanMerge; here each is the order of its writes and its outcome.  The   *)
(* work of a plan whose entry says `integrated` is in its target branch    *)
(* when it is in `landed`.                                                 *)
(*                                                                         *)
(* Bounds: MaxTrouble things that go wrong, MaxOps commands beside start,  *)
(* and orders up to MaxOrder.                                              *)
(***************************************************************************)
EXTENDS Integers, FiniteSets

CONSTANTS Plans, NoPlan,
          Rank,        \* Rank[p]: the place of p's ID in the alphabet
          MaxOrder,
          Ops,         \* the commands the operator gives beside start
          Overlap,     \* whether also while a start runs
          Torn,        \* those of them that may die between two steps
          MaxOps, MaxTrouble

PlansCommands == {"add", "remove", "reorder"}
Recoveries == {"retry", "retry-merge", "retry-integration"}
Commands == PlansCommands \cup Recoveries
            \cup {"status", "mark-completed", "accept-drift", "reset"}

ASSUME QueueAssumption ==
  /\ IsFiniteSet(Plans) /\ NoPlan \notin Plans
  /\ Rank \in [Plans -> Nat] /\ \A p, q \in Plans : Rank[p] = Rank[q] => p = q
  /\ Ops \subseteq Commands /\ Torn \subseteq Ops /\ Overlap \in BOOLEAN
  /\ {MaxOrder, MaxOps, MaxTrouble} \subseteq Nat /\ Cardinality(Plans) <= MaxOrder

VARIABLES
  units,    \* config.json: the order of each registered plan, 0 of the others
  saved,    \* state.json: the entries, and the queue's record
  capped,   \* run.json: a start was paused by its cost cap
  passed,   \* prd.json: the plans all of whose stories have passed
  landed,   \* the plans whose work, as they are registered, is in their target
  trees,    \* the plans that have a worktree and a branch
  pc, mem, sched, plan, signal,  \* the start: its place, state, schedule, plan
  op, used, \* the command beside it, and how many there have been
  trouble,  \* how much has gone wrong
  \* History, read by no action:
  dropped   \* the plans whose attempt the operator has thrown away

files == <<units, saved, capped, passed, landed, trees>>
start == <<pc, mem, sched, plan, signal>>
vars == <<files, start, op, used, trouble, dropped>>

----------------------------------------------------------------------------
(* Entries and the queue's record.                                          *)

Halted == {"failed", "interrupted", "needs-human"}
Unmerged == {"merging", "refused", "published"}  \* completed, and not integrated
Entry == {"none", "pending", "running", "integrated"} \cup Halted \cup Unmerged

Queue == [status : {"idle", "running", "completed", "halted", "stopped"},
          active : Plans \cup {NoPlan}]
State == [plans : [Plans -> Entry], known : SUBSET Plans, queue : Queue]

NewState == [plans |-> [p \in Plans |-> "none"], known |-> {},
             queue |-> [status |-> "idle", active |-> NoPlan]]
NoUnits == [p \in Plans |-> 0]
Nothing == [cmd |-> "none", plan |-> NoPlan, step |-> "done",
            units |-> NoUnits, state |-> NewState]

Registered(u) == {p \in Plans : u[p] # 0}

Init ==
  /\ units \in [Plans -> 0..Cardinality(Plans)]
     /\ {units[p] : p \in Registered(units)} = 1..Cardinality(Registered(units))
  /\ saved = NewState
  /\ capped = FALSE /\ passed = {} /\ landed = {} /\ trees = {}
  /\ pc = "idle" /\ mem = NewState /\ sched = NoUnits /\ plan = NoPlan /\ signal = FALSE
  /\ op = Nothing /\ used = 0 /\ trouble = 0 /\ dropped = {}

\* What goes wrong comes out of one budget.
Spend == trouble < MaxTrouble /\ trouble' = trouble + 1
Calm == UNCHANGED trouble

\* OrderedPlanUnitIDs: by order, then by ID.
Before(u, p, q) == u[p] < u[q] \/ (u[p] = u[q] /\ Rank[p] < Rank[q])

\* Bug: a plan that has been executed counts, whatever became of its merge.
Integrated_Executed(e) == e \in {"integrated"} \cup Unmerged

\* Bug: a plan that failed is not tried again.
Integrated_OrFailed(e) == e \in {"integrated", "failed"}

\* planIntegrated: a missing entry is not integrated.
Integrated(e) == e = "integrated"

\* NextPlans: the first plan of the schedule that is not integrated.
NextPlans(u, s) ==
  {p \in Registered(u) : ~Integrated(s.plans[p])
     /\ \A q \in Registered(u) : Before(u, q, p) => Integrated(s.plans[q])}

\* NormalizeStaleRunning.  Its caller saves only when a plan has changed.
Stale(s) == \E p \in Plans : s.plans[p] = "running"
Normalized(s) ==
  [s EXCEPT
     !.plans = [p \in Plans |-> IF @[p] = "running" THEN "interrupted" ELSE @[p]],
     !.queue = IF s.queue.status = "running" THEN [status |-> "idle", active |-> NoPlan]
               ELSE s.queue]

\* SaveState by the start: the whole of its memory, or an error.
Save(m, ok) ==
  /\ mem' = m
  /\ IF ok THEN saved' = m /\ Calm ELSE UNCHANGED saved /\ Spend

Running == [mem EXCEPT !.plans[plan] = "running", !.known = @ \cup {plan}]
Mark(e) == [mem EXCEPT !.plans[plan] = e]
QueueIs(s, p) == [mem EXCEPT !.queue = [status |-> s, active |-> p]]

----------------------------------------------------------------------------
(* A start.                                                                 *)

\* The control lock, and the guard of a batch that its cost cap has paused:
\* whoever starts again has raised the cap, or is turned away.
Begin ==
  /\ pc = "idle" /\ (Overlap \/ op = Nothing) /\ Registered(units) # {}
  /\ \/ capped' = FALSE /\ pc' = "load" /\ Calm
     \/ capped /\ Spend /\ UNCHANGED <<capped, pc>>
  /\ UNCHANGED <<units, saved, passed, landed, trees, mem, sched, plan, op, used, dropped>>
  /\ signal' = FALSE

\* LoadProject and NormalizeStaleRunning; the schedule is built once.
Load ==
  /\ pc = "load"
  /\ sched' = units
  /\ \/ /\ mem' = Normalized(saved) /\ saved' = (IF Stale(saved) THEN mem' ELSE saved)
        /\ pc' = "queue" /\ Calm
     \/ Stale(saved) /\ Spend /\ pc' = "idle" /\ UNCHANGED <<mem, saved>>
  /\ UNCHANGED <<units, capped, passed, landed, trees, plan, signal, op, used, dropped>>

\* No agent is configured, or springfield.local.toml cannot be read.
SetUpFails ==
  /\ pc = "queue" /\ Spend /\ pc' = "idle"
  /\ UNCHANGED <<files, mem, sched, plan, signal, op, used, dropped>>

\* The queue is recorded as running, or nothing runs.
Open ==
  /\ pc = "queue"
  /\ \E ok \in BOOLEAN :
       /\ Save(QueueIs("running", mem.queue.active), ok)
       /\ pc' = IF ok THEN "loop" ELSE "idle"
  /\ UNCHANGED <<units, capped, passed, landed, trees, sched, plan, signal, op, used, dropped>>

\* The loop's head: a signal stops it, the end of the schedule completes it,
\* and otherwise the next plan is taken.  saveQueueState only warns.
Stop ==
  /\ pc = "loop" /\ signal
  /\ \E ok \in BOOLEAN : Save(QueueIs("stopped", mem.queue.active), ok)
  /\ pc' = "idle"
  /\ UNCHANGED <<units, capped, passed, landed, trees, sched, plan, signal, op, used, dropped>>

Complete ==
  /\ pc = "loop" /\ ~signal /\ NextPlans(sched, mem) = {}
  /\ \E ok \in BOOLEAN : Save(QueueIs("completed", NoPlan), ok)
  /\ pc' = "idle"
  /\ UNCHANGED <<units, capped, passed, landed, trees, sched, plan, signal, op, used, dropped>>

Take ==
  /\ pc = "loop" /\ ~signal
  /\ \E p \in NextPlans(sched, mem), ok \in BOOLEAN :
       /\ Save(QueueIs("running", p), ok) /\ plan' = p
  /\ pc' = "plan"
  /\ UNCHANGED <<units, capped, passed, landed, trees, sched, signal, op, used, dropped>>

Interrupt ==
  /\ pc # "idle" /\ ~signal /\ Spend /\ signal' = TRUE
  /\ UNCHANGED <<files, pc, mem, sched, plan, op, used, dropped>>

----------------------------------------------------------------------------
(* runOnePlan.                                                              *)

\* nextNonIntegratedCompletedPlan.
MergeOnly == mem.plans[plan] \in Unmerged

\* A plan that has been executed and is not integrated goes to its merge again,
\* unless its recorded base has become protected.
Remerge ==
  /\ pc = "plan" /\ MergeOnly
  /\ \/ pc' = "merge" /\ Calm
     \/ pc' = "halt" /\ Spend
  /\ UNCHANGED <<files, mem, sched, plan, signal, op, used, dropped>>

\* Bug: runOnePlan always executes the plan it has taken.
Execute_Always ==
  /\ pc = "plan" /\ Save(Running, TRUE)
  /\ trees' = trees \cup {plan} /\ pc' = "agent"
  /\ UNCHANGED <<units, capped, passed, landed, sched, plan, signal, op, used, dropped>>

\* SinglePlan up to its first agent: the worktree, which is made unless the entry
\* records it, then the running record.  A start that dies or cannot save in
\* between leaves a worktree no entry records.
Execute ==
  /\ pc = "plan" /\ ~MergeOnly
  /\ plan \in trees => plan \in mem.known
  /\ \E ok \in BOOLEAN : Save(Running, ok) /\ pc' = (IF ok THEN "agent" ELSE "halt")
  /\ trees' = trees \cup {plan}
  /\ UNCHANGED <<units, capped, passed, landed, sched, plan, signal, op, used, dropped>>

\* The preflight refuses: always a worktree that no entry records, and for other
\* reasons now and then.  Whether that is saved, nobody looks.
Refuse ==
  /\ pc = "plan" /\ ~MergeOnly
  /\ mem' = Mark("failed") /\ pc' = "halt"
  /\ \/ plan \in trees \ mem.known /\ saved' = mem' /\ Calm
     \/ saved' \in {mem', saved} /\ Spend
  /\ UNCHANGED <<units, capped, passed, landed, trees, sched, plan, signal, op, used, dropped>>

\* Bug: the terminal record of an executed plan says nothing of its merge, and
\* an entry without a merge record counts as integrated.
Executed_NoMerge ==
  /\ pc = "agent" /\ passed' = passed \cup {plan}
  /\ Save(Mark("integrated"), TRUE) /\ pc' = "merge"
  /\ UNCHANGED <<units, capped, landed, trees, sched, plan, signal, op, used, dropped>>

\* The story loop and the gates end well: completed, its merge pending.
Executed ==
  /\ pc = "agent" /\ passed' = passed \cup {plan}
  /\ \E ok \in BOOLEAN : Save(Mark("merging"), ok) /\ pc' = (IF ok THEN "merge" ELSE "halt")
  /\ UNCHANGED <<units, capped, landed, trees, sched, plan, signal, op, used, dropped>>

\* They do not: the agents, the gates, or a signal.
Fail ==
  /\ pc = "agent" /\ Spend
  /\ \E e \in {"failed", "needs-human"} \cup (IF signal THEN {"interrupted"} ELSE {}) :
       mem' = Mark(e)
  /\ saved' \in {mem', saved} /\ pc' = "halt"
  /\ passed' \in {passed, passed \cup {plan}}
  /\ UNCHANGED <<units, capped, landed, trees, sched, plan, signal, op, used, dropped>>

\* The cost cap pauses the plan.  run.json says so in a write of its own.
Pause ==
  /\ pc = "agent" /\ Spend
  /\ mem' = Mark("interrupted") /\ saved' \in {mem', saved} /\ pc' = "cap"
  /\ UNCHANGED <<units, capped, passed, landed, trees, sched, plan, signal, op, used, dropped>>

WriteCap ==
  /\ pc = "cap" /\ pc' = "halt"
  /\ \/ capped' = TRUE /\ Calm
     \/ UNCHANGED capped /\ Spend
  /\ UNCHANGED <<units, saved, passed, landed, trees, mem, sched, plan, signal, op, used, dropped>>

\* Integrate: the target branch moves.  A published plan is only cleaned up.
Mergeable == plan \in mem.known /\ (plan \in trees \/ mem.plans[plan] = "published")

Publish ==
  /\ pc = "merge" /\ Mergeable /\ landed' = landed \cup {plan} /\ pc' = "record"
  /\ UNCHANGED <<units, saved, capped, passed, trees, mem, sched, plan, signal, op, used,
                 trouble, dropped>>

\* Refused, failed, or an error that leaves the record as it was: always without
\* a worktree, and for other reasons now and then.
Decline ==
  /\ pc = "merge" /\ pc' = "halt"
  /\ IF Mergeable THEN Spend ELSE Calm
  /\ \/ /\ plan \in mem.known /\ mem.plans[plan] # "published"
        /\ mem' = Mark("refused") /\ saved' \in {mem', saved}
     \/ (plan \notin mem.known \/ Mergeable) /\ UNCHANGED <<mem, saved>>
  /\ UNCHANGED <<units, capped, passed, landed, trees, sched, plan, signal, op, used, dropped>>

\* The published merge is saved before anything is removed.
Record ==
  /\ pc = "record"
  /\ \E ok \in BOOLEAN :
       Save(Mark("published"), ok) /\ pc' = (IF ok THEN "cleanup" ELSE "halt")
  /\ UNCHANGED <<units, capped, passed, landed, trees, sched, plan, signal, op, used, dropped>>

\* A save that fails, or a cleanup or source sync that does, ends the start.
Cleanup ==
  /\ pc = "cleanup"
  /\ \/ /\ \E ok \in BOOLEAN : Save(Mark("integrated"), ok) /\ pc' = (IF ok THEN "loop" ELSE "halt")
        /\ trees' = trees \ {plan}
     \/ Spend /\ pc' = "halt" /\ trees' \in {trees, trees \ {plan}} /\ UNCHANGED <<mem, saved>>
  /\ UNCHANGED <<units, capped, passed, landed, sched, plan, signal, op, used, dropped>>

\* runOnePlan returned an error: the queue halts and start returns it.
Halt ==
  /\ pc = "halt"
  /\ \E ok \in BOOLEAN : Save(QueueIs("halted", NoPlan), ok)
  /\ pc' = "idle"
  /\ UNCHANGED <<units, capped, passed, landed, trees, sched, plan, signal, op, used, dropped>>

Crash ==
  /\ pc # "idle" /\ Spend /\ pc' = "idle"
  /\ UNCHANGED <<files, mem, sched, plan, signal, op, used, dropped>>

StartStep ==
  Load \/ SetUpFails \/ Open \/ Stop \/ Complete \/ Take \/ Remerge \/ Execute \/ Refuse \/ Executed
  \/ Fail \/ Pause \/ WriteCap \/ Publish \/ Decline \/ Record
  \/ Cleanup \/ Halt

----------------------------------------------------------------------------
(* The commands beside it.  Each reads the two files, and writes one of     *)
(* them, or both, in later steps.                                           *)

\* availableActions: what recover --plan would do, nothing or one of these.
Available(e) ==
  CASE e \in Halted -> "retry" [] e = "refused" -> "retry-merge"
    [] e = "published" -> "retry-integration" [] OTHER -> "none"

\* The conditions of RecoverRetry, RecoverRetryMerge, RecoverRetryIntegration,
\* MarkPlanCompleted, AcceptInputDrift and ResetPlanFresh on the plan's entry.
Accepts(c, p, e) ==
  CASE c \in Recoveries -> Available(e) = c
    [] c = "mark-completed" -> e \in {"pending"} \cup Halted /\ p \in passed
    [] c = "accept-drift" -> e \in {"pending"} \cup Halted
    [] c = "reset" -> e \in {"pending"} \cup Halted \cup Unmerged
    [] OTHER -> FALSE

\* The state each of them leaves.  RecoverRetryMerge clears the merge record,
\* and a completed plan without one counts as integrated.
After(c, p, s) ==
  LET e == CASE c = "mark-completed" -> "merging" [] c = "retry-merge" -> "integrated"
             [] c = "retry-integration" -> "published" [] c = "remove" -> "none"
             [] OTHER -> "pending"
  IN [s EXCEPT !.plans[p] = e,
               !.known = IF c \in {"reset", "remove"} THEN @ \ {p} ELSE @]

\* Where a command goes first.
FirstStep(c) ==
  CASE c \in Recoveries -> "diagnose" [] c = "status" -> "normalize"
    [] c \in PlansCommands -> "config" [] c = "reset" -> "clean"
    [] OTHER -> "act"

\* status beside a start reads the files and normalises nothing.  (It asks the lock
\* first and then reads: a start that begins in between is not modelled.)
StatusWrites == pc = "idle"

\* LoadProject by a command.
Read ==
  /\ op = Nothing /\ (Overlap \/ pc = "idle") /\ used < MaxOps /\ used' = used + 1
  /\ \E c \in Ops, p \in Plans :
       /\ c = "add" => units[p] = 0
       /\ c \notin {"add", "reorder", "status"} => units[p] # 0
       /\ c = "status" => StatusWrites
       /\ op' = [cmd |-> c, plan |-> p, units |-> units, state |-> saved, step |-> FirstStep(c)]
  /\ UNCHANGED <<files, start, trouble, dropped>>

\* DiagnosePlan, RecoverPlan, loadConductorRegistryStatus: normalise, and save if
\* that has changed a plan.  recover --plan does so twice: it diagnoses, which is
\* all it does with --diagnose or when nothing is available, reads the files
\* again, and acts on what it reads then.
Normalize ==
  /\ op.step \in {"diagnose", "normalize"}
  /\ LET s == Normalized(op.state) IN
       /\ saved' = IF Stale(op.state) THEN s ELSE saved
       /\ op' = IF op.step = "diagnose" /\ Available(s.plans[op.plan]) = op.cmd
                THEN [op EXCEPT !.step = "normalize", !.units = units, !.state = saved']
                ELSE IF op.cmd \in Recoveries /\ op.step = "normalize"
                THEN [op EXCEPT !.step = "act", !.state = s]
                ELSE Nothing
  /\ UNCHANGED <<units, capped, passed, landed, trees, start, used, trouble, dropped>>

\* nextOrder: after the last.
NextOrder(u) == 1 + CHOOSE n \in 0..MaxOrder :
                      (\A p \in Plans : u[p] <= n) /\ n \in {0} \cup {u[p] : p \in Plans}

\* The registry as AddPlanUnit, RemovePlanUnit or ReorderPlanUnits leave it: a new
\* order is free, and a reordering names every registered plan once, from 1.
NewUnits(c, p, u) ==
  CASE c = "add" -> {[u EXCEPT ![p] = n] :
                       n \in {m \in 1..MaxOrder : m = NextOrder(u) \/ \A q \in Plans : u[q] # m}}
    [] c = "remove" -> {[u EXCEPT ![p] = 0]}
    [] OTHER -> {v \in [Plans -> 0..Cardinality(Registered(u))] :
                   /\ Registered(v) = Registered(u)
                   /\ \A q, r \in Registered(u) : v[q] = v[r] => q = r}

\* SaveConfig; RemovePlan goes on to save the state without the plan's entry.  A
\* plan that is added is another plan: its stories have not passed, nor its work
\* landed, whatever the ID's last owner did.
WriteConfig ==
  /\ op.step = "config" /\ units' \in NewUnits(op.cmd, op.plan, op.units)
  /\ op' = IF op.cmd = "remove" THEN [op EXCEPT !.step = "act"] ELSE Nothing
  /\ LET new == IF op.cmd = "add" THEN {op.plan} ELSE {} IN
       passed' = passed \ new /\ landed' = landed \ new /\ dropped' = dropped \ new
  /\ UNCHANGED <<saved, capped, trees, start, used, trouble>>

\* cleanupPlanArtifacts: reset removes the worktree the entry records and its
\* branch, and then saves the entry.
Clean ==
  /\ op.step = "clean"
  /\ IF Accepts("reset", op.plan, op.state.plans[op.plan])
     THEN /\ op' = [op EXCEPT !.step = "act"]
          /\ trees' = trees \ ({op.plan} \cap op.state.known) /\ dropped' = dropped \cup {op.plan}
     ELSE op' = Nothing /\ UNCHANGED <<trees, dropped>>
  /\ UNCHANGED <<units, saved, capped, passed, landed, start, used, trouble>>

\* SaveState: the entry is changed in the command's copy, and the copy saved.
Act ==
  /\ op.step = "act"
  /\ saved' = IF op.cmd = "remove" \/ Accepts(op.cmd, op.plan, op.state.plans[op.plan])
              THEN After(op.cmd, op.plan, op.state) ELSE saved
  /\ op' = Nothing
  /\ UNCHANGED <<units, capped, passed, landed, trees, start, used, trouble, dropped>>

\* A command dies, or a write of it fails.
OpDies ==
  /\ op.cmd \in Torn /\ Spend /\ op' = Nothing
  /\ UNCHANGED <<files, start, used, dropped>>

OpStep == Normalize \/ WriteConfig \/ Clean \/ Act

\* git worktree remove, by the operator: what the preflight asks for when it
\* refuses a worktree that no entry records.
Prune ==
  /\ pc = "idle" /\ op = Nothing
  /\ \E p \in trees \ saved.known : trees' = trees \ {p}
  /\ UNCHANGED <<units, saved, capped, passed, landed, start, op, used, trouble, dropped>>

Next == Begin \/ StartStep \/ Interrupt \/ Crash \/ Read \/ OpStep \/ OpDies \/ Prune

\* Processes get on with it, and the operator follows the refusal's advice and
\* starts again until nothing is left to do; nobody has to give another command.
Fairness ==
  WF_vars(StartStep) /\ WF_vars(OpStep) /\ SF_vars(Prune) /\ WF_vars(Begin)

Spec == Init /\ [][Next]_vars /\ Fairness

----------------------------------------------------------------------------
(* Properties.                                                              *)

TypeOK ==
  /\ units \in [Plans -> 0..MaxOrder] /\ saved \in State /\ capped \in BOOLEAN
  /\ passed \subseteq Plans /\ landed \subseteq Plans /\ trees \subseteq Plans
  /\ pc \in {"idle", "load", "queue", "loop", "plan", "agent", "cap", "merge", "record", "cleanup",
             "halt"}
  /\ mem \in State /\ sched \in [Plans -> 0..MaxOrder] /\ plan \in Plans \cup {NoPlan}
  /\ signal \in BOOLEAN
  /\ op \in [cmd : Commands \cup {"none"}, plan : Plans \cup {NoPlan},
             step : {"done", "diagnose", "normalize", "config", "clean", "act"},
             units : [Plans -> 0..MaxOrder], state : State]
  /\ used \in 0..MaxOps /\ trouble \in 0..MaxTrouble /\ dropped \subseteq Plans

\* The queue is strict: an agent works on a plan only when the work of every plan
\* registered before it is in its target branch, so that what a plan builds on is
\* there, whatever failed, was retried or was reordered before.
QueueOrder ==
  [][pc # "agent" /\ pc' = "agent" =>
       \A q \in Registered(sched) : Before(sched, q, plan) => q \in landed]_vars

\* When start records the queue as completed, the work of every registered plan is
\* in its target branch: no plan counts that only ran, failed to merge, or had
\* another plan's entry.
CompletedMeansLanded ==
  [][saved'.queue.status = "completed" /\ saved' # saved /\ pc = "loop" =>
       Registered(sched) \subseteq landed]_vars

\* A plan whose work has landed is not executed again, through failed saves,
\* crashes, status and recover, unless the operator has reset it.
LandedRunsOnce ==
  [][pc # "agent" /\ pc' = "agent" => plan \notin landed \/ plan \in dropped]_vars

\* Who starts again lands every plan: no entry that failures, crashes, status or
\* recover leave behind takes a plan out of the queue, or blocks the queue, for good.
\* Not if the operator has reset a plan: a reset cut short between the branch and
\* the entry leaves a merge that is refused until the plan is reset again.
EveryPlanLands ==
  \A p \in Plans : units[p] # 0 ~> (p \in landed \/ units[p] = 0 \/ dropped # {})

\* The queue keeps the promise of PlanOrder, with a plan at a time: a plan builds on
\* those registered before it.
Order == INSTANCE PlanOrder WITH
           Plan <- Plans, Crews <- {{p} : p \in Plans},
           on <- pc # "idle",
           needs <- [p \in Plans |-> {q \in Registered(units) : Before(units, q, p)}],
           running <- IF pc \in {"idle", "load", "queue", "loop"} THEN {} ELSE {plan},
           done <- {p \in landed : Integrated(saved.plans[p])}
KeepsOrder == Order!Spec

\* RemovePlan "removes a plan unit by ID and clears any associated state": when
\* nobody is at work, no entry is left of a plan that is not registered.
RemovedIsForgotten ==
  pc = "idle" /\ op = Nothing => \A p \in Plans : units[p] = 0 => saved.plans[p] = "none"

=============================================================================

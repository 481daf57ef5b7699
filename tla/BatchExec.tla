----------------------------- MODULE BatchExec -----------------------------
(***************************************************************************)
(* One batch from `springfield start` to its archive: the phase scheduler  *)
(* (batchexec.Execute and runPhase), the goroutines it dispatches          *)
(* (batchPlanRunner.RunPlan), the cursor run.json, the cost cap, and what  *)
(* the start command does with the result.  A start may be interrupted     *)
(* (SIGINT), may die, and may be run again until the batch is archived.    *)
(*                                                                         *)
(* What is abstract: SinglePlan is its agent iterations, the tamper guard  *)
(* around each, its gates and its terminal record (module PlanRun has the  *)
(* rest); integratePlan is one step (module PlanMerge has the rest); a     *)
(* plan's tree is its prd.json, and that is `left`, the stories that have  *)
(* not passed; money is counted in whole units.                            *)
(*                                                                         *)
(* Bounds: MaxFailures failing, fruitless or tampering steps, MaxCrashes   *)
(* crashes and MaxInterrupts signals in all, Stories[p] stories per plan.  *)
(***************************************************************************)
EXTENDS Integers, Sequences, FiniteSets

CONSTANTS Plan,          \* the plans of the batch
          Phases,        \* its phases: a sequence of [parallel, plans]
          Parallelize,   \* per-plan branches: plans are independent
          MaxParallel,   \* --max-parallel
          Stories,       \* Stories[p]: agent iterations plan p needs
          Costs,         \* what one iteration may cost
          Caps,          \* the values of --cost-cap the operator may pass, 0 for none
          MaxFailures, MaxCrashes, MaxInterrupts,
          Removals       \* the plan units the operator may remove from the registry

PhaseIndex == 1..Len(Phases)
InPhase(i) == {Phases[i].plans[k] : k \in 1..Len(Phases[i].plans)}

ASSUME BatchAssumption ==
  /\ Phases \in Seq([parallel : BOOLEAN, plans : Seq(Plan)])
  /\ UNION {InPhase(i) : i \in PhaseIndex} = Plan
  /\ \A i \in PhaseIndex : \A j, k \in 1..Len(Phases[i].plans) :
       Phases[i].plans[j] = Phases[i].plans[k] => j = k
  /\ Stories \in [Plan -> Nat]
  /\ Parallelize \in BOOLEAN /\ Removals \subseteq Plan
  /\ Costs \subseteq Nat /\ Caps \subseteq Nat
  /\ {MaxParallel, MaxFailures, MaxCrashes, MaxInterrupts} \subseteq Nat

VARIABLES
  plan,     \* state.json: the status of each plan, "integrated" when IsIntegrated
  left,     \* prd.json: the stories of each plan that have not passed
  units,    \* config.json: the registered plan units
  run,      \* run.json: [here, active, costCapped, fatal]
  archive,  \* the archive entry of the batch
  bill,     \* the cost.json files: what the iterations of each plan cost, by number
  spend,    \* cost.ComputeRollup: the sum of those files
  pc,       \* the start process: "down", between phases, in a phase, reporting
  cap,      \* its --cost-cap
  ctxDone,  \* its signal context is cancelled
  loop,     \* runPhase's variables
  job,      \* the goroutine of each plan
  out,      \* the Outcome of each plan's goroutine
  settles,  \* the channel
  guard,    \* each goroutine's tamper guard: the plan trees it watches, as they were
            \* before its agent began
  iter,     \* the iterations each goroutine's story loop has behind it, 0 outside it
  budget,   \* failures, crashes and signals left
  \* History, read by no action:
  outcome,  \* what the last start reported, until the next one begins
  before,   \* the spend when the current start began
  unchecked,  \* its iterations after which the cap was not looked at
  failed,   \* a plan of the current start failed for good
  earned    \* the stories of each plan that Springfield has not marked as passed

record  == <<plan, left, units, run, archive, bill, spend>>
history == <<outcome, before, unchecked, failed, earned>>
vars == <<record, pc, cap, ctxDone, loop, job, out, settles, guard, iter, budget, history>>

----------------------------------------------------------------------------
Status == {"pending", "running", "failed", "needs-human", "interrupted",
           "completed", "integrated"}
Outcome == {"ok", "no-eligible", "cost-capped", "failed", "needs-human", "canceled"}
JobStep == {"off", "start", "iterate", "agent", "gates", "integrate", "sent"}

Idle == [phase |-> 0, pending |-> {}, begun |-> FALSE, inFlight |-> 0, errs |-> {},
         costCapped |-> FALSE, noEligible |-> FALSE, stop |-> FALSE, cancelled |-> FALSE]

NoActive == [p \in Plan |-> "off"]
NoGuard == [q \in {} |-> 0]
NoBill  == [n \in {} |-> 0]
NoIter  == [p \in Plan |-> 0]

Init ==
  /\ plan = [p \in Plan |-> "pending"] /\ left = Stories /\ units = Plan
  /\ run = [here |-> TRUE, active |-> {}, costCapped |-> FALSE, fatal |-> FALSE]
  /\ archive = "none" /\ bill = [p \in Plan |-> NoBill] /\ spend = 0
  /\ pc = "down" /\ cap = 0 /\ ctxDone = FALSE
  /\ loop = Idle /\ job = NoActive /\ out = [p \in Plan |-> "ok"] /\ settles = <<>>
  /\ guard = [p \in Plan |-> NoGuard] /\ iter = NoIter /\ earned = Stories
  /\ budget = [fail |-> MaxFailures, crash |-> MaxCrashes, int |-> MaxInterrupts]
  /\ outcome = "none" /\ before = 0 /\ unchecked = 0 /\ failed = FALSE

Spends(kind) == budget[kind] > 0 /\ budget' = [budget EXCEPT ![kind] = @ - 1]
NoFault == UNCHANGED budget

----------------------------------------------------------------------------
(* springfield start, up to the first phase.                               *)

\* A cost-capped batch starts again only with a cap above what was spent, as far as its
\* records can be read: one that cannot is left out of the sum.
Start(c) ==
  /\ pc = "down" /\ run.here
  /\ \/ (run.costCapped => c > spend) /\ NoFault
     \/ run.costCapped /\ c > 0 /\ Spends("fail")
  /\ run' = [run EXCEPT !.costCapped = FALSE]
  /\ pc' = "phase" /\ cap' = c /\ ctxDone' = FALSE
  /\ outcome' = "none" /\ before' = spend /\ failed' = FALSE
  /\ UNCHANGED <<plan, left, units, archive, bill, spend, loop, job, out, settles, guard, iter,
                 unchecked, earned>>

----------------------------------------------------------------------------
(* batchexec.Execute and runPhase.                                         *)

\* The plans whose goroutine is dispatched and not settled: what runCursor
\* keeps in memory.
Running == {p \in Plan : job[p] # "off"}

\* Mutant: a finished plan whose integration is still due is passed over.
IsTerminal_Completed(p) == plan[p] \in {"completed", "integrated"}

IsTerminal(p) == plan[p] = "integrated"

ParallelActive == Phases[loop.phase].parallel /\ Parallelize /\ MaxParallel > 1
MaxInFlight == IF ParallelActive THEN MaxParallel ELSE 1

\* The next phase, with the plans that are not terminal as it begins; after
\* the last one Execute returns an empty result.
EnterPhase ==
  /\ pc = "phase" /\ loop.phase < Len(Phases)
  /\ loop' = [Idle EXCEPT !.phase = loop.phase + 1,
                          !.pending = {p \in InPhase(loop.phase + 1) : ~IsTerminal(p)}]
  /\ pc' = "loop"
  /\ UNCHANGED <<record, cap, ctxDone, job, out, settles, guard, iter, budget, history>>

AllPhasesDone ==
  /\ pc = "phase" /\ loop.phase = Len(Phases)
  /\ pc' = "report" /\ loop' = [Idle EXCEPT !.phase = loop.phase]
  /\ UNCHANGED <<record, cap, ctxDone, job, out, settles, guard, iter, budget, history>>

CanDispatch ==
  /\ ~loop.stop /\ ~ctxDone
  /\ loop.pending # {} /\ loop.inFlight < MaxInFlight

\* Plans are dispatched in the order of their phase.
FirstPending ==
  LET plans == Phases[loop.phase].plans
  IN {p \in loop.pending : \E k \in DOMAIN plans :
        plans[k] = p /\ \A j \in 1..(k - 1) : plans[j] \notin loop.pending}

\* runCursor: run.json names the plans in flight, `active` when it is written.
checkpoint(active) == run' = [run EXCEPT !.active = active]

\* OnDispatch writes the cursor, the new plan on it, before its goroutine starts.
Dispatch ==
  /\ pc = "loop" /\ CanDispatch
  /\ \E p \in FirstPending :
       /\ job' = [job EXCEPT ![p] = "start"]
       /\ checkpoint(Running \cup {p})
       /\ loop' = [loop EXCEPT !.pending = @ \ {p}, !.begun = TRUE, !.inFlight = @ + 1]
  /\ UNCHANGED <<plan, left, units, archive, bill, spend, pc, cap, ctxDone, out, settles, guard, iter,
                 budget, history>>

\* Mutant: an error does not stop the batch.
Settled_DropsError(o) ==
  CASE o = "no-eligible" -> [loop EXCEPT !.inFlight = @ - 1, !.noEligible = TRUE, !.stop = TRUE]
    [] o = "cost-capped" -> [loop EXCEPT !.inFlight = @ - 1, !.costCapped = TRUE, !.stop = TRUE]
    [] OTHER -> [loop EXCEPT !.inFlight = @ - 1]
\* What one outcome does to the loop's flags: an error stops a serial phase at
\* once, a parallel phase drains.
Settled(o) ==
  CASE o = "no-eligible" -> [loop EXCEPT !.inFlight = @ - 1, !.noEligible = TRUE, !.stop = TRUE]
    [] o = "cost-capped" -> [loop EXCEPT !.inFlight = @ - 1, !.costCapped = TRUE, !.stop = TRUE]
    [] o \in {"failed", "needs-human", "canceled"} ->
         [loop EXCEPT !.inFlight = @ - 1, !.errs = @ \cup {o},
                      !.stop = @ \/ ~ParallelActive]
    [] o = "ok" -> [loop EXCEPT !.inFlight = @ - 1]

\* Mutant: the plan stays on the cursor.
Receive_KeepsCursor ==
  /\ pc = "loop" /\ ~CanDispatch /\ loop.inFlight > 0 /\ settles # <<>>
  /\ LET p == Head(settles) IN
     /\ job' = [job EXCEPT ![p] = "off"]
     /\ loop' = Settled(out[p])
  /\ settles' = Tail(settles)
  /\ UNCHANGED <<record, pc, cap, ctxDone, out, guard, iter, budget, history>>

\* The scheduler takes one settled plan off the channel; OnSettle takes it off
\* the cursor.
Receive ==
  /\ pc = "loop" /\ ~CanDispatch /\ loop.inFlight > 0 /\ settles # <<>>
  /\ LET p == Head(settles) IN
     /\ job' = [job EXCEPT ![p] = "off"]
     /\ checkpoint(Running \ {p})
     /\ loop' = Settled(out[p])
  /\ settles' = Tail(settles)
  /\ UNCHANGED <<plan, left, units, archive, bill, spend, pc, cap, ctxDone, out, guard, iter, budget, history>>

\* Some plan of the phase has told the batch to stop behind it.
Flagged == loop.errs # {} \/ loop.costCapped \/ loop.noEligible

\* The phase is over when nothing is in flight and nothing can be dispatched.
EndPhase ==
  /\ pc = "loop" /\ ~CanDispatch /\ loop.inFlight = 0
  /\ pc' = IF Flagged \/ ctxDone THEN "report" ELSE "phase"
  /\ loop' = [loop EXCEPT !.cancelled = ctxDone /\ ~Flagged]
  /\ UNCHANGED <<record, cap, ctxDone, job, out, settles, guard, iter, budget, history>>

----------------------------------------------------------------------------
(* batchPlanRunner.RunPlan, one goroutine per dispatched plan.             *)

\* The goroutine records the plan's terminal status and sends its outcome.
Settle(p, status, o) ==
  /\ plan' = [plan EXCEPT ![p] = status]
  /\ out' = [out EXCEPT ![p] = o]
  /\ settles' = Append(settles, p)
  /\ job' = [job EXCEPT ![p] = "sent"]
  /\ failed' = (failed \/ o = "failed")

Step(p, status, step) ==
  /\ plan' = [plan EXCEPT ![p] = status]
  /\ job' = [job EXCEPT ![p] = step]
  /\ UNCHANGED <<out, settles, failed>>

\* Mutant: a completed plan goes through SinglePlan, which refuses it.
RunPlan_NoReentry(p) ==
  /\ job[p] = "start"
  /\ \/ plan[p] = "completed" /\ Settle(p, "completed", "failed") /\ NoFault
     \/ plan[p] # "completed" /\ p \notin units /\ Settle(p, plan[p], "no-eligible") /\ NoFault
     \/ plan[p] # "completed" /\ p \in units
        /\ \/ Step(p, "running", "iterate") /\ NoFault
           \/ Settle(p, "failed", "failed") /\ Spends("fail")
  /\ UNCHANGED <<left, units, run, archive, bill, spend, pc, cap, ctxDone, loop, guard, iter, outcome,
                 before, unchecked, earned>>

\* A completed plan is only integrated; SinglePlan refuses a plan that is not
\* registered; any other is prepared and published as running, or fails its
\* preflight.
RunPlan(p) ==
  /\ job[p] = "start"
  /\ \/ plan[p] = "completed" /\ Step(p, "completed", "integrate") /\ NoFault
     \/ plan[p] # "completed" /\ p \notin units /\ Settle(p, plan[p], "no-eligible") /\ NoFault
     \/ plan[p] # "completed" /\ p \in units
        /\ \/ Step(p, "running", "iterate") /\ NoFault
           \/ Settle(p, "failed", "failed") /\ Spends("fail")
  /\ UNCHANGED <<left, units, run, archive, bill, spend, pc, cap, ctxDone, loop, guard, iter, outcome,
                 before, unchecked, earned>>

\* Mutant: the cap fires only when it is exceeded.
CapHit_Exceeded(total) == cap > 0 /\ total > cap

CapHit(total) == cap > 0 /\ total >= cap

\* More than one plan may be in flight, decided by the phase and not by the moment.
Concurrent == ParallelActive /\ Len(Phases[loop.phase].plans) > 1

\* planDirTamperGuard: the plan trees around an agent.  (A guard that is not
\* concurrent watches run.json too; no agent edits that here.)
snapshotPlanTree(watched) == [q \in watched |-> left[q]]
firstTreeDivergence(want, got) == {q \in DOMAIN want : got[q] # want[q]}

\* Mutant: every guard watches the whole plans directory.
tamperGuard_Whole(p) == Plan

\* Where plans run side by side a guard watches its own plan's tree, elsewhere
\* the whole plans directory.
tamperGuard(p) == IF Concurrent THEN {p} ELSE Plan

Snapshot(p) ==
  /\ job[p] = "iterate" /\ left[p] > 0
  /\ job' = [job EXCEPT ![p] = "agent"]
  /\ guard' = [guard EXCEPT ![p] = snapshotPlanTree(tamperGuard(p))]
  /\ UNCHANGED <<record, pc, cap, ctxDone, loop, out, settles, iter, budget, history>>

\* An agent edits a prd.json, its own plan's or another's.
Tamper(p, q) ==
  /\ job[p] = "agent" /\ left[q] > 0 /\ Spends("fail")
  /\ left' = [left EXCEPT ![q] = 0]
  /\ UNCHANGED <<plan, units, run, archive, bill, spend, pc, cap, ctxDone, loop, job, out,
                 settles, guard, iter, history>>

Detect(p) == firstTreeDivergence(guard[p], snapshotPlanTree(DOMAIN guard[p])) # {}

\* What is not in the snapshot is unlinked, what is in it written anew; the rest
\* of the plans directory stays.
putBack(want) == [q \in Plan |-> IF q \in DOMAIN want THEN want[q] ELSE left[q]]

\* The guarded trees are put back to what they were; the plan has failed.
Restore(p) ==
  /\ job[p] = "agent" /\ Detect(p)
  /\ left' = putBack(guard[p])
  /\ guard' = [guard EXCEPT ![p] = NoGuard] /\ iter' = [iter EXCEPT ![p] = 0]
  /\ Settle(p, "failed", "failed") /\ NoFault
  /\ UNCHANGED <<units, run, archive, bill, spend, pc, cap, ctxDone, loop, outcome, before,
                 unchecked, earned>>

\* What one iteration may be: its cost, a story passed, the agent crashed; and which of
\* Springfield's own steps behind it worked: the record written, the pass saved, the
\* records read back.
Fates == [cost : Costs, passed : BOOLEAN, crashed : BOOLEAN,
          written : BOOLEAN, saved : BOOLEAN, read : BOOLEAN]
Faults(f) == {step \in {"agent", "write", "mark", "read"} :
                CASE step = "agent" -> f.crashed \/ ~f.passed
                  [] step = "write" -> ~f.written
                  [] step = "mark"  -> ~f.saved
                  [] step = "read"  -> ~f.read}

\* The record of an iteration takes the place of the one an earlier run of the plan left
\* under its number; a record that cannot be written is a warning.
WriteCost(p, n, cost) ==
  /\ bill' = [bill EXCEPT ![p] =
                [k \in DOMAIN @ \cup {n} |-> IF k = n THEN cost ELSE @[k]]]
  /\ spend' = spend - (IF n \in DOMAIN bill[p] THEN bill[p][n] ELSE 0) + cost

\* Springfield's mark on a story the agent passed.
MarkPassed(p) ==
  /\ left' = [left EXCEPT ![p] = @ - 1]
  /\ earned' = [earned EXCEPT ![p] = @ - 1]

\* The cap stops the plan: it is looked at only when the mark was saved, and a sum that
\* cannot be read counts as under it.
Capped(f) == f.read /\ CapHit(spend')
Broken(f) == f.passed /\ ~f.saved

\* One agent iteration: its cost is recorded, then a passed story, and only then is the
\* cap checked; a crash of the agent comes last, and is forgiven when it had finished
\* the plan.
Iterate(p) ==
  /\ job[p] = "agent" /\ ~Detect(p) /\ guard' = [guard EXCEPT ![p] = NoGuard]
  /\ \E f \in Fates :
       /\ budget.fail >= Cardinality(Faults(f))
       /\ budget' = [budget EXCEPT !.fail = @ - Cardinality(Faults(f))]
       /\ IF f.written THEN WriteCost(p, iter[p] + 1, f.cost) ELSE UNCHANGED <<bill, spend>>
       /\ IF f.passed /\ f.saved THEN MarkPassed(p) ELSE UNCHANGED <<left, earned>>
       /\ unchecked' = IF Broken(f) \/ ~f.read THEN unchecked + 1 ELSE unchecked
       /\ \/ Broken(f) /\ Settle(p, "failed", "failed")
          \/ ~Broken(f) /\ Capped(f) /\ Settle(p, "interrupted", "cost-capped")
          \/ ~Broken(f) /\ ~Capped(f) /\ f.crashed /\ Settle(p, "failed", "failed")
          \/ /\ ~Broken(f) /\ ~Capped(f) /\ (f.crashed => left'[p] = 0)
             /\ Step(p, "running", IF left'[p] = 0 THEN "gates" ELSE "iterate")
  /\ iter' = [iter EXCEPT ![p] = IF job'[p] = "iterate" THEN @ + 1 ELSE 0]
  /\ UNCHANGED <<units, run, archive, pc, cap, ctxDone, loop, outcome, before>>

\* The snapshot or the prompt fails before the agent starts; all stories
\* already passed: straight to the gates.
IterateEnds(p) ==
  /\ job[p] = "iterate"
  /\ \/ left[p] > 0 /\ Settle(p, "failed", "failed") /\ Spends("fail")
     \/ left[p] = 0 /\ Step(p, "running", "gates") /\ NoFault
  /\ iter' = [iter EXCEPT ![p] = 0]
  /\ UNCHANGED <<left, units, run, archive, bill, spend, pc, cap, ctxDone, loop, guard, outcome,
                 before, unchecked, earned>>

\* The verify and review gates; a gate that finds the context cancelled ends
\* with context.Canceled, a failure like any other for the plan.
Gates(p) ==
  /\ job[p] = "gates"
  /\ \/ Step(p, "completed", "integrate") /\ NoFault
     \/ Settle(p, "needs-human", "needs-human") /\ Spends("fail")
     \/ Settle(p, "failed", "failed") /\ Spends("fail")
     \/ ctxDone /\ Settle(p, "failed", "canceled") /\ NoFault
  /\ UNCHANGED <<left, units, run, archive, bill, spend, pc, cap, ctxDone, loop, guard, iter, outcome,
                 before, unchecked, earned>>

Integrate(p) ==
  /\ job[p] = "integrate"
  /\ \/ Settle(p, "integrated", "ok") /\ NoFault
     \/ Settle(p, "completed", "failed") /\ Spends("fail")
  /\ UNCHANGED <<left, units, run, archive, bill, spend, pc, cap, ctxDone, loop, guard, iter, outcome,
                 before, unchecked, earned>>

----------------------------------------------------------------------------
(* What start does with the result.                                        *)

HardFail == loop.errs \cap {"failed", "canceled"} # {}

\* errors.Is(execErr, context.Canceled).
IsCanceled == "canceled" \in loop.errs \/ loop.cancelled

Exit(o) ==
  /\ pc' = "down" /\ cap' = 0 /\ ctxDone' = FALSE /\ loop' = Idle
  /\ outcome' = o /\ before' = 0 /\ unchecked' = 0 /\ failed' = FALSE
  /\ UNCHANGED <<plan, left, units, bill, spend, job, out, settles, guard, iter, budget, earned>>

\* Mutant: a pause for review outranks a failure.
Report_PauseFirst ==
  /\ pc = "report"
  /\ IF IsCanceled THEN Exit("interrupted") /\ UNCHANGED <<run, archive>>
     ELSE IF loop.costCapped
     THEN Exit("cost-capped") /\ run' = [run EXCEPT !.costCapped = TRUE] /\ UNCHANGED archive
     ELSE IF loop.errs # {}
     THEN /\ Exit(IF "needs-human" \in loop.errs THEN "needs-human" ELSE "failed")
          /\ run' = [run EXCEPT !.fatal = TRUE] /\ UNCHANGED archive
     ELSE /\ Exit("completed") /\ archive' = "completed"
          /\ run' = [run EXCEPT !.here = FALSE]

\* A cancelled context leaves everything as it is; the pause is persisted
\* before an error is reported; an error leaves the batch for the next start;
\* anything else archives the batch as completed and clears run.json.
Report ==
  /\ pc = "report"
  /\ IF IsCanceled THEN Exit("interrupted") /\ UNCHANGED <<run, archive>>
     ELSE IF loop.costCapped
     THEN Exit("cost-capped") /\ run' = [run EXCEPT !.costCapped = TRUE] /\ UNCHANGED archive
     ELSE IF loop.errs # {}
     THEN /\ Exit(IF HardFail THEN "failed" ELSE "needs-human")
          /\ run' = [run EXCEPT !.fatal = TRUE] /\ UNCHANGED archive
     ELSE /\ Exit("completed") /\ archive' = "completed"
          /\ run' = [run EXCEPT !.here = FALSE]

----------------------------------------------------------------------------
(* The world around it.                                                    *)

\* SIGINT or SIGTERM: agents of the story loop run on.
Interrupt ==
  /\ pc \in {"phase", "loop"} /\ ~ctxDone /\ Spends("int")
  /\ ctxDone' = TRUE
  /\ UNCHANGED <<record, pc, cap, loop, job, out, settles, guard, iter, history>>

\* The process dies with all its goroutines.
Crash ==
  /\ pc # "down" /\ Spends("crash")
  /\ pc' = "down" /\ cap' = 0 /\ ctxDone' = FALSE /\ loop' = Idle
  /\ job' = NoActive /\ settles' = <<>> /\ guard' = [p \in Plan |-> NoGuard]
  /\ iter' = NoIter
  /\ outcome' = "crash" /\ before' = 0 /\ unchecked' = 0 /\ failed' = FALSE
  /\ UNCHANGED <<record, out, earned>>

\* springfield plans remove, between two starts.
RemovePlan(p) ==
  /\ pc = "down" /\ run.here /\ p \in Removals \cap units /\ units # {p}
  /\ units' = units \ {p} /\ plan' = [plan EXCEPT ![p] = "pending"]
  /\ UNCHANGED <<left, run, archive, bill, spend, pc, cap, ctxDone, loop, job, out, settles, guard, iter,
                 budget, history>>

Scheduler == EnterPhase \/ AllPhasesDone \/ Dispatch \/ Receive \/ EndPhase \/ Report
Goroutine(p) == RunPlan(p) \/ Snapshot(p) \/ Restore(p) \/ Iterate(p) \/ IterateEnds(p)
                  \/ Gates(p) \/ Integrate(p)

Next ==
  \/ \E c \in Caps : Start(c)
  \/ Scheduler
  \/ \E p \in Plan : Goroutine(p) \/ RemovePlan(p)
  \/ \E p, q \in Plan : Tamper(p, q)
  \/ Interrupt \/ Crash

Spec == Init /\ [][Next]_vars

\* The scheduler and every goroutine keep running.
FairSpec == Spec /\ WF_vars(Scheduler) /\ \A p \in Plan : WF_vars(Goroutine(p))

\* ... and an operator keeps starting the batch, without a cap when he may.
RestartSpec == FairSpec /\ WF_vars(\E c \in Caps : Start(c))

----------------------------------------------------------------------------
(* Properties.                                                             *)

TypeOK ==
  /\ plan \in [Plan -> Status] /\ left \in [Plan -> Nat] /\ units \subseteq Plan
  /\ run \in [here : BOOLEAN, active : SUBSET Plan, costCapped : BOOLEAN, fatal : BOOLEAN]
  /\ archive \in {"none", "completed"} /\ spend \in Int
  /\ DOMAIN bill = Plan
  /\ \A p \in Plan : \A n \in DOMAIN bill[p] : n \in Nat /\ bill[p][n] \in Nat
  /\ pc \in {"down", "phase", "loop", "report"} /\ cap \in Nat /\ ctxDone \in BOOLEAN
  /\ loop \in [phase : 0..Len(Phases), pending : SUBSET Plan, begun : BOOLEAN, inFlight : Nat,
               errs : SUBSET Outcome, costCapped : BOOLEAN, noEligible : BOOLEAN,
               stop : BOOLEAN, cancelled : BOOLEAN]
  /\ job \in [Plan -> JobStep] /\ out \in [Plan -> Outcome] /\ settles \in Seq(Plan)
  /\ DOMAIN guard = Plan
  /\ \A p \in Plan : \E watched \in SUBSET Plan : guard[p] \in [watched -> Nat]
  /\ earned \in [Plan -> Nat] /\ iter \in [Plan -> Nat]
  /\ budget \in [fail : 0..MaxFailures, crash : 0..MaxCrashes, int : 0..MaxInterrupts]
  /\ outcome \in {"none", "interrupted", "cost-capped", "failed", "needs-human",
                  "completed", "crash"}
  /\ before \in Int /\ unchecked \in Nat /\ failed \in BOOLEAN

\* The phase barrier: a plan runs only when every plan of every earlier phase
\* is integrated, whatever failed, paused, was interrupted or died before.
PhaseBarrier ==
  \A p \in Running : \A i \in 1..(loop.phase - 1) : \A q \in InPhase(i) :
    plan[q] = "integrated"

\* run.json names the plans in flight and no others, as soon as this start has
\* dispatched one (a stale cursor of a dead start may stay until then).
CursorTruthful ==
  pc # "down" /\ loop.begun => run.active = Running

\* A batch archived as completed has every plan integrated, unless the operator
\* took a plan unit away.
ArchivedMeansIntegrated ==
  archive = "completed" /\ units = Plan => \A p \in Plan : plan[p] = "integrated"

\* A story Springfield has marked as passed is never taken back: the guard of
\* one plan's agent does not put another plan's prd.json back to before it.
ProgressStays == \A p \in Plan : left[p] <= earned[p]

\* The cap is a cap on what is on record: each slot of the phase may let one more
\* iteration past it, the one that reaches it included, and no slot a second one; on top
\* come the iterations after which Springfield failed to look at it.
CapOvershoot ==
  cap > 0 /\ pc = "loop" =>
    spend <= (IF before >= cap THEN before ELSE cap - 1)
               + (MaxInFlight + unchecked) * (CHOOSE m \in Costs : \A c \in Costs : c <= m)

\* A failure is never reported as less: not as a pause for review, not as an
\* interrupt when there was no signal, not as success (the cost-cap pause, which
\* outranks it, is saved).
FailureIsReported ==
  [][pc = "report" /\ pc' = "down" /\ failed /\ ~ctxDone
       => outcome' \in {"failed", "cost-capped", "crash"}]_vars

\* A batch keeps the promise of PlanOrder: a plan builds on the plans of the phases
\* before its first one, and runs beside plans of its phase, as many as that has slots.
Behind(p) == UNION {InPhase(i) : i \in {j \in PhaseIndex : \A k \in 1..j : p \notin InPhase(k)}}
PhaseCrews(i) ==
  {crew \in SUBSET InPhase(i) :
     Cardinality(crew) <= IF Phases[i].parallel /\ Parallelize /\ MaxParallel > 1 THEN MaxParallel ELSE 1}
Order == INSTANCE PlanOrder WITH
           Crews <- UNION {PhaseCrews(i) : i \in PhaseIndex},
           on <- pc # "down", needs <- [p \in Plan |-> Behind(p)], running <- Running,
           done <- {p \in Plan : plan[p] = "integrated"}
KeepsOrder == Order!Spec

\* With finitely many failures, crashes and signals, an operator who keeps
\* starting the batch sees it archived.
BatchFinishes == <>(archive = "completed")

\* What runner.go:742-744 says of the cap: a plan with many iterations cannot blow past
\* it.  For that the record of no iteration may replace another's; a plan that is run
\* again counts its iterations from 1 and replaces what it spent before.
RecordsAreFresh == \A p \in Plan : job[p] = "agent" => iter[p] + 1 \notin DOMAIN bill[p]
=============================================================================

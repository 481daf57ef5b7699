# Springfield in TLA+

Springfield drives coding agents through batches of plans.  A *batch* is a list
of phases, a phase a list of *plans* (run one after the other, or up to
`--max-parallel` at once), a plan a list of *user stories* in a `prd.json`.
Each plan runs in a git worktree of its own on a branch of its own, passes a
verify gate and a review gate, and is then merged into the target branch.  The
state of all this is a handful of files under `.springfield/` and the
repository's branches and worktrees; there is no database and no transaction.
What makes the program hard is that it is killed, interrupted, capped and
restarted at will, that several plans run at once in one process, that the
user and his git work in the same repository meanwhile, and that a set of
recovery commands edits the same files.

These modules describe the parts of the program where that matters.  Paths
below are relative to `src/`; `conductor/` stands for
`internal/features/conductor/`.

## Contents

| File | What it is |
|---|---|
| `PlanMerge.tla` | the merge of one completed plan, its record, and the commands that rewrite it |
| `PlanOrder.tla` | what a start promises about the order of plans; `BatchExec` and `PlanQueue` implement it |
| `PlanCustody.tla` | what the merge promises about a plan's commits; `PlanMerge` implements it |
| `PlanMergeProofs.tla` | proofs about `PlanMerge` |
| `BatchExec.tla` | one batch: phase scheduler, goroutine per plan, tamper guards, cursor, cost cap |
| `BatchExecProofs.tla` | proofs about `BatchExec` |
| `BatchStart.tla` | what `start` settles around a batch: mode, base, auto-branch, `run.json`, archive and announcement |
| `BatchStartProofs.tla` | proofs about `BatchStart` |
| `PlanRun.tla` | one plan over many starts: `SinglePlan` and the commands in between |
| `PlanRunProofs.tla` | proofs about `PlanRun` |
| `BatchLife.tla` | the batches of a project: compile, append, replace, start, finalize, abort, orphan cleanup, one file write a step |
| `BatchLifeProofs.tla` | proofs about `BatchLife` |
| `PlanQueue.tla` | `start` without a batch: the queue of registered plans, and the commands that rewrite `config.json` and `state.json` beside it |
| `PlanQueueProofs.tla` | proofs about `PlanQueue` |
| `ControlLock.tla` | the flock that keeps two starts apart, and the probes of `status` and `recover` |
| `ControlLockProofs.tla` | proofs about `ControlLock` |
| `AgentExec.tla` | one dispatch of an agent: process, pipes, scanners, deadline, stall watcher, and the record they write to |
| `AgentChain.tla` | the fallback chain of agents, its cooldowns and the turn cap, over the calls of a plan |
| `AgentAdapters.tla` | what the four adapters make of a transcript; `AgentChain` extends it |
| `AgentProofs.tla` | proofs about `AgentExec` and `AgentChain` |
| `MC*.tla`, `*.cfg` | the instances TLC checks |
| `PROJECT.json` | the machine-readable index: components, runs, mutants, map to the source, findings, hazards, theorems |

    tlasany PlanRun.tla
    tlc -workers 2 -config PlanRun_safety.cfg MCPlanRun
    tlapm PlanRunProofs.tla

## The system

### Components

**Batch scheduler** (`conductor/batchexec/batchexec.go`, `cmd/start.go`).
State: the in-memory loop of a phase (pending plans, in-flight count, errors,
flags), the cursor `run.json` (active plans, cost-capped, fatal error).
Operations: `Execute`, `runPhase` (dispatch, receive, drain), `OnDispatch` and
`OnSettle`, the branches of `RunE` behind it (interrupted, capped, failed,
archived).  Hard: completion order, a failing sibling, a pause and a failure
and a signal in one phase, a start that dies.  Correct when: phases are
barriers, slots are respected, nothing is archived that is not integrated,
every goroutine is drained, the pause survives, failures are not eclipsed.

**Plan execution** (`conductor/planrun/runner.go`, `merge_gate.go`).  State:
the plan's entry of `state.json`, `prd.json`'s passes, branch and worktree,
the setup marker.  Operations: preflight, worktree creation or reuse, setup,
story loop, gates, terminal record.  Hard: four places written one after the
other, a crash between any two, a save that fails, stale in-memory copies.
Correct when: an agent never works in an unrecorded worktree, gates are
entered only with every story passed, success is durable, and a start
resumes where the last one died.

**Verify and review gates** (`conductor/planrun/verifygate.go`,
`reviewgate.go`).  State: round, consecutive time-outs.  Operations: run the
check, send a fix agent, hand over to a human.  Correct when: what completes
is what the last gate saw.

**Plan merge** (`conductor/planmerge/integrate.go`, `git.go`,
`conductor/types.go`).  State: the target branch, the merge worktree, the plan
branch, the completion record.  Operations: drift check, worktree, fast
forward, publish intent, `update-ref`, resync of the source checkout, record,
cleanup matrix, and their retries.  Hard: the record and the repository
change in different steps, the user pushes, rewinds, edits, stashes and
switches meanwhile.  Correct when: no commit is ever lost, the record is true,
cleanup converges.

**Recovery commands** (`conductor/recover.go`, `internal/features/execution/recover.go`,
`cmd/recover.go`).  State: none; they rewrite the plan's entry, and with
`--reset` the repository.  Correct when: the next start does what the command
says it will.

**Conductor state** (`conductor/project.go`, `types.go`, `resume.go`).  State:
`state.json` and its copy in memory under a mutex.  Operations: load, save
(temporary file and rename), `UpdatePlan`, `NormalizeStaleRunning`.

**Batch storage and its commands** (`internal/features/batch/*.go`,
`cmd/plan.go`, `cmd/batch.go`, `conductor/plan_units.go`).  State:
`batch.json`, each plan's `prd.json`, the plan units of `config.json`,
`state.json`, `run.json`, the evidence and the archive.  Operations: `plan`
(new, `--replace`, `--append`), `batch abort`, `FinalizeBatch`,
`RecoverOrphan`.  Hard: seven stores written one after the other by commands
that take no lock, a failure or a crash between any two, a start whose tamper
guard puts files back.  Correct when: a batch is always either there or in the
archive, its entry and evidence stay, what is archived as completed has run,
and the cursor is released in the end.

**Agent runtime** (`internal/core/runtime/`, `internal/core/exec/index.go`).
State: a cooldown per agent, kept by a `Runner`, one for each execution of a
plan; of one dispatch, the process, two pipes, two scanners, the deadline.
Operations: try the agents in order, pass over the cooled ones, judge what came
back (the process's error, the turn cap, the adapter's validation), cool or
forgive.  Hard: three judges in a row over one transcript, output that nobody
reads, children that outlive the agent, a kill that races the end.  Correct
when: success is work, every line is kept in order, a dispatch returns.

**Agent adapters** (`internal/core/agents/`).  State: none.  They decide, each
in its way, whether a transcript is work done, whether a failure lets the next
agent try, and for how long claude is left alone.

**Stall detector** (`internal/core/stall/`).  State: the time of the last
event, whether it has fired.  Hard: its callback writes the plan's record from
a goroutine of its own.  Correct when: no escalation touches a record that is
final.

**Control lock** (`internal/core/lock/`).  State: an flock on a file that is
never removed by the program, and the pid in it.  Hard: the file may be removed
and created again between `open` and `flock`.  Correct when: one start at a
time, and the file names it.

**Single-plan queue** (`cmd/start.go`, `conductor/scheduler.go`).  State: the
queue record in `state.json`, the schedule built as a start begins.
Operations: load and normalise, take the first plan that is not integrated,
execute it, merge it, halt.  Hard: a dozen saves of the whole file, each of
which may fail or be the last; commands that rewrite the same file between two
starts.  Correct when: an agent works only on top of everything before it,
"completed" means landed, what has landed is not run again, and who starts
again gets to the end.

**Plan registry** (`conductor/plan_units.go`, `internal/features/execution/plans.go`):
the plan units of `config.json` and their order; `plans add`, `remove`,
`reorder`.

**Auto branch** (`internal/features/autobranch/`), with the batch's mode and
base (`cmd/start.go`).  State: fields of `run.json`.  Operations: decide
the mode, cut a branch off a protected one, resume on it, stamp mode and base.
Hard: name on disk, branch, stamp, first plan: four steps and a new start with
other flags may come between any two.  Correct when: the mode and the base of a
batch never change.

**Tamper guard** (`cmd/start.go`): a snapshot of the plan trees and of
`run.json` around every agent, put back when they differ.  **Notification**
(`internal/features/notify/`): correct when what is announced is so.
**Worktree setup**, **cost rollup**, **PRD and story selection**, **plan
compilation**, **standalone retention**, **plan diagnosis**: see
`PROJECT.json`.  **Configuration, status views, planner, plan review scan,
skills, doctor**: no shared mutable state that a property could be about.

### How they interact

    start ── control lock ── Execute ──┬─ goroutine: RunPlan ── SinglePlan ── gates
      │                        │       │                 └──── Integrate
      │                     run.json   └─ goroutine: ...
      │                                         │
      ├─ FinalizeBatch ── archive               ├─ state.json   (conductor mutex)
      └─ recover, plans, status  ─────────────  ├─ prd.json, evidence, marker
         (most without the lock)                └─ branches, worktrees (git lock)

`Execute` calls `RunPlan` in a goroutine per plan and hears of the end of each
on a channel.  `RunPlan` re-enters a completed plan straight at its
integration; any other goes through `SinglePlan`, which writes the plan's
entry at three places (running, failed preflight, terminal).  In consolidate
mode, the one with `Integrate`, plans run one at a time, so the merges are
serial; parallel phases belong to per-plan mode, whose integration keeps the
branches.  Preparing a worktree and recording it happen under one git lock.
Recovery commands write what the next start reads.

Inside `SinglePlan`, every iteration goes through `Runner.Run` (the chain),
which goes through `exec.Run` (the process) and asks the adapter twice: to
build the command and to judge the transcript.  The stall detector listens to
the same events and writes to the same record of `state.json`.  `start` without
a batch runs the same `runOnePlan` and `Integrate` over the registry, one plan
after the other.

### What is hard to test

`PROJECT.json` lists the hazards, each at its line, with the property that
covers it.  In short: *crashes between two writes* (worktree and running
record, commit and passes, publish and record, record and cleanup, setup and
marker), *failed saves*, *two signals in one phase* (cap and failure, cap and
interrupt), *goroutines of one dispatch* (scanners, killer, watcher, the end),
*a start given other flags than the one before it*, *two starts and a lock file
that is removed*, *commands in an order nobody expected* (reset after all stories
have passed, retry-merge, removal of a plan of an active batch), *the user's
hands in the repository* during a merge, *stale copies* (the prd in memory,
the cleanup record of an earlier attempt, a marker of an earlier worktree),
and *something must eventually happen* (every start returns, every batch is
archived, every plan completes, a published merge is recorded).

## The modules and the code

### PlanMerge

`disk` is the plan's record in `state.json`, `mem` the running process's copy;
`target`, `git` (merge worktree, execution worktree, plan branch) and `src`
(the source checkout) are the repository.  `pc` is where the merge is; a step
is one git command or one save, so that a crash or the user comes between any
two.

| In the code | In the module |
|---|---|
| `Integrate`: preflight, drift check, promotion of a publish that was not recorded | `Begin`, `Refuse`, `Promote`, `ReadTarget` |
| `WorktreeRemoveForce` of an earlier merge worktree, `WorktreeAddDetached`, the fast-forward, the intent saved before the publish | `ClearMergeWorktree`, `AddMergeWorktree`, the fast-forward and intent actions |
| `update-ref` with the expected old value | publish |
| `resyncSourceCheckout`: `CurrentBranch`, `IsDirtyAgainst`, `ResetHard` | `ReadBranch`, `CheckClean`, `ResetHard` |
| `finishSuccessfulMerge`: record first, then the three removals, then the ledger | save, removal and ledger actions |
| `finalize`, `refused`, `failedMerge`, `preserveAllCleanup` | `Finalized`, `Finalize` |
| `PlanState.IsIntegrated` | `IsIntegrated` |
| `recover --plan` with `retry-merge`, `retry-integration`, `--reset` | the recovery actions |

A commit is a member of `Commit`, its ancestry the constant `Reach` (reflexive,
transitive and without cycles, as a history of git is), its content the constant
`Tree`; what the agents commit is *any* commit.

The resync is a check and an act without a lock: the user may edit or switch
branches between the check and `reset --hard`, which then overwrites what it finds
(`NoEditIsOverwritten` and `ResetsTheTarget` below).  `late` remembers what the
user has done since each look, an edit since the dirty check and a switch since the
branch was read, and `EditsSurvive` says that nothing else is ever overwritten: an
edit that was there to be seen stays, on whatever branch, through every retry of the
resync.

### PlanCustody

The promise of the merge phase in three Boolean variables: the commits are on
the plan's branch, or the target has contained them, or the operator
discarded them.  `PlanMerge` implements it under the mapping `onBranch <-`
"the branch exists", `inTarget <-` "a head of the target since the run
contains the work".  Checked by TLC (`KeepsCustody`) and proved.

### PlanOrder

The promise of both schedulers in four variables: `on` (a start is under way),
`needs` (what each plan builds on), `running` and `done`.  A plan is run when what
it needs is done and it is not, and only beside a set of plans that may be run
together (`Crews`); a plan that is done has been run; and while a start is under
way nothing is undone and no order changes, which the operator may do between two
starts.  `BatchExec` implements it with the plans of earlier phases for `needs`
and the sets of plans of one phase that its slots admit for `Crews`; `PlanQueue`
with the plans registered before a plan, one plan at a time, and with "its work has
landed and its entry on file says so" for `done`.  Checked by TLC in both
(`KeepsOrder`) and proved.

### BatchExec

One action per step of `runPhase`'s loop (`Dispatch`, `Receive`, `EndPhase`)
and per step of a plan's goroutine (`RunPlan`, `Iterate`, `IterateEnds`,
`Gates`, `Integrate`).  `Receive` is guarded by `~CanDispatch` because the
inner dispatch loop of `runPhase` runs to its end before the channel is read.
`Settled` is the `switch` on an outcome, `Report` the sequence of tests of
`RunE`.  `pending` is a set, `FirstPending` the plan of it that comes first in the
phase.  `Iterate` records the cost, then the passed story, and only then
checks the cap, in the order of the code; `Fates` is what the agent did and
which of these steps worked, and each that did not costs one of `MaxFailures`
(`Faults`).  A record that cannot be written is a warning; a pass that cannot be
saved fails the plan before the cap is looked at (`Broken`); records that cannot
be read count as below the cap (`Capped`).  `bill` is the `cost.json` files by
plan and iteration number, and `spend` their sum: a plan that is run again counts
from 1 (`iter`), so `WriteCost` replaces what its earlier run left under that
number, and the sum may shrink.  The files of gate agents are not in it: their
cost is never recorded.  Writing a record and reading the sum is one step, where
another goroutine could write in between; with the two as separate steps TLC finds
`CapOvershoot` to hold as well.

Around each iteration is the tamper guard.  `left`, the stories a plan's
`prd.json` still has, is the tree it watches; `guard[p]` is the snapshot.
`tamperGuard` chooses what is watched: everything when plans run one at a
time, only the plan's own tree when the phase runs several (`Concurrent` is
decided by the phase and not by the moment).  `Snapshot` takes it, any agent
may `Tamper` with any tree, and the iteration ends in `Restore` when the two
differ and in `Iterate` when they do not.  `earned` remembers what Springfield
itself has marked, which is what `ProgressStays` compares with.

### BatchStart

`disk` is `run.json` and `mem` the start's copy; a start is given flags and a
configuration (`cmd`) that differ from the last one's, on whatever branch is
checked out (`head`).  `pc` is where `RunE` is; every write of `run.json`, every
git command and every end of a plan is a step, and each may fail or be the
last.

| In the code | In the module |
|---|---|
| the cost-cap guard of `RunE`, `CostCapped` cleared | `Begin` |
| orphaned cursor | `RecoverOrphan` |
| `resolveBatchModeAndBase`, `ResolveBatchBase`, `anyPlanStarted` | `PerPlan`, `Base`, `resolveBatchModeAndBase` |
| `autobranch.Activate`, its `BeforePersistCreate` hook, the roll-back | `Resume`, `NoAutoBranch`, `Refuse`, `BeforePersistCreate`, `CreateBranch` |
| the stamp of mode and base | `Stamp` |
| `Prepare` (`manager.go`): the base of a worktree and the protected-base guard | `baseRef`, `effectiveBaseRef`, `Rejected`, `Prepare` |
| `runBatchWithContext`, `integratePlan` | `Setup`, `NextPlan`, `RunPlan`, `Integrate` |
| the outcome: persisted pause, `fatal_error`, archive, cleared cursor, `notifyBatchOutcome`, the status line | `Pause`, `Interrupted`, `Halt`, `Archive`, `ClearRun` |

A batch has at least one plan (`planner/validate.go` refuses an empty draft) and
the auto-branch at least one name to try; `Free` is the names no branch has yet and
`Due` holds the first plan in order that is not integrated.

### PlanRun

`saved`, `passes`, `git`, `marker` survive a start; `plan`, `known`, `run` do
not.  `Drifted`, `Foreign` and `Reusable` are the three answers of the
preflight to a worktree that is there.  `Judge` is the decision behind an
agent that returns (`completeHonored`, `workCompletedBeforeCrash`).  `Abort`
is `recordPreflightFailure` with the save whose error is dropped; `Persist`
shows that memory always changes and the file does unless the write fails.
The operator's side is `Normalize`, `RecoverRetry`, `AcceptInputDrift`,
`ResetPlan`, editing the inputs and removing a worktree with `git worktree
remove`.  (A worktree removed with `rm -rf` stays registered with git, and
`git worktree add` refuses until it is pruned; that is not modelled.)

### BatchLife

`run`, `dir`, `units`, `prd`, `state`, the archive (`stable`, `siblings`) and
the evidence (`evidence`, `shelf`) are the stores on disk.  Two actors, a start
and one other command, each with a `pc` and what it read as it began (`mem`):
`project` and `b` in the code are copies, and a save writes the whole copy.
The order of the writes of a command is a table (`ReplaceAfter`, `AbortAfter`,
`FinalizeAfter`, ...); the steps themselves are shared, as the functions are.

| In the code | In the module |
|---|---|
| `plan`, `plan --replace`, `plan --append`, `batch abort`: reads and guards | `PlanNew`, `PlanReplace`, `PlanAppend`, `BatchAbort` |
| `recover`: orphan, stale batch | `RecoverOrphan`, `RecoverStale` |
| `writeJSONExclusive`, `maybeWriteArchiveSibling` | `Create`, `Fill`, `Collide` |
| `FinalizeBatch`: relocation, directory, registry, state | `Relocate`, `RemoveBatchDir`, `Register`, `FlushState` |
| `ArchiveBatchNormalized`, `RecoverOrphan`: evidence | `RemoveEvidence` |
| `WriteBatch` with its roll-back, and the plans a crash in it leaves half written | `WriteBatchFile`, `WritePlanFiles` |
| `WriteRun`, `ClearRun` | `WriteCursor`, `ClearRun` |
| `start`: dispatch, outcome, integration, completion | `Dispatch`, `Work`, `Integrate`, `Complete` |
| the tamper guard around an agent | `Snapshot`, `Restore` |

A plan compiled from one envelope is a ticket `<<plan, envelope>>`, so that a
plan ID that is used again is another ticket with the same files.  An envelope has
at least one plan (`prd/validate.go:78`).

### PlanQueue

`units` is `config.json`, `saved` is `state.json`, and every process has its own
copy of the second, which it writes back whole: `mem` that of a start, `op` that
of a command.  The word for an entry joins its status and its merge record;
`Integrated` is `planIntegrated`, `NextPlans` the scheduler.

| In the code | In the module |
|---|---|
| `tryRunSinglePlanUnit`: cost-cap guard, load and normalise, schedule, queue record | `Begin`, `Load`, `SetUpFails`, `Open`, `Stop`, `Complete`, `Take`, `Halt` |
| `nextNonIntegratedCompletedPlan`, the protected-base guard on it | `MergeOnly`, `Remerge` |
| `runOnePlan`: preflight, running record, terminal record, cap | `Execute`, `Refuse`, `Executed`, `Fail`, `Pause`, `WriteCap` |
| `Integrate` as its writes: publish, record, cleanup | `Publish`, `Decline`, `Record`, `Cleanup` |
| `DiagnosePlan`, `RecoverPlan`, `status`: normalise, and save if that changed a plan | `Read`, `Normalize` |
| `availableActions`, the conditions of the six recoveries, what each leaves | `Available`, `Accepts`, `After`, `Clean`, `Act` |
| `AddPlanUnit`, `RemovePlanUnit`, `ReorderPlanUnits` | `NewUnits`, `WriteConfig` |

An order in `config.json` is a number from 1; the model has at least as many as
there are plans (`MaxOrder`), since the code has no largest one.

### ControlLock

A file is an inode and `path` says which one has the name.  `fd` and `locked` are
the kernel's tables; `Open`, `Flock`, `Verify`, `Write` and `Release` are
`Acquire` and `Release` system call by system call, `ProbeOpen`, `Flock`,
`ProbeUnlock` and `ReadHeld` are `Inspect`.  `Die` closes what the process had
open.  `Unlink` is the operator, who leaves the lock of a running start alone.

### AgentExec

Six actors of one dispatch: `Run` (`StartFails` ... `SaveEnd`), the agent
(`Speak`, `Write`, `Exit`), what it leaves behind (`HeirExits`), the goroutine
that kills it at the deadline (`Kill`), two scanners (`Scan`, `Emit`, `Eof`),
the watcher of the stall detector (`EdgeStale`, `Stamp`, `SaveStamp`,
`StopWatch`), under a clock.  A pipe is a bounded queue of lines; a line above
`maxScannerLine` ends its scanner, which says so in a note: an `Event` has the type
it is read under and the stream its scanner reads (`from`), and the two differ for
the note of the stdout scanner, which is an event on stderr.  `Told` is the events
of one scanner, `Nth` the place of one among them, and `Reached` the lines a scanner gets to, those up to
the first that is too long.  `record` is the plan's record in memory and
in `state.json`, which the watcher's callback and the end of the plan both
write.

### AgentAdapters and AgentChain

A transcript is what the adapters can tell apart in it: the best a tool did,
the terminal event, the turns, the signals and needles about limits, the reset
times they name.  `Valid`, `Retryable` and `CooldownAfter` are the adapters;
`AgentChain!Fault` is the order in which the runner asks (the process's error,
the turn cap, the validation), `Cooled` what it then does to its cooldowns.
`FirstMentions` keeps the first mention of every agent in a list, and
`NormalizeAgentIDs` puts them in a row.  `Call`, `Skip`, `Refuse`, `Dispatch`,
`Return` are one `Run`; `Finish` and `NextStart` are the plan around it, whose own completeness check
(`WorkComplete`) is part of the judgement.  A call that failed ends the plan, unless the
agent had emitted its marker, every story passes and the worktree has moved
(`workCompletedBeforeCrash`): then the plan goes on to its gates with the runner as it is.

### How they fit together

`BatchStart` is the frame of a start: it calls the whole batch a sequence of
plans, each a `RunPlan` and an `Integrate`.  `BatchExec` is the inside of that
frame: it has the phases and the goroutines, calls a plan's execution a
sequence of `Snapshot` and `Iterate` steps and its merge one `Integrate`.
`PlanRun` is the former in detail and ends where `completed` is on disk;
`PlanMerge` is the latter and begins there (its `Execute` is a whole run of
`PlanRun`).  An agent's iteration, one step in `PlanRun`, is a call of
`AgentChain`; a dispatch, one step there, is an `AgentExec`.  `PlanQueue` is the
other frame, around the same two.  `BatchLife` has a plan's execution as one step
(`Work`) and its merge as one (`Integrate`), and adds the files around a batch
and the commands that write them.  `ControlLock` is what all of them take for
granted: one start at a time.

They are not composed into one specification: the product is out of reach for
TLC, and the interfaces (a status, a result, a record) are what each module's
properties speak of.

## What is checked

### Runs that hold

| Run | Shows |
|---|---|
| `merge_faults` | With two crashes, failed saves or failed git commands, a user who pushes to and rewinds the target, and every recovery command: the plan's commits are never lost, a recorded success is true, what was published stays on record, nothing is deleted before the success is durable, the publish is a fast forward, and the merge refines `PlanCustody`. |
| `merge_live` | With a user who edits, stashes and switches branches, and a crash or a failed save: a plan counted as integrated has been cleaned up, the resync overwrites only what came into the checkout after it had looked, and a publish that a crash left unrecorded is recorded in the end. |
| `batch` | A batch of a parallel and a serial phase over any number of starts, with a cap that hits, two failures or tampering agents, a crash, a signal and a removed plan unit: what is archived is integrated, phases are barriers, an integrated plan is not run again, the batch refines `PlanOrder`, the cursor is truthful, the total on record overshoots the cap by one iteration a slot at most, and one for each time the cap was not looked at, a guard never takes a passed story back, a failure is reported as one, and an operator who keeps starting sees the batch archived. |
| `run_safety` | One plan over any number of starts with up to five troubles: the gates, durable success, records before dispatch, the setup after a crash, and completion in the end. |
| `life_race` | `batch abort` and `recover` while a start runs, with its tamper guard, and one crash or failed write anywhere: no batch is lost, no orphan stub stands for one, what is archived as completed has run. |
| `life_restart` | All commands one after the other with two crashes or failures: an archive entry is final, and an operator who keeps starting sees the cursor released. |
| `queue_control` | Two plans in any order, or yet to be added, two commands between starts and two troubles of any kind: an agent works only on top of everything registered before it, the queue refines `PlanOrder`, "completed" means landed, what has landed is not run again, and who starts again lands every plan. |
| `start_mode` | Any sequence of starts with five combinations of flags and configuration, from `main`, a feature branch or a detached head, on a new batch and on one an older build began, with two of crash, failed write and failed git command: a batch has one mode, new worktrees start from the recorded auto-branch, announcements are true, and a pause is answered by a higher cap. |
| `exec_dispatch` | One dispatch with and without a timeout, with lines that are too long, full pipes, children that survive the agent, the deadline and the stall watcher: the result holds every line, the terminal record stays, and the dispatch returns but for two ways the property names. |
| `chain_fallback` | Every transcript, exit and cooldown that the adapters tell apart, over the calls of a plan and the plans that follow: a success rests on a tool's result, a run that only burned turns falls through to the next agent, and only the clock shortens a cooldown. |
| `lock_owner` | Two starts and a probe, each of which may die anywhere, and a lock file removed under them: one owner, and the file names it. |

The liveness property of `exec_dispatch` is the one that says how the code can
hang: a dispatch without a timeout (the story loop's) whose agent writes on
after a line above 16 MiB, and a child of the agent that keeps the pipes open
after the agent has been killed.  Neither is a promise of a comment, so neither
is a finding.

### Runs that find a disagreement

| Run | Property | What the code does |
|---|---|---|
| `run_reset` | `CompletedHasWork` | `--reset` deletes the branch and keeps the passes of `prd.json`: the next start skips the stories and succeeds with nothing on its branch. |

`PROJECT.json` quotes the lines of the code that say otherwise.

### Further disagreements, without a run

These definitions are in the modules and TLC refutes them with the constants
given (those not named are of the run whose configuration is named first, or of
the module's only run that passes).  They are what the next reader of the code
should know of.

| Definition | Constants | What happens |
|---|---|---|
| `PlanMerge!IntegratedMeansMerged` | as `merge_live` with `Recover = {"retry-merge"}`, `User = {}`, `MaxFaults = 0` | `retry-merge` clears the merge record of a completed plan, and a completed plan without one counts as integrated (the legacy path had none): a refused merge that is retried is never merged.  `conductor/recover.go:98` says that "the next springfield start re-enters the full merge integration phase". |
| `PlanMerge!IntegratedHasLedger` | as `merge_live` with `Recover = {}`, `User = {}`, `MaxFaults = 2` | A refused merge leaves a cleanup outcome ("skipped") that nothing clears, so the success saved later counts as integrated before its own cleanup has run; a crash or a failed save there leaves worktrees and branch behind for good.  `conductor/types.go:293` says that the "cleanup ledger MUST be durably recorded". |
| `PlanMerge!StashedCheckoutSyncs` | as `merge_live` with `User = {"edit", "stash"}`, `MaxFaults = 0` | The checkout is stashed and clean, but behind the head the plan published; the resync fails again, against the advice it printed. |
| `PlanMerge!ResyncKeepsCommits` | as `merge_live` with `User = {"push", "edit", "stash"}`, `MaxFaults = 0` | A commit pushed onto the target between a failed resync and its retry is taken off by the `reset --hard`. |
| `PlanMerge!NoEditIsOverwritten` | as `merge_live` | An edit made between the dirty check and `reset --hard` is overwritten: two git commands without a lock (`planmerge/integrate.go:357` and `:364`).  `integrate.go:337-339` calls the user's edits "the data-loss invariant this gate protects". |
| `PlanMerge!ResetsTheTarget` | as `merge_live` | The user checks out another branch after the resync has read it, and that branch is set to the merged head.  `integrate.go:324-325` says that the checkout is brought up "when the target branch is the source's current HEAD". |
| `PlanMerge!NoStaleMergeWorktree` | as `merge_live` | A crash between `worktree add` and the save of the intent leaves a merge worktree no record names. |
| `PlanMerge!LiveRunKeepsArtifacts` | as `merge_live` with `LiveRecover = TRUE`, `MaxFaults = 0` | The guard of `--reset` does not see a merge in progress. |
| `PlanMerge!CleanupConverges` | as `merge_live` with `Recover = {"retry-integration"}`, `User = {"push"}`, `MaxFaults = 0`, or with `Recover = {}`, `User = {}` | The record of an earlier cleanup is dropped by `retry-integration`, or died unsaved: the cleanup finds an artifact gone that nothing records as removed. |
| `PlanMerge!PublishIsCompleted` | as `merge_live` with `MaxFaults = 2` | A failed save after the publish, then a second fault: the record is demoted to refused. |
| `BatchExec!FailureIsReported` without `~ctxDone` | as `batch` | A signal next to a failure is reported as an interrupt; so is one next to a cap pause, and the pause is then not written (`IsCanceled` is tested before `CostCapped`): the next start needs no higher cap. |
| `BatchExec!RecordsAreFresh` | as `batch` | A plan that failed is run again and counts its iterations from 1: its `cost.json` files replace those of its first run, and the total forgets what that spent.  The cap is then a cap on what is on record and not on what was spent; `planrun/runner.go:742` says that "a runaway plan with many iterations cannot blow past the cap". |
| `BatchExec!ArchivedMeansIntegrated` without `units = Plan` | as `batch` (`plans remove` once) | A plan removed from the registry ends the schedule cleanly, and the batch is archived with plans that never ran. |
| `BatchStart!GuardSeesTheBase` | as `start_mode` | A plan that began on a feature branch loses its worktree; the guard looks at the recorded base and lets it pass, and the plan is from then on based on the protected branch checked out.  `planrun/manager.go:180` says that the guard looks at "the base the merge phase will actually publish into". |
| `PlanRun!VerifiedCompletion` | as `run_safety` | A review fix changes code that verify has passed; verify is not run again. |
| `PlanRun!AgentInBuiltTree` | as `run_safety` | The setup marker outlives the worktree it was earned in: a second worktree and a crash before its marker is cleared let the third start skip the setup. |
| `PlanRun!SaveFailureIsReported` | as `run_safety` | The terminal save of a cost-capped plan fails; `RunPlan` looks at `CostCapped` before the error, so nobody hears of it. |
| `BatchLife!CompletedMeansRun` | `Envelopes <- ReusedPlan`, `Commands = {"plan", "abort"}`, `Kinds = {"plan"}`, `MaxTrouble = 1`, `Live = {}` | A plan completes, its integration fails, the batch is aborted (which does not save `state.json`); a new batch that uses the ID again never runs the plan and is archived as completed. `start.go:1020` says that a stale completed state "is already rejected upstream". |
| `BatchLife!CompletedMeansRun` | as `life_restart` | `--append` writes `batch.json` and fails to save `config.json`: the plans it named are not registered, which ends the schedule without an error. |
| `BatchLife!CompletedMeansRun` | as `life_race` with two envelopes of one title | An abort dies after it removed the directory; a new batch of that title gets the ID again, and its registration is refused for the units the abort left.  The cursor still names the ID: the next start finds none of its plans registered, ends at once and archives the new batch as completed. |
| `BatchLife!CompletedMeansRun` | as `life_race` with `Live = {"plan", "replace"}` | The guard of a start puts back the `batch.json` and the cursor that a `--replace` beside it has removed, and `--replace` then registers its own plans: a start before its cursor is written finds none of the old batch's, and archives that as completed. |
| `BatchLife!EvidenceKept` | `Kinds = {"relocate", "crash"}`, `MaxTrouble = 2`; or as `life_race` with `"relocate"` | Evidence that could not be moved stays in place, as `finalize.go:93` says, and the orphan cleanup after a crash (or of a live `recover`) then wipes the whole tree. |
| `BatchLife!CursorReleased` | `Live = {"abort"}`; or `Kinds = {"remove", "crash"}`, `MaxTrouble = 2` | An abort that began between two plans of a running start has its removal undone by the tamper guard and then removes the units; or finalize cannot remove the directory and dies before the cursor is cleared: every later start refuses the batch for its empty registry, until `batch abort`. |
| `BatchLife!Accounted` | `Live = {"replace"}` | The guard deletes the `batch.json` of the new batch while `--replace` goes on to write the cursor to it. |
| `PlanQueue!RemovedIsForgotten` | `Ops` and `Torn` only `"remove"`; or `Overlap = TRUE` with that `Ops` | `plans remove` writes `config.json` and then `state.json`: cut short, or beside a start that writes its own copy back, it leaves the entry of a plan that is not registered, and a plan of that ID added later is taken for it. |
| `AgentChain!MarkerNeedsCommit` | as `chain_fallback` | The proof of work of a dispatch is that the worktree has moved past the *plan's* base: from the second story on, a marker alone defuses the turn cap.  `planrun/runner.go:1370` says that "emitting/quoting the marker without committing cannot defuse the cap". |
| `ControlLock!ConfirmedIsLive` | `Starts = {s1}`, `Probes = {r1, r2}`, `MaxUnlink = 0` | Two probes meet: one holds the lock for a moment, and the other reports the start that left its pid in the file as running.  `recover` then clears nothing. |

### Bounds, and why they are enough

* **PlanMerge.** Five commits: the target's head, the plan's work, a drift, a
  revert of the work (other history, same files) and an unrelated fork: the
  five relations a commit can have to the target and the work.  Two faults,
  because the longest story known (a refusal, then a publish that is not
  recorded) needs two.  The proofs remove both bounds.
* **BatchExec.** A parallel phase of two plans with two slots and a serial
  phase of one: each of the two is in the other's agent window, their outcomes
  come in either order, and a barrier lies behind.  Two failures, so that one
  plan fails while another pauses, tampers or hands over, or a plan fails and the
  records of its second run are not read; one crash, one signal, one removed
  plan.  Iterations cost 1 and the caps are 2 and 9: one that hits
  in the middle of the parallel phase and one that does not.
* **BatchStart.** Two plans, the second with a base of its own; a protected
  branch, a feature branch and a detached head; the auto-branch's name and one
  variant, taken or free; five requests that between them give every flag and
  setting both its values.  Two faults: a write and the roll-back of it.
* **PlanRun.** Two stories, the second of lower rank but depending on the
  first, so that priority and dependency disagree.  `IterCap = 2`: exactly
  enough for both.  Three verify rounds, so that two time-outs in a row differ
  from two time-outs with a failure between them; two review rounds.  Five
  troubles in all: the longest story of the findings needs three.  The proofs
  remove these bounds.
* **BatchLife.** Two envelopes, of two plans and of one: the second is
  compiled after the first, in its place, or appended to it.  `life_restart`
  has two troubles of any kind but a directory that cannot be removed
  (`CursorReleased` fails with it, see above).  `life_race` has one trouble and the commands
  `abort` and `recover` live, because a live `--replace` breaks `Accounted`;
  it leaves out `append`, and failed relocations, for the rows above.
* **PlanQueue.** Two plans are enough for an order, a later plan built on an
  earlier one, and an addition in front.  Two commands, so that `recover`
  diagnoses one attempt and resets another; two troubles, so that a failed save
  meets a crash.  `retry-merge` is left out, and a `plans remove` that is cut
  short, for the rows above.
* **ControlLock.** Two starts, a probe, one removal and so two files under one
  name.  The proofs remove these bounds.
* **AgentExec.** Three lines a stream and a pipe that holds one, so that every
  write waits; a line too long at the start of one stream, where the agent
  writes on, and at the end of the other; with a timeout of two ticks and
  without; a stall after one.
* **AgentChain.** Two stories, since only from the second on the worktree has
  moved; five lists, with a repeated agent, an unknown one, an agent that needs
  what a later one would create, and an empty one.  Cooldowns of up to two
  hours, the default being one: shorter than a reset may name, and longer than
  none.

`CHECK_DEADLOCK FALSE` stands where the system may really stop: a batch that is
archived, a plan whose merge is integrated or whose execution is completed, a
project without an active batch when the envelopes have all been compiled, a
queue that has landed, a dispatch that has ended.  The lock and the chain never
stop, and there TLC looks for deadlocks too.

### Fairness, and what justifies it

* `PlanMerge!RestartSpec`: weak fairness of the merge's steps (it is
  sequential code, and its git commands are assumed to return) and of `Begin`
  and `Execute`: the operator starts again.  The user is under no fairness.
* `BatchExec!FairSpec`: weak fairness of the scheduler and of each goroutine:
  Go schedules runnable goroutines, and agents are assumed to return.
  `RestartSpec` adds an operator who starts the batch
  again as long as it is there.
* `PlanRun!FairSpec`: weak fairness of `SinglePlan`, of the agent's work (an
  assumption about the environment: left alone, the agent commits and passes
  a story) and of `Start`.  Strong fairness of `AcceptInputDrift` and of
  `RemoveForeign`: these are enabled only between two starts, again and again,
  and the refusal of the preflight names the command; an operator who never
  follows it stays refused for ever.  There is none of the other commands.
* `BatchLife!FairSpec`: weak fairness of the steps of a command that has begun
  and of `Start`: the operator starts again as long as there is a batch.  No
  other command is ever owed.
* `PlanQueue!Spec`: weak fairness of the steps of a start and of a command that
  have begun, and of `Begin`: the operator starts again until nothing is left.
  Strong fairness of `Prune`: a worktree that no entry records is refused at
  every start, the refusal names it, and between two starts the operator removes
  it.  No other command is owed.
* `AgentExec!FairSpec`: weak fairness of `Run`, of the scanners, the killer, the
  watcher and the clock (goroutines and time), and of a write the agent has
  begun while the pipe has room.  Where no timeout is asked for, the agent ends
  on its own; where there is one, nothing is assumed of it.  A child that holds
  the pipes is under no fairness.
* `AgentChain!FairChainSpec`: weak fairness of the steps of a call.  `ControlLock!Spec`:
  weak fairness of the steps of a process that has begun to ask; its properties
  are safety and do not need it.  `BatchStart` states none: all its properties
  are safety.

## What is proved

TLAPS checks the eight proof modules from nothing: about 11,680 obligations.  In
each of them the argument is an inductive invariant, a conjunction of named parts;
one lemma per action (or per group of actions that are alike) shows that the
action keeps it.  TLC checked the parts on the instances of the runs before they
were proved.  The theorems speak of `Spec` (`ChainSpec` in `AgentChain`) and use
no fairness.  What they take for granted is the assumption on the constants that
each module states and TLC evaluates, and the hypotheses named below.

**`PlanMergeProofs`** holds for every set of commits with a reflexive,
transitive and acyclic `Reach` (a commit history), every `MaxFaults`, every set
of recovery commands, during a merge too (`LiveRecover`), and every user.

| Theorem | Property |
|---|---|
| `TypeCorrect` | `TypeOK` |
| `WorkIsNeverLost` | `WorkNotLost`, without a run |
| `SuccessIsTruthful` | `SuccessIsTrue` |
| `DeletionFollowsRecord` | `DeleteAfterRecord` |
| `PublishOnlyFastForwards` | `PublishFastForwards` |
| `PublishIsRecordedHolds` | `PublishIsRecorded` |
| `EditsSurviveHolds` | `EditsSurvive`, from `LooksAhead`: what the resync's looks have found, or else `late` says why not |
| `CleanupIsComplete` | `CleanedIsClean`, without a run |
| `OneFaultLeavesNothing` | `IntegratedIsClean`, after at most one fault and with no target set back |
| `MergeKeepsCustody` | `KeepsCustody`: `PlanMerge` implements `PlanCustody` |

Hardly one of them is inductive: whether a removal is safe depends on what the
record says, which depends on where the published head stood when the target
was read, several steps before.  `IInv` says at each step of the merge how the
target it read, the head it is about to publish and the work are related
(`AtStep`), that both copies of the record are true (`Truthful`), and what a
missing branch implies (`BranchIsSafe`).

`PublishIsRecorded` needs more: a record that says anything of a merge must name
what has landed since its base (`Recorded`), and the base must be at or below what
has landed (`Based`).  A merge that starts over takes a new base, and it would lose
the old publish if the head it names were not carried forward; that is
where the acyclic history is needed, since a head that lies both above and below
the base would be no news.  `CleanedIsClean` is the part of `IntegratedIsClean`
that holds for every history: what a record's ledger says is removed is gone
(`Swept`), so a cleanup recorded as complete has left nothing.

The rest of `IntegratedIsClean` fails after two faults: one refuses the merge and
leaves a cleanup outcome on record, a second keeps the outcome of the cleanup that
follows the success from being saved, and the first stands in for it
(`IntegratedHasLedger`).  `OneFaultLeavesNothing` says that it takes two.  A merge is also
refused without a fault: the target has been pushed to off the work's line
(`Drifted`), or the work no longer merges with it (`Parted`).  But such a reason
stays (`Stuck`): a later start is refused again, until `retry-integration` clears
record and outcome together.  So a stale outcome next to a success (`Tainted`)
means that the one fault is spent, and the cleanup that would replace the outcome
goes through.  `TInv` says this for the record on disk (`TDisk`) and for the one
in memory (`TMem`); `OInv` says which of the artifacts a refused merge keeps
(`Kept`).  A user who sets the target back takes the reason away, so the theorem
excludes it, and so does the run that checks the property.

**`PlanRunProofs`** holds for every finite set of stories, every dependency
graph and injective ranking, every choice of gates and budgets, every number
and kind of trouble.

| Theorem | Property |
|---|---|
| `TypeCorrect` | `TypeOK`, with the budget of the story loop |
| `GatesNeedEveryStoryHolds` | `GatesNeedEveryStory` |
| `GatedCompletionHolds` | `GatedCompletion` |
| `SuccessIsDurableHolds` | `SuccessIsDurable` |
| `RecordedBeforeDispatchHolds` | `RecordedBeforeDispatch`, without a run |
| `HalfBuiltIsRebuiltHolds` | `HalfBuiltIsRebuilt`, without a run |

Here `IInv` says what holds at each place of `SinglePlan`: which record is on
disk (`Recorded`), what the gates have seen (`GatesKept`), that memory never
runs ahead of `prd.json` (`StoriesPassed`), and what the marker vouches for
(`Built`: nothing, for a worktree created under the marker of an earlier one;
this is the hole `AgentInBuiltTree` falls into).  `NextStoryIsEligible` is the lemma
that the loop's choice exists: a set of ranks has a least element.

**`ControlLockProofs`** holds for every number of starts and of probes and every
number of removals of the file.

| Theorem | Property |
|---|---|
| `TypeCorrect` | `TypeOK` |
| `OneOwnerHolds` | `OneOwner` |
| `OwnerIsNamedHolds` | `OwnerIsNamed` |

`OneOwner` alone is not inductive: two owners could have locked two files.
`IInv` adds that the lock of an inode is exclusive, that who is past the flock
holds one on a file it has open, and that an owner's file is the one at the path.
The last is where the check of the inode after the flock is needed, and the
assumption that nobody removes the file of a running start.

**`BatchExecProofs`** holds for any plans and phases (a phase names a plan once),
any `--max-parallel`, any costs and caps, and any number of failures, tampering
agents, crashes, signals and removed plan units.

| Theorem | Property |
|---|---|
| `TypeCorrect` | `TypeOK`, without a run |
| `PhaseBarrierHolds` | `PhaseBarrier`, without a run: `KeepsOrder` says it, and more |
| `CursorTruthfulHolds` | `CursorTruthful` |
| `ArchivedMeansIntegratedHolds` | `ArchivedMeansIntegrated` |
| `ProgressStaysHolds` | `ProgressStays` |
| `FailureIsReportedHolds` | `FailureIsReported` |
| `CapOvershootHolds`, where `CostsBounded` | `CapOvershoot` |
| `BatchKeepsOrder` | `KeepsOrder`: `BatchExec` implements `PlanOrder` |

Only the cursor is inductive by itself.  That a phase which ends without a flag
has integrated all its plans depends on what `runPhase` counts and what its
goroutines have sent: the channel holds each settled plan once (`Queued`),
`inFlight` is the number of plans in flight and never more than the slots
(`Counted`), a plan in flight is pending no more (`Placed`), an outcome is true
of its plan (`Told`), the loop stops only for a flag (`Flags`), and every plan
of the phase is integrated, to come, in flight, or has raised a flag
(`Advanced`).  `Archived` and `FailureKept` carry that to the report.  For
`ProgressStays`, `Guarded` says that no guard holds a tree older than a passed
story; it survives because where guards watch the whole directory one agent
runs at a time (`OneAtATime`), which is again a matter of `Counted`.  A
goroutine's step is reduced to one shape (`Moves`) for all but the trees.

`CapOvershoot` is an account: what is on record above the cap is paid for by slots,
and by the iterations after which nobody looked (`unchecked`).  Overwriting a
record only takes away from the total, and an iteration adds at most its own cost.
Each goroutine that comes to an end over the cap (`Over`) pays for one iteration,
and when the loop has stopped, each slot that no live goroutine (`Live`) occupies
does; no slot pays twice, because the iteration that notices the cap is the last
of its goroutine (`Bounded`).  `CostsBounded` says that some cost is the greatest,
which the property itself supposes: it names it.

`BatchKeepsOrder` needs nothing more than `IInv`: what is dispatched is pending
(`Waiting`), so it is neither integrated nor running, the phases behind it are
integrated (`Advanced`), and the plans beside it are of its phase (`Placed`) and
within its slots (`Counted`).

**`BatchStartProofs`** holds for any plans with any bases, any requests, branches
and auto-branch names, and any number of faults.

| Theorem | Property |
|---|---|
| `ModeIsFixedHolds` | `ModeIsFixed` |
| `NewsIsTrueHolds` | `NewsIsTrue` |
| `AutoBranchIsBaseHolds` | `AutoBranchIsBase` |
| `PauseIsAnsweredHolds` | `PauseIsAnswered` |

A start at work has the same `run.json` in memory as on disk (`InRun`), whatever
failed, since a write that fails ends it.  `Decided` says how far its choice of a
mode has come, and `ModesFollow` where the mode of the plans that have already run
can be read again: in `run.json` once it is stamped, and before that in
`state.json`, since a plan that has begun is never pending again.  That is the
case of a batch an older build began, or one whose stamp a crash took.
`OwedIsPaused`, `Quiet` and `Announced` are about the pause and the announcement.

**`PlanQueueProofs`** holds for any finite set of plans in any order, with any
number of commands and of failures, under hypotheses about the commands.

| Theorem | Property |
|---|---|
| `TypeCorrect`, `OneAtATime` | `TypeOK` |
| `LandedRunsOnceHolds`, `OneAtATime` | `LandedRunsOnce` |
| `QueueOrderHolds`, `Orderly` | `QueueOrder`, without a run: `KeepsOrder` says it, and more |
| `CompletedMeansLandedHolds`, `Orderly` | `CompletedMeansLanded` |
| `QueueKeepsOrder`, `Orderly` | `KeepsOrder`: `PlanQueue` implements `PlanOrder` |

`OneAtATime` says that no command rewrites the files beside a start; `Orderly`
adds that `retry-merge` is not used and `plans remove` is not cut short.  None of
the three can be spared: the rows `PlanQueue!RemovedIsForgotten` and
`PlanMerge!IntegratedMeansMerged` above are what happens without them.  Every
other command, every crash and failed write and git command, and a `reorder` or an
addition in front at any time between two starts, is allowed.  The three properties
above the refinement speak of one step, and what makes them true is earlier: the memory of a start and
`state.json` agree until something fails (`InStep`), what a command has read is
still so when it writes (`CopyIsFile`), no entry forgets work that has landed
(`Remembered`), none claims work that has not (`EntriesAreTrue`), and a plan that
is added finds no entry of an earlier one (`Forgotten`).  `Chosen` says what is
known of the plan that is being executed.  For the refinement, `AtWork` adds what a
failed write leaves: memory and file may then differ, but only in the entry of the
plan at work, and the file does not call that integrated; so the halt that writes
the memory back gets no other plan done, and undoes none.

**`BatchLifeProofs`** holds for any plans, envelopes and commands, any trouble of
any kind, in any order of the steps.

| Theorem | Property |
|---|---|
| `EntryIsFinalHolds` | `EntryIsFinal` |
| `AccountedHolds`, `Apart` | `Accounted` |
| `NoOrphanStubHolds`, `Apart` | `NoOrphanStub` |
| `CompletedMeansRunHolds`, `Distinct` | `CompletedMeansRun` |

`Apart` says that no batch is compiled (`plan`, `plan --replace`) while a start is
at work; the row `BatchLife!Accounted` above is what happens otherwise.  `append`,
`batch abort` and `recover` may run beside it.  `TInv` follows the tables of steps:
which command can be at which step (`Path`), and what it has in memory there.
`AInv` adds the archive: an entry is filled by the process that created it, and by
no other (`Creating`).  `LInv` says that a batch without a `batch.json` has its
entry, in every state between two writes: each actor `Carries` the entry before it
removes the directory, and the snapshot of a guard that puts a directory back
brings back no batch less (`Lossless`).

`Distinct` adds to `Apart` that nothing is appended, and that no two envelopes have
a title or a plan in common; each of the four is needed, as the rows
`BatchLife!CompletedMeansRun` above show.  `CInv` then follows what each file says
of its envelope.  `Filed` is about the files: a `batch.json` is one envelope's, and
so is the registry (`Whole`), that of the active batch where it can be read
(`Matched`); a `prd.json` is of an envelope that names the plan, and a plan that
`state.json` calls completed has run (`Ran`).  `Started` and `Operating` say the
same of what a start and a command have in memory, the guard's snapshot and the
`batch.json` to put back included.  A start that finds nothing left to dispatch has
all its plans registered (`Executes`), so it ends because all of them are
integrated, and what it archives is its own envelope although it reads the batch
again.

**`AgentProofs`** holds, of one dispatch, for every number and kind of lines, every
pipe, threshold and timeout; and of the chain, for any lists of agents, any
transcripts and exits, any default and cap of the cooldown, and any number of
stories.

| Theorem | Property |
|---|---|
| `TerminalRecordStaysHolds` | `AgentExec!TerminalRecordStays` |
| `OutputIsWholeHolds` | `AgentExec!OutputIsWhole` |
| `ChainTypeCorrect` | `AgentChain!ChainTypeOK`, with the cap on cooldowns |
| `SuccessIsWorkHolds` | `AgentChain!SuccessIsWork` |
| `ThrashFallsThroughHolds` | `AgentChain!ThrashFallsThrough` |
| `CooldownIsServedHolds` | `AgentChain!CooldownIsServed` |

The stall watcher writes the same record `Run` ends.  `IInv` says that the
watcher can be in the middle of a write only before `Run` has joined it
(`Joined`), and that both copies of the record say "running" until then
(`RecordAt`).  For the output, `OInv` counts: the lines a stream was written are
those emitted, then the one the scanner holds, then those in the pipe, in that
order (`Flow`, `InOrder`), the events of a stream are its first lines (`Heard`),
and `Run` is past its wait only when both scanners are done (`Closed`).

For the chain, the invariant rests on two facts about its operators: a chain names
an agent once (`NormalizedOnce`, which is about ranks in a finite set), and only
claude cools down (`OneCools`).  So who follows a claude that only burned turns is
not passed over: it is asked, and its answer is the call's.  `FateIs` bounds what
a transcript, of any adapter, can come to.

Only model-checked: the liveness properties (`PublishIsCompleted`,
`BatchFinishes`, `PlanCompletes`, `CursorReleased`, `EveryPlanLands`,
`RunReturns`: fairness and `ENABLED` are out of the prover's reach).
Every other property of the runs that pass is stated by a theorem, with the
hypotheses named above.

## What is not modelled

* What an agent writes, beyond what the adapters tell apart in it; in `PlanRun`,
  agents that claim a story without having committed it (`AgentChain` has them).
* Parsing of transcripts and files, prompts, messages, rendering, the delivery
  of notifications, configuration: text, without a state a property could be
  about.  `status`, `doctor`, `init`, the skills and the hooks only read or
  install.
* The single-shot path of legacy `.md` plans (`singlePlanLegacy`): a story loop
  of one iteration without a `prd.json`.
* The writes of standalone retention, which are those of `finishSuccessfulMerge`
  without a publish; the setup and teardown scripts.
* The phases of a per-plan batch in `BatchStart`, branch modes and cost in
  `BatchLife`, a start without a batch there; two batches at once, which the
  lock and the one `run.json` rule out.
* A worktree removed with `rm -rf`, which stays registered with git.
* The other commands beside a live start in full: `PlanQueue` has them with
  `Overlap`, `PlanMerge` with `LiveRecover`, `BatchLife` with `Live`, each as one
  command.

Seen while reading, and not stated as properties:

* `recover --plan`, `--diagnose` too, takes no lock: it makes a live run's
  `running` an `interrupted`, and a `--reset` that follows removes the live
  run's worktree.
* A crash between the write of the auto-branch's name and `git branch` leaves a
  `run.json` that later starts resume onto and the preflight refuses.  A start
  with `--per-plan-branches` after a crash before the stamp still takes the
  auto-branch as its base.
* The cap's pause is taken off `run.json` before the checks that may still refuse
  the start: after a refused start with a higher cap, the next needs none.  A
  crash between the end of a capped batch and the write of the pause loses it.
* A batch re-enters the integration of a completed plan without the guard of
  protected bases that the queue applies there.
* `FinalizeBatch` only warns when the archive cannot be written, and the batch is
  announced as complete.
* In a parallel phase no guard sees an agent's edit of `run.json` or of the tree
  of a plan that is not in flight.  The cost of an iteration that ends in a
  tamper verdict is not recorded.
* A `--reset` cut short between the branch and the entry leaves a merge that is
  refused until the plan is reset again; `mark-completed` after a reset leaves
  one without a worktree.
* A crash between `CreateWorktree` and the running record leaves a worktree that
  the preflight refuses, and that `--reset` does not remove, since no path is
  recorded.
* After a failed `SaveConfig` in `batch abort` the leftover units make every
  later `plan` fail, `--replace` too, against the advice `batch.go:149` prints.
* claude's structured rate-limit event with a time gone by hides a valid reset
  on stderr; a turn cap, and a missing binary, cool claude for the default hour.
* A gemini dispatch in a worktree without `.springfield` fails and ends the
  chain, instead of falling through.
* A plan listed twice in one parallel phase would be run by two goroutines at
  once; `prd/validate.go` asks only that each plan is in some phase.  `BatchExec`
  assumes that a phase names a plan once.
* A reviewer's chain whose only agent is cooling fails the gate at once.

## Plan

1. Standalone retention write by write; the legacy single-shot path.
2. `prd` validation (cycles, duplicates) against a reference definition.
3. A plan ID used again after an aborted batch, beside `PlanQueue` as well as in
   `BatchLife`; and `recover` beside a start with every field of an entry.

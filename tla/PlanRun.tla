------------------------------ MODULE PlanRun ------------------------------
(***************************************************************************)
(* One plan of a batch, over as many starts as it takes to complete it:    *)
(* planrun.SinglePlan (preflight, worktree, setup, the story loop, the     *)
(* verify and review gates, the terminal record) and the operator commands *)
(* that touch the same plan between starts (recover, recover --plan with   *)
(* and without --reset or --accept-drift).                                 *)
(*                                                                         *)
(* Four places survive a start and are written one after the other, never  *)
(* together: the plan's entry of state.json (`saved`), the passes of its   *)
(* prd.json (`passes`), its branch and worktree (`git`), and the marker    *)
(* that says its setup has run (`marker`).  A crash may come between any   *)
(* two writes.                                                             *)
(*                                                                         *)
(* What is abstract: a commit is the story it implements, or Fix for what  *)
(* a gate's fix agent commits; a digest of the inputs is their version; a  *)
(* marker for another setup command is no marker.  An agent that claims a  *)
(* story has committed it (the model is about the runner, not about lying  *)
(* agents).  A plan that completes goes on to module PlanMerge.            *)
(*                                                                         *)
(* Bound: everything that goes wrong is a Trouble of some kind, and at     *)
(* most MaxTrouble of them happen in a behaviour.                          *)
(***************************************************************************)
EXTENDS Integers, FiniteSets

CONSTANTS Stories,      \* the user stories of prd.json
          Deps,         \* Deps[s]: the stories s depends on
          Rank,         \* Rank[s]: its place by priority, then by id
          Setup, Verify, Review,  \* whether [setup], [verify] and [review] are on
          IterCap,      \* single_workstream_iterations
          MaxVerify,    \* max_verify_iterations
          MaxReview,    \* max_review_iterations
          Kinds,        \* the kinds of trouble that may happen
          MaxTrouble,
          Fix           \* a commit of a gate's fix agent

Trouble == {"crash", "save", "io", "git", "preflight", "setup", "prd", "prompt",
            "agent", "mark", "cap", "verify", "review", "edit", "remove", "reset"}

ASSUME RunAssumption ==
  /\ IsFiniteSet(Stories) /\ Stories # {} /\ Fix \notin Stories
  /\ Deps \in [Stories -> SUBSET Stories]
  /\ Rank \in [Stories -> Nat] /\ \A s, t \in Stories : Rank[s] = Rank[t] => s = t
  /\ {Setup, Verify, Review} \subseteq BOOLEAN
  /\ {IterCap, MaxVerify, MaxReview} \subseteq Nat \ {0}
  /\ Kinds \subseteq Trouble /\ IsFiniteSet(Kinds) /\ MaxTrouble \in Nat

VARIABLES
  saved,    \* state.json on disk: the plan's entry
  passes,   \* prd.json: the stories marked as passed
  git,      \* the branch and the worktree of the plan
  marker,   \* the setup completion marker in the plan's evidence directory
  input,    \* the version of the inputs InputDigest hashes
  pc,       \* where SinglePlan is, "idle" when no start is running
  plan,     \* the plan's entry in the memory of the start
  known,    \* currentPRD: the passes the start knows of
  run,      \* SinglePlan's local variables
  result,   \* what the last SinglePlan returned
  trouble,  \* how much has gone wrong
  \* History, read by no action:
  checked   \* the gates passed in this attempt on what is on the branch now

disk == <<saved, passes, git, marker, input>>
vars == <<disk, pc, plan, known, run, result, trouble, checked>>

----------------------------------------------------------------------------
Status == {"none", "pending", "running", "failed", "interrupted", "needs-human", "completed"}
Commits == Stories \cup {Fix}

\* A plan entry: its status, whether it records a worktree and a branch, and
\* the digest of the inputs it ran with (0: none).
Plan == [status : Status, wt : BOOLEAN, digest : 0..2]

AtAgent == {"agent", "judge", "verify", "verifyfix", "review", "reviewfix"}
AtGates == {"verify", "verifyfix", "review", "reviewfix"}
Pc == {"idle", "preflight", "publish", "setup", "settingup", "load", "pick", "end"} \cup AtAgent

Locals == [reuse : BOOLEAN, digest : 0..2, iter : Nat, story : Commits,
           complete : BOOLEAN, clean : BOOLEAN, round : Nat, timeouts : Nat, end : Status]

NoRun == [reuse |-> FALSE, digest |-> 0, iter |-> 1, story |-> Fix,
          complete |-> FALSE, clean |-> TRUE, round |-> 1, timeouts |-> 0, end |-> "none"]
NoGate == [verify |-> FALSE, review |-> FALSE]

Init ==
  /\ saved = [status |-> "none", wt |-> FALSE, digest |-> 0]
  /\ passes = {} /\ marker = FALSE /\ input = 1
  /\ git = [branch |-> FALSE, commits |-> {}, wt |-> FALSE, built |-> FALSE, inherits |-> FALSE]
  /\ pc = "idle" /\ plan = saved /\ known = {} /\ run = NoRun
  /\ result = "none" /\ trouble = 0 /\ checked = NoGate

\* The kinds of trouble of the set K happen in this step.
Spend(K) == K \subseteq Kinds /\ trouble' = trouble + Cardinality(K) /\ trouble' <= MaxTrouble
Calm == UNCHANGED trouble

\* UpdatePlan and SaveState: memory always changes, the file does unless the
\* write fails.
Persist(p, failed) ==
  /\ plan' = p
  /\ saved' = IF failed = {} THEN p ELSE saved

\* recordPreflightFailure and a SaveState whose error is dropped, then return.
Abort(K) ==
  \E failed \in SUBSET {"save"} :
    /\ Persist([plan EXCEPT !.status = "failed"], failed) /\ Spend(K \cup failed)
    /\ pc' = "idle" /\ run' = NoRun /\ known' = {} /\ result' = "failed"

----------------------------------------------------------------------------
(* Preflight, the worktree and the running record, under the git lock.     *)

\* A batch sends a plan that is not completed through SinglePlan.
Start ==
  /\ pc = "idle" /\ saved.status # "completed"
  /\ pc' = "preflight" /\ plan' = saved /\ result' = "none" /\ checked' = NoGate
  /\ UNCHANGED <<disk, known, run, trouble>>

\* The recorded worktree is there, and made from other inputs.
Drifted == plan.wt /\ git.wt /\ plan.digest \notin {0, input}
\* A worktree is there that the state does not record.
Foreign == ~plan.wt /\ git.wt
Reusable == plan.wt /\ git.wt /\ ~Drifted

\* Prepare rejects: drift, a foreign worktree, or a dirty checkout, a full
\* disk, a missing plan file, a protected base and the like.
Refuse ==
  /\ pc = "preflight"
  /\ Abort(IF Drifted \/ Foreign THEN {} ELSE {"preflight"})
  /\ UNCHANGED <<passes, git, marker, input, checked>>

Reuse ==
  /\ pc = "preflight" /\ Reusable
  /\ pc' = "publish" /\ run' = [run EXCEPT !.reuse = TRUE, !.digest = input]
  /\ UNCHANGED <<disk, plan, known, result, trouble, checked>>

\* A fresh worktree, on the plan's branch when there is one.
CreateWorktree ==
  /\ pc = "preflight" /\ ~git.wt
  /\ git' = [branch |-> TRUE, commits |-> git.commits, wt |-> TRUE,
             built |-> FALSE, inherits |-> marker]
  /\ pc' = "publish" /\ run' = [run EXCEPT !.digest = input]
  /\ UNCHANGED <<saved, passes, marker, input, plan, known, result, trouble, checked>>

CreateFails ==
  /\ pc = "preflight" /\ ~git.wt /\ Abort({"git"})
  /\ UNCHANGED <<passes, git, marker, input, checked>>

\* The running record: nothing is dispatched unless it is on disk.
Publish ==
  /\ pc = "publish"
  /\ \E failed \in SUBSET {"save"} :
       /\ Persist([status |-> "running", wt |-> TRUE, digest |-> run.digest], failed)
       /\ Spend(failed)
       /\ IF failed = {} THEN pc' = "setup" /\ UNCHANGED <<run, result>>
                         ELSE pc' = "idle" /\ run' = NoRun /\ result' = "failed"
  /\ UNCHANGED <<passes, git, marker, input, known, checked>>

----------------------------------------------------------------------------
(* runWorktreeSetup.                                                       *)

Skippable == ~Setup \/ (run.reuse /\ marker)

SkipSetup ==
  /\ pc = "setup" /\ Skippable /\ pc' = "load"
  /\ UNCHANGED <<disk, plan, known, run, result, trouble, checked>>

\* The marker is cleared before the command runs; failing to only warns.
ClearMarker ==
  /\ pc = "setup" /\ ~Skippable
  /\ \E failed \in SUBSET {"io"} :
       /\ Spend(failed)
       /\ IF failed = {} THEN marker' = FALSE /\ git' = [git EXCEPT !.inherits = FALSE]
                         ELSE UNCHANGED <<marker, git>>
  /\ pc' = "settingup"
  /\ UNCHANGED <<saved, passes, input, plan, known, run, result, checked>>

\* The command exits zero; the marker may fail to be written.
SetupDone ==
  /\ pc = "settingup" /\ git' = [git EXCEPT !.built = TRUE]
  /\ \E failed \in SUBSET {"io"} :
       Spend(failed) /\ marker' = IF failed = {} THEN TRUE ELSE marker
  /\ pc' = "load"
  /\ UNCHANGED <<saved, passes, input, plan, known, run, result, checked>>

SetupFails ==
  /\ pc = "settingup" /\ Abort({"setup"})
  /\ UNCHANGED <<passes, git, marker, input, checked>>

\* Mutant: a resume starts from the first story.
LoadPRD_FromScratch ==
  /\ pc = "load" /\ pc' = "pick" /\ known' = {}
  /\ UNCHANGED <<disk, plan, run, result, trouble, checked>>

LoadPRD ==
  /\ pc = "load" /\ pc' = "pick" /\ known' = passes
  /\ UNCHANGED <<disk, plan, run, result, trouble, checked>>

\* prd.json cannot be parsed, or has no stories.
LoadFails ==
  /\ pc = "load" /\ Abort({"prd"})
  /\ UNCHANGED <<passes, git, marker, input, checked>>

----------------------------------------------------------------------------
(* The story loop.                                                         *)

\* SinglePlan leaves its loop with this terminal status.
End(status) == pc' = "end" /\ run' = [run EXCEPT !.end = status]

\* Mutant: a plan whose stories all pass when the loop begins needs no gates.
EnterGates_OnlyAfterWork ==
  CASE Verify /\ run.story # Fix -> pc' = "verify" /\ run' = [run EXCEPT !.round = 1, !.timeouts = 0]
    [] ~Verify /\ Review /\ run.story # Fix -> pc' = "review" /\ run' = [run EXCEPT !.round = 1]
    [] OTHER -> End("completed")

\* finishWithGates: verify, then review, then completion.
EnterGates ==
  CASE Verify -> pc' = "verify" /\ run' = [run EXCEPT !.round = 1, !.timeouts = 0]
    [] ~Verify /\ Review -> pc' = "review" /\ run' = [run EXCEPT !.round = 1]
    [] OTHER -> End("completed")

Eligible == {s \in Stories \ known : Deps[s] \subseteq known}
NextStory == CHOOSE s \in Eligible : \A t \in Eligible : Rank[s] <= Rank[t]

AllPassed ==
  /\ pc = "pick" /\ run.iter <= IterCap /\ known = Stories
  /\ EnterGates
  /\ UNCHANGED <<disk, plan, known, result, trouble, checked>>

Dispatch ==
  /\ pc = "pick" /\ run.iter <= IterCap /\ Eligible # {}
  /\ pc' = "agent" /\ run' = [run EXCEPT !.story = NextStory]
  /\ UNCHANGED <<disk, plan, known, result, trouble, checked>>

\* The stories left are blocked, or the prompt or the guard's snapshot fails.
PickFails ==
  /\ pc = "pick" /\ run.iter <= IterCap /\ known # Stories
  /\ Spend(IF Eligible = {} THEN {} ELSE {"prompt"}) /\ End("failed")
  /\ UNCHANGED <<disk, plan, known, result, checked>>

CapReached ==
  /\ pc = "pick" /\ run.iter > IterCap /\ End("failed")
  /\ UNCHANGED <<disk, plan, known, result, trouble, checked>>

\* The agent commits in the worktree.
AgentCommits ==
  /\ pc = "agent" /\ run.story \notin git.commits
  /\ git' = [git EXCEPT !.commits = @ \cup {run.story}] /\ checked' = NoGate
  /\ UNCHANGED <<saved, passes, marker, input, pc, plan, known, run, result, trouble>>

\* The agent is back.  A marker for another story is ignored (passed is FALSE);
\* a pass is written to prd.json before anything else is judged.
AgentReturns ==
  /\ pc = "agent"
  /\ \E passed, complete, clean \in BOOLEAN :
       /\ passed => run.story \in git.commits
       /\ Spend(IF passed /\ clean THEN {} ELSE {"agent"})
       /\ passes' = IF passed THEN passes \cup {run.story} ELSE passes
       /\ known' = IF passed THEN known \cup {run.story} ELSE known
       /\ pc' = "judge" /\ run' = [run EXCEPT !.complete = complete, !.clean = clean]
  /\ UNCHANGED <<saved, git, marker, input, plan, result, checked>>

\* Tamper or a failing guard (no marker is read then), or a MarkPassed that
\* fails: the loop is left.
AgentSpoils ==
  /\ pc = "agent" /\ \E k \in {"agent", "mark"} : Spend({k})
  /\ End("failed")
  /\ UNCHANGED <<disk, plan, known, result, checked>>

CostCapped ==
  /\ pc = "judge" /\ Spend({"cap"}) /\ End("interrupted")
  /\ UNCHANGED <<disk, plan, known, result, checked>>

\* Mutant: <promise>COMPLETE</promise> is taken at its word.
Honored_Marker == run.complete

\* COMPLETE counts only when every story has passed.
Honored == run.complete /\ known = Stories

\* workCompletedBeforeCrash: the plan is complete, and its worktree has moved
\* away from its base.
WorkCompletedBeforeCrash == Honored /\ git.commits # {}

\* An agent's failure ends the plan, unless it came after the work was done.
Judge ==
  /\ pc = "judge"
  /\ CASE (Honored /\ run.clean) \/ WorkCompletedBeforeCrash -> EnterGates
       [] ~run.clean /\ ~WorkCompletedBeforeCrash -> End("failed")
       [] OTHER -> pc' = "pick" /\ run' = [run EXCEPT !.iter = @ + 1]
  /\ UNCHANGED <<disk, plan, known, result, trouble, checked>>

----------------------------------------------------------------------------
(* The gates: runVerifyGate and runReviewGate.                             *)

VerifyPasses ==
  /\ pc = "verify" /\ checked' = [checked EXCEPT !.verify = TRUE]
  /\ IF Review THEN pc' = "review" /\ run' = [run EXCEPT !.round = 1] ELSE End("completed")
  /\ UNCHANGED <<disk, plan, known, result, trouble>>

\* The command fails or times out: two time-outs in a row, or the last round,
\* call for a human; otherwise an agent is sent to fix it.
VerifyFails ==
  /\ pc = "verify" /\ Spend({"verify"})
  /\ \E late \in BOOLEAN :
       LET n == IF late THEN run.timeouts + 1 ELSE 0 IN
       IF n >= 2 \/ run.round >= MaxVerify
         THEN End("needs-human")
         ELSE pc' = "verifyfix" /\ run' = [run EXCEPT !.timeouts = n]
  /\ UNCHANGED <<disk, plan, known, result, checked>>

ReviewPasses ==
  /\ pc = "review" /\ checked' = [checked EXCEPT !.review = TRUE] /\ End("completed")
  /\ UNCHANGED <<disk, plan, known, result, trouble>>

\* revise, or no verdict at all.
ReviewRevises ==
  /\ pc = "review" /\ Spend({"review"})
  /\ IF run.round >= MaxReview THEN End("needs-human") ELSE pc' = "reviewfix" /\ UNCHANGED run
  /\ UNCHANGED <<disk, plan, known, result, checked>>

ReviewHalts ==
  /\ pc = "review" /\ Spend({"review"}) /\ End("needs-human")
  /\ UNCHANGED <<disk, plan, known, result, checked>>

\* The fix agent may or may not commit, and the gate looks again.
FixAgent ==
  /\ pc \in {"verifyfix", "reviewfix"}
  /\ \E commits \in BOOLEAN :
       IF commits
         THEN git' = [git EXCEPT !.commits = @ \cup {Fix}] /\ checked' = NoGate
         ELSE UNCHANGED <<git, checked>>
  /\ pc' = (IF pc = "verifyfix" THEN "verify" ELSE "review")
  /\ run' = [run EXCEPT !.round = @ + 1]
  /\ UNCHANGED <<saved, passes, marker, input, plan, known, result, trouble>>

\* A command that cannot be launched, a cancelled context, a reviewer or a
\* fix agent that fails or tampers.
GateErrors ==
  /\ pc \in AtGates /\ Spend({IF pc = "verify" THEN "verify" ELSE "agent"}) /\ End("failed")
  /\ UNCHANGED <<disk, plan, known, result, checked>>

\* Mutant: the error of the last save is dropped.
Terminal_DropsError ==
  /\ pc = "end"
  /\ \E failed \in SUBSET {"save"} :
       /\ Persist([status |-> run.end, wt |-> TRUE, digest |-> run.digest], failed)
       /\ Spend(failed)
       /\ result' = CASE run.end = "completed" -> "ok"
                      [] run.end = "interrupted" -> "cost-capped"
                      [] OTHER -> "failed"
  /\ pc' = "idle" /\ run' = NoRun /\ known' = {}
  /\ UNCHANGED <<passes, git, marker, input, checked>>

\* The terminal record.  A save that fails turns success into an error; the
\* caller of a cost-capped plan looks at CostCapped before the error.
Terminal ==
  /\ pc = "end"
  /\ \E failed \in SUBSET {"save"} :
       /\ Persist([status |-> run.end, wt |-> TRUE, digest |-> run.digest], failed)
       /\ Spend(failed)
       /\ result' = CASE run.end = "completed" /\ failed = {} -> "ok"
                      [] run.end = "interrupted" -> "cost-capped"
                      [] OTHER -> "failed"
  /\ pc' = "idle" /\ run' = NoRun /\ known' = {}
  /\ UNCHANGED <<passes, git, marker, input, checked>>

----------------------------------------------------------------------------
(* The world: crashes, the operator's commands, his hands on the checkout. *)

Crash ==
  /\ pc # "idle" /\ Spend({"crash"})
  /\ pc' = "idle" /\ plan' = saved /\ run' = NoRun /\ known' = {}
  /\ UNCHANGED <<disk, result, checked>>

\* The plan's entry as a command leaves it (no start is running).
Rewrite(p) == saved' = p /\ plan' = p

\* `recover`, and every status projection that is saved: NormalizeStaleRunning.
Normalize ==
  /\ pc = "idle" /\ saved.status = "running"
  /\ Rewrite([saved EXCEPT !.status = "interrupted"])
  /\ UNCHANGED <<passes, git, marker, input, pc, known, run, result, trouble, checked>>

\* `recover --plan`: RecoverRetry.
RecoverRetry ==
  /\ pc = "idle" /\ saved.status \in {"failed", "interrupted", "needs-human"}
  /\ Rewrite([saved EXCEPT !.status = "pending"])
  /\ UNCHANGED <<passes, git, marker, input, pc, known, run, result, trouble, checked>>

\* `recover --plan --accept-drift`.
AcceptInputDrift ==
  /\ pc = "idle" /\ saved.status \notin {"none", "running", "completed"}
  /\ saved.digest # input
  /\ Rewrite([saved EXCEPT !.status = "pending", !.digest = input])
  /\ UNCHANGED <<passes, git, marker, input, pc, known, run, result, trouble, checked>>

\* `recover --plan --reset`: the recorded worktree and branch go, then the
\* entry is saved.  prd.json and the evidence directory stay as they are.
ResetPlan ==
  /\ pc = "idle" /\ saved.status \notin {"none", "running"}
  /\ git' = IF saved.wt
              THEN [branch |-> FALSE, commits |-> {}, wt |-> FALSE, built |-> FALSE, inherits |-> FALSE]
              ELSE git
  /\ \E failed \in SUBSET {"save"} :
       /\ Spend({"reset"} \cup failed)
       /\ Rewrite(IF failed = {} THEN [status |-> "pending", wt |-> FALSE, digest |-> 0] ELSE saved)
  /\ result' = "none"
  /\ UNCHANGED <<passes, marker, input, pc, known, run, checked>>

\* prd.json or a guidance file is edited.
EditInputs ==
  /\ Spend({"edit"}) /\ input' = 3 - input
  /\ UNCHANGED <<saved, passes, git, marker, pc, plan, known, run, result, checked>>

\* `git worktree remove` by hand: the branch stays.
RemoveByHand == git' = [git EXCEPT !.wt = FALSE, !.built = FALSE, !.inherits = FALSE]

RemoveWorktree ==
  /\ pc = "idle" /\ git.wt /\ saved.wt /\ Spend({"remove"}) /\ RemoveByHand
  /\ UNCHANGED <<saved, passes, marker, input, pc, plan, known, run, result, checked>>

\* ... of a worktree the preflight refuses because no state records it.
RemoveForeign ==
  /\ pc = "idle" /\ git.wt /\ ~saved.wt /\ RemoveByHand
  /\ UNCHANGED <<saved, passes, marker, input, pc, plan, known, run, result, trouble, checked>>

----------------------------------------------------------------------------
Preparing == Refuse \/ Reuse \/ CreateWorktree \/ CreateFails \/ Publish
SettingUp == SkipSetup \/ ClearMarker \/ SetupDone \/ SetupFails \/ LoadPRD \/ LoadFails
Looping == AllPassed \/ Dispatch \/ PickFails \/ CapReached \/ AgentReturns
             \/ AgentSpoils \/ CostCapped \/ Judge
Gating == VerifyPasses \/ VerifyFails \/ ReviewPasses \/ ReviewRevises \/ ReviewHalts
            \/ FixAgent \/ GateErrors
SinglePlan == Preparing \/ SettingUp \/ Looping \/ Gating \/ Terminal

Operator == Normalize \/ RecoverRetry \/ AcceptInputDrift \/ ResetPlan
              \/ RemoveWorktree \/ RemoveForeign \/ EditInputs

Next == Start \/ SinglePlan \/ AgentCommits \/ Operator \/ Crash

Spec == Init /\ [][Next]_vars

\* The process runs and its agents work; the operator starts the plan again
\* and again, and now and then does what the refusal he reads tells him to.
FairSpec ==
  /\ Spec /\ WF_vars(SinglePlan) /\ WF_vars(AgentCommits) /\ WF_vars(Start)
  /\ SF_vars(AcceptInputDrift) /\ SF_vars(RemoveForeign)

----------------------------------------------------------------------------
(* Properties.                                                             *)

TypeOK ==
  /\ saved \in Plan /\ plan \in Plan /\ passes \subseteq Stories /\ known \subseteq Stories
  /\ git \in [branch : BOOLEAN, commits : SUBSET Commits, wt : BOOLEAN,
              built : BOOLEAN, inherits : BOOLEAN]
  /\ marker \in BOOLEAN /\ input \in 1..2 /\ pc \in Pc /\ run \in Locals
  /\ run.iter <= IterCap + 1
  /\ result \in {"none", "ok", "cost-capped", "failed"} /\ trouble \in 0..MaxTrouble
  /\ checked \in [verify : BOOLEAN, review : BOOLEAN]

\* The gates are entered, and a plan is handed to a human or to the merge,
\* only with every story passed in prd.json: a premature COMPLETE, a stale
\* copy of the prd or a retry never gets there (RecoverRetry relies on it).
GatesNeedEveryStory ==
  pc \in AtGates \/ saved.status \in {"needs-human", "completed"} => passes = Stories

\* What a plan completes with is what the last gate saw: no commit of a fix
\* agent, of a retry or of an earlier attempt goes to the merge unchecked.
GatedCompletion ==
  saved.status = "completed" => /\ Review => checked.review
                                /\ Verify /\ ~Review => checked.verify

\* A caller that is told of success, and goes on to the merge, finds the
\* plan completed on disk.
SuccessIsDurable == result = "ok" => saved.status = "completed"

\* An agent works only in a worktree that state.json says is in use, so that
\* a crash leaves a record that finds it again.
RecordedBeforeDispatch ==
  pc \in AtAgent => saved.status = "running" /\ saved.wt /\ git.wt /\ saved.digest # 0

\* A worktree whose setup was cut short is set up again before an agent
\* works in it, if no marker of an earlier worktree was there.
HalfBuiltIsRebuilt == Setup /\ pc \in AtAgent /\ ~git.inherits => git.built

\* Once nothing goes wrong any more the plan completes, whatever went wrong
\* before: no refusal, no crash and no half-done attempt is a dead end.
PlanCompletes == <>[](saved.status = "completed")

\* An agent works only in a worktree in which the setup has completed.
AgentInBuiltTree == Setup /\ pc \in AtAgent => git.built

\* A plan reported as a success has the work of every story on its branch.
CompletedHasWork == result = "ok" => Stories \subseteq git.commits

\* A terminal record that could not be saved is reported as an error.
SaveFailureIsReported ==
  [][pc = "end" /\ pc' = "idle" /\ saved' # plan' => result' = "failed" \/ trouble' = trouble]_vars

\* A plan completes with a branch on which the verify command passed.
VerifiedCompletion == saved.status = "completed" /\ Verify => checked.verify
=============================================================================

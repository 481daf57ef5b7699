--------------------------- MODULE PlanRunProofs ---------------------------
(***************************************************************************)
(* The safety properties of PlanRun, for every set of stories, every       *)
(* dependency graph, every combination of gates and budgets, and any       *)
(* number of troubles of any kind.                                         *)
(*                                                                         *)
(* None of the properties is inductive alone.  What a plan completes with  *)
(* depends on where the gates are entered from; where an agent may work    *)
(* depends on what the preflight found; whether the setup may be skipped   *)
(* depends on what earlier, crashed starts left in git and in the marker.  *)
(* IInv says what holds at each place of SinglePlan.                       *)
(***************************************************************************)
EXTENDS PlanRun, FiniteSetTheorems, WellFoundedInduction, TLAPS

\* The places at which the running record is on disk.
Running == {"setup", "settingup", "load", "pick", "end"} \cup AtAgent

\* The setup is behind this start.
Prepared == Running \ {"setup", "settingup"}

\* Every story has passed, in the file that survives the start.
StoriesPassed ==
  /\ known \subseteq passes
  /\ pc = "agent" => run.story \in Stories
  /\ pc \in AtGates => passes = Stories
  /\ pc = "end" /\ run.end \in {"needs-human", "completed"} => passes = Stories
  /\ saved.status \in {"needs-human", "completed"} => passes = Stories

\* The gates on, and the gates passed on what is on the branch.
Checked == (Review => checked.review) /\ (Verify /\ ~Review => checked.verify)
GatesKept ==
  /\ pc \in {"verify", "verifyfix"} => Verify
  /\ pc \in {"review", "reviewfix"} => Review
  /\ pc = "end" /\ run.end = "completed" => Checked
  /\ saved.status = "completed" => Checked /\ pc = "idle"

\* A success is on disk, and no start has begun since it was reported.
Durable == result = "ok" => saved.status = "completed" /\ pc = "idle"

\* A start works in a worktree the running record names.
Recorded ==
  /\ pc = "publish" => git.wt /\ run.digest # 0
  /\ pc \in Running => saved.status = "running" /\ saved.wt /\ git.wt /\ saved.digest # 0
                       /\ run.digest # 0

\* The marker vouches for the worktree, unless it was there before it.
Built ==
  /\ marker /\ git.wt /\ ~git.inherits => git.built
  /\ Setup /\ pc \in Prepared /\ ~git.inherits => git.built

\* The story loop is not entered past its budget.
Budget == pc \in {"agent", "judge"} => run.iter <= IterCap

IInv == TypeOK /\ Budget /\ StoriesPassed /\ GatesKept /\ Durable /\ Recorded /\ Built

----------------------------------------------------------------------------
\* The count of troubles stays within its bound.
LEMMA SpendType ==
  ASSUME trouble \in 0..MaxTrouble, NEW K, Spend(K)
  PROVE  trouble' \in 0..MaxTrouble
<1>1. IsFiniteSet(K)
  BY FS_Subset, RunAssumption DEF Spend
<1>2. Cardinality(K) \in Nat
  BY <1>1, FS_CardinalityType
<1> QED  BY <1>2, RunAssumption DEF Spend

\* Whoever aborts a start leaves it idle, and the plan failed in its record.
LEMMA AbortType ==
  ASSUME TypeOK, NEW K, Abort(K)
  PROVE  /\ trouble' \in 0..MaxTrouble
         /\ plan' \in Plan /\ plan'.status = "failed"
         /\ saved' \in {saved, plan'}
         /\ pc' = "idle" /\ run' = NoRun /\ known' = {} /\ result' = "failed"
<1>1. PICK failed \in SUBSET {"save"} :
        /\ Persist([plan EXCEPT !.status = "failed"], failed) /\ Spend(K \cup failed)
        /\ pc' = "idle" /\ run' = NoRun /\ known' = {} /\ result' = "failed"
  BY DEF Abort
<1>2. trouble' \in 0..MaxTrouble
  BY <1>1, SpendType DEF TypeOK
<1>3. plan' = [plan EXCEPT !.status = "failed"] /\ saved' \in {saved, plan'}
  BY <1>1 DEF Persist
<1>4. plan' \in Plan /\ plan'.status = "failed"
  BY <1>3 DEF TypeOK, Plan, Status
<1> QED  BY <1>1, <1>2, <1>3, <1>4

LEMMA NoRunType ==
  /\ NoRun \in Locals /\ NoRun.iter = 1 /\ NoRun.end = "none" /\ NoRun.digest = 0
  /\ NoGate \in [verify : BOOLEAN, review : BOOLEAN]
  /\ NoRun.iter <= IterCap + 1
<1>1. IterCap \in Nat /\ IterCap # 0
  BY RunAssumption
<1> QED  BY <1>1 DEF NoRun, Locals, Commits, Status, NoGate

\* The story the loop picks is one that may be worked on: a set of ranks has
\* a least one.
LEMMA NextStoryIsEligible ==
  ASSUME Eligible # {}
  PROVE  NextStory \in Eligible /\ \A t \in Eligible : Rank[NextStory] <= Rank[t]
<1> DEFINE Ranks == {Rank[s] : s \in Eligible}
<1>1. Ranks \in SUBSET Nat /\ Ranks # {}
  BY RunAssumption DEF Eligible
<1>2. PICK m \in Ranks : \A k \in Ranks : <<k, m>> \notin OpToRel(<, Nat)
  <2> HIDE DEF Ranks
  <2> QED  BY <1>1, WFMin, NatLessThanWellFounded, Zenon
<1>3. \A k \in Ranks : ~(k < m)
  <2> HIDE DEF Ranks
  <2> QED  BY <1>1, <1>2, Zenon DEF OpToRel
<1>4. \A k \in Ranks : m <= k
  <2> HIDE DEF Ranks
  <2> QED  BY <1>1, <1>3
<1>5. PICK s \in Eligible : Rank[s] = m
  BY <1>2
<1>6. \A t \in Eligible : Rank[s] <= Rank[t]
  BY <1>4, <1>5
<1> QED  BY <1>5, <1>6 DEF NextStory

\* Entering the gates leaves the budget of the story loop alone.
LEMMA EnterGatesType ==
  ASSUME run \in Locals, EnterGates
  PROVE  run' \in Locals /\ run'.iter = run.iter
<1> DEFINE r == [run EXCEPT !.round = 1]
<1>1. r \in Locals /\ r.iter = run.iter
  BY DEF Locals
<1>2. CASE Verify
  <2>1. run' = [r EXCEPT !.timeouts = 0]
    BY <1>2 DEF EnterGates
  <2> QED  BY <1>1, <2>1 DEF Locals
<1>3. CASE ~Verify /\ Review
  BY <1>1, <1>3 DEF EnterGates
<1>4. CASE ~Verify /\ ~Review
  BY <1>4 DEF EnterGates, End, Locals, Status
<1> QED  BY <1>2, <1>3, <1>4

----------------------------------------------------------------------------
LEMMA InitEstablishes == Init => IInv
<1> SUFFICES ASSUME Init PROVE IInv
  OBVIOUS
<1>1. saved \in Plan /\ plan \in Plan
  BY DEF Init, Plan, Status
<1>2. git \in [branch : BOOLEAN, commits : SUBSET Commits, wt : BOOLEAN,
               built : BOOLEAN, inherits : BOOLEAN]
  BY DEF Init
<1>3. trouble \in 0..MaxTrouble
  BY RunAssumption DEF Init
<1>4. run \in Locals /\ run.iter <= IterCap + 1 /\ checked \in [verify : BOOLEAN, review : BOOLEAN]
  BY NoRunType DEF Init
<1>5. input \in 1..2
  BY DEF Init
<1>6. /\ passes \subseteq Stories /\ known \subseteq Stories /\ marker \in BOOLEAN
      /\ pc \in Pc /\ result \in {"none", "ok", "cost-capped", "failed"}
  BY Zenon DEF Init, Pc
<1>7. Budget /\ StoriesPassed /\ GatesKept /\ Durable /\ Recorded /\ Built
  BY DEF Init, Budget, StoriesPassed, GatesKept, Durable, Recorded, Built, AtAgent, AtGates,
         Running, Prepared
<1> QED  BY <1>1, <1>2, <1>3, <1>4, <1>5, <1>6, <1>7 DEF IInv, TypeOK

\* A start that gives up before it has dispatched anything.
LEMMA AbortKeeps ==
  ASSUME IInv, NEW K, Abort(K), UNCHANGED <<passes, git, marker, input, checked>>
  PROVE  IInv'
<1>1. TypeOK
  BY DEF IInv
<1>2. TypeOK'
  BY <1>1, AbortType, NoRunType DEF TypeOK, Pc
<1>3. saved'.status \in {saved.status, "failed"}
  BY <1>1, AbortType
<1>4. Budget' /\ StoriesPassed' /\ GatesKept' /\ Durable' /\ Recorded' /\ Built'
  BY <1>1, AbortType, <1>3
  DEF IInv, Budget, StoriesPassed, GatesKept, Checked, Durable, Recorded, Built, AtAgent, AtGates,
      Running, Prepared
<1> QED  BY <1>2, <1>4 DEF IInv

----------------------------------------------------------------------------
(* Preflight, the worktree, the running record and the setup.             *)

LEMMA StartKeeps == IInv /\ Start => IInv'
<1> SUFFICES ASSUME IInv, Start PROVE IInv'
  OBVIOUS
<1>1. TypeOK'
  BY DEF Start, disk, IInv, TypeOK, Pc, AtAgent, NoGate
<1>2. Budget' /\ StoriesPassed' /\ GatesKept' /\ Durable' /\ Recorded' /\ Built'
  BY DEF Start, disk, IInv, TypeOK, Budget, StoriesPassed, GatesKept, Checked, Durable, Recorded, Built, AtAgent, AtGates,
      Running, Prepared
<1> QED  BY <1>1, <1>2 DEF IInv

LEMMA ReuseKeeps == IInv /\ Reuse => IInv'
<1> SUFFICES ASSUME IInv, Reuse PROVE IInv'
  OBVIOUS
<1>1. input \in 0..2 /\ run \in Locals /\ run.iter <= IterCap + 1
  BY DEF IInv, TypeOK
<1> DEFINE r == [run EXCEPT !.reuse = TRUE]
<1>2. r \in Locals /\ r.iter = run.iter
  BY <1>1 DEF Locals
<1>3. run' \in Locals /\ run'.iter <= IterCap + 1
  BY <1>1, <1>2 DEF Reuse, Locals
<1>4. TypeOK'
  BY <1>3 DEF Reuse, disk, IInv, TypeOK, Pc, AtAgent
<1>5. Budget' /\ StoriesPassed' /\ GatesKept' /\ Durable' /\ Recorded' /\ Built'
  BY DEF Reuse, disk, IInv, TypeOK, Budget, StoriesPassed, GatesKept, Checked, Durable, Recorded, Built, AtAgent, AtGates,
      Running, Prepared, Reusable, Locals
<1> QED  BY <1>4, <1>5 DEF IInv

LEMMA CreateWorktreeKeeps == IInv /\ CreateWorktree => IInv'
<1> SUFFICES ASSUME IInv, CreateWorktree PROVE IInv'
  OBVIOUS
<1>1. run' \in Locals /\ run'.iter <= IterCap + 1
  BY NoRunType DEF IInv, TypeOK, Locals, CreateWorktree
<1>2. TypeOK'
  BY <1>1 DEF CreateWorktree, disk, IInv, TypeOK, Pc, AtAgent
<1>3. Budget' /\ StoriesPassed' /\ GatesKept' /\ Durable' /\ Recorded' /\ Built'
  BY DEF CreateWorktree, disk, IInv, TypeOK, Budget, StoriesPassed, GatesKept, Checked, Durable, Recorded, Built, AtAgent, AtGates,
      Running, Prepared, Locals
<1> QED  BY <1>2, <1>3 DEF IInv

LEMMA PublishKeeps == IInv /\ Publish => IInv'
<1> SUFFICES ASSUME IInv, Publish PROVE IInv'
  OBVIOUS
<1>1. run' \in Locals /\ run'.iter <= IterCap + 1
  BY NoRunType DEF IInv, TypeOK, Locals, Publish
<1>2. trouble' \in 0..MaxTrouble
  BY SpendType DEF Publish, IInv, TypeOK
<1>3. TypeOK'
  BY <1>1, <1>2 DEF Publish, disk, IInv, TypeOK, Pc, AtAgent, Persist, Plan, Status, Locals
<1>4. Budget' /\ StoriesPassed' /\ GatesKept' /\ Durable' /\ Recorded' /\ Built'
  BY NoRunType DEF Publish, disk, IInv, TypeOK, Budget, StoriesPassed, GatesKept, Checked, Durable, Recorded, Built, AtAgent, AtGates,
      Running, Prepared, Persist, Plan, Locals
<1> QED  BY <1>3, <1>4 DEF IInv

LEMMA SkipSetupKeeps == IInv /\ SkipSetup => IInv'
<1> SUFFICES ASSUME IInv, SkipSetup PROVE IInv'
  OBVIOUS
<1>1. TypeOK'
  BY DEF SkipSetup, disk, IInv, TypeOK, Pc, AtAgent
<1>2. Budget' /\ StoriesPassed' /\ GatesKept' /\ Durable' /\ Recorded' /\ Built'
  BY DEF SkipSetup, disk, IInv, TypeOK, Budget, StoriesPassed, GatesKept, Checked, Durable, Recorded, Built, AtAgent, AtGates,
      Running, Prepared, Skippable
<1> QED  BY <1>1, <1>2 DEF IInv

LEMMA ClearMarkerKeeps == IInv /\ ClearMarker => IInv'
<1> SUFFICES ASSUME IInv, ClearMarker PROVE IInv'
  OBVIOUS
<1>1. trouble' \in 0..MaxTrouble
  BY SpendType DEF ClearMarker, IInv, TypeOK
<1>2. TypeOK'
  BY <1>1 DEF ClearMarker, disk, IInv, TypeOK, Pc, AtAgent
<1>3. Budget' /\ StoriesPassed' /\ GatesKept' /\ Durable' /\ Recorded' /\ Built'
  BY DEF ClearMarker, disk, IInv, TypeOK, Budget, StoriesPassed, GatesKept, Checked, Durable, Recorded, Built, AtAgent, AtGates,
      Running, Prepared
<1> QED  BY <1>2, <1>3 DEF IInv

LEMMA SetupDoneKeeps == IInv /\ SetupDone => IInv'
<1> SUFFICES ASSUME IInv, SetupDone PROVE IInv'
  OBVIOUS
<1>1. trouble' \in 0..MaxTrouble
  BY SpendType DEF SetupDone, IInv, TypeOK
<1>2. TypeOK'
  BY <1>1 DEF SetupDone, disk, IInv, TypeOK, Pc, AtAgent
<1>3. Budget' /\ StoriesPassed' /\ GatesKept' /\ Durable' /\ Recorded' /\ Built'
  BY DEF SetupDone, disk, IInv, TypeOK, Budget, StoriesPassed, GatesKept, Checked, Durable, Recorded, Built, AtAgent, AtGates,
      Running, Prepared
<1> QED  BY <1>2, <1>3 DEF IInv

LEMMA LoadPRDKeeps == IInv /\ LoadPRD => IInv'
<1> SUFFICES ASSUME IInv, LoadPRD PROVE IInv'
  OBVIOUS
<1>1. TypeOK'
  BY DEF LoadPRD, disk, IInv, TypeOK, Pc, AtAgent
<1>2. Budget' /\ StoriesPassed' /\ GatesKept' /\ Durable' /\ Recorded' /\ Built'
  BY DEF LoadPRD, disk, IInv, TypeOK, Budget, StoriesPassed, GatesKept, Checked, Durable, Recorded, Built, AtAgent, AtGates,
      Running, Prepared
<1> QED  BY <1>1, <1>2 DEF IInv

----------------------------------------------------------------------------
(* The story loop.                                                        *)

LEMMA AllPassedKeeps == IInv /\ AllPassed => IInv'
<1> SUFFICES ASSUME IInv, AllPassed PROVE IInv'
  OBVIOUS
<1>1. run' \in Locals /\ run'.iter <= IterCap + 1
  BY EnterGatesType DEF IInv, TypeOK, AllPassed
<1>2. TypeOK'
  BY <1>1 DEF AllPassed, disk, IInv, TypeOK, Pc, AtAgent, EnterGates, End
<1>3. Budget' /\ StoriesPassed' /\ GatesKept' /\ Durable' /\ Recorded' /\ Built'
  BY DEF AllPassed, disk, IInv, TypeOK, Budget, StoriesPassed, GatesKept, Checked, Durable, Recorded, Built, AtAgent, AtGates,
      Running, Prepared, EnterGates, End, Locals
<1> QED  BY <1>2, <1>3 DEF IInv

LEMMA DispatchKeeps == IInv /\ Dispatch => IInv'
<1> SUFFICES ASSUME IInv, Dispatch PROVE IInv'
  OBVIOUS
<1>1. run' \in Locals /\ run'.iter <= IterCap + 1
  BY NextStoryIsEligible DEF IInv, TypeOK, Locals, Dispatch, Commits, Eligible
<1>2. TypeOK'
  BY <1>1 DEF Dispatch, disk, IInv, TypeOK, Pc, AtAgent
<1>3. Budget' /\ StoriesPassed' /\ GatesKept' /\ Durable' /\ Recorded' /\ Built'
  BY NextStoryIsEligible DEF Dispatch, disk, IInv, TypeOK, Budget, StoriesPassed, GatesKept, Checked, Durable, Recorded, Built, AtAgent, AtGates,
      Running, Prepared, Eligible, Locals
<1> QED  BY <1>2, <1>3 DEF IInv

LEMMA PickFailsKeeps == IInv /\ PickFails => IInv'
<1> SUFFICES ASSUME IInv, PickFails PROVE IInv'
  OBVIOUS
<1>1. run' \in Locals /\ run'.iter <= IterCap + 1
  BY NoRunType DEF IInv, TypeOK, Locals, PickFails, End, Status
<1>2. trouble' \in 0..MaxTrouble
  BY SpendType DEF PickFails, IInv, TypeOK
<1>3. TypeOK'
  BY <1>1, <1>2 DEF PickFails, disk, IInv, TypeOK, Pc, AtAgent, End
<1>4. Budget' /\ StoriesPassed' /\ GatesKept' /\ Durable' /\ Recorded' /\ Built'
  BY DEF PickFails, disk, IInv, TypeOK, Budget, StoriesPassed, GatesKept, Checked, Durable, Recorded, Built, AtAgent, AtGates,
      Running, Prepared, End, Locals
<1> QED  BY <1>3, <1>4 DEF IInv

LEMMA CapReachedKeeps == IInv /\ CapReached => IInv'
<1> SUFFICES ASSUME IInv, CapReached PROVE IInv'
  OBVIOUS
<1>1. run' \in Locals /\ run'.iter <= IterCap + 1
  BY NoRunType DEF IInv, TypeOK, Locals, CapReached, End, Status
<1>2. TypeOK'
  BY <1>1 DEF CapReached, disk, IInv, TypeOK, Pc, AtAgent, End
<1>3. Budget' /\ StoriesPassed' /\ GatesKept' /\ Durable' /\ Recorded' /\ Built'
  BY DEF CapReached, disk, IInv, TypeOK, Budget, StoriesPassed, GatesKept, Checked, Durable, Recorded, Built, AtAgent, AtGates,
      Running, Prepared, End, Locals
<1> QED  BY <1>2, <1>3 DEF IInv

LEMMA AgentCommitsKeeps == IInv /\ AgentCommits => IInv'
<1> SUFFICES ASSUME IInv, AgentCommits PROVE IInv'
  OBVIOUS
<1>1. TypeOK'
  BY DEF AgentCommits, disk, IInv, TypeOK, Pc, AtAgent, NoGate, Commits, Locals
<1>2. Budget' /\ StoriesPassed' /\ GatesKept' /\ Durable' /\ Recorded' /\ Built'
  BY DEF AgentCommits, disk, IInv, TypeOK, Budget, StoriesPassed, GatesKept, Checked, Durable, Recorded, Built, AtAgent, AtGates,
      Running, Prepared
<1> QED  BY <1>1, <1>2 DEF IInv

LEMMA AgentReturnsKeeps == IInv /\ AgentReturns => IInv'
<1> SUFFICES ASSUME IInv, AgentReturns PROVE IInv'
  OBVIOUS
<1>1. run' \in Locals /\ run'.iter <= IterCap + 1
  BY NoRunType DEF IInv, TypeOK, Locals, AgentReturns
<1>2. trouble' \in 0..MaxTrouble
  BY SpendType DEF AgentReturns, IInv, TypeOK
<1>3. TypeOK'
  BY <1>1, <1>2 DEF AgentReturns, disk, IInv, TypeOK, Pc, AtAgent, StoriesPassed
<1>4. Budget' /\ StoriesPassed' /\ GatesKept' /\ Durable' /\ Recorded' /\ Built'
  BY DEF AgentReturns, disk, IInv, TypeOK, Budget, StoriesPassed, GatesKept, Checked, Durable, Recorded, Built, AtAgent, AtGates,
      Running, Prepared, Locals
<1> QED  BY <1>3, <1>4 DEF IInv

LEMMA AgentSpoilsKeeps == IInv /\ AgentSpoils => IInv'
<1> SUFFICES ASSUME IInv, AgentSpoils PROVE IInv'
  OBVIOUS
<1>1. run' \in Locals /\ run'.iter <= IterCap + 1
  BY NoRunType DEF IInv, TypeOK, Locals, AgentSpoils, End, Status
<1>2. trouble' \in 0..MaxTrouble
  BY SpendType DEF AgentSpoils, IInv, TypeOK
<1>3. TypeOK'
  BY <1>1, <1>2 DEF AgentSpoils, disk, IInv, TypeOK, Pc, AtAgent, End
<1>4. Budget' /\ StoriesPassed' /\ GatesKept' /\ Durable' /\ Recorded' /\ Built'
  BY DEF AgentSpoils, disk, IInv, TypeOK, Budget, StoriesPassed, GatesKept, Checked, Durable, Recorded, Built, AtAgent, AtGates,
      Running, Prepared, End, Locals
<1> QED  BY <1>3, <1>4 DEF IInv

LEMMA CostCappedKeeps == IInv /\ CostCapped => IInv'
<1> SUFFICES ASSUME IInv, CostCapped PROVE IInv'
  OBVIOUS
<1>1. run' \in Locals /\ run'.iter <= IterCap + 1
  BY NoRunType DEF IInv, TypeOK, Locals, CostCapped, End, Status
<1>2. trouble' \in 0..MaxTrouble
  BY SpendType DEF CostCapped, IInv, TypeOK
<1>3. TypeOK'
  BY <1>1, <1>2 DEF CostCapped, disk, IInv, TypeOK, Pc, AtAgent, End
<1>4. Budget' /\ StoriesPassed' /\ GatesKept' /\ Durable' /\ Recorded' /\ Built'
  BY DEF CostCapped, disk, IInv, TypeOK, Budget, StoriesPassed, GatesKept, Checked, Durable, Recorded, Built, AtAgent, AtGates,
      Running, Prepared, End, Locals
<1> QED  BY <1>3, <1>4 DEF IInv

LEMMA JudgeKeeps == IInv /\ Judge => IInv'
<1> SUFFICES ASSUME IInv, Judge PROVE IInv'
  OBVIOUS
<1>1. run' \in Locals /\ run'.iter <= IterCap + 1
  <2>1. CASE EnterGates
    BY <2>1, EnterGatesType DEF IInv, TypeOK
  <2>2. CASE End("failed")
    BY <2>2 DEF IInv, TypeOK, Locals, End, Status
  <2>3. CASE run.iter <= IterCap /\ run' = [run EXCEPT !.iter = @ + 1]
    BY <2>3, RunAssumption DEF IInv, TypeOK, Locals
  <2> QED  BY <2>1, <2>2, <2>3 DEF Judge, WorkCompletedBeforeCrash, IInv, Budget
<1>2. TypeOK'
  BY <1>1 DEF Judge, WorkCompletedBeforeCrash, disk, IInv, TypeOK, Pc, AtAgent, EnterGates, End
<1>3. Budget' /\ StoriesPassed' /\ GatesKept' /\ Durable' /\ Recorded' /\ Built'
  BY DEF Judge, disk, IInv, TypeOK, Budget, StoriesPassed, GatesKept, Checked, Durable, Recorded, Built, AtAgent, AtGates,
      Running, Prepared, EnterGates, End, Locals, Honored, WorkCompletedBeforeCrash
<1> QED  BY <1>2, <1>3 DEF IInv

----------------------------------------------------------------------------
(* The gates and the terminal record.                                     *)

LEMMA VerifyPassesKeeps == IInv /\ VerifyPasses => IInv'
<1> SUFFICES ASSUME IInv, VerifyPasses PROVE IInv'
  OBVIOUS
<1>1. run' \in Locals /\ run'.iter <= IterCap + 1
  BY NoRunType DEF IInv, TypeOK, Locals, VerifyPasses, End, Status
<1>2. TypeOK'
  BY <1>1 DEF VerifyPasses, disk, IInv, TypeOK, Pc, AtAgent, End
<1>3. Budget' /\ StoriesPassed' /\ GatesKept' /\ Durable' /\ Recorded' /\ Built'
  BY DEF VerifyPasses, disk, IInv, TypeOK, Budget, StoriesPassed, GatesKept, Checked, Durable, Recorded, Built, AtAgent, AtGates,
      Running, Prepared, End, Locals
<1> QED  BY <1>2, <1>3 DEF IInv

LEMMA VerifyFailsKeeps == IInv /\ VerifyFails => IInv'
<1> SUFFICES ASSUME IInv, VerifyFails PROVE IInv'
  OBVIOUS
<1>1. run' \in Locals /\ run'.iter <= IterCap + 1
  BY NoRunType DEF IInv, TypeOK, Locals, VerifyFails, End, Status
<1>2. trouble' \in 0..MaxTrouble
  BY SpendType DEF VerifyFails, IInv, TypeOK
<1>3. TypeOK'
  BY <1>1, <1>2 DEF VerifyFails, disk, IInv, TypeOK, Pc, AtAgent, End
<1>4. Budget' /\ StoriesPassed' /\ GatesKept' /\ Durable' /\ Recorded' /\ Built'
  BY DEF VerifyFails, disk, IInv, TypeOK, Budget, StoriesPassed, GatesKept, Checked, Durable, Recorded, Built, AtAgent, AtGates,
      Running, Prepared, End, Locals
<1> QED  BY <1>3, <1>4 DEF IInv

LEMMA ReviewPassesKeeps == IInv /\ ReviewPasses => IInv'
<1> SUFFICES ASSUME IInv, ReviewPasses PROVE IInv'
  OBVIOUS
<1>1. run' \in Locals /\ run'.iter <= IterCap + 1
  BY NoRunType DEF IInv, TypeOK, Locals, ReviewPasses, End, Status
<1>2. TypeOK'
  BY <1>1 DEF ReviewPasses, disk, IInv, TypeOK, Pc, AtAgent, End
<1>3. Budget' /\ StoriesPassed' /\ GatesKept' /\ Durable' /\ Recorded' /\ Built'
  BY DEF ReviewPasses, disk, IInv, TypeOK, Budget, StoriesPassed, GatesKept, Checked, Durable, Recorded, Built, AtAgent, AtGates,
      Running, Prepared, End, Locals
<1> QED  BY <1>2, <1>3 DEF IInv

LEMMA ReviewRevisesKeeps == IInv /\ ReviewRevises => IInv'
<1> SUFFICES ASSUME IInv, ReviewRevises PROVE IInv'
  OBVIOUS
<1>1. run' \in Locals /\ run'.iter <= IterCap + 1
  BY NoRunType DEF IInv, TypeOK, Locals, ReviewRevises, End, Status
<1>2. trouble' \in 0..MaxTrouble
  BY SpendType DEF ReviewRevises, IInv, TypeOK
<1>3. TypeOK'
  BY <1>1, <1>2 DEF ReviewRevises, disk, IInv, TypeOK, Pc, AtAgent, End
<1>4. Budget' /\ StoriesPassed' /\ GatesKept' /\ Durable' /\ Recorded' /\ Built'
  BY DEF ReviewRevises, disk, IInv, TypeOK, Budget, StoriesPassed, GatesKept, Checked, Durable, Recorded, Built, AtAgent, AtGates,
      Running, Prepared, End, Locals
<1> QED  BY <1>3, <1>4 DEF IInv

LEMMA ReviewHaltsKeeps == IInv /\ ReviewHalts => IInv'
<1> SUFFICES ASSUME IInv, ReviewHalts PROVE IInv'
  OBVIOUS
<1>1. run' \in Locals /\ run'.iter <= IterCap + 1
  BY NoRunType DEF IInv, TypeOK, Locals, ReviewHalts, End, Status
<1>2. trouble' \in 0..MaxTrouble
  BY SpendType DEF ReviewHalts, IInv, TypeOK
<1>3. TypeOK'
  BY <1>1, <1>2 DEF ReviewHalts, disk, IInv, TypeOK, Pc, AtAgent, End
<1>4. Budget' /\ StoriesPassed' /\ GatesKept' /\ Durable' /\ Recorded' /\ Built'
  BY DEF ReviewHalts, disk, IInv, TypeOK, Budget, StoriesPassed, GatesKept, Checked, Durable, Recorded, Built, AtAgent, AtGates,
      Running, Prepared, End, Locals
<1> QED  BY <1>3, <1>4 DEF IInv

LEMMA FixAgentKeeps == IInv /\ FixAgent => IInv'
<1> SUFFICES ASSUME IInv, FixAgent PROVE IInv'
  OBVIOUS
<1>1. run' \in Locals /\ run'.iter <= IterCap + 1
  BY NoRunType DEF IInv, TypeOK, Locals, FixAgent
<1>2. checked' \in [verify : BOOLEAN, review : BOOLEAN]
  BY NoRunType DEF FixAgent, IInv, TypeOK
<1>3. git' \in [branch : BOOLEAN, commits : SUBSET Commits, wt : BOOLEAN,
                built : BOOLEAN, inherits : BOOLEAN]
  BY DEF FixAgent, IInv, TypeOK, Commits
<1>4. TypeOK'
  BY <1>1, <1>2, <1>3 DEF FixAgent, IInv, TypeOK, Pc, AtAgent
<1>5. Budget' /\ StoriesPassed' /\ GatesKept' /\ Durable' /\ Recorded' /\ Built'
  BY DEF FixAgent, disk, IInv, TypeOK, Budget, StoriesPassed, GatesKept, Checked, Durable, Recorded, Built, AtAgent, AtGates,
      Running, Prepared, NoGate, Locals
<1> QED  BY <1>4, <1>5 DEF IInv

LEMMA GateErrorsKeeps == IInv /\ GateErrors => IInv'
<1> SUFFICES ASSUME IInv, GateErrors PROVE IInv'
  OBVIOUS
<1>1. run' \in Locals /\ run'.iter <= IterCap + 1
  BY NoRunType DEF IInv, TypeOK, Locals, GateErrors, End, Status
<1>2. trouble' \in 0..MaxTrouble
  BY SpendType DEF GateErrors, IInv, TypeOK
<1>3. TypeOK'
  BY <1>1, <1>2 DEF GateErrors, disk, IInv, TypeOK, Pc, AtAgent, End
<1>4. Budget' /\ StoriesPassed' /\ GatesKept' /\ Durable' /\ Recorded' /\ Built'
  BY DEF GateErrors, disk, IInv, TypeOK, Budget, StoriesPassed, GatesKept, Checked, Durable, Recorded, Built, AtAgent, AtGates,
      Running, Prepared, End, Locals
<1> QED  BY <1>3, <1>4 DEF IInv

LEMMA TerminalKeeps == IInv /\ Terminal => IInv'
<1> SUFFICES ASSUME IInv, Terminal PROVE IInv'
  OBVIOUS
<1>1. run' \in Locals /\ run'.iter <= IterCap + 1
  BY NoRunType DEF IInv, TypeOK, Locals, Terminal
<1>2. trouble' \in 0..MaxTrouble
  BY SpendType DEF Terminal, IInv, TypeOK
<1>3. TypeOK'
  BY <1>1, <1>2 DEF Terminal, disk, IInv, TypeOK, Pc, AtAgent, Persist, Plan, Locals
<1>4. Budget' /\ StoriesPassed' /\ GatesKept' /\ Durable' /\ Recorded' /\ Built'
  BY NoRunType DEF Terminal, disk, IInv, TypeOK, Budget, StoriesPassed, GatesKept, Checked, Durable, Recorded, Built, AtAgent, AtGates,
      Running, Prepared, Persist, Plan, Locals
<1> QED  BY <1>3, <1>4 DEF IInv

----------------------------------------------------------------------------
(* Crashes, and the operator.                                             *)

LEMMA CrashKeeps == IInv /\ Crash => IInv'
<1> SUFFICES ASSUME IInv, Crash PROVE IInv'
  OBVIOUS
<1>1. run' \in Locals /\ run'.iter <= IterCap + 1
  BY NoRunType DEF IInv, TypeOK, Locals, Crash
<1>2. trouble' \in 0..MaxTrouble
  BY SpendType DEF Crash, IInv, TypeOK
<1>3. TypeOK'
  BY <1>1, <1>2 DEF Crash, disk, IInv, TypeOK, Pc, AtAgent
<1>4. Budget' /\ StoriesPassed' /\ GatesKept' /\ Durable' /\ Recorded' /\ Built'
  BY NoRunType DEF Crash, disk, IInv, TypeOK, Budget, StoriesPassed, GatesKept, Checked, Durable, Recorded, Built, AtAgent, AtGates,
      Running, Prepared
<1> QED  BY <1>3, <1>4 DEF IInv

LEMMA NormalizeKeeps == IInv /\ Normalize => IInv'
<1> SUFFICES ASSUME IInv, Normalize PROVE IInv'
  OBVIOUS
<1>1. TypeOK'
  BY DEF Normalize, disk, IInv, TypeOK, Pc, AtAgent, Rewrite, Plan, Status
<1>2. Budget' /\ StoriesPassed' /\ GatesKept' /\ Durable' /\ Recorded' /\ Built'
  BY DEF Normalize, disk, IInv, TypeOK, Budget, StoriesPassed, GatesKept, Checked, Durable, Recorded, Built, AtAgent, AtGates,
      Running, Prepared, Rewrite, Plan
<1> QED  BY <1>1, <1>2 DEF IInv

LEMMA RecoverRetryKeeps == IInv /\ RecoverRetry => IInv'
<1> SUFFICES ASSUME IInv, RecoverRetry PROVE IInv'
  OBVIOUS
<1>1. TypeOK'
  BY DEF RecoverRetry, disk, IInv, TypeOK, Pc, AtAgent, Rewrite, Plan, Status
<1>2. Budget' /\ StoriesPassed' /\ GatesKept' /\ Durable' /\ Recorded' /\ Built'
  BY DEF RecoverRetry, disk, IInv, TypeOK, Budget, StoriesPassed, GatesKept, Checked, Durable, Recorded, Built, AtAgent, AtGates,
      Running, Prepared, Rewrite, Plan
<1> QED  BY <1>1, <1>2 DEF IInv

LEMMA AcceptInputDriftKeeps == IInv /\ AcceptInputDrift => IInv'
<1> SUFFICES ASSUME IInv, AcceptInputDrift PROVE IInv'
  OBVIOUS
<1>1. [saved EXCEPT !.status = "pending", !.digest = input] \in Plan
  <2> DEFINE p == [saved EXCEPT !.status = "pending"]
  <2>1. p \in Plan /\ input \in 0..2
    BY DEF IInv, TypeOK, Plan, Status
  <2> QED  BY <2>1 DEF Plan
<1>2. TypeOK'
  BY <1>1 DEF AcceptInputDrift, IInv, TypeOK, Rewrite
<1>3. Budget' /\ StoriesPassed' /\ GatesKept' /\ Durable' /\ Recorded' /\ Built'
  BY DEF AcceptInputDrift, disk, IInv, TypeOK, Budget, StoriesPassed, GatesKept, Checked, Durable, Recorded, Built, AtAgent, AtGates,
      Running, Prepared, Rewrite, Plan
<1> QED  BY <1>2, <1>3 DEF IInv

LEMMA ResetPlanKeeps == IInv /\ ResetPlan => IInv'
<1> SUFFICES ASSUME IInv, ResetPlan PROVE IInv'
  OBVIOUS
<1>1. trouble' \in 0..MaxTrouble
  BY SpendType DEF ResetPlan, IInv, TypeOK
<1>2. TypeOK'
  BY <1>1 DEF ResetPlan, disk, IInv, TypeOK, Pc, AtAgent, Rewrite, Plan, Status
<1>3. Budget' /\ StoriesPassed' /\ GatesKept' /\ Durable' /\ Recorded' /\ Built'
  BY DEF ResetPlan, disk, IInv, TypeOK, Budget, StoriesPassed, GatesKept, Checked, Durable, Recorded, Built, AtAgent, AtGates,
      Running, Prepared, Rewrite, Plan
<1> QED  BY <1>2, <1>3 DEF IInv

LEMMA EditInputsKeeps == IInv /\ EditInputs => IInv'
<1> SUFFICES ASSUME IInv, EditInputs PROVE IInv'
  OBVIOUS
<1>1. trouble' \in 0..MaxTrouble
  BY SpendType DEF EditInputs, IInv, TypeOK
<1>2. TypeOK'
  BY <1>1 DEF EditInputs, disk, IInv, TypeOK, Pc, AtAgent
<1>3. Budget' /\ StoriesPassed' /\ GatesKept' /\ Durable' /\ Recorded' /\ Built'
  BY DEF EditInputs, disk, IInv, TypeOK, Budget, StoriesPassed, GatesKept, Checked, Durable, Recorded, Built, AtAgent, AtGates,
      Running, Prepared
<1> QED  BY <1>2, <1>3 DEF IInv

LEMMA RemoveWorktreeKeeps == IInv /\ RemoveWorktree => IInv'
<1> SUFFICES ASSUME IInv, RemoveWorktree PROVE IInv'
  OBVIOUS
<1>1. trouble' \in 0..MaxTrouble
  BY SpendType DEF RemoveWorktree, IInv, TypeOK
<1>2. TypeOK'
  BY <1>1 DEF RemoveWorktree, disk, IInv, TypeOK, Pc, AtAgent, RemoveByHand
<1>3. Budget' /\ StoriesPassed' /\ GatesKept' /\ Durable' /\ Recorded' /\ Built'
  BY DEF RemoveWorktree, disk, IInv, TypeOK, Budget, StoriesPassed, GatesKept, Checked, Durable, Recorded, Built, AtAgent, AtGates,
      Running, Prepared, RemoveByHand
<1> QED  BY <1>2, <1>3 DEF IInv

LEMMA RemoveForeignKeeps == IInv /\ RemoveForeign => IInv'
<1> SUFFICES ASSUME IInv, RemoveForeign PROVE IInv'
  OBVIOUS
<1>1. TypeOK'
  BY DEF RemoveForeign, disk, IInv, TypeOK, Pc, AtAgent, RemoveByHand
<1>2. Budget' /\ StoriesPassed' /\ GatesKept' /\ Durable' /\ Recorded' /\ Built'
  BY DEF RemoveForeign, disk, IInv, TypeOK, Budget, StoriesPassed, GatesKept, Checked, Durable, Recorded, Built, AtAgent, AtGates,
      Running, Prepared, RemoveByHand
<1> QED  BY <1>1, <1>2 DEF IInv

----------------------------------------------------------------------------
LEMMA UnchangedKeeps == IInv /\ UNCHANGED vars => IInv'
<1> SUFFICES ASSUME IInv, UNCHANGED vars PROVE IInv'
  OBVIOUS
<1>1. TypeOK'
  BY DEF vars, disk, IInv, TypeOK
<1>2. Budget' /\ StoriesPassed' /\ GatesKept' /\ Durable' /\ Recorded' /\ Built'
  BY DEF vars, disk, IInv, Budget, StoriesPassed, GatesKept, Checked, Durable, Recorded, Built
<1> QED  BY <1>1, <1>2 DEF IInv

LEMMA StepKeeps == IInv /\ [Next]_vars => IInv'
<1> SUFFICES ASSUME IInv, [Next]_vars PROVE IInv'
  OBVIOUS
<1>1. CASE Start
  BY <1>1, StartKeeps
<1>2. CASE Preparing
  <2>1. CASE Refuse \/ CreateFails
    BY <2>1, AbortKeeps DEF Refuse, CreateFails
  <2> QED  BY <1>2, <2>1, ReuseKeeps, CreateWorktreeKeeps, PublishKeeps DEF Preparing
<1>3. CASE SettingUp
  <2>1. CASE SetupFails \/ LoadFails
    BY <2>1, AbortKeeps DEF SetupFails, LoadFails
  <2> QED  BY <1>3, <2>1, SkipSetupKeeps, ClearMarkerKeeps, SetupDoneKeeps, LoadPRDKeeps
           DEF SettingUp
<1>4. CASE Looping
  BY <1>4, AllPassedKeeps, DispatchKeeps, PickFailsKeeps, CapReachedKeeps, AgentReturnsKeeps,
     AgentSpoilsKeeps, CostCappedKeeps, JudgeKeeps DEF Looping
<1>5. CASE Gating
  BY <1>5, VerifyPassesKeeps, VerifyFailsKeeps, ReviewPassesKeeps, ReviewRevisesKeeps,
     ReviewHaltsKeeps, FixAgentKeeps, GateErrorsKeeps DEF Gating
<1>6. CASE Terminal
  BY <1>6, TerminalKeeps
<1>7. CASE AgentCommits
  BY <1>7, AgentCommitsKeeps
<1>8. CASE Operator
  BY <1>8, NormalizeKeeps, RecoverRetryKeeps, AcceptInputDriftKeeps, ResetPlanKeeps,
     RemoveWorktreeKeeps, RemoveForeignKeeps, EditInputsKeeps DEF Operator
<1>9. CASE Crash
  BY <1>9, CrashKeeps
<1>10. CASE UNCHANGED vars
  BY <1>10, UnchangedKeeps
<1> QED  BY <1>1, <1>2, <1>3, <1>4, <1>5, <1>6, <1>7, <1>8, <1>9, <1>10 DEF Next, SinglePlan

----------------------------------------------------------------------------
(* The theorems.                                                           *)

\* What holds at each place of SinglePlan holds in every reachable state.
THEOREM Invariance == Spec => []IInv
BY InitEstablishes, StepKeeps, PTL DEF Spec

\* Every variable keeps its type, and the story loop its budget.
THEOREM TypeCorrect == Spec => []TypeOK
<1>1. IInv => TypeOK
  BY DEF IInv
<1> QED  BY <1>1, Invariance, PTL

\* No gate is entered, and no plan is handed to a human or to the merge, with
\* a story that prd.json does not mark as passed.
THEOREM GatesNeedEveryStoryHolds == Spec => []GatesNeedEveryStory
<1>1. IInv => GatesNeedEveryStory
  BY DEF IInv, StoriesPassed, GatesNeedEveryStory
<1> QED  BY <1>1, Invariance, PTL

\* A plan completes with what the last of its gates saw on its branch.
THEOREM GatedCompletionHolds == Spec => []GatedCompletion
<1>1. IInv => GatedCompletion
  BY DEF IInv, GatesKept, Checked, GatedCompletion
<1> QED  BY <1>1, Invariance, PTL

\* A success that was reported is on disk.
THEOREM SuccessIsDurableHolds == Spec => []SuccessIsDurable
<1>1. IInv => SuccessIsDurable
  BY DEF IInv, Durable, SuccessIsDurable
<1> QED  BY <1>1, Invariance, PTL

\* An agent is at work only in a worktree that state.json says is in use.
THEOREM RecordedBeforeDispatchHolds == Spec => []RecordedBeforeDispatch
<1>1. IInv => RecordedBeforeDispatch
  BY DEF IInv, Recorded, Running, RecordedBeforeDispatch
<1> QED  BY <1>1, Invariance, PTL

\* A worktree whose setup was cut short is set up again before an agent works
\* in it, unless it was created under the marker of an earlier one.
THEOREM HalfBuiltIsRebuiltHolds == Spec => []HalfBuiltIsRebuilt
<1>1. IInv => HalfBuiltIsRebuilt
  BY DEF IInv, Built, Prepared, Running, AtAgent, HalfBuiltIsRebuilt
<1> QED  BY <1>1, Invariance, PTL
=============================================================================

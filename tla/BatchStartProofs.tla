-------------------------- MODULE BatchStartProofs --------------------------
(***************************************************************************)
(* What start keeps of a batch's mode, base and pause, for any batch, any  *)
(* flags and configuration, any branches and any number of faults.         *)
(*                                                                         *)
(* None of the four properties is inductive.  They rest on what a running  *)
(* start knows of run.json (InRun: its copy is the file), on how far its   *)
(* decision has come (Decided), and on where the mode of the plans that    *)
(* have run can be read again (ModesFollow): in run.json once it is        *)
(* stamped, and before that in state.json, because a plan that has started *)
(* never goes back to pending.                                             *)
(***************************************************************************)
EXTENDS BatchStart, FiniteSetTheorems, TLAPS

Autos == ToSet(AutoNames)
Bases == Branch \cup Autos \cup {None}
Modes == {"consolidate", "per-plan"}
Runs == [here : BOOLEAN, mode : Modes \cup {"none"}, base : Branch \cup {None},
         auto : Autos \cup {None}, capped : BOOLEAN]
PlanStates == [status : {"pending", "begun", "completed", "merged", "retained"},
               base : Bases, tree : BOOLEAN]
Decisions == [perPlan : BOOLEAN, base : Branch \cup {None}]

\* The places of a start, in the order it comes to them.
Deciding == {"activate", "create", "stamp"}
Working == {"setup", "run", "prepare", "plan", "integrate", "report", "clear"}

RunTyped == disk \in Runs /\ mem \in Runs /\ batch \in BOOLEAN
PlanTyped == plan \in [Plan -> PlanStates] /\ cur \in Plan
ChoiceTyped == cmd \in Request /\ choice \in Decisions /\ head \in Branch \cup {None}
PlaceTyped == pc \in {"down", "orphan", "resolve"} \cup Deciding \cup Working
NewsTyped ==
  /\ res \in {"none", "ok", "canceled", "startup", "failed", "needs-human", "cost-capped"}
  /\ news \in {<<>>} \cup {<<n>> : n \in {"complete", "cost-capped", "failed", "needs-human"}}

\* Every variable the proofs speak of has its type.
Typed == RunTyped /\ PlanTyped /\ ChoiceTyped /\ PlaceTyped /\ NewsTyped

\* A start at work is about a batch, and its copy of run.json is the file.
InRun == pc # "down" => mem = disk /\ disk.here

\* Once it has decided, the choice is the mode run.json says; before it says one, a
\* choice of per-plan is for a batch with no plan started; and it says one before
\* any plan runs.
Decided ==
  /\ pc \in Deciding \cup Working /\ mem.mode # "none" =>
       choice.perPlan = (mem.mode = "per-plan")
  /\ pc \in Deciding /\ mem.mode = "none" /\ choice.perPlan => ~anyPlanStarted
  /\ pc \in Working => mem.mode # "none"

\* The modes plans have run under are the one run.json says; until it says one, only
\* an older build has run any, and state.json tells.
ModesFollow ==
  /\ disk.here /\ disk.mode # "none" => modes \subseteq {disk.mode}
  /\ disk.here /\ disk.mode = "none" => modes \subseteq {"consolidate"}
                                        /\ (modes # {} => anyPlanStarted)
  /\ \E m \in Modes : modes \subseteq {m}

\* A pause that is owed an answer is on disk, and no start is at work.
OwedIsPaused == owed => pc = "down" /\ disk.capped

\* A start at work has announced nothing yet, and "ok" means every plan is in.
Quiet ==
  /\ pc # "down" => news = <<>> /\ told = "none"
  /\ pc = "clear" => res = "ok"
  /\ pc \in {"report", "clear"} /\ res = "ok" => \A p \in Plan : Integrated(p)
  /\ pc = "report" => res # "none"

\* What each announcement says, told with it.
Announced ==
  /\ news = <<"complete">> => /\ told = "completed" /\ ~disk.here
                              /\ \A p \in Plan : Integrated(p)
  /\ news = <<"cost-capped">> => told = "cost-capped" /\ (pc = "down" => disk.capped)
  /\ news = <<"needs-human">> => told = "needs-human"
  /\ news = <<"failed">> => told \in {"failed", "error"}
  /\ news = <<>> => told \notin {"completed", "cost-capped", "needs-human"}
  /\ res \in {"startup", "canceled"} => news = <<>>

IInv == Typed /\ InRun /\ Decided /\ ModesFollow /\ OwedIsPaused /\ Quiet /\ Announced

----------------------------------------------------------------------------
(* Every variable keeps its type.                                          *)

\* The base a worktree is made from is a branch, or nothing.
LEMMA BaseTyped == Typed => \A p \in Plan : baseRef(p) \in Bases
  BY BatchStartAssumption DEF BatchStartAssumption, Typed, RunTyped, Runs, ChoiceTyped, Decisions,
     Bases, baseRef, Named, BaseForBatch, Or

\* run.json and the start's copy of it.
LEMMA RunTypedStep == IInv /\ [Next]_vars => RunTyped'
<1> SUFFICES ASSUME IInv, [Next]_vars PROVE RunTyped'
  OBVIOUS
<1> USE DEF IInv, Typed, RunTyped, Runs
<1>1. ASSUME NEW c \in Requests, Begin(c) PROVE RunTyped'
  BY <1>1 DEF Begin
<1>2. CASE RecoverOrphan
  BY <1>2 DEF RecoverOrphan, Exit, NoRun, Autos
<1>3. CASE BeforePersistCreate
  BY <1>3 DEF BeforePersistCreate, At, Free, Autos, ToSet
<1>4. CASE CreateBranch
  BY <1>4 DEF CreateBranch, At, Exit
<1>5. CASE Stamp
  <2>1. mem' \in Runs
    BY <1>5 DEF Stamp, ChoiceTyped, Decisions, Modes
  <2>2. disk' \in {mem', disk} /\ batch' = batch
    BY <1>5 DEF Stamp, Written, NotWritten
  <2> QED BY <2>1, <2>2
<1>6. CASE Pause
  BY <1>6 DEF Pause, Exit, Written, NotWritten
<1>7. CASE Halt
  BY <1>7 DEF Halt, Exit
<1>8. CASE Archive
  BY <1>8 DEF Archive, At
<1>9. CASE ClearRun
  <2>1. NoRun \in Runs
    BY DEF NoRun
  <2>2. disk' \in {NoRun, disk} /\ mem' = mem /\ batch' = batch
    BY <1>9 DEF ClearRun, Written, NotWritten
  <2> QED BY <2>1, <2>2
<1>10. CASE UNCHANGED <<disk, mem, batch>>
  BY <1>10
<1> QED
  BY <1>1, <1>2, <1>3, <1>4, <1>5, <1>6, <1>7, <1>8, <1>9, <1>10 DEF Next, Step,
     resolveBatchModeAndBase, Resume, NoAutoBranch, Refuse, Setup, NextPlan, Prepare, RunPlan,
     Integrate, Interrupted, Crash, Switch, LoseWorktree, At, Exit, Result, vars, started, history

\* state.json and the plan at work.
LEMMA PlanTypedStep == IInv /\ [Next]_vars => PlanTyped'
<1> SUFFICES ASSUME IInv, [Next]_vars PROVE PlanTyped'
  OBVIOUS
<1> USE DEF IInv, Typed, PlanTyped, PlanStates
<1>1. ASSUME NEW c \in Requests, Begin(c) PROVE PlanTyped'
  BY <1>1, BatchStartAssumption DEF Begin, Plan, ToSet
<1>2. CASE NextPlan
  BY <1>2 DEF NextPlan, At, Result, Due
<1>3. CASE Prepare
  <2>1. cur' = cur
    BY <1>3 DEF Prepare, At, Result
  <2>2. CASE plan' = [plan EXCEPT ![cur].status = "begun"]
    BY <2>1, <2>2
  <2>3. CASE plan' = [plan EXCEPT ![cur] = [status |-> "begun", tree |-> TRUE,
                                            base |-> IF @.tree THEN @.base ELSE baseRef(cur)]]
    BY <2>1, <2>3, BaseTyped
  <2> QED BY <1>3, <2>2, <2>3 DEF Prepare
<1>4. CASE RunPlan
  BY <1>4 DEF RunPlan, At, Result
<1>5. CASE Integrate
  <2>1. cur' = cur
    BY <1>5 DEF Integrate, At, Result
  <2>2. \/ UNCHANGED plan
        \/ \E s \in {"retained", "merged"} :
             plan' = [plan EXCEPT ![cur] = [status |-> s, base |-> plan[cur].base, tree |-> FALSE]]
    BY <1>5 DEF Integrate
  <2>3. plan' \in [Plan -> PlanStates]
    <3>1. CASE UNCHANGED plan
      BY <3>1
    <3>2. ASSUME NEW s \in {"retained", "merged"},
                 plan' = [plan EXCEPT ![cur] = [status |-> s, base |-> plan[cur].base, tree |-> FALSE]]
          PROVE  plan' \in [Plan -> PlanStates]
      <4>1. [status |-> s, base |-> plan[cur].base, tree |-> FALSE] \in PlanStates
        OBVIOUS
      <4> HIDE DEF PlanStates
      <4> QED BY <3>2, <4>1
    <3> QED BY <2>2, <3>1, <3>2
  <2> QED BY <2>1, <2>3
<1>6. ASSUME NEW p \in Plan, LoseWorktree(p) PROVE PlanTyped'
  BY <1>6 DEF LoseWorktree, started
<1>7. CASE UNCHANGED <<plan, cur>>
  BY <1>7
<1> QED
  BY <1>1, <1>2, <1>3, <1>4, <1>5, <1>6, <1>7 DEF Next, Step, RecoverOrphan,
     resolveBatchModeAndBase, Resume, NoAutoBranch, Refuse, BeforePersistCreate, CreateBranch,
     Stamp, Setup, Pause, Interrupted, Halt, Archive, ClearRun, Crash, Switch, At, Exit, Result,
     Written, NotWritten, vars, started, history

\* What the start is given and has decided, and the branch checked out.
LEMMA ChoiceTypedStep == IInv /\ [Next]_vars => ChoiceTyped'
<1> SUFFICES ASSUME IInv, [Next]_vars PROVE ChoiceTyped'
  OBVIOUS
<1> USE DEF IInv, Typed, ChoiceTyped, Decisions
<1>1. ASSUME NEW c \in Requests, Begin(c) PROVE ChoiceTyped'
  BY <1>1, BatchStartAssumption DEF Begin, NoChoice
<1>2. CASE resolveBatchModeAndBase
  <2>1. PerPlan \in BOOLEAN
    BY DEF PerPlan, Request
  <2>2. Base \in Branch \cup {None}
    BY DEF Base, Or, RunTyped, Runs, Request
  <2>3. choice' \in {choice, [perPlan |-> PerPlan, base |-> IF PerPlan THEN Base ELSE None]}
    BY <1>2 DEF resolveBatchModeAndBase, Exit
  <2>4. cmd' = cmd /\ head' = head
    BY <1>2 DEF resolveBatchModeAndBase, At, Exit
  <2> QED BY <2>1, <2>2, <2>3, <2>4
<1>3. ASSUME NEW b \in Branch \cup {None}, Switch(b) PROVE ChoiceTyped'
  BY <1>3 DEF Switch, started
<1>4. CASE UNCHANGED <<cmd, choice, head>>
  BY <1>4
<1> QED
  BY <1>1, <1>2, <1>3, <1>4 DEF Next, Step, RecoverOrphan, Resume, NoAutoBranch, Refuse,
     BeforePersistCreate, CreateBranch, Stamp, Setup, NextPlan, Prepare, RunPlan, Integrate,
     Pause, Interrupted, Halt, Archive, ClearRun, Crash, LoseWorktree, At, Exit, Result, Written,
     NotWritten, vars, started, history

\* The place of the start.
LEMMA PlaceTypedStep == IInv /\ [Next]_vars => PlaceTyped'
<1> SUFFICES ASSUME IInv, [Next]_vars PROVE PlaceTyped'
  OBVIOUS
<1> USE DEF IInv, Typed, PlaceTyped, Deciding, Working
<1>1. ASSUME NEW c \in Requests, Begin(c) PROVE PlaceTyped'
  BY <1>1 DEF Begin
<1>2. CASE RecoverOrphan
  BY <1>2 DEF RecoverOrphan, Exit
<1>3. CASE resolveBatchModeAndBase
  BY <1>3 DEF resolveBatchModeAndBase, At, Exit
<1>4. CASE Resume
  BY <1>4 DEF Resume, At
<1>5. CASE NoAutoBranch
  BY <1>5 DEF NoAutoBranch, At
<1>6. CASE Refuse
  BY <1>6 DEF Refuse, Exit
<1>7. CASE BeforePersistCreate
  BY <1>7 DEF BeforePersistCreate, At
<1>8. CASE CreateBranch
  BY <1>8 DEF CreateBranch, At, Exit
<1>9. CASE Stamp
  BY <1>9 DEF Stamp, At, Exit, Written, NotWritten
<1>10. CASE Setup
  BY <1>10 DEF Setup, At, Result
<1>11. CASE NextPlan
  BY <1>11 DEF NextPlan, At, Result
<1>12. CASE Prepare
  BY <1>12 DEF Prepare, At, Result
<1>13. CASE RunPlan
  BY <1>13 DEF RunPlan, At, Result
<1>14. CASE Integrate
  BY <1>14 DEF Integrate, At, Result
<1>15. CASE Pause
  BY <1>15 DEF Pause, Exit, Written, NotWritten
<1>16. CASE Interrupted
  BY <1>16 DEF Interrupted, Exit
<1>17. CASE Halt
  BY <1>17 DEF Halt, Exit
<1>18. CASE Archive
  BY <1>18 DEF Archive, At
<1>19. CASE ClearRun
  BY <1>19 DEF ClearRun, Exit, Written, NotWritten
<1>20. CASE Crash
  BY <1>20 DEF Crash, started
<1>21. ASSUME NEW b \in Branch \cup {None}, Switch(b) PROVE PlaceTyped'
  BY <1>21 DEF Switch, started
<1>22. ASSUME NEW p \in Plan, LoseWorktree(p) PROVE PlaceTyped'
  BY <1>22 DEF LoseWorktree, started
<1>23. CASE UNCHANGED vars
  BY <1>23 DEF vars, started, history
<1> QED BY <1>1, <1>2, <1>3, <1>4, <1>5, <1>6, <1>7, <1>8, <1>9, <1>10, <1>11, <1>12, <1>13, <1>14, <1>15,
   <1>16, <1>17, <1>18, <1>19, <1>20, <1>21, <1>22, <1>23 DEF Next, Step

\* The result of the batch, and what is announced of it.
LEMMA NewsTypedStep == IInv /\ [Next]_vars => NewsTyped'
<1> SUFFICES ASSUME IInv, [Next]_vars PROVE NewsTyped'
  OBVIOUS
<1> USE DEF IInv, Typed, NewsTyped, Quiet
<1> <<>> \o <<>> = <<>> /\ \A x : <<>> \o <<x>> = <<x>>
  OBVIOUS
<1>1. ASSUME NEW c \in Requests, Begin(c) PROVE NewsTyped'
  BY <1>1 DEF Begin
<1>2. CASE RecoverOrphan
  BY <1>2 DEF RecoverOrphan, Exit
<1>3. CASE resolveBatchModeAndBase
  BY <1>3 DEF resolveBatchModeAndBase, At, Exit
<1>4. CASE Refuse
  BY <1>4 DEF Refuse, Exit
<1>5. CASE CreateBranch
  BY <1>5 DEF CreateBranch, At, Exit
<1>6. CASE Stamp
  BY <1>6 DEF Stamp, At, Exit, Written, NotWritten
<1>7. CASE Setup
  BY <1>7 DEF Setup, At, Result
<1>8. CASE NextPlan
  BY <1>8 DEF NextPlan, At, Result
<1>9. CASE Prepare
  BY <1>9 DEF Prepare, At, Result
<1>10. CASE RunPlan
  BY <1>10 DEF RunPlan, At, Result
<1>11. CASE Integrate
  BY <1>11 DEF Integrate, At, Result
<1>12. CASE Pause
  BY <1>12 DEF Pause, Exit, Written, NotWritten, notifyBatchOutcome, notifyBatchFailed
<1>13. CASE Interrupted
  BY <1>13 DEF Interrupted, Exit
<1>14. CASE Halt
  BY <1>14 DEF Halt, Exit, notifyBatchOutcome
<1>15. CASE ClearRun
  BY <1>15 DEF ClearRun, Exit, Written, NotWritten, notifyBatchOutcome, notifyBatchFailed
<1>16. CASE UNCHANGED <<res, news>>
  BY <1>16
<1> QED
  BY <1>1, <1>2, <1>3, <1>4, <1>5, <1>6, <1>7, <1>8, <1>9, <1>10, <1>11, <1>12, <1>13, <1>14,
     <1>15, <1>16 DEF Next, Step, Resume, NoAutoBranch, BeforePersistCreate, Archive, Crash,
     Switch, LoseWorktree, At, vars, started, history

----------------------------------------------------------------------------
(* The other parts of the invariant.                                       *)

\* Every write of run.json by a start that goes on is of its own copy, and whoever
\* clears the file returns.
LEMMA InRunStep == IInv /\ [Next]_vars => InRun'
<1> SUFFICES ASSUME IInv, [Next]_vars PROVE InRun'
  OBVIOUS
<1> USE DEF IInv, InRun, Typed, RunTyped, Runs
<1>1. ASSUME NEW c \in Requests, Begin(c) PROVE InRun'
  BY <1>1 DEF Begin
<1>2. CASE RecoverOrphan
  BY <1>2 DEF RecoverOrphan, Exit
<1>3. CASE resolveBatchModeAndBase
  BY <1>3 DEF resolveBatchModeAndBase, At, Exit
<1>4. CASE Resume
  BY <1>4 DEF Resume, At
<1>5. CASE NoAutoBranch
  BY <1>5 DEF NoAutoBranch, At
<1>6. CASE Refuse
  BY <1>6 DEF Refuse, Exit
<1>7. CASE BeforePersistCreate
  BY <1>7 DEF BeforePersistCreate, At
<1>8. CASE CreateBranch
  BY <1>8 DEF CreateBranch, At, Exit
<1>9. CASE Stamp
  BY <1>9 DEF Stamp, At, Exit, Written, NotWritten
<1>10. CASE Setup
  BY <1>10 DEF Setup, At, Result
<1>11. CASE NextPlan
  BY <1>11 DEF NextPlan, At, Result
<1>12. CASE Prepare
  BY <1>12 DEF Prepare, At, Result
<1>13. CASE RunPlan
  BY <1>13 DEF RunPlan, At, Result
<1>14. CASE Integrate
  BY <1>14 DEF Integrate, At, Result
<1>15. CASE Pause
  BY <1>15 DEF Pause, Exit, Written, NotWritten
<1>16. CASE Interrupted
  BY <1>16 DEF Interrupted, Exit
<1>17. CASE Halt
  BY <1>17 DEF Halt, Exit
<1>18. CASE Archive
  BY <1>18 DEF Archive, At
<1>19. CASE ClearRun
  BY <1>19 DEF ClearRun, Exit, Written, NotWritten
<1>20. CASE Crash
  BY <1>20 DEF Crash, started
<1>21. ASSUME NEW b \in Branch \cup {None}, Switch(b) PROVE InRun'
  BY <1>21 DEF Switch, started
<1>22. ASSUME NEW p \in Plan, LoseWorktree(p) PROVE InRun'
  BY <1>22 DEF LoseWorktree, started
<1>23. CASE UNCHANGED vars
  BY <1>23 DEF vars, started, history
<1> QED BY <1>1, <1>2, <1>3, <1>4, <1>5, <1>6, <1>7, <1>8, <1>9, <1>10, <1>11, <1>12, <1>13, <1>14, <1>15,
   <1>16, <1>17, <1>18, <1>19, <1>20, <1>21, <1>22, <1>23 DEF Next, Step

\* The pause that is owed has been written, and only a start that answers it takes it
\* off the file.
LEMMA OwedStep == IInv /\ [Next]_vars => OwedIsPaused'
<1> SUFFICES ASSUME IInv, [Next]_vars PROVE OwedIsPaused'
  OBVIOUS
<1> USE DEF IInv, OwedIsPaused, InRun, RunTyped, Runs, Typed
<1>1. ASSUME NEW c \in Requests, Begin(c) PROVE OwedIsPaused'
  BY <1>1 DEF Begin, history
<1>2. CASE RecoverOrphan
  BY <1>2 DEF RecoverOrphan, Exit, NoRun, history
<1>3. CASE resolveBatchModeAndBase
  BY <1>3 DEF resolveBatchModeAndBase, At, Exit, history
<1>4. CASE Resume
  BY <1>4 DEF Resume, At, history
<1>5. CASE NoAutoBranch
  BY <1>5 DEF NoAutoBranch, At, history
<1>6. CASE Refuse
  BY <1>6 DEF Refuse, Exit, history
<1>7. CASE BeforePersistCreate
  BY <1>7 DEF BeforePersistCreate, At, history
<1>8. CASE CreateBranch
  BY <1>8 DEF CreateBranch, At, Exit, history
<1>9. CASE Stamp
  BY <1>9 DEF Stamp, At, Exit, Written, NotWritten, history
<1>10. CASE Setup
  BY <1>10 DEF Setup, At, Result, history
<1>11. CASE NextPlan
  BY <1>11 DEF NextPlan, At, Result, history
<1>12. CASE Prepare
  BY <1>12 DEF Prepare, At, Result, history
<1>13. CASE RunPlan
  BY <1>13 DEF RunPlan, At, Result, history
<1>14. CASE Integrate
  BY <1>14 DEF Integrate, At, Result, history
<1>15. CASE Pause
  BY <1>15 DEF Pause, Exit, Written, NotWritten, history
<1>16. CASE Interrupted
  BY <1>16 DEF Interrupted, Exit, history
<1>17. CASE Halt
  BY <1>17 DEF Halt, Exit, history
<1>18. CASE Archive
  BY <1>18 DEF Archive, At, history
<1>19. CASE ClearRun
  BY <1>19 DEF ClearRun, Exit, Written, NotWritten, NoRun, history
<1>20. CASE Crash
  BY <1>20 DEF Crash, started, history
<1>21. ASSUME NEW b \in Branch \cup {None}, Switch(b) PROVE OwedIsPaused'
  BY <1>21 DEF Switch, started, history
<1>22. ASSUME NEW p \in Plan, LoseWorktree(p) PROVE OwedIsPaused'
  BY <1>22 DEF LoseWorktree, started, history
<1>23. CASE UNCHANGED vars
  BY <1>23 DEF vars, started, history
<1> QED BY <1>1, <1>2, <1>3, <1>4, <1>5, <1>6, <1>7, <1>8, <1>9, <1>10, <1>11, <1>12, <1>13, <1>14, <1>15,
   <1>16, <1>17, <1>18, <1>19, <1>20, <1>21, <1>22, <1>23 DEF Next, Step

\* The mode in run.json decides when it is there, the plans that have started when it
\* is not, and the stamp writes what was decided.
LEMMA DecidedStep == IInv /\ [Next]_vars => Decided'
<1> SUFFICES ASSUME IInv, [Next]_vars PROVE Decided'
  OBVIOUS
<1> USE DEF IInv, Decided, InRun, anyPlanStarted, PerPlan, Typed, RunTyped, ChoiceTyped,
       PlanTyped, PlanStates, Runs, Decisions, Modes, Deciding, Working, PlaceTyped
<1>1. ASSUME NEW c \in Requests, Begin(c) PROVE Decided'
  BY <1>1 DEF Begin, history
<1>2. CASE RecoverOrphan
  BY <1>2 DEF RecoverOrphan, Exit, history
<1>3. CASE resolveBatchModeAndBase
  <2>1. UNCHANGED <<mem, plan>>
    BY <1>3 DEF resolveBatchModeAndBase
  <2>2. CASE pc' = "down"
    BY <2>2
  <2>3. CASE pc' = "activate" /\ choice'.perPlan = PerPlan
    <3>1. mem.mode # "none" => PerPlan = (mem.mode = "per-plan")
      OBVIOUS
    <3>2. mem.mode = "none" /\ PerPlan => ~anyPlanStarted
      OBVIOUS
    <3> QED BY <2>1, <2>3, <3>1, <3>2
  <2> QED BY <1>3, <2>2, <2>3 DEF resolveBatchModeAndBase, At, Exit
<1>4. CASE Resume
  BY <1>4 DEF Resume, At, history
<1>5. CASE NoAutoBranch
  BY <1>5 DEF NoAutoBranch, At, history
<1>6. CASE Refuse
  BY <1>6 DEF Refuse, Exit, history
<1>7. CASE BeforePersistCreate
  BY <1>7 DEF BeforePersistCreate, At, history
<1>8. CASE CreateBranch
  BY <1>8 DEF CreateBranch, At, Exit, history
<1>9. CASE Stamp
  BY <1>9 DEF Stamp, At, Exit, Written, NotWritten, history
<1>10. CASE Setup
  BY <1>10 DEF Setup, At, Result, history
<1>11. CASE NextPlan
  BY <1>11 DEF NextPlan, At, Result, history
<1>12. CASE Prepare
  BY <1>12 DEF Prepare, At, Result, history
<1>13. CASE RunPlan
  BY <1>13 DEF RunPlan, At, Result, history
<1>14. CASE Integrate
  BY <1>14 DEF Integrate, At, Result, history
<1>15. CASE Pause
  BY <1>15 DEF Pause, Exit, Written, NotWritten, history
<1>16. CASE Interrupted
  BY <1>16 DEF Interrupted, Exit, history
<1>17. CASE Halt
  BY <1>17 DEF Halt, Exit, history
<1>18. CASE Archive
  BY <1>18 DEF Archive, At, history
<1>19. CASE ClearRun
  BY <1>19 DEF ClearRun, Exit, Written, NotWritten, history
<1>20. CASE Crash
  BY <1>20 DEF Crash, started, history
<1>21. ASSUME NEW b \in Branch \cup {None}, Switch(b) PROVE Decided'
  BY <1>21 DEF Switch, started, history
<1>22. ASSUME NEW p \in Plan, LoseWorktree(p) PROVE Decided'
  BY <1>22 DEF LoseWorktree, started, history
<1>23. CASE UNCHANGED vars
  BY <1>23 DEF vars, started, history
<1> QED BY <1>1, <1>2, <1>3, <1>4, <1>5, <1>6, <1>7, <1>8, <1>9, <1>10, <1>11, <1>12, <1>13, <1>14, <1>15,
   <1>16, <1>17, <1>18, <1>19, <1>20, <1>21, <1>22, <1>23 DEF Next, Step

\* A plan runs only after the stamp, and under the mode of the stamp.
LEMMA ModesStep == IInv /\ [Next]_vars => ModesFollow'
<1> SUFFICES ASSUME IInv, [Next]_vars PROVE ModesFollow'
  OBVIOUS
<1> USE DEF IInv, ModesFollow, Decided, InRun, anyPlanStarted, Typed, RunTyped, ChoiceTyped,
       PlanTyped, PlanStates, Runs, Decisions, Modes, Deciding, Working
<1>1. ASSUME NEW c \in Requests, Begin(c) PROVE ModesFollow'
  BY <1>1 DEF Begin, history
<1>2. CASE RecoverOrphan
  BY <1>2 DEF RecoverOrphan, Exit, NoRun, history
<1>3. CASE resolveBatchModeAndBase
  BY <1>3 DEF resolveBatchModeAndBase, At, Exit, history
<1>4. CASE Resume
  BY <1>4 DEF Resume, At, history
<1>5. CASE NoAutoBranch
  BY <1>5 DEF NoAutoBranch, At, history
<1>6. CASE Refuse
  BY <1>6 DEF Refuse, Exit, history
<1>7. CASE BeforePersistCreate
  BY <1>7 DEF BeforePersistCreate, At, history
<1>8. CASE CreateBranch
  BY <1>8 DEF CreateBranch, At, Exit, history
<1>9. CASE Stamp
  BY <1>9 DEF Stamp, At, Exit, Written, NotWritten, history
<1>10. CASE Setup
  BY <1>10 DEF Setup, At, Result, history
<1>11. CASE NextPlan
  BY <1>11 DEF NextPlan, At, Result, history
<1>12. CASE Prepare
  BY <1>12 DEF Prepare, At, Result, history
<1>13. CASE RunPlan
  BY <1>13 DEF RunPlan, At, Result, history
<1>14. CASE Integrate
  BY <1>14 DEF Integrate, At, Result, history
<1>15. CASE Pause
  BY <1>15 DEF Pause, Exit, Written, NotWritten, history
<1>16. CASE Interrupted
  BY <1>16 DEF Interrupted, Exit, history
<1>17. CASE Halt
  BY <1>17 DEF Halt, Exit, history
<1>18. CASE Archive
  BY <1>18 DEF Archive, At, history
<1>19. CASE ClearRun
  <2>1. UNCHANGED <<modes, plan>> /\ (disk' = disk \/ ~disk'.here)
    BY <1>19 DEF ClearRun, Written, NotWritten, NoRun, history
  <2> QED BY <2>1
<1>20. CASE Crash
  BY <1>20 DEF Crash, started, history
<1>21. ASSUME NEW b \in Branch \cup {None}, Switch(b) PROVE ModesFollow'
  BY <1>21 DEF Switch, started, history
<1>22. ASSUME NEW p \in Plan, LoseWorktree(p) PROVE ModesFollow'
  BY <1>22 DEF LoseWorktree, started, history
<1>23. CASE UNCHANGED vars
  BY <1>23 DEF vars, started, history
<1> QED BY <1>1, <1>2, <1>3, <1>4, <1>5, <1>6, <1>7, <1>8, <1>9, <1>10, <1>11, <1>12, <1>13, <1>14, <1>15,
   <1>16, <1>17, <1>18, <1>19, <1>20, <1>21, <1>22, <1>23 DEF Next, Step

\* A result is ok only when no plan is left, and a start announces as it returns.
LEMMA QuietStep == IInv /\ [Next]_vars => Quiet'
<1> SUFFICES ASSUME IInv, [Next]_vars PROVE Quiet'
  OBVIOUS
<1> USE DEF IInv, Quiet, InRun, Integrated, Typed, PlanTyped, NewsTyped, PlanStates
<1>1. ASSUME NEW c \in Requests, Begin(c) PROVE Quiet'
  BY <1>1 DEF Begin, history
<1>2. CASE RecoverOrphan
  BY <1>2 DEF RecoverOrphan, Exit, history
<1>3. CASE resolveBatchModeAndBase
  BY <1>3 DEF resolveBatchModeAndBase, At, Exit, history
<1>4. CASE Resume
  BY <1>4 DEF Resume, At, history
<1>5. CASE NoAutoBranch
  BY <1>5 DEF NoAutoBranch, At, history
<1>6. CASE Refuse
  BY <1>6 DEF Refuse, Exit, history
<1>7. CASE BeforePersistCreate
  BY <1>7 DEF BeforePersistCreate, At, history
<1>8. CASE CreateBranch
  BY <1>8 DEF CreateBranch, At, Exit, history
<1>9. CASE Stamp
  BY <1>9 DEF Stamp, At, Exit, Written, NotWritten, history
<1>10. CASE Setup
  BY <1>10 DEF Setup, At, Result, history
<1>11. CASE NextPlan
  BY <1>11 DEF NextPlan, At, Result, history
<1>12. CASE Prepare
  BY <1>12 DEF Prepare, At, Result, history
<1>13. CASE RunPlan
  BY <1>13 DEF RunPlan, At, Result, history
<1>14. CASE Integrate
  BY <1>14 DEF Integrate, At, Result, history
<1>15. CASE Pause
  BY <1>15 DEF Pause, Exit, Written, NotWritten, history
<1>16. CASE Interrupted
  BY <1>16 DEF Interrupted, Exit, history
<1>17. CASE Halt
  BY <1>17 DEF Halt, Exit, history
<1>18. CASE Archive
  BY <1>18 DEF Archive, At, history
<1>19. CASE ClearRun
  BY <1>19 DEF ClearRun, Exit, Written, NotWritten, history
<1>20. CASE Crash
  BY <1>20 DEF Crash, started, history
<1>21. ASSUME NEW b \in Branch \cup {None}, Switch(b) PROVE Quiet'
  BY <1>21 DEF Switch, started, history
<1>22. ASSUME NEW p \in Plan, LoseWorktree(p) PROVE Quiet'
  BY <1>22 DEF LoseWorktree, started, history
<1>23. CASE UNCHANGED vars
  BY <1>23 DEF vars, started, history
<1> QED BY <1>1, <1>2, <1>3, <1>4, <1>5, <1>6, <1>7, <1>8, <1>9, <1>10, <1>11, <1>12, <1>13, <1>14, <1>15,
   <1>16, <1>17, <1>18, <1>19, <1>20, <1>21, <1>22, <1>23 DEF Next, Step

\* Every announcement is made with the status line that goes with it, after what it
\* says has been written.
LEMMA AnnouncedStep == IInv /\ [Next]_vars => Announced'
<1> SUFFICES ASSUME IInv, [Next]_vars PROVE Announced'
  OBVIOUS
<1> USE DEF IInv, Quiet, Announced, InRun, Integrated, Typed, PlanTyped, NewsTyped, PlanStates
<1> <<>> \o <<>> = <<>> /\ \A x : <<>> \o <<x>> = <<x>>
  OBVIOUS
<1>1. ASSUME NEW c \in Requests, Begin(c) PROVE Announced'
  BY <1>1 DEF Begin
<1>2. CASE RecoverOrphan
  BY <1>2 DEF RecoverOrphan, Exit, NoRun
<1>3. CASE resolveBatchModeAndBase
  BY <1>3 DEF resolveBatchModeAndBase, At, Exit
<1>4. CASE Resume
  BY <1>4 DEF Resume, At
<1>5. CASE NoAutoBranch
  BY <1>5 DEF NoAutoBranch, At
<1>6. CASE Refuse
  BY <1>6 DEF Refuse, Exit
<1>7. CASE BeforePersistCreate
  BY <1>7 DEF BeforePersistCreate, At
<1>8. CASE CreateBranch
  BY <1>8 DEF CreateBranch, At, Exit
<1>9. CASE Stamp
  BY <1>9 DEF Stamp, At, Exit, Written, NotWritten
<1>10. CASE Setup
  BY <1>10 DEF Setup, At, Result
<1>11. CASE NextPlan
  BY <1>11 DEF NextPlan, At, Result
<1>12. CASE Prepare
  BY <1>12 DEF Prepare, At, Result
<1>13. CASE RunPlan
  BY <1>13 DEF RunPlan, At, Result
<1>14. CASE Integrate
  BY <1>14 DEF Integrate, At, Result
<1>15. CASE Pause
  BY <1>15 DEF Pause, Exit, Written, NotWritten, notifyBatchOutcome, notifyBatchFailed, RunTyped,
     Runs
<1>16. CASE Interrupted
  BY <1>16 DEF Interrupted, Exit
<1>17. CASE Halt
  BY <1>17 DEF Halt, Exit, notifyBatchOutcome, haltStatusLabels
<1>18. CASE Archive
  BY <1>18 DEF Archive, At
<1>19. CASE ClearRun
  BY <1>19 DEF ClearRun, Exit, Written, NotWritten, notifyBatchOutcome, notifyBatchFailed, NoRun
<1>20. CASE Crash
  BY <1>20 DEF Crash, started
<1>21. ASSUME NEW b \in Branch \cup {None}, Switch(b) PROVE Announced'
  BY <1>21 DEF Switch, started
<1>22. ASSUME NEW p \in Plan, LoseWorktree(p) PROVE Announced'
  BY <1>22 DEF LoseWorktree, started
<1>23. CASE UNCHANGED vars
  BY <1>23 DEF vars, started, history
<1> QED BY <1>1, <1>2, <1>3, <1>4, <1>5, <1>6, <1>7, <1>8, <1>9, <1>10, <1>11, <1>12, <1>13, <1>14, <1>15,
   <1>16, <1>17, <1>18, <1>19, <1>20, <1>21, <1>22, <1>23 DEF Next, Step

----------------------------------------------------------------------------
(* The theorems.                                                           *)

\* The invariant holds of a new batch, and of one an older build has begun.
LEMMA InitInv == Init => IInv
<1> SUFFICES ASSUME Init PROVE IInv
  OBVIOUS
<1> USE BatchStartAssumption DEF BatchStartAssumption, Init
<1>1. Head(Plans) \in Plan
  BY DEF Plan, ToSet
<1>2. RunTyped
  BY DEF RunTyped, Runs, NoRun, Autos, Modes
<1>3. ChoiceTyped /\ PlaceTyped /\ NewsTyped
  BY DEF ChoiceTyped, Decisions, NoChoice, NoRequest, Request, PlaceTyped, NewsTyped
<1>4. PlanTyped
  <2>1. NewPlan \in PlanStates
    BY DEF NewPlan, PlanStates, Bases
  <2>2. \A b \in Branch, s \in {"begun", "completed"} :
          [status |-> s, base |-> b, tree |-> TRUE] \in PlanStates
    BY DEF PlanStates, Bases
  <2>3. CASE plan = [p \in Plan |-> NewPlan]
    BY <1>1, <2>1, <2>3 DEF PlanTyped
  <2>4. ASSUME NEW b \in Branch, NEW s \in {"begun", "completed"},
               plan = [p \in Plan |-> IF p = Head(Plans)
                                      THEN [status |-> s, base |-> b, tree |-> TRUE]
                                      ELSE NewPlan]
        PROVE  PlanTyped
    BY <1>1, <2>1, <2>2, <2>4 DEF PlanTyped
  <2> QED BY <2>3, <2>4
<1>5. modes = {} \/ (modes = {"consolidate"} /\ anyPlanStarted)
  BY <1>1 DEF anyPlanStarted
<1>6. ModesFollow
  BY <1>5 DEF ModesFollow, NoRun, Modes
<1> QED
  BY <1>2, <1>3, <1>4, <1>6
  DEF IInv, Typed, InRun, Decided, OwedIsPaused, Quiet, Announced, NoRun, Deciding, Working

\* No step of a start, of git and of the operator breaks the invariant.
LEMMA StepInv == IInv /\ [Next]_vars => IInv'
  BY RunTypedStep, PlanTypedStep, ChoiceTypedStep, PlaceTypedStep, NewsTypedStep, InRunStep,
     OwedStep, DecidedStep, ModesStep, QuietStep, AnnouncedStep DEF IInv, Typed

\* The invariant holds in every reachable state.
LEMMA Invariance == Spec => []IInv
  BY InitInv, StepInv, PTL DEF Spec

\* The modes of a batch are in one set of one element.
LEMMA InvGivesModeIsFixed == IInv => ModeIsFixed
<1> SUFFICES ASSUME IInv PROVE ModeIsFixed
  OBVIOUS
<1>1. PICK m \in Modes : modes \subseteq {m}
  BY DEF IInv, ModesFollow
<1>2. IsFiniteSet({m}) /\ Cardinality({m}) = 1
  BY FS_Singleton
<1> QED BY <1>1, <1>2, FS_Subset, FS_CardinalityType DEF ModeIsFixed

\* Announcement by announcement.
LEMMA InvGivesNewsIsTrue == IInv => NewsIsTrue
<1> SUFFICES ASSUME IInv PROVE NewsIsTrue
  OBVIOUS
<1>1. news \in {<<>>} \cup {<<n>> : n \in {"complete", "cost-capped", "failed", "needs-human"}}
  BY DEF IInv, Typed, NewsTyped
<1>2. Announced
  BY DEF IInv
<1>3. Quiet
  BY DEF IInv
<1> QED BY <1>1, <1>2, <1>3 DEF Announced, Quiet, NewsIsTrue

\* While a start is at work, the auto-branch of run.json is the one it goes by.
LEMMA BaseStep ==
  IInv /\ [Next]_vars =>
    (\A p \in Plan : plan[p].base # plan'[p].base /\ Ref[p] = None /\ disk.auto # None
       => plan'[p].base = disk.auto)
<1> SUFFICES ASSUME IInv, [Next]_vars, NEW p \in Plan,
                    plan[p].base # plan'[p].base, Ref[p] = None, disk.auto # None
             PROVE  plan'[p].base = disk.auto
  OBVIOUS
<1> USE DEF IInv, Typed, PlanTyped, PlanStates
<1>1. CASE Prepare
  <2>1. baseRef(p) = mem.auto /\ mem = disk
    BY <1>1 DEF Prepare, InRun, baseRef, Named, BaseForBatch, Or
  <2> QED BY <1>1, <2>1 DEF Prepare
<1>2. CASE RunPlan \/ Integrate \/ \E q \in Plan : LoseWorktree(q)
  BY <1>2 DEF RunPlan, Integrate, LoseWorktree
<1>3. CASE UNCHANGED plan
  BY <1>3
<1> QED
  BY <1>1, <1>2, <1>3
  DEF Next, Step, Begin, RecoverOrphan, resolveBatchModeAndBase, Resume, NoAutoBranch, Refuse,
      BeforePersistCreate, CreateBranch, Stamp, Setup, NextPlan, Pause, Interrupted, Halt, Archive,
      ClearRun, Crash, Switch, vars

\* Whatever flags, configuration and branches later starts are given, and
\* wherever earlier ones died, no batch has both merged and retained plans.
THEOREM ModeIsFixedHolds == Spec => []ModeIsFixed
  BY Invariance, InvGivesModeIsFixed, PTL

\* What a start announces is so, and is announced once.
THEOREM NewsIsTrueHolds == Spec => []NewsIsTrue
  BY Invariance, InvGivesNewsIsTrue, PTL

\* Once run.json names an auto-branch, every worktree of a plan without a base
\* of its own is made from it.
THEOREM AutoBranchIsBaseHolds == Spec => AutoBranchIsBase
  BY Invariance, BaseStep, PTL DEF Spec, AutoBranchIsBase

\* No plan is dispatched while a pause waits for a cap above what was spent.
THEOREM PauseIsAnsweredHolds == Spec => PauseIsAnswered
<1>1. IInv /\ [Next]_vars => (pc = "run" /\ pc' \in {"prepare", "integrate"} => ~owed)
  BY DEF IInv, OwedIsPaused
<1> QED BY <1>1, Invariance, PTL DEF Spec, PauseIsAnswered
=============================================================================

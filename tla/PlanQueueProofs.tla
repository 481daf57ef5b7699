--------------------------- MODULE PlanQueueProofs ---------------------------
(***************************************************************************)
(* What the single-plan queue promises of any plans, in any order and      *)
(* however often they are reordered, added, removed, reset and recovered,  *)
(* as long as no command runs beside a start (OneAtATime): a plan whose    *)
(* work has landed is not executed again; and, when nobody lets a refused  *)
(* merge count (retry-merge) and plans remove is not cut short (Orderly),  *)
(* an agent only works on top of every earlier plan's work, and a queue is *)
(* recorded as completed only when all of it has landed: the queue         *)
(* implements PlanOrder.                                                   *)
(*                                                                         *)
(* The three properties speak of one step.  What makes them true is        *)
(* earlier: the start's memory and state.json agree until something fails  *)
(* (InStep), so do the copy of a command and the two files (CopyIsFile),   *)
(* and all of these say `published` or `integrated` only of work that has  *)
(* landed (Truthful), and never forget it (Remembered).                    *)
(***************************************************************************)
EXTENDS PlanQueue, FiniteSetTheorems, WellFoundedInduction, TLAPS

\* No command runs beside a start.
OneAtATime == ~Overlap

\* Nobody lets a refused merge count, and a removal is never cut short.
Orderly == OneAtATime /\ "retry-merge" \notin Ops /\ "remove" \notin Torn

Alone == pc # "idle" => op = Nothing

\* The schedule of a start that runs is the registry.
Scheduled == pc \notin {"idle", "load"} => sched = units

\* Until a write fails or the plan does, the start's memory is what the file says.
InStep == pc \in {"queue", "loop", "plan", "agent", "merge", "record", "cleanup"} =>
            mem.plans = saved.plans /\ mem.known = saved.known

\* The plan at work is registered.  It is taken when every plan before it has an
\* integrated entry and it has not; it is executed when nothing has landed of it that
\* was not thrown away; and it is merged when it has been executed.
Chosen ==
  /\ pc \in {"plan", "agent", "cap", "merge", "record", "cleanup"} => plan \in Registered(units)
  /\ pc = "plan" => /\ ~Integrated(mem.plans[plan])
                    /\ \A q \in Registered(units) :
                         Before(units, q, plan) => Integrated(mem.plans[q])
  /\ pc = "agent" => plan \notin landed \ dropped
  /\ pc = "merge" => mem.plans[plan] \in Unmerged
  /\ pc \in {"record", "cleanup"} => plan \in landed /\ mem.plans[plan] \in Unmerged

\* What a command has read is still so.
CopyIsFile ==
  op # Nothing =>
    /\ op.state.plans = saved.plans /\ op.state.known = saved.known
    /\ op.step = "config" => op.units = units
    /\ op.cmd = "add" => op.step = "config" /\ units[op.plan] = 0
    /\ op.cmd \notin {"add", "reorder", "status"} =>
         IF op.cmd = "remove" /\ op.step = "act" THEN units[op.plan] = 0
         ELSE op.plan \in Registered(units)
    /\ op.cmd = "reset" /\ op.step = "act" => op.plan \in dropped
    /\ op.cmd \in Ops /\ op.plan \in Plans
    /\ op.step = "diagnose" => op.cmd \in Recoveries
    /\ op.step = "clean" => op.cmd = "reset"

\* An entry of a registered plan whose work has landed, and was not thrown away, does
\* not ask for it to be executed again.
Remembers(s) ==
  \A p \in (Registered(units) \cap landed) \ dropped : s.plans[p] \in Unmerged \cup {"integrated"}
Remembered == Remembers(saved) /\ (pc \notin {"idle", "load"} => Remembers(mem))

\* An entry that says published or integrated is of a plan that has landed.
Truthful(s) ==
  \A p \in Registered(units) : s.plans[p] \in {"published", "integrated"} => p \in landed
EntriesAreTrue == Truthful(saved) /\ (pc \notin {"idle", "load"} => Truthful(mem))

\* A plan that is not registered has no entry, but for the one being removed.
Forgotten ==
  /\ \A p \in Plans \ Registered(units) :
       saved.plans[p] = "none" \/ (op.cmd = "remove" /\ op.step = "act" /\ op.plan = p)
  /\ pc \notin {"idle", "load"} => \A p \in Plans \ Registered(units) : mem.plans[p] = "none"

KInv == TypeOK /\ Alone /\ Scheduled /\ InStep /\ Chosen /\ CopyIsFile /\ Remembered
TInv == KInv /\ Forgotten /\ EntriesAreTrue

----------------------------------------------------------------------------
(* The operators of the model.                                              *)

\* Entries change one at a time, and the queue's record with none of them.
LEMMA MarkIs ==
  ASSUME mem \in State, plan \in Plans, NEW e \in Entry
  PROVE  /\ Mark(e) \in State /\ Mark(e).known = mem.known
         /\ Mark(e).plans = [mem.plans EXCEPT ![plan] = e] /\ Mark(e).queue = mem.queue
  BY DEF Mark, State

\* The running record also remembers the worktree.
LEMMA RunningIs ==
  ASSUME mem \in State, plan \in Plans
  PROVE  /\ Running \in State /\ Running.known = mem.known \cup {plan}
         /\ Running.plans = [mem.plans EXCEPT ![plan] = "running"]
  BY DEF Running, State, Entry

\* The queue's record changes no entry.
LEMMA QueueIsIs ==
  ASSUME mem \in State, NEW s \in {"idle", "running", "completed", "halted", "stopped"},
         NEW p \in Plans \cup {NoPlan}
  PROVE  /\ QueueIs(s, p) \in State /\ QueueIs(s, p).known = mem.known
         /\ QueueIs(s, p).plans = mem.plans /\ QueueIs(s, p).queue.status = s
  BY DEF QueueIs, State, Queue

\* Normalising interrupts the entries that say running, and no other.
LEMMA NormalizedIs ==
  ASSUME NEW s \in State
  PROVE  /\ Normalized(s) \in State /\ Normalized(s).known = s.known
         /\ Normalized(s).plans =
              [p \in Plans |-> IF s.plans[p] = "running" THEN "interrupted" ELSE s.plans[p]]
         /\ ~Stale(s) => Normalized(s).plans = s.plans
<1> DEFINE q == IF s.queue.status = "running" THEN [status |-> "idle", active |-> NoPlan]
                ELSE s.queue
           f == [p \in Plans |-> IF s.plans[p] = "running" THEN "interrupted" ELSE s.plans[p]]
<1>1. q \in Queue
  BY DEF State, Queue
<1>2. f \in [Plans -> Entry] /\ (~Stale(s) => f = s.plans)
  BY DEF State, Entry, Halted, Stale
<1>3. Normalized(s) = [s EXCEPT !.plans = f, !.queue = q]
  BY DEF Normalized, State
<1> HIDE DEF f, q
<1>4. Normalized(s) = [plans |-> f, known |-> s.known, queue |-> q]
  BY <1>3 DEF State
<1> QED BY <1>1, <1>2, <1>4 DEF State, f

\* What goes wrong stays in its budget.
LEMMA BudgetKept == TypeOK /\ (Spend \/ Calm) => trouble' \in 0..MaxTrouble
  BY QueueAssumption DEF QueueAssumption, TypeOK, Spend, Calm

\* A save by the start, whether it succeeds or not.
LEMMA SaveIs ==
  ASSUME TypeOK, NEW m \in State, NEW ok \in BOOLEAN, Save(m, ok)
  PROVE  /\ mem' = m /\ saved' \in {m, saved} /\ (ok => saved' = m)
         /\ mem' \in State /\ saved' \in State /\ trouble' \in 0..MaxTrouble
  BY BudgetKept DEF Save, TypeOK

\* A step of a start, of git or of the operator keeps every type.
LEMMA StartTypes == KInv /\ (Begin \/ StartStep \/ Interrupt \/ Crash \/ Prune) => TypeOK'
<1> SUFFICES ASSUME KInv, (Begin \/ StartStep \/ Interrupt \/ Crash \/ Prune) PROVE TypeOK'
  OBVIOUS
<1>t. TypeOK
  BY DEF KInv
<1>p. pc \in {"plan", "agent", "cap", "merge", "record", "cleanup"} => plan \in Plans
  BY DEF KInv, Chosen, Registered
<1>q. mem.queue.active \in Plans \cup {NoPlan}
  BY <1>t DEF TypeOK, State, Queue
<1>1. CASE Begin
  BY <1>1, <1>t, BudgetKept DEF Begin, TypeOK
<1>2. CASE Load
  BY <1>2, <1>t, BudgetKept, NormalizedIs DEF Load, TypeOK
<1>3. CASE SetUpFails
  BY <1>3, <1>t, BudgetKept DEF SetUpFails, TypeOK, files
<1>4. CASE Open
  BY <1>4, <1>t, <1>q, QueueIsIs, SaveIs DEF Open, TypeOK
<1>5. CASE Stop
  BY <1>5, <1>t, <1>q, QueueIsIs, SaveIs DEF Stop, TypeOK
<1>6. CASE Complete
  BY <1>6, <1>t, QueueIsIs, SaveIs, BudgetKept DEF Complete, TypeOK, Queue
<1>7. CASE Take
  BY <1>7, <1>t, QueueIsIs, SaveIs, BudgetKept DEF Take, TypeOK, Queue, NextPlans, Registered
<1>8. CASE Remerge
  BY <1>8, <1>t, <1>p, BudgetKept DEF Remerge, TypeOK, files
<1>9. CASE Execute
  BY <1>9, <1>t, <1>p, RunningIs, SaveIs, BudgetKept DEF Execute, TypeOK
<1>10. CASE Refuse
  BY <1>10, <1>t, <1>p, MarkIs, BudgetKept DEF Refuse, TypeOK, Entry, Halted, Unmerged
<1>11. CASE Executed
  BY <1>11, <1>t, <1>p, MarkIs, SaveIs, BudgetKept DEF Executed, TypeOK, Entry, Halted, Unmerged
<1>12. CASE Fail
  BY <1>12, <1>t, <1>p, MarkIs, BudgetKept DEF Fail, TypeOK, Entry, Halted, Unmerged
<1>13. CASE Pause
  BY <1>13, <1>t, <1>p, MarkIs, BudgetKept DEF Pause, TypeOK, Entry, Halted, Unmerged
<1>14. CASE WriteCap
  BY <1>14, <1>t, BudgetKept DEF WriteCap, TypeOK
<1>15. CASE Publish
  BY <1>15, <1>t, <1>p, BudgetKept DEF Publish, TypeOK, Calm
<1>16. CASE Decline
  BY <1>16, <1>t, <1>p, MarkIs, BudgetKept DEF Decline, TypeOK, Entry, Halted, Unmerged
<1>17. CASE Record
  BY <1>17, <1>t, <1>p, MarkIs, SaveIs, BudgetKept DEF Record, TypeOK, Entry, Halted, Unmerged
<1>18. CASE Cleanup
  BY <1>18, <1>t, <1>p, MarkIs, SaveIs, BudgetKept DEF Cleanup, TypeOK, Entry, Halted, Unmerged
<1>19. CASE Halt
  BY <1>19, <1>t, QueueIsIs, SaveIs, BudgetKept DEF Halt, TypeOK, Queue
<1>20. CASE Interrupt
  BY <1>20, <1>t, BudgetKept DEF Interrupt, TypeOK, files
<1>21. CASE Crash
  BY <1>21, <1>t, BudgetKept DEF Crash, TypeOK, files
<1>22. CASE Prune
  BY <1>22, <1>t, BudgetKept DEF Prune, TypeOK, Calm, start
<1> QED BY <1>1, <1>2, <1>3, <1>4, <1>5, <1>6, <1>7, <1>8, <1>9, <1>10, <1>11, <1>12, <1>13, <1>14, <1>15,
   <1>16, <1>17, <1>18, <1>19, <1>20, <1>21, <1>22 DEF StartStep

\* A step of a start leaves the registry, the command and the history alone.
LEMMA StartFrame ==
  Begin \/ StartStep \/ Interrupt \/ Crash \/ Prune => UNCHANGED <<units, op, dropped>>
  BY DEF Begin, StartStep, Load, SetUpFails, Open, Stop, Complete, Take, Remerge, Execute, Refuse,
         Executed, Fail, Pause, WriteCap, Publish, Decline, Record, Cleanup, Halt, Interrupt, Crash,
         Prune, files, start

\* A start at work has no command beside it, so a step of it keeps what commands know,
\* and the schedule is set when the registry has been read.
LEMMA StartKeepsApart ==
  OneAtATime /\ KInv /\ (Begin \/ StartStep \/ Interrupt \/ Crash \/ Prune) =>
    Alone' /\ Scheduled' /\ CopyIsFile'
<1> SUFFICES ASSUME OneAtATime, KInv, Begin \/ StartStep \/ Interrupt \/ Crash \/ Prune
             PROVE  Alone' /\ Scheduled' /\ CopyIsFile'
  OBVIOUS
<1>1. UNCHANGED <<units, op, dropped>>
  BY StartFrame
<1>2. CASE Prune
  BY <1>1, <1>2 DEF KInv, Prune, start, Alone, Scheduled, CopyIsFile
<1>3. CASE ~Prune
  <2>1. op = Nothing
    BY <1>3 DEF KInv, Alone, OneAtATime, Begin, StartStep, Load, SetUpFails, Open, Stop, Complete,
       Take, Remerge, Execute, Refuse, Executed, Fail, Pause, WriteCap, Publish, Decline, Record,
       Cleanup, Halt, Interrupt, Crash
  <2>2. Scheduled'
    BY <1>1, <1>3 DEF KInv, Scheduled, Begin, StartStep, Load, SetUpFails, Open, Stop, Complete,
       Take, Remerge, Execute, Refuse, Executed, Fail, Pause, WriteCap, Publish, Decline, Record,
       Cleanup, Halt, Interrupt, Crash
  <2> QED BY <1>1, <2>1, <2>2 DEF Alone, CopyIsFile
<1> QED BY <1>2, <1>3

\* A write that fails ends the run of the queue, so whoever goes on has what is on file.
LEMMA StartKeepsInStep == KInv /\ (Begin \/ StartStep \/ Interrupt \/ Crash \/ Prune) => InStep'
<1> SUFFICES ASSUME KInv, (Begin \/ StartStep \/ Interrupt \/ Crash \/ Prune) PROVE InStep'
  OBVIOUS
<1>t. TypeOK /\ UNCHANGED <<units, op, dropped>>
  BY StartFrame DEF KInv
<1>p. pc \in {"plan", "agent", "cap", "merge", "record", "cleanup"} => plan \in Plans
  BY DEF KInv, Chosen, Registered
<1>e. mem.plans \in [Plans -> Entry] /\ saved.plans \in [Plans -> Entry]
  BY <1>t DEF TypeOK, State
<1>q. mem.queue.active \in Plans \cup {NoPlan}
  BY <1>t DEF TypeOK, State, Queue
<1>i. InStep
  BY DEF KInv
<1> USE DEF TypeOK, InStep
<1>1. CASE Begin
  BY <1>1, <1>t, <1>i DEF Begin
<1>2. CASE Load
  BY <1>2, <1>t, <1>i, NormalizedIs DEF Load
<1>3. CASE SetUpFails
  BY <1>3, <1>t, <1>i DEF SetUpFails, files
<1>4. CASE Open
  BY <1>4, <1>t, <1>i, <1>q, QueueIsIs, SaveIs DEF Open
<1>5. CASE Stop
  BY <1>5, <1>t, <1>i, <1>q, QueueIsIs, SaveIs DEF Stop
<1>6. CASE Complete
  BY <1>6, <1>t, <1>i, <1>q, QueueIsIs, SaveIs DEF Complete
<1>7. CASE Take
  <2>1. PICK p \in NextPlans(sched, mem), ok \in BOOLEAN : Save(QueueIs("running", p), ok)
    BY <1>7 DEF Take
  <2>2. p \in Plans
    BY DEF NextPlans, Registered
  <2> QED BY <1>7, <1>t, <1>i, <2>1, <2>2, QueueIsIs, SaveIs DEF Take
<1>8. CASE Remerge
  BY <1>8, <1>t, <1>i, <1>p DEF Remerge, files
<1>9. CASE Execute
  BY <1>9, <1>t, <1>i, <1>p, RunningIs, SaveIs DEF Execute
<1>10. CASE Refuse
  BY <1>10, <1>t, <1>i, <1>p, MarkIs DEF Refuse, Entry, Halted, Unmerged
<1>11. CASE Executed
  BY <1>11, <1>t, <1>i, <1>p, MarkIs, SaveIs DEF Executed, Entry, Halted, Unmerged
<1>12. CASE Fail
  BY <1>12, <1>t, <1>i, <1>p, MarkIs DEF Fail, Entry, Halted, Unmerged
<1>13. CASE Pause
  BY <1>13, <1>t, <1>i, <1>p, MarkIs DEF Pause, Entry, Halted, Unmerged
<1>14. CASE WriteCap
  BY <1>14, <1>t, <1>i DEF WriteCap
<1>15. CASE Publish
  BY <1>15, <1>t, <1>i, <1>p DEF Publish
<1>16. CASE Decline
  BY <1>16, <1>t, <1>i, <1>p, MarkIs DEF Decline, Entry, Halted, Unmerged
<1>17. CASE Record
  BY <1>17, <1>t, <1>i, <1>p, MarkIs, SaveIs DEF Record, Entry, Halted, Unmerged
<1>18. CASE Cleanup
  BY <1>18, <1>t, <1>i, <1>p, MarkIs, SaveIs DEF Cleanup, Entry, Halted, Unmerged
<1>19. CASE Halt
  BY <1>19, <1>t, <1>i, <1>q, QueueIsIs, SaveIs DEF Halt
<1>20. CASE Interrupt
  BY <1>20, <1>t, <1>i DEF Interrupt, files
<1>21. CASE Crash
  BY <1>21, <1>t, <1>i DEF Crash, files
<1>22. CASE Prune
  BY <1>22, <1>t, <1>i DEF Prune, start
<1> QED BY <1>1, <1>2, <1>3, <1>4, <1>5, <1>6, <1>7, <1>8, <1>9, <1>10, <1>11, <1>12, <1>13, <1>14, <1>15,
   <1>16, <1>17, <1>18, <1>19, <1>20, <1>21, <1>22 DEF StartStep

\* A plan is taken in order, executed when it has not been, and merged when it has.
LEMMA StartKeepsChosen == KInv /\ (Begin \/ StartStep \/ Interrupt \/ Crash \/ Prune) => Chosen'
<1> SUFFICES ASSUME KInv, (Begin \/ StartStep \/ Interrupt \/ Crash \/ Prune) PROVE Chosen'
  OBVIOUS
<1>t. TypeOK /\ UNCHANGED <<units, op, dropped>>
  BY StartFrame DEF KInv
<1>p. pc \in {"plan", "agent", "cap", "merge", "record", "cleanup"} => plan \in Plans
  BY DEF KInv, Chosen, Registered
<1>e. mem.plans \in [Plans -> Entry] /\ saved.plans \in [Plans -> Entry]
  BY <1>t DEF TypeOK, State
<1>q. mem.queue.active \in Plans \cup {NoPlan}
  BY <1>t DEF TypeOK, State, Queue
<1>i. InStep /\ Chosen
  BY DEF KInv
<1> USE DEF TypeOK, InStep, Chosen
<1>1. CASE Begin
  BY <1>1, <1>t, <1>i DEF Begin
<1>2. CASE Load
  BY <1>2, <1>t, <1>i, NormalizedIs DEF Load
<1>3. CASE SetUpFails
  BY <1>3, <1>t, <1>i DEF SetUpFails, files
<1>4. CASE Open
  BY <1>4, <1>t, <1>i, <1>q, QueueIsIs, SaveIs DEF Open
<1>5. CASE Stop
  BY <1>5, <1>t, <1>i, <1>q, QueueIsIs, SaveIs DEF Stop
<1>6. CASE Complete
  BY <1>6, <1>t, <1>i, <1>q, QueueIsIs, SaveIs DEF Complete
<1>7. CASE Take
  <2>1. PICK p \in NextPlans(sched, mem), ok \in BOOLEAN :
               Save(QueueIs("running", p), ok) /\ plan' = p
    BY <1>7 DEF Take
  <2>2. p \in Plans /\ pc' = "plan" /\ sched = units
    BY <1>7 DEF NextPlans, Registered, Take, KInv, Scheduled
  <2>3. mem'.plans = mem.plans
    BY <1>t, <1>q, <2>1, <2>2, QueueIsIs, SaveIs
  <2>4. p \in Registered(units) /\ ~Integrated(mem.plans[p])
        /\ \A q \in Registered(units) : Before(units, q, p) => Integrated(mem.plans[q])
    BY <2>1, <2>2 DEF NextPlans
  <2> QED BY <1>t, <2>1, <2>2, <2>3, <2>4
<1>8. CASE Remerge
  BY <1>8, <1>t, <1>i, <1>p DEF Remerge, files, MergeOnly, Unmerged
<1>9. CASE Execute
  <2>1. UNCHANGED <<plan, landed>> /\ pc = "plan" /\ pc' \in {"agent", "halt"}
    BY <1>9 DEF Execute
  <2>2. plan \in Registered(units) /\ mem.plans[plan] \notin Unmerged \cup {"integrated"}
    BY <1>9, <1>i, <2>1 DEF Execute, MergeOnly, Integrated
  <2>3. plan \notin landed \ dropped
    BY <2>1, <2>2 DEF KInv, Remembered, Remembers
  <2> QED BY <1>t, <2>1, <2>2, <2>3
<1>10. CASE Refuse
  BY <1>10, <1>t, <1>i, <1>p, MarkIs DEF Refuse, Entry, Halted, Unmerged
<1>11. CASE Executed
  <2>1. PICK ok \in BOOLEAN : Save(Mark("merging"), ok) /\ pc' = (IF ok THEN "merge" ELSE "halt")
    BY <1>11 DEF Executed
  <2>2. UNCHANGED <<plan, landed>> /\ pc = "agent"
    BY <1>11 DEF Executed
  <2>3. "merging" \in Entry
    BY DEF Entry, Unmerged
  <2>4. Mark("merging") \in State /\ Mark("merging").plans[plan] = "merging"
    BY <1>t, <1>e, <1>p, <2>2, <2>3, MarkIs
  <2>5. mem'.plans[plan] = "merging"
    BY <1>t, <2>1, <2>4, SaveIs
  <2> QED BY <1>t, <1>i, <2>1, <2>2, <2>5 DEF Unmerged
<1>12. CASE Fail
  BY <1>12, <1>t, <1>i, <1>p, MarkIs DEF Fail, Entry, Halted, Unmerged
<1>13. CASE Pause
  BY <1>13, <1>t, <1>i, <1>p, MarkIs DEF Pause, Entry, Halted, Unmerged
<1>14. CASE WriteCap
  BY <1>14, <1>t, <1>i DEF WriteCap
<1>15. CASE Publish
  BY <1>15, <1>t, <1>i, <1>p DEF Publish
<1>16. CASE Decline
  BY <1>16, <1>t, <1>i, <1>p, MarkIs DEF Decline, Entry, Halted, Unmerged
<1>17. CASE Record
  <2>1. PICK ok \in BOOLEAN : Save(Mark("published"), ok) /\ pc' = (IF ok THEN "cleanup" ELSE "halt")
    BY <1>17 DEF Record
  <2>2. UNCHANGED <<plan, landed>> /\ pc = "record"
    BY <1>17 DEF Record
  <2>3. "published" \in Entry
    BY DEF Entry, Unmerged
  <2>4. Mark("published") \in State /\ Mark("published").plans[plan] = "published"
    BY <1>t, <1>e, <1>p, <2>2, <2>3, MarkIs
  <2>5. mem'.plans[plan] = "published"
    BY <1>t, <2>1, <2>4, SaveIs
  <2> QED BY <1>t, <1>i, <2>1, <2>2, <2>5 DEF Unmerged
<1>18. CASE Cleanup
  BY <1>18, <1>t, <1>i, <1>p, MarkIs, SaveIs DEF Cleanup, Entry, Halted, Unmerged
<1>19. CASE Halt
  BY <1>19, <1>t, <1>i, <1>q, QueueIsIs, SaveIs DEF Halt
<1>20. CASE Interrupt
  BY <1>20, <1>t, <1>i DEF Interrupt, files
<1>21. CASE Crash
  BY <1>21, <1>t, <1>i DEF Crash, files
<1>22. CASE Prune
  BY <1>22, <1>t, <1>i DEF Prune, start
<1> QED BY <1>1, <1>2, <1>3, <1>4, <1>5, <1>6, <1>7, <1>8, <1>9, <1>10, <1>11, <1>12, <1>13, <1>14, <1>15,
   <1>16, <1>17, <1>18, <1>19, <1>20, <1>21, <1>22 DEF StartStep

\* What a step of a start may write of an entry: what it knows already, that a run was
\* cut short, or what the place it is at says of the plan at work.
NewEntries ==
  CASE pc = "plan" /\ ~MergeOnly -> {"running", "failed"} [] pc = "agent" -> {"merging"} \cup Halted
    [] pc = "merge" -> {"refused"} [] pc = "record" -> {"published"} [] pc = "cleanup" -> {"integrated"}
    [] OTHER -> {}
MayWrite(e, p) ==
  \/ e = saved.plans[p]
  \/ pc \notin {"idle", "load"} /\ e = mem.plans[p]
  \/ saved.plans[p] = "running" /\ e = "interrupted"
  \/ p = plan /\ e \in NewEntries

\* What a step of a start writes, entry by entry.
LEMMA StartWrites ==
  ASSUME KInv, Begin \/ StartStep \/ Interrupt \/ Crash \/ Prune, NEW p \in Plans
  PROVE  /\ MayWrite(saved'.plans[p], p)
         /\ pc' \notin {"idle", "load"} => MayWrite(mem'.plans[p], p)
<1>t. TypeOK /\ UNCHANGED <<units, op, dropped>>
  BY StartFrame DEF KInv
<1>p. pc \in {"plan", "agent", "cap", "merge", "record", "cleanup"} => plan \in Plans
  BY DEF KInv, Chosen, Registered
<1>e. mem.plans \in [Plans -> Entry] /\ saved.plans \in [Plans -> Entry]
  BY <1>t DEF TypeOK, State
<1>q. mem.queue.active \in Plans \cup {NoPlan}
  BY <1>t DEF TypeOK, State, Queue
<1> USE DEF MayWrite, TypeOK
<1>1. CASE Begin
  BY <1>1, <1>t DEF Begin
<1>2. CASE Load
  <2>1. saved' = saved \/ saved' = Normalized(saved)
    BY <1>2 DEF Load
  <2>2. (pc' = "queue" => mem' = Normalized(saved)) /\ pc' \in {"queue", "idle"}
    BY <1>2 DEF Load
  <2>3. MayWrite(Normalized(saved).plans[p], p)
    <3>1. Normalized(saved).plans[p] = IF saved.plans[p] = "running" THEN "interrupted"
                                       ELSE saved.plans[p]
      BY <1>t, NormalizedIs
    <3> QED BY <3>1
  <2> QED BY <2>1, <2>2, <2>3
<1>3. CASE SetUpFails
  BY <1>3, <1>t DEF SetUpFails, files
<1>4. CASE Open
  <2>1. PICK ok \in BOOLEAN : Save(QueueIs("running", mem.queue.active), ok)
    BY <1>4 DEF Open
  <2>2. QueueIs("running", mem.queue.active) \in State /\ QueueIs("running", mem.queue.active).plans = mem.plans
    BY <1>t, <1>q, QueueIsIs
  <2>3. pc \notin {"idle", "load"}
    BY <1>4 DEF Open
  <2> QED BY <1>t, <2>1, <2>2, <2>3, SaveIs
<1>5. CASE Stop
  <2>1. PICK ok \in BOOLEAN : Save(QueueIs("stopped", mem.queue.active), ok)
    BY <1>5 DEF Stop
  <2>2. QueueIs("stopped", mem.queue.active) \in State /\ QueueIs("stopped", mem.queue.active).plans = mem.plans
    BY <1>t, <1>q, QueueIsIs
  <2>3. pc \notin {"idle", "load"}
    BY <1>5 DEF Stop
  <2> QED BY <1>t, <2>1, <2>2, <2>3, SaveIs
<1>6. CASE Complete
  <2>1. PICK ok \in BOOLEAN : Save(QueueIs("completed", NoPlan), ok)
    BY <1>6 DEF Complete
  <2>2. QueueIs("completed", NoPlan) \in State /\ QueueIs("completed", NoPlan).plans = mem.plans
    BY <1>t, <1>q, QueueIsIs
  <2>3. pc \notin {"idle", "load"}
    BY <1>6 DEF Complete
  <2> QED BY <1>t, <2>1, <2>2, <2>3, SaveIs
<1>7. CASE Take
  <2>1. PICK r \in NextPlans(sched, mem), ok \in BOOLEAN : Save(QueueIs("running", r), ok)
    BY <1>7 DEF Take
  <2>2. r \in Plans /\ pc = "loop"
    BY <1>7 DEF NextPlans, Registered, Take
  <2>3. QueueIs("running", r).plans = mem.plans /\ QueueIs("running", r) \in State
    BY <1>t, <2>2, QueueIsIs
  <2> QED BY <1>t, <2>1, <2>2, <2>3, SaveIs
<1>8. CASE Remerge
  BY <1>8, <1>t DEF Remerge, files
<1>9. CASE Execute
  <2>1. PICK ok \in BOOLEAN : Save(Running, ok)
    BY <1>9 DEF Execute
  <2>2. pc = "plan" /\ "running" \in NewEntries
    BY <1>9 DEF Execute, NewEntries
  <2>3. Running \in State /\ Running.plans = [mem.plans EXCEPT ![plan] = "running"]
    BY <1>t, <1>p, <2>2, RunningIs
  <2> QED BY <1>t, <1>e, <2>1, <2>2, <2>3, SaveIs
<1>10. CASE Refuse
  <2>1. "failed" \in Entry /\ "failed" \in NewEntries /\ pc = "plan" /\ saved' \in {mem', saved}
    BY <1>10 DEF Refuse, Entry, Halted, NewEntries
  <2>2. mem'.plans = [mem.plans EXCEPT ![plan] = "failed"]
    BY <1>10, <1>t, <1>p, <2>1, MarkIs DEF Refuse
  <2> QED BY <1>e, <2>1, <2>2
<1>11. CASE Executed
  <2>1. PICK ok \in BOOLEAN : Save(Mark("merging"), ok)
    BY <1>11 DEF Executed
  <2>2. "merging" \in Entry /\ pc = "agent" /\ "merging" \in NewEntries
    BY <1>11 DEF Executed, Entry, Unmerged, NewEntries
  <2>3. Mark("merging") \in State /\ Mark("merging").plans = [mem.plans EXCEPT ![plan] = "merging"]
    BY <1>t, <1>p, <2>2, MarkIs
  <2> QED BY <1>t, <1>e, <2>1, <2>2, <2>3, SaveIs
<1>12. CASE Fail
  <2>1. PICK e \in Halted : mem' = Mark(e)
    BY <1>12 DEF Fail, Halted
  <2>2. e \in Entry /\ e \in NewEntries /\ pc = "agent" /\ saved' \in {mem', saved}
    BY <1>12 DEF Fail, Entry, NewEntries
  <2>3. mem'.plans = [mem.plans EXCEPT ![plan] = e]
    BY <1>t, <1>p, <2>1, <2>2, MarkIs
  <2> QED BY <1>e, <2>2, <2>3
<1>13. CASE Pause
  <2>1. "interrupted" \in Entry /\ "interrupted" \in NewEntries /\ pc = "agent"
        /\ saved' \in {mem', saved}
    BY <1>13 DEF Pause, Entry, Halted, NewEntries
  <2>2. mem'.plans = [mem.plans EXCEPT ![plan] = "interrupted"]
    BY <1>13, <1>t, <1>p, <2>1, MarkIs DEF Pause
  <2> QED BY <1>e, <2>1, <2>2
<1>14. CASE WriteCap
  BY <1>14, <1>t DEF WriteCap
<1>15. CASE Publish
  BY <1>15, <1>t DEF Publish
<1>16. CASE Decline
  <2>1. CASE UNCHANGED <<mem, saved>>
    BY <1>16, <2>1 DEF Decline
  <2>2. CASE mem' = Mark("refused") /\ saved' \in {mem', saved}
    <3>1. "refused" \in Entry /\ "refused" \in NewEntries /\ pc = "merge"
      BY <1>16 DEF Decline, Entry, Unmerged, NewEntries
    <3>2. mem'.plans = [mem.plans EXCEPT ![plan] = "refused"]
      BY <1>t, <1>p, <2>2, <3>1, MarkIs
    <3> QED BY <1>e, <2>2, <3>1, <3>2
  <2> QED BY <1>16, <2>1, <2>2 DEF Decline
<1>17. CASE Record
  <2>1. PICK ok \in BOOLEAN : Save(Mark("published"), ok)
    BY <1>17 DEF Record
  <2>2. "published" \in Entry /\ pc = "record" /\ "published" \in NewEntries
    BY <1>17 DEF Record, Entry, Unmerged, NewEntries
  <2>3. Mark("published") \in State /\ Mark("published").plans = [mem.plans EXCEPT ![plan] = "published"]
    BY <1>t, <1>p, <2>2, MarkIs
  <2> QED BY <1>t, <1>e, <2>1, <2>2, <2>3, SaveIs
<1>18. CASE Cleanup
  <2>1. CASE UNCHANGED <<mem, saved>>
    BY <1>18, <2>1 DEF Cleanup
  <2>2. ASSUME NEW ok \in BOOLEAN, Save(Mark("integrated"), ok)
        PROVE  MayWrite(saved'.plans[p], p) /\ MayWrite(mem'.plans[p], p)
    <3>1. "integrated" \in Entry /\ "integrated" \in NewEntries /\ pc = "cleanup"
      BY <1>18 DEF Cleanup, Entry, NewEntries
    <3>2. Mark("integrated") \in State /\ Mark("integrated").plans = [mem.plans EXCEPT ![plan] = "integrated"]
      BY <1>t, <1>p, <3>1, MarkIs
    <3> QED BY <1>t, <1>e, <2>2, <3>1, <3>2, SaveIs
  <2> QED BY <1>18, <2>1, <2>2 DEF Cleanup
<1>19. CASE Halt
  <2>1. PICK ok \in BOOLEAN : Save(QueueIs("halted", NoPlan), ok)
    BY <1>19 DEF Halt
  <2>2. QueueIs("halted", NoPlan) \in State /\ QueueIs("halted", NoPlan).plans = mem.plans
    BY <1>t, <1>q, QueueIsIs
  <2>3. pc \notin {"idle", "load"}
    BY <1>19 DEF Halt
  <2> QED BY <1>t, <2>1, <2>2, <2>3, SaveIs
<1>20. CASE Interrupt
  BY <1>20, <1>t DEF Interrupt, files
<1>21. CASE Crash
  BY <1>21, <1>t DEF Crash, files
<1>22. CASE Prune
  BY <1>22, <1>t DEF Prune, start
<1> QED BY <1>1, <1>2, <1>3, <1>4, <1>5, <1>6, <1>7, <1>8, <1>9, <1>10, <1>11, <1>12, <1>13, <1>14, <1>15,
   <1>16, <1>17, <1>18, <1>19, <1>20, <1>21, <1>22 DEF StartStep

\* What has landed and was not thrown away is never marked as something to execute.
LEMMA StartKeepsRemembered ==
  KInv /\ (Begin \/ StartStep \/ Interrupt \/ Crash \/ Prune) => Remembered'
<1> SUFFICES ASSUME KInv, Begin \/ StartStep \/ Interrupt \/ Crash \/ Prune,
                    NEW p \in (Registered(units) \cap landed') \ dropped
             PROVE  /\ saved'.plans[p] \in Unmerged \cup {"integrated"}
                    /\ pc' \notin {"idle", "load"} => mem'.plans[p] \in Unmerged \cup {"integrated"}
  BY StartFrame DEF Remembered, Remembers, Registered
<1>1. p \in Plans
  BY DEF Registered
<1>2. CASE p \in landed
  <2>1. /\ saved.plans[p] \in Unmerged \cup {"integrated"}
        /\ pc \notin {"idle", "load"} => mem.plans[p] \in Unmerged \cup {"integrated"}
    BY <1>2 DEF KInv, Remembered, Remembers
  <2>2. p = plan => NewEntries \subseteq Unmerged \cup {"integrated"}
    <3>1. p = plan => pc # "agent" /\ (pc = "plan" => MergeOnly)
      BY <1>2, <2>1 DEF KInv, Chosen, MergeOnly, Integrated
    <3> QED BY <3>1 DEF NewEntries, Unmerged
  <2>3. \A e : MayWrite(e, p) => e \in Unmerged \cup {"integrated"}
    BY <2>1, <2>2 DEF MayWrite, Unmerged
  <2> QED BY <1>1, <2>3, StartWrites
<1>3. CASE p \notin landed
  <2>1. pc = "merge" /\ p = plan /\ UNCHANGED <<saved, mem>>
    BY <1>3 DEF Begin, StartStep, Load, SetUpFails, Open, Stop, Complete, Take, Remerge, Execute,
       Refuse, Executed, Fail, Pause, WriteCap, Publish, Decline, Record, Cleanup, Halt, Interrupt,
       Crash, Prune, files, start
  <2> QED BY <2>1 DEF KInv, Chosen, InStep
<1> QED BY <1>2, <1>3

\* A start writes no entry of a plan that is not registered.
LEMMA StartKeepsForgotten ==
  OneAtATime /\ TInv /\ (Begin \/ StartStep \/ Interrupt \/ Crash \/ Prune) => Forgotten'
<1> SUFFICES ASSUME OneAtATime, TInv, Begin \/ StartStep \/ Interrupt \/ Crash \/ Prune,
                    NEW p \in Plans \ Registered(units)
             PROVE  /\ saved'.plans[p] = "none"
                    /\ pc' \notin {"idle", "load"} => mem'.plans[p] = "none"
  BY StartFrame DEF Forgotten, Registered
<1>1. op = Nothing
  BY DEF TInv, KInv, Alone, OneAtATime, Begin, StartStep, Load, SetUpFails, Open, Stop, Complete,
     Take, Remerge, Execute, Refuse, Executed, Fail, Pause, WriteCap, Publish, Decline, Record,
     Cleanup, Halt, Interrupt, Crash, Prune
<1>2. saved.plans[p] = "none" /\ (pc \notin {"idle", "load"} => mem.plans[p] = "none")
  BY <1>1 DEF TInv, Forgotten, Nothing
<1>3. p = plan => NewEntries = {}
  BY DEF TInv, KInv, Chosen, NewEntries
<1>4. \A e : MayWrite(e, p) => e = "none"
  BY <1>2, <1>3 DEF MayWrite
<1> QED BY <1>4, StartWrites DEF TInv

\* A start says of a plan that it is published or integrated when its work has landed.
LEMMA StartKeepsTrue ==
  TInv /\ (Begin \/ StartStep \/ Interrupt \/ Crash \/ Prune) => EntriesAreTrue'
<1> SUFFICES ASSUME TInv, Begin \/ StartStep \/ Interrupt \/ Crash \/ Prune,
                    NEW p \in Registered(units), p \notin landed'
             PROVE  /\ saved'.plans[p] \notin {"published", "integrated"}
                    /\ pc' \notin {"idle", "load"} => mem'.plans[p] \notin {"published", "integrated"}
  BY StartFrame DEF EntriesAreTrue, Truthful, Registered
<1>1. p \in Plans
  BY DEF Registered
<1>2. p \notin landed
  BY DEF Begin, StartStep, Load, SetUpFails, Open, Stop, Complete, Take, Remerge, Execute,
     Refuse, Executed, Fail, Pause, WriteCap, Publish, Decline, Record, Cleanup, Halt, Interrupt,
     Crash, Prune, files, start
<1>3. /\ saved.plans[p] \notin {"published", "integrated"}
      /\ pc \notin {"idle", "load"} => mem.plans[p] \notin {"published", "integrated"}
  BY <1>2 DEF TInv, EntriesAreTrue, Truthful
<1>4. p = plan => NewEntries \cap {"published", "integrated"} = {}
  BY <1>2 DEF TInv, KInv, Chosen, NewEntries, Halted
<1>5. \A e : MayWrite(e, p) => e \notin {"published", "integrated"}
  BY <1>3, <1>4 DEF MayWrite
<1> QED BY <1>1, <1>5, StartWrites DEF TInv

----------------------------------------------------------------------------
(* The commands.                                                            *)

\* Only two commands leave an entry that says that work has landed, and some say more.
Leaves(c, e) ==
  /\ e = "integrated" <=> c = "retry-merge"
  /\ e = "published" <=> c = "retry-integration"
  /\ c = "mark-completed" => e = "merging"
  /\ c = "remove" => e = "none"

\* A command on an entry leaves every other entry alone.
LEMMA AfterIs ==
  \A c : \A p \in Plans : \A s \in State :
    /\ After(c, p, s) \in State
    /\ \E e \in Entry : After(c, p, s).plans = [s.plans EXCEPT ![p] = e] /\ Leaves(c, e)
<1> SUFFICES ASSUME NEW c, NEW p \in Plans, NEW s \in State
             PROVE  /\ After(c, p, s) \in State
                    /\ \E e \in Entry : After(c, p, s).plans = [s.plans EXCEPT ![p] = e] /\ Leaves(c, e)
  OBVIOUS
<1> DEFINE e == CASE c = "mark-completed" -> "merging" [] c = "retry-merge" -> "integrated"
                  [] c = "retry-integration" -> "published" [] c = "remove" -> "none"
                  [] OTHER -> "pending"
           k == IF c \in {"reset", "remove"} THEN s.known \ {p} ELSE s.known
<1>1. e \in Entry /\ k \in SUBSET Plans
  BY DEF Entry, Halted, Unmerged, State
<1>2. After(c, p, s) = [s EXCEPT !.plans[p] = e, !.known = k]
  BY DEF After
<1>3. Leaves(c, e)
  BY DEF Leaves
<1> HIDE DEF e, k
<1>4. After(c, p, s) = [plans |-> [s.plans EXCEPT ![p] = e], known |-> k, queue |-> s.queue]
  BY <1>2 DEF State
<1> QED BY <1>1, <1>3, <1>4 DEF State

\* A command on the registry changes the orders, and who is registered.
LEMMA NewUnitsIs ==
  ASSUME op.plan \in Plans, units \in [Plans -> 0..MaxOrder], units' \in NewUnits(op.cmd, op.plan, units)
  PROVE  /\ units' \in [Plans -> 0..MaxOrder]
         /\ op.cmd = "add" => Registered(units') = Registered(units) \cup {op.plan}
         /\ op.cmd = "remove" => Registered(units') = Registered(units) \ {op.plan}
         /\ op.cmd \notin {"add", "remove"} => Registered(units') = Registered(units)
<1> DEFINE c == op.cmd  p == op.plan  u == units  v == units'
<1>v. p \in Plans /\ u \in [Plans -> 0..MaxOrder] /\ v \in NewUnits(c, p, u)
  OBVIOUS
<1> SUFFICES /\ v \in [Plans -> 0..MaxOrder]
             /\ c = "add" => Registered(v) = Registered(u) \cup {p}
             /\ c = "remove" => Registered(v) = Registered(u) \ {p}
             /\ c \notin {"add", "remove"} => Registered(v) = Registered(u)
  OBVIOUS
<1> HIDE DEF c, p, u, v
<1> USE QueueAssumption DEF QueueAssumption
<1>1. CASE c = "add"
  <2>1. PICK n \in 1..MaxOrder : v = [u EXCEPT ![p] = n]
    BY <1>v, <1>1 DEF NewUnits
  <2> QED BY <1>v, <1>1, <2>1 DEF Registered
<1>2. CASE c = "remove"
  <2>1. v = [u EXCEPT ![p] = 0]
    BY <1>v, <1>2 DEF NewUnits
  <2> QED BY <1>v, <1>2, <2>1 DEF Registered
<1>3. CASE c \notin {"add", "remove"}
  <2>1. v \in [Plans -> 0..Cardinality(Registered(u))] /\ Registered(v) = Registered(u)
    BY <1>v, <1>3 DEF NewUnits
  <2>2. Cardinality(Registered(u)) \in Nat /\ Cardinality(Registered(u)) <= Cardinality(Plans)
    BY FS_Subset, FS_CardinalityType DEF Registered
  <2>3. 0..Cardinality(Registered(u)) \subseteq 0..MaxOrder
    BY <2>2, FS_CardinalityType
  <2> QED BY <1>3, <2>1, <2>3
<1> QED BY <1>1, <1>2, <1>3

\* What the state is that the command at work saves.
LEMMA OpAfterIs ==
  ASSUME op.plan \in Plans, op.state \in State
  PROVE  /\ After(op.cmd, op.plan, op.state) \in State
         /\ \E e \in Entry :
              /\ After(op.cmd, op.plan, op.state).plans = [op.state.plans EXCEPT ![op.plan] = e]
              /\ Leaves(op.cmd, e)
<1> DEFINE c == op.cmd  p == op.plan  s == op.state
<1>1. p \in Plans /\ s \in State
  OBVIOUS
<1> HIDE DEF c, p, s
<1>2. /\ After(c, p, s) \in State
      /\ \E e \in Entry : After(c, p, s).plans = [s.plans EXCEPT ![p] = e] /\ Leaves(c, e)
  BY <1>1, AfterIs
<1> QED BY <1>2 DEF c, p, s

\* A command that is at work is alone.
LEMMA OpAlone ==
  ASSUME OneAtATime, KInv, Read \/ OpStep \/ OpDies
  PROVE  /\ pc = "idle" /\ UNCHANGED start
         /\ Read \/ (op # Nothing /\ op.plan \in Plans)
<1>1. Read \/ op.step # "done" \/ op.cmd # "none"
  BY QueueAssumption DEF QueueAssumption, OpStep, OpDies, Normalize, WriteConfig, Clean, Act,
     Commands, PlansCommands, Recoveries
<1>2. Read \/ op # Nothing
  BY <1>1 DEF Nothing
<1>3. UNCHANGED start
  BY DEF Read, OpStep, OpDies, Normalize, WriteConfig, Clean, Act
<1> QED BY <1>2, <1>3 DEF Read, KInv, Alone, CopyIsFile, OneAtATime

\* A step of a command keeps every type.
LEMMA OpTypes == KInv /\ (Read \/ OpStep \/ OpDies) => TypeOK'
<1> SUFFICES ASSUME KInv, Read \/ OpStep \/ OpDies PROVE TypeOK'
  OBVIOUS
<1>t. TypeOK
  BY DEF KInv
<1>p. op.step # "done" => op.plan \in Plans
  BY DEF KInv, CopyIsFile, Nothing
<1>n. Nothing \in [cmd : Commands \cup {"none"}, plan : Plans \cup {NoPlan},
                   step : {"done", "diagnose", "normalize", "config", "clean", "act"},
                   units : [Plans -> 0..MaxOrder], state : State]
  BY QueueAssumption DEF QueueAssumption, Nothing, NoUnits, NewState, State, Queue, Entry
<1>1. CASE Read
  <2>1. \A c \in Commands : FirstStep(c) \in {"diagnose", "normalize", "config", "clean", "act"}
    BY DEF FirstStep
  <2> QED BY <1>1, <1>t, <2>1, QueueAssumption DEF QueueAssumption, Read, TypeOK, files, start
<1>2. CASE Normalize
  <2>1. op.state \in State /\ Normalized(op.state) \in State
    BY <1>t, NormalizedIs DEF TypeOK
  <2>2. saved' \in State
    BY <1>2, <1>t, <2>1 DEF Normalize, TypeOK
  <2>3. \/ op' = [op EXCEPT !.step = "normalize", !.units = units, !.state = saved']
        \/ op' = [op EXCEPT !.step = "act", !.state = Normalized(op.state)]
        \/ op' = Nothing
    BY <1>2 DEF Normalize
  <2>4. op' \in [cmd : Commands \cup {"none"}, plan : Plans \cup {NoPlan},
                 step : {"done", "diagnose", "normalize", "config", "clean", "act"},
                 units : [Plans -> 0..MaxOrder], state : State]
    BY <1>t, <1>n, <2>1, <2>2, <2>3 DEF TypeOK
  <2> QED BY <1>2, <1>t, <2>2, <2>4 DEF Normalize, TypeOK, start
<1>3. CASE WriteConfig
  <2>1. units' \in [Plans -> 0..MaxOrder]
    <3>1. op.plan \in Plans /\ op.step = "config" /\ op # Nothing
      BY <1>3, <1>p DEF WriteConfig, Nothing
    <3>2. op.units = units /\ units \in [Plans -> 0..MaxOrder]
      BY <1>t, <3>1 DEF KInv, CopyIsFile, TypeOK
    <3>3. units' \in NewUnits(op.cmd, op.plan, units)
      BY <1>3, <3>2 DEF WriteConfig
    <3> QED BY <3>1, <3>2, <3>3, NewUnitsIs
  <2> QED BY <1>3, <1>t, <1>n, <2>1 DEF WriteConfig, TypeOK, start
<1>4. CASE Clean
  BY <1>4, <1>t, <1>p, <1>n DEF Clean, TypeOK, start
<1>5. CASE Act
  <2>1. saved' \in State
    BY <1>5, <1>t, <1>p, AfterIs DEF Act, TypeOK
  <2> QED BY <1>5, <1>t, <1>n, <2>1 DEF Act, TypeOK, start
<1>6. CASE OpDies
  BY <1>6, <1>t, <1>n, BudgetKept DEF OpDies, TypeOK, files, start
<1> QED BY <1>1, <1>2, <1>3, <1>4, <1>5, <1>6 DEF OpStep

\* A command leaves a start alone, as there is none.
LEMMA OpKeepsApart ==
  OneAtATime /\ KInv /\ (Read \/ OpStep \/ OpDies) => Alone' /\ Scheduled' /\ InStep' /\ Chosen'
  BY OpAlone DEF start, Alone, Scheduled, InStep, Chosen

\* What a command has read stays so: it is the only one to write.
LEMMA OpKeepsCopy == OneAtATime /\ KInv /\ (Read \/ OpStep \/ OpDies) => CopyIsFile'
<1> SUFFICES ASSUME OneAtATime, KInv, Read \/ OpStep \/ OpDies, op' # Nothing PROVE CopyIsFile'
  BY DEF CopyIsFile
<1>t. TypeOK /\ (Read \/ (op # Nothing /\ op.plan \in Plans))
  BY OpAlone DEF KInv
<1>c. CopyIsFile
  BY DEF KInv
<1>1. CASE Read
  <2>1. PICK c \in Ops, p \in Plans :
           /\ c = "add" => units[p] = 0
           /\ c \notin {"add", "reorder", "status"} => units[p] # 0
           /\ op' = [cmd |-> c, plan |-> p, units |-> units, state |-> saved, step |-> FirstStep(c)]
    BY <1>1 DEF Read
  <2>2. UNCHANGED <<units, saved>>
    BY <1>1 DEF Read, files
  <2>3. /\ FirstStep(c) = "act" => c \notin {"add", "remove", "reset"}
        /\ c = "add" => FirstStep(c) = "config"
        /\ FirstStep(c) = "diagnose" => c \in Recoveries
        /\ FirstStep(c) = "clean" => c = "reset"
    BY DEF FirstStep, PlansCommands, Recoveries
  <2> QED BY <2>1, <2>2, <2>3 DEF CopyIsFile, Registered
<1>2. CASE Normalize
  <2>1. op.state \in State /\ op # Nothing
    BY <1>2, <1>t DEF TypeOK, Normalize, Read, Nothing
  <2>2. /\ Normalized(op.state).plans = saved'.plans
        /\ Normalized(op.state).known = saved'.known
    BY <1>2, <1>c, <2>1, NormalizedIs DEF Normalize, CopyIsFile
  <2>3. op.cmd \in Recoveries
        /\ \/ op' = [op EXCEPT !.step = "normalize", !.units = units, !.state = saved']
           \/ op' = [op EXCEPT !.step = "act", !.state = Normalized(op.state)]
    BY <1>2, <1>c, <2>1 DEF Normalize, CopyIsFile, Recoveries
  <2>4. UNCHANGED <<units, dropped>> /\ op.cmd \notin {"add", "reset", "remove", "status"}
    BY <1>2, <2>3 DEF Normalize, Recoveries
  <2>5. op'.cmd = op.cmd /\ op'.plan = op.plan /\ op'.step \in {"normalize", "act"}
        /\ op'.state.plans = saved'.plans /\ op'.state.known = saved'.known
    BY <1>t, <2>2, <2>3 DEF TypeOK
  <2> QED BY <1>c, <2>1, <2>4, <2>5 DEF CopyIsFile, Registered
<1>3. CASE WriteConfig
  <2>1. op.cmd = "remove" /\ op' = [op EXCEPT !.step = "act"] /\ UNCHANGED saved
    BY <1>3 DEF WriteConfig
  <2>2. op # Nothing /\ op.step = "config"
    BY <1>3 DEF WriteConfig, Nothing
  <2>3. op.units = units /\ op.plan \in Plans /\ units \in [Plans -> 0..MaxOrder]
    BY <1>t, <1>c, <2>2 DEF CopyIsFile, TypeOK
  <2>4. units' \in NewUnits("remove", op.plan, units)
    BY <1>3, <2>1, <2>3 DEF WriteConfig
  <2>5. units'[op.plan] = 0
    BY <2>3, <2>4 DEF NewUnits
  <2>6. op'.cmd = op.cmd /\ op'.plan = op.plan /\ op'.step = "act" /\ op'.state = op.state
    BY <1>t, <2>1 DEF TypeOK
  <2> QED BY <1>c, <2>1, <2>2, <2>5, <2>6 DEF CopyIsFile
<1>4. CASE Clean
  <2>1. /\ op' = [op EXCEPT !.step = "act"] /\ dropped' = dropped \cup {op.plan}
        /\ UNCHANGED <<units, saved>> /\ op.step = "clean" /\ op # Nothing
    BY <1>4 DEF Clean, Nothing
  <2>2. op'.cmd = op.cmd /\ op'.plan = op.plan /\ op'.step = "act" /\ op'.state = op.state
    BY <1>t, <2>1 DEF TypeOK
  <2>3. op.cmd # "remove"
    BY <1>c, <2>1 DEF CopyIsFile
  <2> QED BY <1>c, <2>1, <2>2, <2>3 DEF CopyIsFile
<1>5. CASE Act \/ OpDies
  BY <1>5 DEF Act, OpDies
<1> QED BY <1>1, <1>2, <1>3, <1>4, <1>5 DEF OpStep

\* A command writes nothing that asks for the execution of what has landed: retry and
\* accept-drift leave those entries alone, and reset throws the work away first.
LEMMA OpKeepsRemembered == OneAtATime /\ KInv /\ (Read \/ OpStep \/ OpDies) => Remembered'
<1> DEFINE Merging == Unmerged \cup {"integrated"}
<1> SUFFICES ASSUME OneAtATime, KInv, Read \/ OpStep \/ OpDies,
                    NEW p \in (Registered(units') \cap landed') \ dropped'
             PROVE  saved'.plans[p] \in Merging
  BY OpAlone DEF Remembered, Remembers, start, Registered
<1>t. TypeOK /\ CopyIsFile /\ p \in Plans /\ (Read \/ (op # Nothing /\ op.plan \in Plans))
  BY OpAlone DEF KInv, Registered
<1>r. p \in Registered(units) /\ p \in landed /\ p \notin dropped => saved.plans[p] \in Merging
  BY DEF KInv, Remembered, Remembers
<1>1. CASE Read \/ OpDies \/ Clean
  BY <1>1, <1>r DEF Read, OpDies, Clean, files
<1>2. CASE Normalize
  <2>1. op.state \in State /\ op.state.plans = saved.plans
    BY <1>2, <1>t DEF TypeOK, CopyIsFile, Normalize, Read, Nothing
  <2>2. saved' = saved \/ saved' = Normalized(op.state)
    BY <1>2 DEF Normalize
  <2>3. saved.plans[p] \in Merging
    BY <1>2, <1>r DEF Normalize
  <2>4. Normalized(op.state).plans[p] = IF saved.plans[p] = "running" THEN "interrupted"
                                       ELSE saved.plans[p]
    <3>1. Normalized(op.state).plans = [q \in Plans |-> IF op.state.plans[q] = "running"
                                                     THEN "interrupted" ELSE op.state.plans[q]]
      BY <2>1, NormalizedIs, Zenon
    <3> QED BY <1>t, <2>1, <3>1
  <2> QED BY <2>2, <2>3, <2>4 DEF Unmerged
<1>3. CASE WriteConfig
  <2>1. op.units = units /\ op.plan \in Plans /\ units \in [Plans -> 0..MaxOrder]
    BY <1>3, <1>t DEF CopyIsFile, TypeOK, WriteConfig, Nothing, Read
  <2>2. /\ op.cmd = "add" => Registered(units') = Registered(units) \cup {op.plan}
        /\ op.cmd = "remove" => Registered(units') = Registered(units) \ {op.plan}
        /\ op.cmd \notin {"add", "remove"} => Registered(units') = Registered(units)
    <3>1. units' \in NewUnits(op.cmd, op.plan, units)
      BY <1>3, <2>1 DEF WriteConfig
    <3> QED BY <2>1, <3>1, NewUnitsIs
  <2>3. p \in Registered(units) /\ p \in landed /\ p \notin dropped
    BY <1>3, <2>2 DEF WriteConfig
  <2> QED BY <1>3, <1>r, <2>3 DEF WriteConfig
<1>4. CASE Act
  <2>1. /\ op.step = "act" /\ op # Nothing /\ op.plan \in Plans /\ op.state \in State
        /\ op.state.plans = saved.plans
    BY <1>4, <1>t DEF Act, Nothing, Read, TypeOK, CopyIsFile
  <2>2. p \in Registered(units) /\ p \in landed /\ p \notin dropped
    BY <1>4 DEF Act
  <2>3. saved.plans[p] \in Merging
    BY <1>r, <2>2
  <2>4. PICK e \in Entry :
           /\ After(op.cmd, op.plan, op.state).plans = [op.state.plans EXCEPT ![op.plan] = e]
           /\ Leaves(op.cmd, e)
    BY <2>1, OpAfterIs
  <2>5. CASE saved' = saved
    BY <2>3, <2>5
  <2>6. CASE saved' = After(op.cmd, op.plan, op.state) /\ p # op.plan
    BY <1>t, <2>1, <2>3, <2>4, <2>6 DEF TypeOK, State
  <2>7. CASE saved' = After(op.cmd, op.plan, op.state) /\ p = op.plan /\ saved' # saved
    <3>1. op.cmd # "remove"
      BY <1>t, <2>1, <2>2, <2>7 DEF CopyIsFile, Registered
    <3>2. Accepts(op.cmd, op.plan, saved.plans[p])
      BY <1>4, <2>1, <2>7, <3>1 DEF Act
    <3>3. op.cmd \in {"mark-completed", "retry-merge", "retry-integration"}
      <4>1. op.cmd # "reset"
        BY <1>t, <2>1, <2>2, <2>7 DEF CopyIsFile
      <4>2. op.cmd \notin {"retry", "accept-drift"}
        BY <2>3, <3>2 DEF Accepts, Available, Unmerged, Halted, Recoveries
      <4> QED BY <3>2, <4>1, <4>2 DEF Accepts, Recoveries
    <3>4. e \in Merging
      BY <2>4, <3>3 DEF Unmerged, Leaves
    <3>5. op.state.plans \in [Plans -> Entry]
      BY <2>1 DEF State
    <3> QED BY <1>t, <2>1, <2>4, <2>7, <3>4, <3>5
  <2> QED BY <1>4, <2>5, <2>6, <2>7 DEF Act
<1> QED BY <1>1, <1>2, <1>3, <1>4 DEF OpStep

\* A removal that is not cut short removes the entry with the plan, and no other command
\* makes one for a plan that is not there.
LEMMA OpKeepsForgotten == Orderly /\ TInv /\ (Read \/ OpStep \/ OpDies) => Forgotten'
<1> SUFFICES ASSUME Orderly, TInv, Read \/ OpStep \/ OpDies,
                    NEW p \in Plans \ Registered(units')
             PROVE  saved'.plans[p] = "none"
                    \/ (op'.cmd = "remove" /\ op'.step = "act" /\ op'.plan = p)
  BY OpAlone DEF Forgotten, start, Registered, TInv, Orderly
<1>t. TypeOK /\ CopyIsFile /\ (Read \/ (op # Nothing /\ op.plan \in Plans))
  BY OpAlone DEF TInv, KInv, Orderly
<1>f. p \notin Registered(units) =>
        saved.plans[p] = "none" \/ (op.cmd = "remove" /\ op.step = "act" /\ op.plan = p)
  BY DEF TInv, Forgotten
<1>1. CASE Read
  BY <1>1, <1>f DEF Read, files, Nothing
<1>2. CASE OpDies
  BY <1>2, <1>f DEF OpDies, files, Orderly
<1>3. CASE Clean
  BY <1>3, <1>f DEF Clean
<1>4. CASE Normalize
  <2>1. op.state \in State /\ op.state.plans = saved.plans
    BY <1>4, <1>t DEF TypeOK, CopyIsFile, Normalize, Read, Nothing
  <2>2. saved' = saved \/ saved' = Normalized(op.state)
    BY <1>4 DEF Normalize
  <2>3. saved.plans[p] = "none"
    BY <1>4, <1>f DEF Normalize
  <2>4. Normalized(op.state).plans[p] = IF saved.plans[p] = "running" THEN "interrupted"
                                       ELSE saved.plans[p]
    <3>1. Normalized(op.state).plans = [q \in Plans |-> IF op.state.plans[q] = "running"
                                                     THEN "interrupted" ELSE op.state.plans[q]]
      BY <2>1, NormalizedIs, Zenon
    <3> QED BY <1>t, <2>1, <3>1
  <2> QED BY <2>2, <2>3, <2>4
<1>5. CASE WriteConfig
  <2>1. op.units = units /\ op.plan \in Plans /\ units \in [Plans -> 0..MaxOrder] /\ op.step = "config"
    BY <1>5, <1>t DEF CopyIsFile, TypeOK, WriteConfig, Nothing, Read
  <2>2. /\ op.cmd = "add" => Registered(units') = Registered(units) \cup {op.plan}
        /\ op.cmd = "remove" => Registered(units') = Registered(units) \ {op.plan}
        /\ op.cmd \notin {"add", "remove"} => Registered(units') = Registered(units)
    <3>1. units' \in NewUnits(op.cmd, op.plan, units)
      BY <1>5, <2>1 DEF WriteConfig
    <3> QED BY <2>1, <3>1, NewUnitsIs
  <2>3. CASE op.cmd = "remove" /\ p = op.plan
    BY <1>5, <1>t, <2>3 DEF WriteConfig, TypeOK
  <2>4. CASE ~(op.cmd = "remove" /\ p = op.plan)
    BY <1>5, <1>f, <2>1, <2>2, <2>4 DEF WriteConfig
  <2> QED BY <2>3, <2>4
<1>6. CASE Act
  <2>1. /\ op.step = "act" /\ op # Nothing /\ op.plan \in Plans /\ op.state \in State
        /\ op.state.plans = saved.plans /\ p \notin Registered(units)
    BY <1>6, <1>t DEF Act, Nothing, Read, TypeOK, CopyIsFile
  <2>2. PICK e \in Entry :
           /\ After(op.cmd, op.plan, op.state).plans = [op.state.plans EXCEPT ![op.plan] = e]
           /\ Leaves(op.cmd, e)
    BY <2>1, OpAfterIs
  <2>3. op.state.plans \in [Plans -> Entry]
    BY <2>1 DEF State
  <2>4. CASE op.cmd = "remove"
    BY <1>6, <1>f, <2>1, <2>2, <2>3, <2>4 DEF Act, Leaves
  <2>5. CASE op.cmd # "remove" /\ Accepts(op.cmd, op.plan, op.state.plans[op.plan])
    <3>1. op.cmd \notin {"add", "reorder", "status"}
      BY <2>5 DEF Accepts, Recoveries
    <3>2. op.plan # p
      BY <1>t, <2>1, <2>5, <3>1 DEF CopyIsFile
    <3> QED BY <1>6, <1>f, <2>1, <2>2, <2>3, <2>5, <3>2 DEF Act
  <2>6. CASE op.cmd # "remove" /\ ~Accepts(op.cmd, op.plan, op.state.plans[op.plan])
    BY <1>6, <1>f, <2>1, <2>6 DEF Act
  <2> QED BY <2>4, <2>5, <2>6
<1> QED BY <1>1, <1>2, <1>3, <1>4, <1>5, <1>6 DEF OpStep

\* Without retry-merge no command makes an entry say that work has landed.
LEMMA OpKeepsTrue == Orderly /\ TInv /\ (Read \/ OpStep \/ OpDies) => EntriesAreTrue'
<1> SUFFICES ASSUME Orderly, TInv, Read \/ OpStep \/ OpDies,
                    NEW p \in Registered(units'), p \notin landed'
             PROVE  saved'.plans[p] \notin {"published", "integrated"}
  BY OpAlone DEF EntriesAreTrue, Truthful, start, Registered, TInv, Orderly
<1>t. TypeOK /\ CopyIsFile /\ (Read \/ (op # Nothing /\ op.plan \in Plans)) /\ p \in Plans
  BY OpAlone DEF TInv, KInv, Orderly, Registered
<1>e. p \in Registered(units) /\ p \notin landed => saved.plans[p] \notin {"published", "integrated"}
  BY DEF TInv, EntriesAreTrue, Truthful
<1>1. CASE Read \/ OpDies \/ Clean
  BY <1>1, <1>e DEF Read, OpDies, Clean, files
<1>2. CASE Normalize
  <2>1. op.state \in State /\ op.state.plans = saved.plans
    BY <1>2, <1>t DEF TypeOK, CopyIsFile, Normalize, Read, Nothing
  <2>2. saved' = saved \/ saved' = Normalized(op.state)
    BY <1>2 DEF Normalize
  <2>3. saved.plans[p] \notin {"published", "integrated"}
    BY <1>2, <1>e DEF Normalize
  <2>4. Normalized(op.state).plans[p] = IF saved.plans[p] = "running" THEN "interrupted"
                                       ELSE saved.plans[p]
    <3>1. Normalized(op.state).plans = [q \in Plans |-> IF op.state.plans[q] = "running"
                                                     THEN "interrupted" ELSE op.state.plans[q]]
      BY <2>1, NormalizedIs, Zenon
    <3> QED BY <1>t, <2>1, <3>1
  <2> QED BY <2>2, <2>3, <2>4
<1>3. CASE WriteConfig
  <2>1. op.units = units /\ op.plan \in Plans /\ units \in [Plans -> 0..MaxOrder] /\ op.step = "config"
    BY <1>3, <1>t DEF CopyIsFile, TypeOK, WriteConfig, Nothing, Read
  <2>2. /\ op.cmd = "add" => Registered(units') = Registered(units) \cup {op.plan}
        /\ op.cmd = "remove" => Registered(units') = Registered(units) \ {op.plan}
        /\ op.cmd \notin {"add", "remove"} => Registered(units') = Registered(units)
    <3>1. units' \in NewUnits(op.cmd, op.plan, units)
      BY <1>3, <2>1 DEF WriteConfig
    <3> QED BY <2>1, <3>1, NewUnitsIs
  <2>3. saved' = saved
    BY <1>3 DEF WriteConfig
  <2>4. CASE op.cmd = "add" /\ p = op.plan
    <3>1. op # Nothing /\ units[p] = 0
      BY <1>t, <2>1, <2>4 DEF CopyIsFile, Nothing
    <3>2. saved.plans[p] = "none"
      BY <1>t, <2>1, <2>4, <3>1 DEF TInv, Forgotten, Registered
    <3> QED BY <2>3, <3>2
  <2>5. CASE ~(op.cmd = "add" /\ p = op.plan)
    BY <1>3, <1>e, <2>2, <2>3, <2>5 DEF WriteConfig
  <2> QED BY <2>4, <2>5
<1>4. CASE Act
  <2>1. /\ op.step = "act" /\ op # Nothing /\ op.plan \in Plans /\ op.state \in State
        /\ op.state.plans = saved.plans /\ p \in Registered(units) /\ p \notin landed
    BY <1>4, <1>t DEF Act, Nothing, Read, TypeOK, CopyIsFile
  <2>2. saved.plans[p] \notin {"published", "integrated"}
    BY <1>e, <2>1
  <2>3. PICK e \in Entry :
           /\ After(op.cmd, op.plan, op.state).plans = [op.state.plans EXCEPT ![op.plan] = e]
           /\ Leaves(op.cmd, e)
    BY <2>1, OpAfterIs
  <2>4. op.state.plans \in [Plans -> Entry] /\ op.cmd # "retry-merge"
    BY <1>t, <2>1 DEF State, CopyIsFile, Orderly
  <2>5. CASE saved' = saved
    BY <2>2, <2>5
  <2>6. CASE saved' = After(op.cmd, op.plan, op.state) /\ p # op.plan
    BY <1>t, <2>1, <2>2, <2>3, <2>4, <2>6
  <2>7. CASE saved' = After(op.cmd, op.plan, op.state) /\ p = op.plan /\ saved' # saved
    <3>1. e # "published"
      <4>1. SUFFICES ASSUME op.cmd = "retry-integration" PROVE FALSE
        BY <2>3 DEF Leaves
      <4>2. Accepts(op.cmd, op.plan, saved.plans[p])
        BY <1>4, <2>1, <2>7, <4>1 DEF Act
      <4> QED BY <2>2, <4>1, <4>2 DEF Accepts, Available, Recoveries, Halted
    <3> QED BY <2>1, <2>3, <2>4, <2>7, <3>1 DEF Leaves
  <2> QED BY <1>4, <2>5, <2>6, <2>7 DEF Act
<1> QED BY <1>1, <1>2, <1>3, <1>4 DEF OpStep

----------------------------------------------------------------------------
(* The theorems.                                                            *)

\* A set of natural numbers has a least one.
LEMMA LeastIs == ASSUME NEW S \in SUBSET Nat, S # {} PROVE \E m \in S : \A k \in S : m <= k
<1>1. PICK m \in S : \A k \in S : <<k, m>> \notin OpToRel(<, Nat)
  BY WFMin, NatLessThanWellFounded, Zenon
<1>2. \A k \in S : ~(k < m)
  BY <1>1, Zenon DEF OpToRel
<1> QED BY <1>2

\* When NextPlans is empty there is nothing left to do: of the registered plans that are
\* not integrated one would come first.
LEMMA NoneLeft ==
  ASSUME TypeOK, NextPlans(sched, mem) = {}
  PROVE  \A q \in Registered(sched) : Integrated(mem.plans[q])
<1> DEFINE Left == {q \in Registered(sched) : ~Integrated(mem.plans[q])}
<1> SUFFICES ASSUME Left # {} PROVE FALSE
  OBVIOUS
<1>1. \A q \in Left : q \in Plans /\ sched[q] \in Nat /\ Rank[q] \in Nat
  BY QueueAssumption DEF QueueAssumption, TypeOK, Registered
<1>2. PICK p \in Left : \A q \in Left : sched[p] <= sched[q]
  <2> DEFINE S == {sched[q] : q \in Left}
  <2>1. S \in SUBSET Nat /\ S # {}
    BY <1>1
  <2>2. PICK m \in S : \A k \in S : m <= k
    <3> HIDE DEF S
    <3> QED BY <2>1, LeastIs
  <2> QED BY <2>2
<1>3. PICK r \in {q \in Left : sched[q] = sched[p]} :
        \A q \in Left : sched[q] = sched[p] => Rank[r] <= Rank[q]
  <2> DEFINE S == {Rank[q] : q \in {q \in Left : sched[q] = sched[p]}}
  <2>1. S \in SUBSET Nat /\ S # {}
    BY <1>1, <1>2
  <2>2. PICK m \in S : \A k \in S : m <= k
    <3> HIDE DEF S
    <3> QED BY <2>1, LeastIs
  <2> QED BY <2>2
<1>4. \A q \in Registered(sched) : Before(sched, q, r) => Integrated(mem.plans[q])
  <2> SUFFICES ASSUME NEW q \in Left, Before(sched, q, r) PROVE FALSE
    OBVIOUS
  <2> QED BY <1>1, <1>2, <1>3 DEF Before
<1>5. r \in NextPlans(sched, mem)
  BY <1>3, <1>4 DEF NextPlans
<1> QED BY <1>5

\* Before anything has run there is nothing to remember, and nothing untrue.
LEMMA InitInv == Init => TInv
<1> SUFFICES ASSUME Init PROVE TInv
  OBVIOUS
<1>1. 0..Cardinality(Plans) \subseteq 0..MaxOrder /\ NoPlan \notin Plans
  BY QueueAssumption, FS_CardinalityType DEF QueueAssumption
<1>2. NewState \in State /\ NoUnits \in [Plans -> 0..MaxOrder]
  BY QueueAssumption DEF QueueAssumption, NewState, State, Queue, Entry, NoUnits
<1>3. Nothing \in [cmd : Commands \cup {"none"}, plan : Plans \cup {NoPlan},
                   step : {"done", "diagnose", "normalize", "config", "clean", "act"},
                   units : [Plans -> 0..MaxOrder], state : State]
  BY <1>2 DEF Nothing
<1>4. TypeOK
  <2>1. units \in [Plans -> 0..MaxOrder]
    BY <1>1 DEF Init
  <2>2. 0 \in 0..MaxOps /\ 0 \in 0..MaxTrouble
    BY QueueAssumption DEF QueueAssumption
  <2>3. /\ saved = NewState /\ mem = NewState /\ op = Nothing /\ sched = NoUnits /\ plan = NoPlan
        /\ capped = FALSE /\ signal = FALSE /\ pc = "idle" /\ used = 0 /\ trouble = 0
        /\ passed = {} /\ landed = {} /\ trees = {} /\ dropped = {}
    BY DEF Init
  <2> QED BY <1>2, <1>3, <2>1, <2>2, <2>3 DEF TypeOK
<1>5. Alone /\ Scheduled /\ InStep /\ Chosen /\ CopyIsFile
  BY DEF Init, Alone, Scheduled, InStep, Chosen, CopyIsFile
<1>6. \A p \in Plans : saved.plans[p] = "none"
  BY DEF Init, NewState
<1> QED BY <1>4, <1>5, <1>6 DEF Init, TInv, KInv, Remembered, Remembers, Forgotten, EntriesAreTrue,
   Truthful, Registered

\* The steps are the start's, with git's and the operator's between two starts, or a
\* command's.
LEMMA NextIs ==
  Next => (Begin \/ StartStep \/ Interrupt \/ Crash \/ Prune) \/ (Read \/ OpStep \/ OpDies)
  BY DEF Next

\* Nothing happens between two steps.
LEMMA IdleKeeps == UNCHANGED vars => (KInv => KInv') /\ (TInv => TInv')
<1> SUFFICES ASSUME UNCHANGED vars PROVE (KInv => KInv') /\ (TInv => TInv')
  OBVIOUS
<1>1. UNCHANGED <<units, saved, capped, passed, landed, trees, pc, mem, sched, plan, signal, op, used,
                  trouble, dropped>>
  BY DEF vars, files, start
<1>2. (TypeOK => TypeOK') /\ (Alone => Alone') /\ (Scheduled => Scheduled') /\ (InStep => InStep')
  BY <1>1 DEF TypeOK, Alone, Scheduled, InStep
<1>3. Chosen => Chosen'
  BY <1>1 DEF Chosen
<1>4. CopyIsFile => CopyIsFile'
  BY <1>1 DEF CopyIsFile
<1>5. (Remembered => Remembered') /\ (Forgotten => Forgotten') /\ (EntriesAreTrue => EntriesAreTrue')
  BY <1>1 DEF Remembered, Remembers, Forgotten, EntriesAreTrue, Truthful
<1> QED BY <1>2, <1>3, <1>4, <1>5 DEF KInv, TInv

\* Every step keeps what makes up KInv.
LEMMA KStep == OneAtATime /\ KInv /\ [Next]_vars => KInv'
<1> SUFFICES ASSUME OneAtATime, KInv, [Next]_vars PROVE KInv'
  OBVIOUS
<1>1. CASE Begin \/ StartStep \/ Interrupt \/ Crash \/ Prune
  BY <1>1, StartTypes, StartKeepsApart, StartKeepsInStep, StartKeepsChosen, StartKeepsRemembered DEF KInv
<1>2. CASE Read \/ OpStep \/ OpDies
  BY <1>2, OpTypes, OpKeepsApart, OpKeepsCopy, OpKeepsRemembered DEF KInv
<1>3. CASE UNCHANGED vars
  BY <1>3, IdleKeeps
<1> QED BY <1>1, <1>2, <1>3, NextIs

\* Every step of an orderly queue keeps the rest.
LEMMA TStep == Orderly /\ TInv /\ [Next]_vars => TInv'
<1> SUFFICES ASSUME Orderly, TInv, [Next]_vars PROVE TInv'
  OBVIOUS
<1>1. KInv'
  BY KStep DEF TInv, Orderly
<1>2. CASE Begin \/ StartStep \/ Interrupt \/ Crash \/ Prune
  BY <1>1, <1>2, StartKeepsForgotten, StartKeepsTrue DEF TInv, Orderly
<1>3. CASE Read \/ OpStep \/ OpDies
  BY <1>1, <1>3, OpKeepsForgotten, OpKeepsTrue DEF TInv
<1>4. CASE UNCHANGED vars
  BY <1>4, IdleKeeps
<1> QED BY <1>2, <1>3, <1>4, NextIs

\* With one process at a time, state.json, config.json and whatever a start or a command has
\* read of them stay of their type.
THEOREM TypeCorrect == ASSUME OneAtATime PROVE Spec => []TypeOK
<1>1. Init => KInv
  BY InitInv DEF TInv
<1>2. KInv /\ [Next]_vars => KInv'
  BY KStep
<1>3. KInv => TypeOK
  BY DEF KInv
<1> QED BY <1>1, <1>2, <1>3, PTL DEF Spec

\* Every state of an orderly queue has what TInv says.
LEMMA Ordered == ASSUME Orderly PROVE Spec => []TInv
<1>1. TInv /\ [Next]_vars => TInv'
  BY TStep
<1> QED BY <1>1, InitInv, PTL DEF Spec

\* The agents of a plan only start in SinglePlan.
LEMMA AgentsStartHere == pc # "agent" /\ pc' = "agent" /\ [Next]_vars => Execute
<1> SUFFICES ASSUME pc # "agent", pc' = "agent", [Next]_vars PROVE Execute
  OBVIOUS
<1>1. pc' # pc
  OBVIOUS
<1>2. ~(UNCHANGED vars \/ Read \/ OpStep \/ OpDies \/ Prune \/ Interrupt)
  BY <1>1 DEF vars, start, Read, OpStep, Normalize, WriteConfig, Clean, Act, OpDies, Prune, Interrupt
<1>3. ~(Begin \/ Crash)
  BY <1>1 DEF Begin, Crash
<1>4. StartStep
  BY <1>2, <1>3 DEF Next
<1> QED BY <1>1, <1>4 DEF StartStep, Load, SetUpFails, Open, Stop, Complete, Take, Remerge, Refuse,
   Executed, Fail, Pause, WriteCap, Publish, Decline, Record, Cleanup, Halt

\* LandedRunsOnce, for any plans and any number of commands and failures: a plan whose
\* work has landed is not executed again (runOnePlan and the recoveries), as its entry
\* has not been forgotten.
THEOREM LandedRunsOnceHolds == ASSUME OneAtATime PROVE Spec => LandedRunsOnce
<1>1. Init => KInv
  BY InitInv DEF TInv
<1>2. KInv /\ [Next]_vars => KInv'
  BY KStep
<1>3. KInv /\ [Next]_vars => [pc # "agent" /\ pc' = "agent" => plan \notin landed \/ plan \in dropped]_vars
  <2> SUFFICES ASSUME KInv, [Next]_vars, pc # "agent", pc' = "agent", plan \in landed, plan \notin dropped
               PROVE  FALSE
    OBVIOUS
  <2>1. pc = "plan" /\ mem.plans[plan] \notin Unmerged
    BY AgentsStartHere DEF Execute, MergeOnly
  <2>2. plan \in Registered(units) /\ mem.plans[plan] # "integrated" /\ Remembers(mem)
    BY <2>1 DEF KInv, Chosen, Remembered, Integrated
  <2> QED BY <2>1, <2>2 DEF Remembers
<1> QED BY <1>1, <1>2, <1>3, PTL DEF Spec, LandedRunsOnce

\* QueueOrder, for any plans and orders: an agent starts on a plan only when the work of
\* every plan before it is in its target branch (NextPlans, the merge's records, and
\* recover).
THEOREM QueueOrderHolds == ASSUME Orderly PROVE Spec => QueueOrder
<1>1. TInv /\ [Next]_vars => [pc # "agent" /\ pc' = "agent" =>
        \A q \in Registered(sched) : Before(sched, q, plan) => q \in landed]_vars
  <2> SUFFICES ASSUME TInv, [Next]_vars, pc # "agent", pc' = "agent",
                      NEW q \in Registered(sched), Before(sched, q, plan)
               PROVE  q \in landed
    OBVIOUS
  <2>1. pc = "plan"
    BY AgentsStartHere DEF Execute
  <2>2. sched = units /\ Truthful(mem)
    BY <2>1 DEF TInv, KInv, Scheduled, EntriesAreTrue
  <2>3. mem.plans[q] = "integrated"
    BY <2>1, <2>2 DEF TInv, KInv, Chosen, Integrated
  <2> QED BY <2>2, <2>3 DEF Truthful
<1>2. Spec => []TInv
  BY Ordered
<1> QED BY <1>1, <1>2, PTL DEF Spec, QueueOrder

\* CompletedMeansLanded, for any plans: the queue's record says completed only when the
\* work of every registered plan is in its target branch.
THEOREM CompletedMeansLandedHolds == ASSUME Orderly PROVE Spec => CompletedMeansLanded
<1>1. TInv /\ [Next]_vars => [saved'.queue.status = "completed" /\ saved' # saved /\ pc = "loop" =>
        Registered(sched) \subseteq landed]_vars
  <2> SUFFICES ASSUME TInv, [Next]_vars, saved'.queue.status = "completed", saved' # saved, pc = "loop",
                      NEW q \in Registered(sched)
               PROVE  q \in landed
    OBVIOUS
  <2>t. TypeOK /\ sched = units /\ Truthful(mem) /\ op = Nothing
    BY DEF TInv, KInv, Alone, Scheduled, EntriesAreTrue
  <2>q. mem \in State /\ mem.queue.active \in Plans \cup {NoPlan}
    BY <2>t DEF TypeOK, State, Queue
  <2>1. ~(UNCHANGED vars \/ Read \/ OpStep \/ OpDies \/ Prune \/ Begin \/ Interrupt \/ Crash)
    BY <2>t DEF vars, files, Read, OpStep, Normalize, WriteConfig, Clean, Act, OpDies, Prune, Begin,
       Interrupt, Crash, Nothing
  <2>2. Stop \/ Complete \/ Take
    BY <2>1 DEF Next, StartStep, Load, SetUpFails, Open, Remerge, Execute, Refuse, Executed, Fail, Pause,
       WriteCap, Publish, Decline, Record, Cleanup, Halt
  <2>3. ~Stop
    BY <2>t, <2>q, SaveIs, QueueIsIs DEF Stop
  <2>4. ~Take
    <3> SUFFICES ASSUME Take PROVE FALSE
      OBVIOUS
    <3>1. PICK p \in NextPlans(sched, mem), ok \in BOOLEAN : Save(QueueIs("running", p), ok)
      BY DEF Take
    <3>2. p \in Plans
      BY DEF NextPlans, Registered
    <3> QED BY <2>t, <2>q, <3>1, <3>2, SaveIs, QueueIsIs
  <2>5. NextPlans(sched, mem) = {}
    BY <2>2, <2>3, <2>4 DEF Complete
  <2>6. mem.plans[q] = "integrated"
    BY <2>t, <2>5, NoneLeft DEF Integrated
  <2> QED BY <2>t, <2>6 DEF Truthful
<1>2. Spec => []TInv
  BY Ordered
<1> QED BY <1>1, <1>2, PTL DEF Spec, CompletedMeansLanded

----------------------------------------------------------------------------
(* The queue implements PlanOrder.                                          *)

\* The places of a start at which it has a plan.
Going(c) == c \notin {"idle", "load", "queue", "loop"}

\* The plan at work has no integrated entry on file, and what memory says of the others is
\* on file, also after a write has failed.
AtWork ==
  Going(pc) => /\ plan \in Registered(units) /\ ~Integrated(saved.plans[plan])
               /\ \A q \in Plans \ {plan} : mem.plans[q] = saved.plans[q]

DInv == TInv /\ AtWork

Done == {p \in landed : Integrated(saved.plans[p])}

\* A plan is taken in one place, and kept until it is done with.
LEMMA OnlyTakes ==
  ASSUME StartStep \/ Interrupt \/ Crash, ~Take
  PROVE  pc # "idle" /\ plan' = plan /\ (Going(pc') => Going(pc))
  BY DEF Going, StartStep, Load, SetUpFails, Open, Stop, Complete, Remerge, Execute, Refuse, Executed,
     Fail, Pause, WriteCap, Publish, Decline, Record, Cleanup, Halt, Interrupt, Crash, files

\* Until it has ended, a plan at work gets no integrated entry on file, and no other plan
\* another one.
LEMMA WorkWrites ==
  ASSUME KInv, AtWork, StartStep \/ Interrupt \/ Crash, Going(pc), Going(pc')
  PROVE  /\ saved' \in {saved, mem'}
         /\ saved' # saved => ~Integrated(mem'.plans[plan])
         /\ \A q \in Plans \ {plan} : mem'.plans[q] = mem.plans[q]
<1>t. TypeOK /\ plan \in Plans /\ mem.plans \in [Plans -> Entry]
  BY DEF KInv, AtWork, Registered, TypeOK, State
<1> USE DEF TypeOK
<1>m. ASSUME NEW e \in Entry
      PROVE  /\ Mark(e) \in State /\ Mark(e).plans[plan] = e
             /\ \A q \in Plans \ {plan} : Mark(e).plans[q] = mem.plans[q]
  <2>1. Mark(e) \in State /\ Mark(e).plans = [mem.plans EXCEPT ![plan] = e]
    BY <1>t, MarkIs
  <2> QED BY <1>t, <2>1
<1>1. CASE Remerge \/ WriteCap \/ Publish \/ Interrupt
  BY <1>1 DEF Remerge, WriteCap, Publish, Interrupt, files
<1>2. CASE Execute
  <2>1. Running \in State /\ Running.plans = [mem.plans EXCEPT ![plan] = "running"]
    BY <1>t, RunningIs
  <2> QED BY <1>2, <1>t, <2>1, SaveIs DEF Execute, Integrated
<1>3. CASE Refuse \/ Fail \/ Pause \/ Decline
  <2>1. CASE UNCHANGED <<mem, saved>>
    BY <2>1
  <2>2. CASE \E e \in {"failed", "needs-human", "interrupted", "refused"} :
               mem' = Mark(e) /\ saved' \in {saved, mem'}
    <3>1. {"failed", "needs-human", "interrupted", "refused"} \subseteq Entry
      BY DEF Entry, Halted, Unmerged
    <3> QED BY <1>m, <2>2, <3>1 DEF Integrated
  <2> QED BY <1>3, <2>1, <2>2 DEF Refuse, Fail, Pause, Decline
<1>4. CASE Executed \/ Record
  <2>1. PICK e \in {"merging", "published"}, ok \in BOOLEAN : Save(Mark(e), ok)
    BY <1>4 DEF Executed, Record
  <2>2. e \in Entry
    BY DEF Entry, Halted, Unmerged
  <2> QED BY <1>t, <1>m, <2>1, <2>2, SaveIs DEF Integrated
<1>5. CASE Cleanup
  <2>1. (mem' = mem \/ mem' = Mark("integrated")) /\ saved' = saved
    BY <1>5 DEF Cleanup, Save, Going
  <2>2. "integrated" \in Entry
    BY DEF Entry
  <2> QED BY <1>t, <1>m, <2>1, <2>2
<1>6. ~(Load \/ SetUpFails \/ Open \/ Stop \/ Complete \/ Take \/ Halt \/ Crash)
  BY DEF Going, Load, SetUpFails, Open, Stop, Complete, Take, Halt, Crash
<1> QED BY <1>1, <1>2, <1>3, <1>4, <1>5, <1>6 DEF StartStep

\* What a start takes is the first of its schedule that is not done.
LEMMA TakeChooses ==
  ASSUME KInv, Take
  PROVE  /\ plan' \in Registered(units) /\ pc = "loop" /\ pc' = "plan" /\ units' = units /\ landed' = landed
         /\ mem'.plans = mem.plans /\ saved'.plans = saved.plans /\ mem.plans = saved.plans
         /\ ~Integrated(saved.plans[plan'])
         /\ \A q \in Registered(units) : Before(units, q, plan') => Integrated(saved.plans[q])
<1>1. PICK p \in NextPlans(sched, mem), ok \in BOOLEAN : Save(QueueIs("running", p), ok) /\ plan' = p
  BY DEF Take
<1>2. TypeOK /\ mem \in State /\ p \in Plans /\ pc = "loop" /\ sched = units
  BY DEF Take, KInv, TypeOK, Scheduled, NextPlans, Registered
<1>3. mem.plans = saved.plans
  BY <1>2 DEF KInv, InStep
<1>4. mem'.plans = mem.plans /\ saved'.plans = saved.plans
  BY <1>1, <1>2, <1>3, QueueIsIs, SaveIs
<1> QED BY <1>1, <1>2, <1>3, <1>4 DEF Take, NextPlans

\* A step keeps what is known of the plan at work.
LEMMA AtWorkStep == ASSUME Orderly, DInv, [Next]_vars PROVE AtWork'
<1> USE DEF DInv, TInv
<1>1. CASE Take
  BY <1>1, TakeChooses DEF AtWork
<1>2. CASE (StartStep \/ Interrupt \/ Crash) /\ ~Take
  <2> SUFFICES ASSUME Going(pc') PROVE AtWork'
    BY DEF AtWork
  <2>1. Going(pc) /\ plan' = plan /\ units' = units
    BY <1>2, OnlyTakes, StartFrame
  <2> QED BY <1>2, <2>1, WorkWrites DEF AtWork
<1>3. CASE Begin \/ Prune \/ Read \/ OpStep \/ OpDies
  <2>1. pc' \in {"idle", "load"}
    BY <1>3, OpAlone DEF Begin, Prune, start, Orderly
  <2> QED BY <2>1 DEF AtWork, Going
<1>4. CASE UNCHANGED vars
  BY <1>4 DEF AtWork, vars, files, start
<1> QED BY <1>1, <1>2, <1>3, <1>4 DEF Next

\* A start undoes nothing, and gets done the plan at work.
LEMMA StartDone ==
  ASSUME DInv, TInv', Begin \/ StartStep \/ Interrupt \/ Crash \/ Prune
  PROVE  Done' = Done \/ (Going(pc) /\ Done' = Done \cup {plan})
<1>t. KInv /\ AtWork /\ TypeOK /\ TypeOK' /\ units' = units
  BY StartFrame DEF DInv, TInv, KInv
<1>1. ASSUME NEW q \in Plans, Integrated(saved.plans[q])
      PROVE  Integrated(saved'.plans[q])
  <2>1. Going(pc) => q # plan
    BY <1>t, <1>1 DEF AtWork
  <2>2. q = plan => NewEntries = {}
    BY <2>1 DEF NewEntries, Going
  <2>3. pc \notin {"idle", "load"} => mem.plans[q] = saved.plans[q]
    BY <1>t, <2>1 DEF AtWork, KInv, InStep, Going
  <2> QED BY <1>t, <1>1, <2>2, <2>3, StartWrites DEF MayWrite, Integrated
<1>2. ASSUME NEW q \in Plans, ~Integrated(saved.plans[q]), Integrated(saved'.plans[q])
      PROVE  Going(pc) /\ q = plan
  <2>1. CASE pc \notin {"idle", "load"} /\ Integrated(mem.plans[q])
    BY <1>t, <1>2, <2>1 DEF AtWork, KInv, InStep, Going
  <2>2. CASE q = plan /\ "integrated" \in NewEntries
    BY <2>2 DEF NewEntries, Going, Halted
  <2> QED BY <1>t, <1>2, <2>1, <2>2, StartWrites DEF MayWrite, Integrated
<1>3. landed' = landed \/ (pc = "merge" /\ landed' = landed \cup {plan})
  BY DEF Begin, StartStep, Load, SetUpFails, Open, Stop, Complete, Take, Remerge, Execute,
     Refuse, Executed, Fail, Pause, WriteCap, Publish, Decline, Record, Cleanup, Halt, Interrupt,
     Crash, Prune, files, start
<1>4. landed \subseteq Plans /\ landed' \subseteq Plans
  BY <1>t DEF TypeOK
<1>5. Done \subseteq Done'
  BY <1>1, <1>3, <1>4 DEF Done
<1>6. ASSUME NEW q \in Done' \ Done PROVE Going(pc) /\ q = plan
  <2>1. q \in landed' /\ q \in Plans /\ Integrated(saved'.plans[q])
    BY <1>4 DEF Done
  <2>2. CASE Integrated(saved.plans[q])
    <3>1. q \notin landed
      BY <2>2 DEF Done
    <3> QED BY <1>3, <2>1, <3>1 DEF Going
  <2> QED BY <1>2, <2>1, <2>2
<1> QED BY <1>5, <1>6

\* No command gets a plan done.
LEMMA OpDone == ASSUME Orderly, DInv, Read \/ OpStep \/ OpDies PROVE Done' \subseteq Done
<1> SUFFICES ASSUME NEW p \in landed', Integrated(saved'.plans[p])
             PROVE  p \in landed /\ Integrated(saved.plans[p])
  BY DEF Done
<1>t. /\ TypeOK /\ CopyIsFile /\ (Read \/ (op # Nothing /\ op.plan \in Plans))
  BY OpAlone DEF DInv, TInv, KInv, Orderly
<1>l. p \in landed /\ p \in Plans
  BY <1>t DEF TypeOK, Read, OpStep, OpDies, Normalize, WriteConfig, Clean, Act, files
<1>1. CASE Read \/ OpDies \/ Clean \/ WriteConfig
  BY <1>1, <1>l DEF Read, OpDies, Clean, WriteConfig, files
<1>2. CASE Normalize
  <2>1. op.state \in State /\ op.state.plans = saved.plans
    BY <1>2, <1>t DEF TypeOK, CopyIsFile, Normalize, Read, Nothing
  <2>2. saved' = saved \/ saved' = Normalized(op.state)
    BY <1>2 DEF Normalize
  <2>3. Normalized(op.state).plans = [q \in Plans |-> IF op.state.plans[q] = "running"
                                                      THEN "interrupted" ELSE op.state.plans[q]]
    BY <2>1, NormalizedIs, Zenon
  <2> QED BY <1>l, <2>1, <2>2, <2>3 DEF Integrated
<1>3. CASE Act
  <2>1. /\ op.step = "act" /\ op # Nothing /\ op.plan \in Plans /\ op.state \in State
        /\ op.state.plans = saved.plans
    BY <1>3, <1>t DEF Act, Nothing, Read, TypeOK, CopyIsFile
  <2>2. PICK e \in Entry :
           /\ After(op.cmd, op.plan, op.state).plans = [op.state.plans EXCEPT ![op.plan] = e]
           /\ Leaves(op.cmd, e)
    BY <2>1, OpAfterIs
  <2>3. op.state.plans \in [Plans -> Entry] /\ e # "integrated"
    BY <1>t, <2>1, <2>2 DEF State, CopyIsFile, Orderly, Leaves
  <2>4. saved' \in {saved, After(op.cmd, op.plan, op.state)}
    BY <1>3 DEF Act
  <2> QED BY <1>l, <2>1, <2>2, <2>3, <2>4 DEF Integrated
<1> QED BY <1>1, <1>2, <1>3 DEF OpStep

\* Every step is one of PlanOrder, or changes nothing it speaks of.
LEMMA OrderStep == ASSUME Orderly, DInv, TInv', [Next]_vars PROVE [Order!Next]_(Order!vars)
<1> DEFINE needs == [p \in Plans |-> {q \in Registered(units) : Before(units, q, p)}]
           running == IF pc \in {"idle", "load", "queue", "loop"} THEN {} ELSE {plan}
<1> SUFFICES Order!Next \/ UNCHANGED Order!vars
  OBVIOUS
<1> USE DEF Order!Next, Done
<1>t. KInv /\ KInv' /\ TypeOK /\ AtWork
  BY DEF DInv, TInv, KInv
<1>p. Going(pc) => plan \in Plans
  BY <1>t DEF AtWork, Registered
<1>1. CASE Take
  <2>1. plan' \in Plans /\ saved'.plans = saved.plans /\ pc = "loop" /\ pc' = "plan"
        /\ UNCHANGED <<units, landed>> /\ ~Integrated(saved.plans[plan'])
    BY <1>1, <1>t, TakeChooses DEF Registered
  <2>2. {q \in Registered(units) : Before(units, q, plan')} \subseteq Done
    BY <1>1, <1>t, TakeChooses DEF DInv, TInv, EntriesAreTrue, Truthful, Integrated
  <2>3. UNCHANGED needs /\ UNCHANGED Done
    BY <2>1
  <2> QED BY <2>1, <2>2, <2>3 DEF Order!Run
<1>2. CASE (StartStep \/ Interrupt \/ Crash) /\ ~Take
  <2>1. pc # "idle" /\ plan' = plan /\ (Going(pc') => Going(pc)) /\ units' = units
    BY <1>2, OnlyTakes, StartFrame
  <2>2. UNCHANGED needs
    BY <2>1
  <2>3. running' \subseteq running /\ (Going(pc) => running = {plan}) /\ (pc' # "idle" \/ running' = {})
    BY <2>1 DEF Going
  <2>4. CASE Done' = Done
    BY <2>1, <2>2, <2>3, <2>4 DEF Order!Stop, Order!Over
  <2>5. CASE Going(pc) /\ Done' = Done \cup {plan}
    <3>1. running' \in {running, running \ {plan}}
      BY <2>3, <2>5
    <3> QED BY <1>p, <2>2, <2>3, <2>5, <3>1 DEF Order!Finish, Order!Over
  <2> QED BY <1>2, <2>4, <2>5, StartDone
<1>3. CASE Begin \/ Prune
  <2>1. pc = "idle" /\ pc' \in {"idle", "load"} /\ units' = units
    BY <1>3, StartFrame DEF Begin, Prune, start
  <2>2. UNCHANGED needs /\ running = {} /\ running' = {} /\ Done' = Done
    BY <1>3, <2>1, StartDone DEF Going
  <2> QED BY <2>1, <2>2 DEF Order!Begin, Order!vars
<1>4. CASE Read \/ OpStep \/ OpDies
  <2>1. pc = "idle" /\ pc' = "idle"
    BY <1>4, <1>t, OpAlone DEF start, Orderly
  <2>2. needs' \in [Plans -> SUBSET Plans]
    BY DEF Registered
  <2> QED BY <1>4, <2>1, <2>2, OpDone DEF Order!Operate
<1>5. CASE UNCHANGED vars
  <2>1. UNCHANGED <<pc, units, plan, landed, saved>>
    BY <1>5 DEF vars, files, start
  <2> QED BY <2>1 DEF Order!vars
<1> QED BY <1>1, <1>2, <1>3, <1>4, <1>5 DEF Next

\* The single-plan queue implements the order of plans (module PlanOrder), for any plans
\* and orders, whatever fails and whatever the operator does between two starts.
THEOREM QueueKeepsOrder == ASSUME Orderly PROVE Spec => KeepsOrder
<1>1. Init => Order!Init /\ DInv
  <2> SUFFICES ASSUME Init PROVE Order!Init /\ DInv
    OBVIOUS
  <2>1. [p \in Plans |-> {q \in Registered(units) : Before(units, q, p)}] \in [Plans -> SUBSET Plans]
    BY DEF Registered
  <2> QED BY <2>1, InitInv DEF Init, Order!Init, DInv, AtWork, Going
<1>2. DInv /\ [Next]_vars => DInv'
  BY TStep, AtWorkStep DEF DInv
<1>3. DInv /\ DInv' /\ [Next]_vars => [Order!Next]_(Order!vars)
  BY OrderStep DEF DInv
<1> QED BY <1>1, <1>2, <1>3, PTL DEF Spec, KeepsOrder, Order!Spec
=============================================================================

-------------------------- MODULE BatchExecProofs --------------------------
(***************************************************************************)
(* What holds of a batch for any plans and phases, any --max-parallel, any *)
(* cap and costs, and any number of failures, tampering agents, crashes,   *)
(* signals and removed plan units.                                         *)
(*                                                                         *)
(* The invariant is what runPhase's counters and flags know of the         *)
(* goroutines: which plans are in flight and what they may have settled    *)
(* as, which plans of the phase are still to come, and what the flags say  *)
(* of those that are gone.  It is also what the refinement of PlanOrder    *)
(* rests on.                                                               *)
(***************************************************************************)
EXTENDS BatchExec, FiniteSetTheorems, TLAPS

Integrated == {p \in Plan : plan[p] = "integrated"}

\* The channel holds each settled plan once, and no other.
Queued ==
  /\ \A i \in 1..Len(settles) : job[settles[i]] = "sent"
  /\ \A i, j \in 1..Len(settles) : settles[i] = settles[j] => i = j

\* inFlight counts the goroutines, within the slots of the phase; outside a
\* phase there is none.
Counted ==
  /\ IsFiniteSet(Running) /\ Cardinality(Running) = loop.inFlight
  /\ pc = "loop" => loop.phase \in PhaseIndex /\ loop.inFlight <= MaxInFlight
  /\ pc # "loop" => loop.inFlight = 0

\* A plan in flight is one of the phase, is pending no more, and is integrated
\* only by its own last step.
Placed ==
  \A p \in Running :
    /\ p \in InPhase(loop.phase) \ loop.pending
    /\ job[p] # "sent" => p \notin Integrated

\* The pending plans are plans of the phase that are not integrated.
Waiting == pc = "loop" => loop.pending \subseteq InPhase(loop.phase) \ Integrated

\* What a settled outcome vouches for, and what the flags of the phase do.
Told ==
  \A p \in Plan : job[p] = "sent" =>
    /\ out[p] = "ok" => p \in Integrated
    /\ out[p] = "no-eligible" => units # Plan
    /\ out[p] = "canceled" => ctxDone

Flags ==
  /\ loop.stop => Flagged
  /\ loop.noEligible => units # Plan
  /\ IsCanceled => ctxDone

\* How far the batch is: the phases behind it are integrated, and a plan of
\* the phase it is in is integrated, to come, in flight, or has raised a flag.
Advanced ==
  /\ pc = "down" => loop = Idle
  /\ pc = "phase" => \A i \in 1..loop.phase : InPhase(i) \subseteq Integrated
  /\ pc = "loop" =>
       /\ \A i \in 1..(loop.phase - 1) : InPhase(i) \subseteq Integrated
       /\ InPhase(loop.phase) \subseteq Integrated \cup loop.pending \cup Running \/ Flagged
  /\ pc = "report" => Flagged \/ loop.cancelled \/ Plan \subseteq Integrated

\* An archived batch is at rest.
Archived ==
  archive = "completed" =>
    /\ ~run.here /\ pc = "down"
    /\ units = Plan => Plan \subseteq Integrated

\* A failure is among the errors of the phase, or on its way there.
FailureKept ==
  failed => /\ pc \in {"loop", "report"}
            /\ "failed" \in loop.errs \/ \E p \in Plan : job[p] = "sent" /\ out[p] = "failed"

Control == Queued /\ Counted /\ Placed /\ Waiting /\ Told /\ Flags /\ Advanced /\ Archived
             /\ FailureKept /\ CursorTruthful

\* The guard of a running agent watches what tamperGuard says, and holds no
\* tree that a passed story has made obsolete since.
Guarded ==
  \A p \in Plan : job[p] = "agent" =>
    /\ DOMAIN guard[p] = tamperGuard(p) /\ guard[p][p] > 0
    /\ \A q \in DOMAIN guard[p] : guard[p][q] <= earned[q]

IInv == TypeOK /\ Control /\ Guarded /\ ProgressStays

----------------------------------------------------------------------------
(* Facts about the invariant.                                              *)

\* A phase is a sequence of plans.
LEMMA PhaseType ==
  ASSUME NEW i \in PhaseIndex
  PROVE  Phases[i].plans \in Seq(Plan) /\ Len(Phases[i].plans) \in Nat
<1> DEFINE P == [parallel : BOOLEAN, plans : Seq(Plan)]
<1>1. Phases \in Seq(P) /\ i \in 1..Len(Phases)
  BY BatchAssumption DEF PhaseIndex
<1> HIDE DEF P
<1>2. Phases[i] \in P
  BY <1>1
<1>3. Phases[i].plans \in Seq(Plan)
  BY <1>2 DEF P
<1> QED BY <1>3

\* The plans of a phase are plans.
LEMMA PhasePlans == \A i \in PhaseIndex : InPhase(i) \subseteq Plan
  BY BatchAssumption DEF InPhase

\* A phase has at least one slot.
LEMMA Slots == MaxInFlight \in Nat /\ MaxInFlight >= 1
  BY BatchAssumption DEF MaxInFlight, ParallelActive

\* With nothing in flight no goroutine runs, and the other way round.
LEMMA NoneRunning == Control => (loop.inFlight = 0 <=> Running = {})
  BY FS_EmptySet DEF Control, Counted

\* Where guards watch the whole plans directory, one agent runs at a time.
LEMMA OneAtATime ==
  ASSUME TypeOK, Control, ~Concurrent, NEW p \in Running, NEW q \in Running
  PROVE  p = q
<1>1. pc = "loop" /\ loop.phase \in PhaseIndex
  BY NoneRunning DEF Control, Counted
<1>2. CASE ~ParallelActive
  <2>1. Cardinality(Running) <= 1 /\ Cardinality(Running) \in Nat /\ Cardinality(Running) # 0
    BY <1>1, <1>2, FS_EmptySet DEF Control, Counted, MaxInFlight, TypeOK
  <2>2. \E x : Running = {x}
    BY <2>1, FS_Singleton DEF Control, Counted
  <2> QED BY <2>2
<1>3. CASE Len(Phases[loop.phase].plans) <= 1
  <2>1. p \in InPhase(loop.phase) /\ q \in InPhase(loop.phase)
    BY DEF Control, Placed
  <2>3. Len(Phases[loop.phase].plans) \in Nat
    BY <1>1, PhaseType
  <2> QED BY <1>3, <2>1, <2>3 DEF InPhase
<1>4. Len(Phases[loop.phase].plans) \in Nat
  BY <1>1, PhaseType
<1> QED BY <1>2, <1>3, <1>4 DEF Concurrent

----------------------------------------------------------------------------
(* The goroutines.                                                         *)

\* The records of what iterations cost.
Bills ==
  /\ DOMAIN bill = Plan
  /\ \A p \in Plan : \A n \in DOMAIN bill[p] : n \in Nat /\ bill[p][n] \in Nat

\* The records, their sum, and what is counted of the iterations.
Books == Bills /\ spend \in Int /\ iter \in [Plan -> Nat] /\ unchecked \in Nat

\* What a goroutine's step does, but for the trees and their guards.
Moves(p) ==
  /\ job[p] \notin {"off", "sent"}
  /\ \/ \E status \in Status \ {"integrated"}, step \in JobStep \ {"off", "sent"} :
          Step(p, status, step)
     \/ \E status \in Status, o \in Outcome :
          /\ Settle(p, status, o)
          /\ o = "ok" => status = "integrated"
          /\ o = "no-eligible" => p \notin units
          /\ o = "canceled" => ctxDone
  /\ Books'
  /\ budget' \in [fail : 0..MaxFailures, crash : 0..MaxCrashes, int : 0..MaxInterrupts]
  /\ UNCHANGED <<units, run, archive, pc, cap, ctxDone, loop, outcome, before>>

\* Spending of the budget keeps it in its bounds.
LEMMA BudgetType ==
  TypeOK /\ (NoFault \/ Spends("fail") \/ Spends("crash") \/ Spends("int")) =>
    budget' \in [fail : 0..MaxFailures, crash : 0..MaxCrashes, int : 0..MaxInterrupts]
<1> SUFFICES ASSUME TypeOK, NoFault \/ Spends("fail") \/ Spends("crash") \/ Spends("int")
             PROVE  budget' \in [fail : 0..MaxFailures, crash : 0..MaxCrashes, int : 0..MaxInterrupts]
  OBVIOUS
<1>1. MaxFailures \in Nat /\ MaxCrashes \in Nat /\ MaxInterrupts \in Nat
  BY BatchAssumption
<1>2. budget \in [fail : 0..MaxFailures, crash : 0..MaxCrashes, int : 0..MaxInterrupts]
  BY DEF TypeOK
<1>3. CASE NoFault BY <1>2, <1>3 DEF NoFault
<1>4. CASE Spends("fail") BY <1>1, <1>2, <1>4 DEF Spends
<1>5. CASE Spends("crash") BY <1>1, <1>2, <1>5 DEF Spends
<1>6. CASE Spends("int") BY <1>1, <1>2, <1>6 DEF Spends
<1> QED BY <1>3, <1>4, <1>5, <1>6

\* A record that is written is a record.
LEMMA WriteBills ==
  ASSUME Bills, spend \in Int, NEW p \in Plan, NEW n \in Nat, NEW cost \in Nat, WriteCost(p, n, cost)
  PROVE  Bills' /\ spend' \in Int /\ spend' <= spend + cost
<1>1. \A q \in Plan \ {p} : bill'[q] = bill[q]
  BY DEF WriteCost, Bills
<1>2. bill'[p] = [k \in DOMAIN bill[p] \cup {n} |-> IF k = n THEN cost ELSE bill[p][k]]
  BY DEF WriteCost, Bills
<1>3. DOMAIN bill' = Plan
  BY DEF WriteCost, Bills
<1>4. \A k \in DOMAIN bill'[p] : k \in Nat /\ bill'[p][k] \in Nat
  BY <1>2 DEF Bills
<1>5. (IF n \in DOMAIN bill[p] THEN bill[p][n] ELSE 0) \in Nat
  BY DEF Bills
<1>6. spend' \in Int /\ spend' <= spend + cost
  BY <1>5 DEF WriteCost
<1> QED BY <1>1, <1>3, <1>4, <1>6 DEF Bills

\* An iteration fails at so many steps.
LEMMA FaultCount == \A f \in Fates : Cardinality(Faults(f)) \in Nat
<1> SUFFICES ASSUME NEW f \in Fates PROVE Cardinality(Faults(f)) \in Nat
  OBVIOUS
<1> DEFINE steps == {"agent", "write", "mark", "read"}
<1>1. steps = {"agent", "write", "mark"} \cup {"read"}
  OBVIOUS
<1>2. IsFiniteSet({"agent"}) /\ IsFiniteSet({"agent", "write"}) /\ IsFiniteSet({"agent", "write", "mark"})
  <2>1. IsFiniteSet({"agent"})
    BY FS_Singleton
  <2>2. {"agent", "write"} = {"agent"} \cup {"write"} /\ {"agent", "write", "mark"} = {"agent", "write"} \cup {"mark"}
    OBVIOUS
  <2> QED BY <2>1, <2>2, FS_AddElement
<1>3. IsFiniteSet(steps)
  BY <1>1, <1>2, FS_AddElement
<1>4. Faults(f) \subseteq steps
  BY DEF Faults
<1> QED BY <1>3, <1>4, FS_Subset, FS_CardinalityType

\* What an iteration does to the records, to the budget, and with its goroutine.
LEMMA IterateDoes ==
  ASSUME TypeOK, Bills, NEW p \in Plan, Iterate(p)
  PROVE  \E f \in Fates :
           /\ budget' \in [fail : 0..MaxFailures, crash : 0..MaxCrashes, int : 0..MaxInterrupts]
           /\ Bills' /\ spend' \in Int /\ spend' <= spend + f.cost
           /\ unchecked' = IF Broken(f) \/ ~f.read THEN unchecked + 1 ELSE unchecked
           /\ \/ UNCHANGED <<left, earned>>
              \/ left' = [left EXCEPT ![p] = @ - 1] /\ earned' = [earned EXCEPT ![p] = @ - 1]
           /\ \/ ~Broken(f) /\ Capped(f) /\ Settle(p, "interrupted", "cost-capped")
              \/ Broken(f) /\ Settle(p, "failed", "failed")
              \/ /\ ~Broken(f) /\ ~Capped(f)
                 /\ \/ Settle(p, "failed", "failed")
                    \/ Step(p, "running", "gates") \/ Step(p, "running", "iterate")
<1>1. PICK f \in Fates :
        /\ budget.fail >= Cardinality(Faults(f))
        /\ budget' = [budget EXCEPT !.fail = @ - Cardinality(Faults(f))]
        /\ IF f.written THEN WriteCost(p, iter[p] + 1, f.cost) ELSE UNCHANGED <<bill, spend>>
        /\ IF f.passed /\ f.saved THEN MarkPassed(p) ELSE UNCHANGED <<left, earned>>
        /\ unchecked' = IF Broken(f) \/ ~f.read THEN unchecked + 1 ELSE unchecked
        /\ \/ Broken(f) /\ Settle(p, "failed", "failed")
           \/ ~Broken(f) /\ Capped(f) /\ Settle(p, "interrupted", "cost-capped")
           \/ ~Broken(f) /\ ~Capped(f) /\ f.crashed /\ Settle(p, "failed", "failed")
           \/ /\ ~Broken(f) /\ ~Capped(f) /\ (f.crashed => left'[p] = 0)
              /\ Step(p, "running", IF left'[p] = 0 THEN "gates" ELSE "iterate")
  BY DEF Iterate
<1>2. budget' \in [fail : 0..MaxFailures, crash : 0..MaxCrashes, int : 0..MaxInterrupts]
  <2>1. budget \in [fail : 0..MaxFailures, crash : 0..MaxCrashes, int : 0..MaxInterrupts]
    BY DEF TypeOK
  <2>2. Cardinality(Faults(f)) \in Nat /\ MaxFailures \in Nat
    BY FaultCount, BatchAssumption
  <2> QED BY <1>1, <2>1, <2>2
<1>3. Bills' /\ spend' \in Int /\ spend' <= spend + f.cost
  <2>1. iter[p] + 1 \in Nat /\ f.cost \in Nat /\ spend \in Int
    <3>1. iter \in [Plan -> Nat] /\ spend \in Int
      BY DEF TypeOK
    <3>2. f.cost \in Costs /\ Costs \subseteq Nat
      BY BatchAssumption DEF Fates
    <3>3. iter[p] \in Nat /\ f.cost \in Nat
      BY <3>1, <3>2
    <3> QED BY <3>1, <3>3
  <2>2. CASE f.written
    BY <1>1, <2>1, <2>2, WriteBills
  <2>3. CASE ~f.written
    BY <1>1, <2>1, <2>3 DEF Bills
  <2> QED BY <2>2, <2>3
<1>4. \/ UNCHANGED <<left, earned>>
      \/ left' = [left EXCEPT ![p] = @ - 1] /\ earned' = [earned EXCEPT ![p] = @ - 1]
  BY <1>1 DEF MarkPassed
<1>5. \/ ~Broken(f) /\ Capped(f) /\ Settle(p, "interrupted", "cost-capped")
      \/ Broken(f) /\ Settle(p, "failed", "failed")
      \/ /\ ~Broken(f) /\ ~Capped(f)
         /\ \/ Settle(p, "failed", "failed")
            \/ Step(p, "running", "gates") \/ Step(p, "running", "iterate")
  BY <1>1
<1> QED BY <1>1, <1>2, <1>3, <1>4, <1>5

\* Every step of a goroutine is a move.
LEMMA GoroutineMoves ==
  ASSUME IInv, NEW p \in Plan, Goroutine(p)
  PROVE  Moves(p)
<1> USE DEF Moves, Status, JobStep, Outcome
<1>0. job[p] # "off" /\ job[p] # "sent" => plan[p] \in Status \ {"integrated"}
  BY DEF IInv, Control, Placed, Running, Integrated, TypeOK
<1>1. /\ TypeOK /\ plan = [plan EXCEPT ![p] = plan[p]]
      /\ Bills /\ spend \in Int /\ iter \in [Plan -> Nat] /\ unchecked \in Nat
  BY DEF IInv, TypeOK, Bills
<1>b. UNCHANGED <<bill, spend, unchecked>> /\ (UNCHANGED iter \/ iter' = [iter EXCEPT ![p] = 0]) => Books'
  BY <1>1 DEF Books, Bills
<1>2. CASE RunPlan(p)
  BY <1>0, <1>1, <1>b, <1>2, BudgetType DEF RunPlan
<1>3. CASE Snapshot(p)
  <2>1. Step(p, plan[p], "agent") /\ NoFault
    BY <1>1, <1>3 DEF Snapshot, Step, NoFault, record, history
  <2>2. plan[p] \in Status \ {"integrated"} /\ job[p] \notin {"off", "sent"}
    BY <1>0, <1>3 DEF Snapshot
  <2> QED BY <1>1, <1>b, <1>3, <2>1, <2>2, BudgetType DEF Snapshot, record, history
<1>4. CASE Restore(p)
  BY <1>1, <1>b, <1>4, BudgetType DEF Restore
<1>5. CASE Iterate(p)
  <2>1. PICK f \in Fates :
          /\ budget' \in [fail : 0..MaxFailures, crash : 0..MaxCrashes, int : 0..MaxInterrupts]
          /\ Bills' /\ spend' \in Int
          /\ unchecked' = IF Broken(f) \/ ~f.read THEN unchecked + 1 ELSE unchecked
          /\ \/ Settle(p, "interrupted", "cost-capped") \/ Settle(p, "failed", "failed")
             \/ Step(p, "running", "gates") \/ Step(p, "running", "iterate")
    BY <1>1, <1>5, IterateDoes
  <2>2. unchecked' \in Nat
    BY <1>1, <2>1
  <2>3. iter' \in [Plan -> Nat]
    <3>1. (IF job'[p] = "iterate" THEN iter[p] + 1 ELSE 0) \in Nat
      BY <1>1
    <3> QED BY <1>1, <1>5, <3>1 DEF Iterate
  <2>4. UNCHANGED <<units, run, archive, pc, cap, ctxDone, loop, outcome, before>> /\ job[p] = "agent"
    BY <1>5 DEF Iterate
  <2>5. Books'
    BY <2>1, <2>2, <2>3 DEF Books
  <2> QED BY <2>1, <2>4, <2>5
<1>6. CASE IterateEnds(p)
  BY <1>1, <1>b, <1>6, BudgetType DEF IterateEnds
<1>7. CASE Gates(p)
  <2>1. \/ Step(p, "completed", "integrate")
        \/ Settle(p, "needs-human", "needs-human")
        \/ Settle(p, "failed", "failed")
        \/ ctxDone /\ Settle(p, "failed", "canceled")
    BY <1>7 DEF Gates
  <2>2. budget' \in [fail : 0..MaxFailures, crash : 0..MaxCrashes, int : 0..MaxInterrupts]
    BY <1>1, <1>7, BudgetType DEF Gates
  <2> QED BY <1>1, <1>b, <1>7, <2>1, <2>2 DEF Gates
<1>8. CASE Integrate(p)
  BY <1>1, <1>b, <1>8, BudgetType DEF Integrate
<1> QED BY <1>2, <1>3, <1>4, <1>5, <1>6, <1>7, <1>8 DEF Goroutine

----------------------------------------------------------------------------
(* A move of a goroutine keeps what the scheduler knows.                   *)

\* A settled plan joins the channel, on which it was not.
LEMMA MovesQueued == ASSUME TypeOK, Queued, NEW p \in Plan, Moves(p) PROVE Queued'
<1>1. CASE \E status \in Status, step \in JobStep \ {"off", "sent"} : Step(p, status, step)
  <2>1. PICK step \in JobStep : job' = [job EXCEPT ![p] = step]
    BY <1>1 DEF Step
  <2>2. settles' = settles /\ settles \in Seq(Plan) /\ job \in [Plan -> JobStep]
    BY <1>1 DEF Step, TypeOK
  <2>3. \A i \in 1..Len(settles) : settles[i] \in Plan /\ settles[i] # p
    BY <2>2 DEF Queued, Moves
  <2>4. \A i \in 1..Len(settles) : job'[settles[i]] = job[settles[i]]
    BY <2>1, <2>2, <2>3
  <2> QED BY <2>2, <2>4 DEF Queued
<1>2. CASE \E status \in Status, o \in Outcome : Settle(p, status, o)
  <2>1. settles \in Seq(Plan) /\ settles' = Append(settles, p) /\ job' = [job EXCEPT ![p] = "sent"]
    BY <1>2 DEF Settle, TypeOK
  <2>2. \A i \in 1..Len(settles) : settles[i] # p /\ settles[i] \in Plan
    BY <2>1 DEF Queued, Moves
  <2>3. /\ Len(settles') = Len(settles) + 1 /\ settles'[Len(settles) + 1] = p
        /\ Len(settles) \in Nat /\ \A i \in 1..Len(settles) : settles'[i] = settles[i]
    BY <2>1
  <2>4. job'[p] = "sent" /\ \A i \in 1..Len(settles) : job'[settles[i]] = "sent"
    BY <2>1, <2>2 DEF Queued, TypeOK
  <2>5. \A i \in 1..Len(settles') : i = Len(settles) + 1 \/ i \in 1..Len(settles)
    BY <2>3
  <2>6. \A i \in 1..Len(settles') : job'[settles'[i]] = "sent"
    BY <2>3, <2>4, <2>5
  <2>7. \A i, j \in 1..Len(settles') : settles'[i] = settles'[j] => i = j
    BY <2>2, <2>3, <2>5 DEF Queued
  <2> QED BY <2>6, <2>7 DEF Queued
<1> QED BY <1>1, <1>2 DEF Moves

\* The same goroutines run.
LEMMA MovesRunning == ASSUME TypeOK, NEW p \in Plan, Moves(p) PROVE Running' = Running /\ p \in Running
  BY DEF TypeOK, Moves, Step, Settle, Running, JobStep

\* It changes no other plan, and does not take its own back.
LEMMA MovesIntegrated ==
  ASSUME TypeOK, Placed, NEW p \in Plan, Moves(p)
  PROVE  /\ p \notin Integrated /\ Integrated \subseteq Integrated' /\ Integrated' \subseteq Integrated \cup {p}
         /\ \A q \in Plan \ {p} : job'[q] = job[q] /\ out'[q] = out[q]
         /\ job'[p] # "sent" => p \notin Integrated'
  BY DEF TypeOK, Placed, Running, Integrated, Moves, Step, Settle, JobStep

\* An outcome it sends is true, and a failure is sent.
LEMMA MovesOut ==
  ASSUME TypeOK, NEW p \in Plan, Moves(p)
  PROVE  /\ job'[p] = "sent" => /\ out'[p] = "ok" => p \in Integrated'
                                /\ out'[p] = "no-eligible" => p \notin units
                                /\ out'[p] = "canceled" => ctxDone
         /\ failed' => failed \/ (job'[p] = "sent" /\ out'[p] = "failed")
<1>1. CASE \E status \in Status \ {"integrated"}, step \in JobStep \ {"off", "sent"} : Step(p, status, step)
  <2>1. job'[p] # "sent"
    BY <1>1 DEF Step, TypeOK
  <2>2. failed' = failed
    BY <1>1 DEF Step
  <2>3. failed' => failed
    BY <2>2, Zenon
  <2> QED BY <2>1, <2>3
<1>2. CASE \E status \in Status, o \in Outcome :
               /\ Settle(p, status, o)
               /\ o = "ok" => status = "integrated"
               /\ o = "no-eligible" => p \notin units
               /\ o = "canceled" => ctxDone
  <2>1. PICK status \in Status, o \in Outcome :
               /\ Settle(p, status, o)
               /\ o = "ok" => status = "integrated"
               /\ o = "no-eligible" => p \notin units
               /\ o = "canceled" => ctxDone
    BY <1>2
  <2>2. job'[p] = "sent" /\ out'[p] = o /\ plan'[p] = status
    BY <2>1 DEF Settle, TypeOK
  <2>3. failed' = (failed \/ o = "failed")
    BY <2>1 DEF Settle
  <2>4. o = "ok" => p \in Integrated'
    BY <2>1, <2>2 DEF Integrated
  <2>5. out'[p] = "failed" <=> o = "failed"
    BY <2>2
  <2>6. failed' => failed \/ (job'[p] = "sent" /\ out'[p] = "failed")
    <3> HIDE <2>1
    <3> QED BY <2>2, <2>3, <2>5, Zenon
  <2> QED BY <2>1, <2>2, <2>4, <2>6
<1> QED BY <1>1, <1>2 DEF Moves

\* What the scheduler knows stays true.
LEMMA MovesControl == ASSUME IInv, NEW p \in Plan, Moves(p) PROVE Control'
<1> USE MovesRunning, MovesIntegrated
<1>0. /\ TypeOK /\ Control /\ Placed
      /\ UNCHANGED <<units, run, archive, pc, ctxDone, loop>>
  BY DEF IInv, Control, Moves
<1>1. Queued'
  BY MovesQueued, <1>0 DEF Control
<1>2. Counted'
  BY <1>0 DEF Control, Counted, MaxInFlight, ParallelActive
<1>3. pc = "loop"
  BY <1>0, NoneRunning DEF Control, Counted
<1>4. Placed'
  BY <1>0 DEF Placed, Running
<1>5. Waiting'
  BY <1>0 DEF Control, Waiting, Placed
<1>6. Told'
  BY <1>0, MovesOut DEF Control, Told
<1>7. Flags'
  BY <1>0 DEF Control, Flags, Flagged, IsCanceled
<1>8. Advanced'
  BY <1>0, <1>3 DEF Control, Advanced, Flagged
<1>9. Archived'
  BY <1>0, <1>3 DEF Control, Archived
<1>10. FailureKept'
  <2>1. CASE failed
    <3>1. CASE \E q \in Plan : job[q] = "sent" /\ out[q] = "failed"
      BY <1>0, <1>3, <3>1 DEF FailureKept, Moves
    <3> QED BY <1>0, <1>3, <2>1, <3>1 DEF Control, FailureKept
  <2>2. CASE failed' /\ ~failed
    BY <1>0, <1>3, <2>2, MovesOut DEF FailureKept
  <2> QED BY <2>1, <2>2 DEF FailureKept
<1>11. CursorTruthful'
  BY <1>0 DEF Control, CursorTruthful
<1> QED BY <1>1, <1>2, <1>4, <1>5, <1>6, <1>7, <1>8, <1>9, <1>10, <1>11 DEF Control

----------------------------------------------------------------------------
(* The plan trees and their guards.                                        *)

Trees ==
  /\ left \in [Plan -> Nat] /\ earned \in [Plan -> Nat]
  /\ DOMAIN guard = Plan
  /\ \A p \in Plan : \E watched \in SUBSET Plan : guard[p] \in [watched -> Nat]
  /\ Guarded /\ ProgressStays

\* The invariant says so.
LEMMA TreesHold == IInv => Trees
  BY DEF IInv, TypeOK, Trees

\* Every plan is in its own guard; another is only where it cannot run.
LEMMA Watched ==
  ASSUME IInv, NEW p \in Plan
  PROVE  /\ p \in tamperGuard(p) /\ tamperGuard(p) \subseteq Plan
         /\ \A q \in Plan : p \in Running /\ q \in Running /\ q \in tamperGuard(p) => q = p
  BY OneAtATime DEF IInv, tamperGuard

\* The trees stay good when they stay as they are and no agent begins.
LEMMA TreesStay ==
  ASSUME Trees, UNCHANGED <<left, earned, guard>>,
         \A p \in Plan : job'[p] = "agent" => job[p] = "agent" /\ tamperGuard(p)' = tamperGuard(p)
  PROVE  Trees'
  BY DEF Trees, Guarded, ProgressStays

\* A step of a goroutine keeps the trees good.
LEMMA GoroutineTrees ==
  ASSUME IInv, NEW p \in Plan, Goroutine(p)
  PROVE  Trees'
<1>1. Trees /\ job \in [Plan -> JobStep]
  BY TreesHold DEF IInv, TypeOK
<1>2. \A q \in Plan : tamperGuard(q)' = tamperGuard(q)
  BY GoroutineMoves DEF Moves, tamperGuard, Concurrent, ParallelActive
<1>3. CASE RunPlan(p) \/ IterateEnds(p) \/ Gates(p) \/ Integrate(p)
  <2>1. UNCHANGED <<left, earned, guard>> /\ job[p] # "agent"
    BY <1>3 DEF RunPlan, IterateEnds, Gates, Integrate
  <2>2. \E s \in JobStep \ {"agent"} : job' = [job EXCEPT ![p] = s]
    BY <1>3 DEF RunPlan, IterateEnds, Gates, Integrate, Step, Settle, JobStep
  <2> QED BY <1>1, <1>2, <2>1, <2>2, TreesStay
<1>4. CASE Snapshot(p)
  <2>1. /\ UNCHANGED <<left, earned>> /\ left[p] > 0 /\ job' = [job EXCEPT ![p] = "agent"]
        /\ guard' = [guard EXCEPT ![p] = [q \in tamperGuard(p) |-> left[q]]]
    BY <1>4 DEF Snapshot, snapshotPlanTree, record, history
  <2>2. guard'[p] = [q \in tamperGuard(p) |-> left[q]] /\ guard'[p] \in [tamperGuard(p) -> Nat]
    BY <1>1, <2>1, Watched DEF Trees
  <2>3. \A q \in Plan \ {p} : guard'[q] = guard[q] /\ job'[q] = job[q]
    BY <1>1, <2>1 DEF Trees
  <2>4. Guarded'
    <3>1. \A q \in Plan \ {p} : job'[q] = "agent" =>
             /\ DOMAIN guard'[q] = tamperGuard(q)' /\ guard'[q][q] > 0
             /\ \A r \in DOMAIN guard'[q] : guard'[q][r] <= earned'[r]
      BY <1>1, <1>2, <2>1, <2>3 DEF Trees, Guarded
    <3>2. /\ DOMAIN guard'[p] = tamperGuard(p)' /\ guard'[p][p] > 0
          /\ \A r \in DOMAIN guard'[p] : guard'[p][r] <= earned'[r]
      BY <1>1, <1>2, <2>1, <2>2, Watched DEF Trees, ProgressStays
    <3> QED BY <3>1, <3>2 DEF Guarded
  <2>5. \A q \in Plan : \E watched \in SUBSET Plan : guard'[q] \in [watched -> Nat]
    BY <1>1, <2>2, <2>3, Watched DEF Trees
  <2>6. DOMAIN guard' = Plan
    BY <1>1, <2>1 DEF Trees
  <2> QED BY <1>1, <2>1, <2>4, <2>5, <2>6 DEF Trees, ProgressStays
<1>5. CASE Restore(p)
  <2>1. /\ UNCHANGED earned /\ job[p] = "agent" /\ left' = putBack(guard[p])
        /\ job' = [job EXCEPT ![p] = "sent"] /\ guard' = [guard EXCEPT ![p] = NoGuard]
    BY <1>5 DEF Restore, Settle
  <2>2. NoGuard \in [{} -> Nat]
    BY DEF NoGuard
  <2>3. /\ left' \in [Plan -> Nat]
        /\ \A q \in Plan : left'[q] <= earned[q]
    BY <1>1, <2>1 DEF Trees, Guarded, ProgressStays, putBack
  <2> QED BY <1>1, <1>2, <2>1, <2>2, <2>3 DEF Trees, Guarded, ProgressStays
<1>6. CASE Iterate(p)
  <2>1. \/ UNCHANGED <<left, earned>>
        \/ left' = [left EXCEPT ![p] = @ - 1] /\ earned' = [earned EXCEPT ![p] = @ - 1]
    BY <1>6, IterateDoes DEF IInv, TypeOK, Bills
  <2>2. /\ job[p] = "agent" /\ guard' = [guard EXCEPT ![p] = NoGuard]
        /\ ~Detect(p)
    BY <1>6 DEF Iterate
  <2>3. left[p] = guard[p][p] /\ left[p] > 0
    BY <1>1, <2>2, Watched DEF Detect, firstTreeDivergence, snapshotPlanTree, Trees, Guarded
  <2>4. NoGuard \in [{} -> Nat]
    BY DEF NoGuard
  <2>5. left' \in [Plan -> Nat] /\ earned' \in [Plan -> Nat] /\ ProgressStays'
    BY <1>1, <2>1, <2>3 DEF Trees, ProgressStays
  <2>6. job'[p] # "agent" /\ \A q \in Plan \ {p} : job'[q] = job[q] /\ guard'[q] = guard[q]
    <3>1. \/ Settle(p, "interrupted", "cost-capped") \/ Settle(p, "failed", "failed")
          \/ Step(p, "running", "gates") \/ Step(p, "running", "iterate")
      BY <1>6, IterateDoes DEF IInv, TypeOK, Bills
    <3>2. \E s \in JobStep \ {"agent"} : job' = [job EXCEPT ![p] = s]
      BY <3>1 DEF Settle, Step, JobStep
    <3> QED BY <1>1, <2>2, <3>2 DEF Trees
  <2>7. ASSUME NEW q \in Plan \ {p}, job[q] = "agent" PROVE p \notin DOMAIN guard[q]
    BY <1>1, <2>2, <2>7, Watched DEF Trees, Guarded, Running
  <2>8. Guarded'
    BY <1>1, <1>2, <2>1, <2>6, <2>7, Watched DEF Trees, Guarded
  <2> QED BY <1>1, <2>2, <2>4, <2>5, <2>8 DEF Trees
<1> QED BY <1>3, <1>4, <1>5, <1>6 DEF Goroutine

\* So does an agent's edit, which only takes stories away.
LEMMA TamperTrees ==
  ASSUME IInv, NEW p \in Plan, NEW q \in Plan, Tamper(p, q)
  PROVE  Trees'
<1>1. Trees
  BY TreesHold
<1>2. left' = [left EXCEPT ![q] = 0] /\ UNCHANGED <<earned, guard, job, loop>>
  BY DEF Tamper, history
<1>3. \A r \in Plan : tamperGuard(r)' = tamperGuard(r)
  BY <1>2 DEF tamperGuard, Concurrent, ParallelActive
<1> QED BY <1>1, <1>2, <1>3 DEF Trees, Guarded, ProgressStays

----------------------------------------------------------------------------
(* Every step keeps the invariant.                                         *)

Loops ==
  [phase : 0..Len(Phases), pending : SUBSET Plan, begun : BOOLEAN, inFlight : Nat,
   errs : SUBSET Outcome, costCapped : BOOLEAN, noEligible : BOOLEAN,
   stop : BOOLEAN, cancelled : BOOLEAN]

Budgets == [fail : 0..MaxFailures, crash : 0..MaxCrashes, int : 0..MaxInterrupts]

\* What the invariant says of types, but for the trees.
Typed ==
  /\ plan \in [Plan -> Status] /\ units \subseteq Plan
  /\ run \in [here : BOOLEAN, active : SUBSET Plan, costCapped : BOOLEAN, fatal : BOOLEAN]
  /\ archive \in {"none", "completed"} /\ Books
  /\ pc \in {"down", "phase", "loop", "report"} /\ cap \in Nat /\ ctxDone \in BOOLEAN
  /\ loop \in Loops
  /\ job \in [Plan -> JobStep] /\ out \in [Plan -> Outcome] /\ settles \in Seq(Plan)
  /\ budget \in Budgets
  /\ outcome \in {"none", "interrupted", "cost-capped", "failed", "needs-human",
                  "completed", "crash"}
  /\ before \in Int /\ failed \in BOOLEAN

\* The invariant in its three parts, before a step and after it.
LEMMA Parts ==
  /\ IInv => Typed /\ Control /\ Trees
  /\ (Typed /\ Control /\ Trees)' => IInv'
<1>1. IInv => Typed /\ Control /\ Trees
  BY TreesHold DEF IInv, TypeOK, Typed, Books, Bills, Budgets, Loops
<1>2. (Typed /\ Trees)' => TypeOK'
  BY DEF TypeOK, Typed, Trees, Books, Bills, Budgets, Loops
<1> QED BY <1>1, <1>2 DEF IInv, Trees

\* A step of a goroutine keeps the invariant.
LEMMA GoroutineKeeps ==
  ASSUME IInv, NEW p \in Plan, Goroutine(p)
  PROVE  IInv'
<1>1. Moves(p) /\ Control' /\ Trees' /\ Typed
  BY GoroutineMoves, MovesControl, GoroutineTrees, Parts
<1>2. failed' \in BOOLEAN
  BY <1>1 DEF Moves, Step, Settle, Typed
<1>3. settles' \in Seq(Plan) /\ out' \in [Plan -> Outcome]
  <2>1. \/ UNCHANGED <<out, settles>>
        \/ \E o \in Outcome : out' = [out EXCEPT ![p] = o] /\ settles' = Append(settles, p)
    BY <1>1 DEF Moves, Step, Settle
  <2>2. out \in [Plan -> Outcome] /\ settles \in Seq(Plan)
    BY <1>1 DEF Typed
  <2>3. out' \in [Plan -> Outcome]
    BY <2>1, <2>2
  <2>4. settles' \in Seq(Plan)
    BY <2>1, <2>2
  <2> QED BY <2>3, <2>4
<1>4. plan' \in [Plan -> Status] /\ job' \in [Plan -> JobStep]
  <2>1. \E status \in Status, step \in JobStep :
          plan' = [plan EXCEPT ![p] = status] /\ job' = [job EXCEPT ![p] = step]
    BY <1>1 DEF Moves, Step, Settle, JobStep
  <2> QED BY <1>1, <2>1 DEF Typed
<1>5. Typed'
  BY <1>1, <1>2, <1>3, <1>4 DEF Moves, Typed, Budgets, Loops
<1> QED BY <1>1, <1>5, Parts

\* So does an edit by an agent.
LEMMA TamperKeeps ==
  ASSUME IInv, NEW p \in Plan, NEW q \in Plan, Tamper(p, q)
  PROVE  IInv'
<1>1. UNCHANGED <<plan, units, run, archive, bill, spend, pc, cap, ctxDone, loop, job, out, settles,
                  iter, outcome, before, unchecked, failed>>
  BY DEF Tamper, history
<1>2. Control'
  BY <1>1 DEF IInv, Control, Queued, Counted, Placed, Waiting, Told, Flags, Advanced, Archived,
              FailureKept, CursorTruthful, Running, Integrated, MaxInFlight, ParallelActive,
              Flagged, IsCanceled
<1>3. budget' \in Budgets
  BY BudgetType DEF Tamper, IInv, Budgets
<1>4. Typed'
  BY <1>1, <1>3, Parts DEF Typed, Books, Bills
<1> QED BY <1>2, <1>4, TamperTrees, Parts

\* The invariant holds before the first start.
LEMMA InitInv == Init => IInv
<1> SUFFICES ASSUME Init PROVE IInv
  OBVIOUS
<1>1. Running = {} /\ settles = <<>> /\ Len(settles) = 0 /\ \A p \in Plan : job[p] = "off"
  BY DEF Init, Running, NoActive
<1>2. Control
  BY <1>1, FS_EmptySet DEF Init, Control, Queued, Counted, Placed, Waiting, Told, Flags, Advanced,
              Archived, FailureKept, CursorTruthful, Idle, IsCanceled
<1>3. TypeOK
  <2>1. NoGuard \in [{} -> Nat] /\ \A p \in Plan : guard[p] \in [{} -> Nat]
    BY DEF NoGuard, Init
  <2>2. budget \in [fail : 0..MaxFailures, crash : 0..MaxCrashes, int : 0..MaxInterrupts]
    BY BatchAssumption DEF Init
  <2>3. loop \in Loops
    BY BatchAssumption DEF Init, Idle, Loops
  <2>4. Stories \in [Plan -> Nat]
    BY BatchAssumption
  <2>5. plan \in [Plan -> Status] /\ job \in [Plan -> JobStep] /\ out \in [Plan -> Outcome]
    BY DEF Init, Status, Outcome, JobStep, NoActive
  <2>6. run \in [here : BOOLEAN, active : SUBSET Plan, costCapped : BOOLEAN, fatal : BOOLEAN]
    BY DEF Init
  <2>7. settles \in Seq(Plan) /\ DOMAIN guard = Plan /\ units \subseteq Plan
    BY DEF Init
  <2>8. \A p \in Plan : \E watched \in SUBSET Plan : guard[p] \in [watched -> Nat]
    BY <2>1
  <2>9. /\ archive \in {"none", "completed"}
        /\ pc \in {"down", "phase", "loop", "report"} /\ cap \in Nat /\ ctxDone \in BOOLEAN
        /\ outcome \in {"none", "interrupted", "cost-capped", "failed", "needs-human",
                        "completed", "crash"}
        /\ failed \in BOOLEAN
        /\ left \in [Plan -> Nat] /\ earned \in [Plan -> Nat]
    BY <2>4 DEF Init
  <2>11. before \in Int
    BY DEF Init
  <2>10. Books
    BY DEF Init, NoBill, NoIter, Bills, Books
  <2> QED BY <2>2, <2>3, <2>5, <2>6, <2>7, <2>8, <2>9, <2>10, <2>11 DEF TypeOK, Loops, Books, Bills
<1>4. Guarded /\ ProgressStays
  BY <1>1, BatchAssumption DEF Init, Guarded, ProgressStays
<1> QED BY <1>2, <1>3, <1>4 DEF IInv

\* The trees of a step that touches none of them.
LEMMA AsideTrees ==
  ASSUME IInv, UNCHANGED <<left, guard, earned, job>>,
         \A p \in Plan : job[p] = "agent" => tamperGuard(p)' = tamperGuard(p)
  PROVE  Trees'
  BY TreesHold, TreesStay

\* Outside a phase there is no goroutine, and none has been settled.
LEMMA AtRest ==
  ASSUME IInv, pc # "loop"
  PROVE  Running = {} /\ settles = <<>> /\ \A p \in Plan : job[p] = "off"
<1>1. Running = {}
  BY NoneRunning DEF IInv, Control, Counted
<1>2. \A p \in Plan : job[p] = "off"
  BY <1>1 DEF Running
<1>3. settles \in Seq(Plan) /\ \A i \in 1..Len(settles) : job[settles[i]] = "sent"
  BY DEF IInv, TypeOK, Control, Queued
<1>4. Len(settles) \in Nat /\ \A i \in 1..Len(settles) : settles[i] \in Plan
  BY <1>3
<1>5. Len(settles) = 0
  BY <1>2, <1>3, <1>4
<1> QED BY <1>1, <1>2, <1>3, <1>5

\* A start finds the batch at rest.
LEMMA StartKeeps ==
  ASSUME IInv, NEW c \in Caps, Start(c)
  PROVE  IInv'
<1>1. pc = "down" /\ loop = Idle /\ archive # "completed"
  BY DEF Start, IInv, Control, Advanced, Archived
<1>2. Running = {} /\ Running' = {} /\ settles = <<>> /\ \A p \in Plan : job[p] = "off"
  BY <1>1, AtRest DEF Start, Running
<1>3. Trees'
  BY AsideTrees, <1>2 DEF Start
<1>4. Typed'
  <2>1. run' \in [here : BOOLEAN, active : SUBSET Plan, costCapped : BOOLEAN, fatal : BOOLEAN]
    BY Parts DEF Start, Typed
  <2>2. budget' \in Budgets
    BY BudgetType DEF Start, IInv, Budgets
  <2> QED BY <2>1, <2>2, Parts, BatchAssumption DEF Start, Typed, Books, Bills
<1>5. Control'
  BY <1>1, <1>2, FS_EmptySet DEF Start, Control, Queued, Counted, Placed, Waiting, Told, Flags,
       Advanced, Archived, FailureKept, CursorTruthful, Idle, IsCanceled, MaxInFlight, IInv
<1> QED BY <1>3, <1>4, <1>5, Parts

\* The phases behind the next one are integrated.
LEMMA EnterPhaseKeeps ==
  ASSUME IInv, EnterPhase
  PROVE  IInv'
<1>1. pc = "phase" /\ pc' = "loop" /\ UNCHANGED <<record, cap, ctxDone, job, out, settles, guard, iter, budget, history>>
  BY DEF EnterPhase
<1>2. Running = {} /\ Running' = {} /\ settles = <<>> /\ \A p \in Plan : job[p] = "off"
  BY <1>1, AtRest DEF Running
<1>3. loop.phase \in 0..Len(Phases) /\ loop.phase < Len(Phases) /\ Len(Phases) \in Nat
  BY BatchAssumption DEF EnterPhase, IInv, TypeOK
<1>4. loop.phase + 1 \in PhaseIndex
  BY <1>3 DEF PhaseIndex
<1>5. /\ loop'.phase = loop.phase + 1 /\ loop'.begun = FALSE /\ loop'.inFlight = 0 /\ loop'.errs = {}
      /\ loop'.noEligible = FALSE /\ loop'.stop = FALSE /\ loop'.cancelled = FALSE /\ loop'.costCapped = FALSE
      /\ loop'.pending = InPhase(loop.phase + 1) \ Integrated
  BY <1>4, PhasePlans DEF EnterPhase, Idle, IsTerminal, Integrated
<1>6. loop' \in Loops
  <2>1. InPhase(loop.phase + 1) \subseteq Plan
    BY <1>4, PhasePlans
  <2>2. {p \in InPhase(loop.phase + 1) : ~IsTerminal(p)} \in SUBSET Plan
    BY <2>1
  <2>3. loop.phase + 1 \in 0..Len(Phases)
    BY <1>3
  <2> QED BY <2>2, <2>3 DEF EnterPhase, Idle, Loops
<1>7. Typed'
  BY <1>1, <1>6, Parts DEF Typed, Books, Bills, record, history
<1>8. Trees'
  BY <1>1, <1>2, AsideTrees DEF record, history
<1>9. Control'
  <2>1. Integrated' = Integrated
    BY <1>1 DEF Integrated, record
  <2>2. MaxInFlight' >= 1 /\ MaxInFlight' \in Nat
    BY BatchAssumption DEF MaxInFlight, ParallelActive
  <2>3. Counted'
    BY <1>1, <1>2, <1>4, <1>5, <2>2, FS_EmptySet DEF Counted
  <2>4. Advanced'
    BY <1>1, <1>3, <1>5, <2>1 DEF Advanced, IInv, Control
  <2>5. Archived' /\ ~failed
    BY <1>1 DEF Archived, FailureKept, IInv, Control, record, history
  <2> QED BY <1>1, <1>2, <1>5, <2>1, <2>3, <2>4, <2>5 DEF Control, Queued, Placed, Waiting, Told, Flags,
            FailureKept, CursorTruthful, IsCanceled, IInv, history, record
<1> QED BY <1>7, <1>8, <1>9, Parts

\* After the last phase every plan is integrated.
LEMMA AllPhasesDoneKeeps ==
  ASSUME IInv, AllPhasesDone
  PROVE  IInv'
<1>1. /\ pc = "phase" /\ pc' = "report" /\ loop.phase = Len(Phases)
      /\ loop' = [Idle EXCEPT !.phase = loop.phase]
      /\ UNCHANGED <<record, cap, ctxDone, job, out, settles, guard, iter, budget, history>>
  BY DEF AllPhasesDone
<1>2. Running = {} /\ Running' = {} /\ settles = <<>> /\ \A p \in Plan : job[p] = "off"
  BY <1>1, AtRest DEF Running
<1>3. Plan \subseteq Integrated
  BY <1>1, BatchAssumption DEF PhaseIndex, IInv, Control, Advanced
<1>4. loop' \in Loops
  BY <1>1 DEF Idle, IInv, TypeOK, Loops
<1>5. Typed'
  BY <1>1, <1>4, Parts DEF Typed, Books, Bills, record, history
<1>6. Trees'
  BY <1>1, <1>2, AsideTrees DEF record, history
<1>7. Control'
  <2>1. /\ loop'.inFlight = 0 /\ loop'.begun = FALSE /\ loop'.stop = FALSE /\ loop'.errs = {}
        /\ loop'.noEligible = FALSE /\ loop'.cancelled = FALSE
    BY <1>1 DEF Idle
  <2>2. Integrated' = Integrated
    BY <1>1 DEF Integrated, record
  <2>3. Archived' /\ ~failed
    BY <1>1 DEF Archived, FailureKept, IInv, Control, record, history
  <2> QED BY <1>1, <1>2, <1>3, <2>1, <2>2, <2>3, FS_EmptySet DEF Control, Queued, Counted, Placed, Waiting,
            Told, Flags, Advanced, FailureKept, CursorTruthful, IsCanceled, history, record
<1> QED BY <1>5, <1>6, <1>7, Parts

\* A slot is free and the new plan was in no slot.
LEMMA DispatchKeeps ==
  ASSUME IInv, Dispatch
  PROVE  IInv'
<1>1. PICK p \in FirstPending :
        /\ job' = [job EXCEPT ![p] = "start"] /\ checkpoint(Running \cup {p})
        /\ loop' = [loop EXCEPT !.pending = @ \ {p}, !.begun = TRUE, !.inFlight = @ + 1]
  BY DEF Dispatch
<1>2. /\ pc = "loop" /\ CanDispatch
      /\ UNCHANGED <<plan, left, units, archive, bill, spend, pc, cap, ctxDone, out, settles, guard,
                     iter, budget, history>>
  BY DEF Dispatch
<1>3. Typed /\ Control /\ Trees
  BY Parts
<1>4. p \in Plan /\ p \in loop.pending /\ p \in InPhase(loop.phase) /\ p \notin Integrated
  BY <1>1, <1>2, <1>3 DEF FirstPending, Typed, Loops, Control, Waiting
<1>5. p \notin Running /\ job[p] = "off"
  BY <1>3, <1>4 DEF Control, Placed, Running
<1>6. Running' = Running \cup {p}
  BY <1>1, <1>3, <1>4 DEF Running, Typed
<1>7. /\ loop'.pending = loop.pending \ {p} /\ loop'.begun = TRUE /\ loop'.inFlight = loop.inFlight + 1
      /\ loop'.phase = loop.phase /\ loop'.errs = loop.errs /\ loop'.costCapped = loop.costCapped
      /\ loop'.noEligible = loop.noEligible /\ loop'.stop = loop.stop
      /\ loop'.cancelled = loop.cancelled
  BY <1>1, <1>3 DEF Typed, Loops
<1>8. run' = [run EXCEPT !.active = Running']
  BY <1>1, <1>6 DEF checkpoint
<1>9. Typed'
  <2>0. loop \in Loops /\ loop.pending \ {p} \in SUBSET Plan /\ loop.inFlight + 1 \in Nat
    BY <1>3 DEF Typed, Loops
  <2>1. loop' \in Loops
    BY <1>1, <2>0 DEF Loops
  <2>2. run' \in [here : BOOLEAN, active : SUBSET Plan, costCapped : BOOLEAN, fatal : BOOLEAN]
    BY <1>3, <1>8 DEF Typed, Running
  <2>3. job' \in [Plan -> JobStep]
    BY <1>1, <1>3 DEF Typed, JobStep
  <2> QED BY <1>2, <1>3, <2>1, <2>2, <2>3 DEF Typed, Books, Bills, history
<1>10. \A q \in Plan : tamperGuard(q)' = tamperGuard(q)
  BY <1>7 DEF tamperGuard, Concurrent, ParallelActive
<1>11. Trees'
  <2>1. \A q \in Plan : job'[q] = "agent" => job[q] = "agent"
    BY <1>1, <1>3, <1>4 DEF Typed
  <2> QED BY <1>2, <1>3, <1>10, <2>1, TreesStay DEF history
<1>12. Integrated' = Integrated
  BY <1>2 DEF Integrated
<1>13. \A q \in Plan : job'[q] = "sent" <=> job[q] = "sent"
  BY <1>1, <1>3, <1>5 DEF Typed
<1>14. \A q \in Plan \ {p} : job'[q] = job[q]
  BY <1>1, <1>3 DEF Typed
<1>15. Queued'
  BY <1>2, <1>3, <1>13 DEF Control, Queued, Typed
<1>16. Counted'
  <2>1. IsFiniteSet(Running') /\ Cardinality(Running') = loop'.inFlight
    BY <1>3, <1>5, <1>6, <1>7, FS_AddElement DEF Control, Counted
  <2>2. MaxInFlight' = MaxInFlight
    BY <1>7 DEF MaxInFlight, ParallelActive
  <2>3. loop'.inFlight <= MaxInFlight
    BY <1>2, <1>3, <1>7, Slots DEF CanDispatch, Typed, Loops
  <2> QED BY <1>2, <1>3, <1>7, <2>1, <2>2, <2>3 DEF Control, Counted
<1>17. Placed'
  BY <1>3, <1>4, <1>5, <1>6, <1>7, <1>12, <1>14 DEF Control, Placed, Running
<1>18. Waiting' /\ Told' /\ Flags' /\ Archived'
  BY <1>2, <1>3, <1>7, <1>12, <1>13 DEF Control, Waiting, Told, Flags, Flagged, IsCanceled, Archived
<1>19. Advanced'
  BY <1>2, <1>3, <1>6, <1>7, <1>12 DEF Control, Advanced, Flagged
<1>20. FailureKept'
  BY <1>2, <1>3, <1>7, <1>13 DEF Control, FailureKept, history
<1>21. CursorTruthful'
  BY <1>3, <1>8 DEF CursorTruthful, Typed
<1>22. Control'
  BY <1>15, <1>16, <1>17, <1>18, <1>19, <1>20, <1>21 DEF Control
<1> QED BY <1>9, <1>11, <1>22, Parts

\* What the loop knows after a plan has been settled.
LEMMA SettledFlags ==
  ASSUME loop \in Loops, loop.inFlight > 0, NEW o \in Outcome
  PROVE  /\ Settled(o) \in Loops
         /\ Settled(o).phase = loop.phase /\ Settled(o).pending = loop.pending
         /\ Settled(o).begun = loop.begun /\ Settled(o).cancelled = loop.cancelled
         /\ Settled(o).inFlight = loop.inFlight - 1
         /\ loop.errs \subseteq Settled(o).errs /\ Settled(o).errs \subseteq loop.errs \cup {o}
         /\ loop.costCapped => Settled(o).costCapped
         /\ loop.noEligible => Settled(o).noEligible
         /\ Settled(o).noEligible => loop.noEligible \/ o = "no-eligible"
         /\ Settled(o).stop => loop.stop \/ o # "ok"
         /\ o # "ok" => Settled(o).errs # {} \/ Settled(o).costCapped \/ Settled(o).noEligible
         /\ o = "failed" => o \in Settled(o).errs
<1>1. loop.inFlight - 1 \in Nat /\ loop.errs \cup {o} \in SUBSET Outcome
      /\ (loop.stop \/ ~ParallelActive) \in BOOLEAN
  BY DEF Loops
<1>2. CASE o = "no-eligible" BY <1>1, <1>2 DEF Settled, Loops
<1>3. CASE o = "cost-capped" BY <1>1, <1>3 DEF Settled, Loops
<1>4. CASE o \in {"failed", "needs-human", "canceled"} BY <1>1, <1>4 DEF Settled, Loops
<1>5. CASE o = "ok" BY <1>1, <1>5 DEF Settled, Loops
<1> QED BY <1>2, <1>3, <1>4, <1>5 DEF Outcome

\* The plan at the head of the channel leaves its slot, and its outcome is
\* what the flags now say.
LEMMA ReceiveKeeps ==
  ASSUME IInv, Receive
  PROVE  IInv'
<1> DEFINE p == Head(settles)
<1> DEFINE o == out[p]
<1>1. /\ pc = "loop" /\ loop.inFlight > 0 /\ settles # <<>>
      /\ job' = [job EXCEPT ![p] = "off"] /\ checkpoint(Running \ {p})
      /\ loop' = Settled(o) /\ settles' = Tail(settles)
      /\ UNCHANGED <<plan, left, units, archive, bill, spend, pc, cap, ctxDone, out, guard, iter,
                     budget, history>>
  BY DEF Receive
<1>2. Typed /\ Control /\ Trees
  BY Parts
<1>3. settles \in Seq(Plan) /\ Len(settles) \in Nat /\ Len(settles) >= 1 /\ p = settles[1]
  BY <1>1, <1>2 DEF Typed
<1>4. p \in Plan /\ job[p] = "sent" /\ p \in Running /\ o \in Outcome
  BY <1>2, <1>3 DEF Typed, Control, Queued, Running
<1>5. /\ settles' \in Seq(Plan) /\ Len(settles') = Len(settles) - 1
      /\ \A i \in 1..Len(settles') : settles'[i] = settles[i + 1]
  BY <1>1, <1>3
<1> HIDE DEF p, o
<1>6. job' \in [Plan -> JobStep] /\ job'[p] = "off" /\ \A q \in Plan \ {p} : job'[q] = job[q]
  BY <1>1, <1>2, <1>4 DEF Typed, JobStep
<1>7. Running' = Running \ {p}
  BY <1>6 DEF Running
<1>8. run' = [run EXCEPT !.active = Running']
  BY <1>1, <1>7 DEF checkpoint
<1>9. /\ loop' \in Loops
      /\ loop'.phase = loop.phase /\ loop'.pending = loop.pending
      /\ loop'.begun = loop.begun /\ loop'.cancelled = loop.cancelled
      /\ loop'.inFlight = loop.inFlight - 1
      /\ loop.errs \subseteq loop'.errs /\ loop'.errs \subseteq loop.errs \cup {o}
      /\ Flagged => Flagged'
      /\ loop'.noEligible => loop.noEligible \/ o = "no-eligible"
      /\ loop'.stop => loop.stop \/ o # "ok"
      /\ o # "ok" => Flagged'
      /\ o = "failed" => "failed" \in loop'.errs
  BY <1>1, <1>2, <1>4, SettledFlags DEF Typed, Flagged
<1>10. Typed'
  <2>1. run' \in [here : BOOLEAN, active : SUBSET Plan, costCapped : BOOLEAN, fatal : BOOLEAN]
    BY <1>2, <1>8 DEF Typed, Running
  <2> QED BY <1>1, <1>2, <1>5, <1>6, <1>9, <2>1 DEF Typed, Books, Bills, history
<1>11. Integrated' = Integrated
  BY <1>1 DEF Integrated
<1>12. Trees'
  <2>1. \A q \in Plan : tamperGuard(q)' = tamperGuard(q)
    BY <1>9 DEF tamperGuard, Concurrent, ParallelActive
  <2>2. \A q \in Plan : job'[q] = "agent" => job[q] = "agent"
    BY <1>6
  <2> QED BY <1>1, <1>2, <2>1, <2>2, TreesStay DEF history
<1>13. Queued'
  <2>1. \A i \in 1..Len(settles') : i + 1 \in 1..Len(settles) /\ i + 1 # 1
    BY <1>3, <1>5
  <2>2. \A i \in 1..Len(settles') : settles'[i] # p /\ settles'[i] \in Plan
    BY <1>2, <1>3, <1>5, <2>1 DEF Control, Queued
  <2>3. \A i \in 1..Len(settles') : job'[settles'[i]] = "sent"
    BY <1>2, <1>5, <1>6, <2>1, <2>2 DEF Control, Queued
  <2>4. ASSUME NEW i \in 1..Len(settles'), NEW j \in 1..Len(settles'), settles'[i] = settles'[j]
        PROVE  i = j
    BY <1>2, <1>5, <2>1, <2>4 DEF Control, Queued
  <2> QED BY <2>3, <2>4 DEF Queued
<1>14. Counted'
  <2>1. IsFiniteSet(Running') /\ Cardinality(Running') = loop'.inFlight
    BY <1>2, <1>4, <1>7, <1>9, FS_RemoveElement DEF Control, Counted
  <2>2. MaxInFlight' = MaxInFlight
    BY <1>9 DEF MaxInFlight, ParallelActive
  <2>3. loop.inFlight \in Nat /\ MaxInFlight \in Nat
    BY <1>2, Slots DEF Typed, Loops
  <2> QED BY <1>1, <1>2, <1>9, <2>1, <2>2, <2>3 DEF Control, Counted
<1>15. Placed'
  <2>1. \A q \in Running' : q \in Running /\ job'[q] = job[q]
    BY <1>6, <1>7 DEF Running
  <2> QED BY <1>2, <1>9, <1>11, <2>1 DEF Control, Placed
<1>16. Waiting' /\ Archived'
  BY <1>1, <1>2, <1>9, <1>11 DEF Control, Waiting, Archived
<1>17. Told'
  BY <1>1, <1>2, <1>6, <1>11 DEF Control, Told
<1>18. /\ o = "ok" => p \in Integrated
       /\ o = "no-eligible" => units # Plan
       /\ o = "canceled" => ctxDone
  BY <1>2, <1>4 DEF Control, Told, o
<1>19. Flags'
  BY <1>1, <1>2, <1>9, <1>18 DEF Control, Flags, IsCanceled
<1>20. Advanced'
  BY <1>1, <1>2, <1>7, <1>9, <1>11, <1>18 DEF Control, Advanced
<1>21. FailureKept'
  <2>1. failed' = failed
    BY <1>1 DEF history
  <2>2. CASE failed
    <3>1. CASE "failed" \in loop.errs
      BY <1>1, <1>9, <3>1 DEF FailureKept
    <3>2. CASE \E q \in Plan : job[q] = "sent" /\ out[q] = "failed"
      <4>1. PICK q \in Plan : job[q] = "sent" /\ out[q] = "failed"
        BY <3>2
      <4>2. CASE q = p
        BY <1>1, <1>9, <4>1, <4>2 DEF FailureKept, o
      <4>3. CASE q # p
        BY <1>1, <1>6, <4>1, <4>3 DEF FailureKept
      <4> QED BY <4>2, <4>3
    <3> QED BY <1>2, <2>2, <3>1, <3>2 DEF Control, FailureKept
  <2> QED BY <2>1, <2>2 DEF FailureKept
<1>22. CursorTruthful'
  BY <1>2, <1>8 DEF CursorTruthful, Typed
<1>23. Control'
  BY <1>13, <1>14, <1>15, <1>16, <1>17, <1>19, <1>20, <1>21, <1>22 DEF Control
<1> QED BY <1>10, <1>12, <1>23, Parts

\* A phase that ends without a flag has integrated all its plans.
LEMMA EndPhaseKeeps ==
  ASSUME IInv, EndPhase
  PROVE  IInv'
<1>1. /\ pc = "loop" /\ ~CanDispatch /\ loop.inFlight = 0
      /\ pc' = IF Flagged \/ ctxDone THEN "report" ELSE "phase"
      /\ loop' = [loop EXCEPT !.cancelled = ctxDone /\ ~Flagged]
      /\ UNCHANGED <<record, cap, ctxDone, job, out, settles, guard, iter, budget, history>>
  BY DEF EndPhase
<1>2. Typed /\ Control /\ Trees
  BY Parts
<1>3. Running = {} /\ Running' = {} /\ Integrated' = Integrated
  BY <1>1, <1>2, NoneRunning DEF Running, Integrated, record
<1>4. /\ loop'.pending = loop.pending /\ loop'.begun = loop.begun /\ loop'.inFlight = loop.inFlight
      /\ loop'.phase = loop.phase /\ loop'.errs = loop.errs /\ loop'.costCapped = loop.costCapped
      /\ loop'.noEligible = loop.noEligible /\ loop'.stop = loop.stop
      /\ loop'.cancelled = (ctxDone /\ ~Flagged)
  BY <1>1, <1>2 DEF Typed, Loops
<1>5. loop' \in Loops
  <2>1. (ctxDone /\ ~Flagged) \in BOOLEAN
    OBVIOUS
  <2> QED BY <1>1, <1>2, <2>1 DEF Typed, Loops
<1>6. Typed'
  BY <1>1, <1>2, <1>5 DEF Typed, Books, Bills, record, history
<1>7. Flagged' = Flagged
  BY <1>4 DEF Flagged
<1>8. Trees'
  BY <1>1, <1>3, AsideTrees DEF record, history, Running
<1>9. pc' = "phase" => InPhase(loop.phase) \subseteq Integrated
  <2>1. pc' = "phase" => ~Flagged /\ ~ctxDone
    BY <1>1
  <2>2. ~Flagged => ~loop.stop
    BY <1>2 DEF Control, Flags
  <2>3. ~Flagged /\ ~ctxDone => loop.pending = {}
    BY <1>1, <2>2, Slots DEF CanDispatch
  <2> QED BY <1>1, <1>2, <1>3, <2>1, <2>3 DEF Control, Advanced
<1>10. Advanced'
  <2>1. loop.phase \in Nat
    BY <1>2 DEF Typed, Loops
  <2>2. ASSUME pc' = "phase", NEW i \in 1..loop.phase PROVE InPhase(i) \subseteq Integrated
    BY <1>1, <1>2, <1>9, <2>1, <2>2 DEF Control, Advanced
  <2>3. pc' = "phase" => \A i \in 1..loop'.phase : InPhase(i) \subseteq Integrated'
    BY <1>3, <1>4, <2>2
  <2>4. pc' = "report" => Flagged' \/ loop'.cancelled
    BY <1>1, <1>4, <1>7
  <2> QED BY <1>1, <2>3, <2>4 DEF Advanced
<1>11. FailureKept'
  <2>1. failed => "failed" \in loop.errs
    BY <1>2, <1>3 DEF Control, FailureKept, Running
  <2>2. failed => pc' = "report"
    BY <1>1, <2>1 DEF Flagged
  <2>3. failed' = failed
    BY <1>1 DEF history
  <2> QED BY <1>4, <2>1, <2>2, <2>3 DEF FailureKept
<1>12. Flags'
  BY <1>1, <1>2, <1>4, <1>7 DEF Control, Flags, IsCanceled, record
<1>13. Counted' /\ Placed'
  BY <1>1, <1>3, <1>4, FS_EmptySet DEF Counted, Placed
<1>14. Queued' /\ Told' /\ Archived' /\ CursorTruthful'
  BY <1>1, <1>2, <1>3, <1>4 DEF Control, Queued, Told, Archived, CursorTruthful, record
<1>15. Control'
  BY <1>1, <1>10, <1>11, <1>12, <1>13, <1>14 DEF Control, Waiting
<1> QED BY <1>6, <1>8, <1>15, Parts

\* When the process is gone the batch is at rest.
LEMMA Down ==
  ASSUME IInv, pc' = "down", loop' = Idle, Running' = {}, settles' = <<>>,
         ~failed', Archived'
  PROVE  Control'
<1>1. \A p \in Plan : job'[p] = "off"
  BY DEF Running
<1>2. Queued' /\ Counted' /\ Placed' /\ Waiting' /\ Told'
  BY <1>1, FS_EmptySet DEF Queued, Counted, Placed, Waiting, Told, Idle
<1>3. Flags' /\ Advanced' /\ FailureKept' /\ CursorTruthful'
  BY DEF Flags, Advanced, FailureKept, CursorTruthful, IsCanceled, Idle
<1> QED BY <1>2, <1>3 DEF Control

\* Only a batch all of whose plans are integrated, or that has lost a plan
\* unit, is archived.
LEMMA ReportKeeps ==
  ASSUME IInv, Report
  PROVE  IInv'
<1>1. PICK o \in {"interrupted", "cost-capped", "failed", "needs-human", "completed"} : Exit(o)
  BY DEF Report
<1>2. /\ pc' = "down" /\ cap' = 0 /\ ctxDone' = FALSE /\ loop' = Idle
      /\ outcome' = o /\ before' = 0 /\ unchecked' = 0 /\ failed' = FALSE
      /\ UNCHANGED <<plan, left, units, bill, spend, job, out, settles, guard, iter, budget, earned>>
  BY <1>1 DEF Exit
<1>3. /\ pc = "report"
      /\ \/ archive' = archive /\ run'.here = run.here
         \/ ~IsCanceled /\ ~loop.costCapped /\ loop.errs = {} /\ archive' = "completed" /\ ~run'.here
      /\ run' \in [here : BOOLEAN, active : SUBSET Plan, costCapped : BOOLEAN, fatal : BOOLEAN]
      /\ archive' \in {"none", "completed"}
  BY Parts DEF Report, Typed
<1>4. Running = {} /\ Running' = {} /\ settles = <<>> /\ \A p \in Plan : job[p] = "off"
  BY <1>2, <1>3, AtRest DEF Running
<1>5. Integrated' = Integrated
  BY <1>2 DEF Integrated
<1>6. ~IsCanceled /\ ~loop.costCapped /\ loop.errs = {} /\ units = Plan => Plan \subseteq Integrated
  BY <1>3 DEF IInv, Control, Advanced, Flags, Flagged, IsCanceled
<1>7. Archived'
  BY <1>2, <1>3, <1>5, <1>6 DEF Archived, IInv, Control
<1>8. Control'
  BY <1>2, <1>4, <1>7, Down
<1>9. Trees'
  BY <1>2, <1>4, AsideTrees
<1>10. Idle \in Loops
  BY BatchAssumption DEF Idle, Loops
<1>11. Typed'
  <2>1. before' \in Int /\ Books'
    BY <1>2, Parts DEF Typed, Books, Bills
  <2> QED BY <1>2, <1>3, <1>10, <2>1, Parts DEF Typed
<1> QED BY <1>8, <1>9, <1>11, Parts

\* A crash takes the goroutines and the guards with it.
LEMMA CrashKeeps ==
  ASSUME IInv, Crash
  PROVE  IInv'
<1>1. /\ pc # "down" /\ pc' = "down" /\ cap' = 0 /\ ctxDone' = FALSE /\ loop' = Idle
      /\ job' = NoActive /\ settles' = <<>> /\ guard' = [p \in Plan |-> NoGuard]
      /\ iter' = NoIter
      /\ outcome' = "crash" /\ before' = 0 /\ unchecked' = 0 /\ failed' = FALSE
      /\ UNCHANGED <<record, out, earned>>
  BY DEF Crash
<1>2. Running' = {} /\ \A p \in Plan : job'[p] = "off"
  BY <1>1 DEF Running, NoActive
<1>3. Archived'
  BY <1>1 DEF Archived, IInv, Control, record
<1>4. Control'
  BY <1>1, <1>2, <1>3, Down
<1>5. Trees'
  <2>1. NoGuard \in [{} -> Nat]
    BY DEF NoGuard
  <2> QED BY <1>1, <1>2, <2>1, Parts DEF Trees, Guarded, ProgressStays, record
<1>6. Typed'
  <2>1. budget' \in Budgets
    BY BudgetType DEF Crash, IInv, Budgets
  <2>2. Idle \in Loops /\ NoActive \in [Plan -> JobStep]
    BY BatchAssumption DEF Idle, Loops, NoActive, JobStep
  <2>3. settles' \in Seq(Plan)
    BY <1>1
  <2>4. /\ plan' \in [Plan -> Status] /\ units' \subseteq Plan
        /\ run' \in [here : BOOLEAN, active : SUBSET Plan, costCapped : BOOLEAN, fatal : BOOLEAN]
        /\ archive' \in {"none", "completed"} /\ out' \in [Plan -> Outcome]
    BY <1>1, Parts DEF Typed, record
  <2>5. /\ pc' \in {"down", "phase", "loop", "report"} /\ cap' \in Nat /\ ctxDone' \in BOOLEAN
        /\ outcome' \in {"none", "interrupted", "cost-capped", "failed", "needs-human",
                         "completed", "crash"}
        /\ failed' \in BOOLEAN
    BY <1>1
  <2>8. before' \in Int
    BY <1>1
  <2>6. loop' \in Loops /\ job' \in [Plan -> JobStep]
    BY <1>1, <2>2
  <2>7. Books'
    BY <1>1, Parts DEF Typed, Books, Bills, NoIter, record
  <2> QED BY <2>1, <2>3, <2>4, <2>5, <2>6, <2>7, <2>8 DEF Typed
<1> QED BY <1>4, <1>5, <1>6, Parts

\* A signal changes the context only.
LEMMA InterruptKeeps ==
  ASSUME IInv, Interrupt
  PROVE  IInv'
<1>1. /\ ctxDone' = TRUE
      /\ UNCHANGED <<record, pc, cap, loop, job, out, settles, guard, iter, history>>
  BY DEF Interrupt
<1>2. Trees'
  BY <1>1, AsideTrees DEF record, history, tamperGuard, Concurrent, ParallelActive
<1>3. budget' \in Budgets
  BY BudgetType DEF Interrupt, IInv, Budgets
<1>4. Typed'
  BY <1>1, <1>3, Parts DEF Typed, Books, Bills, record, history
<1>5. Control'
  BY <1>1 DEF record, history, IInv, Control, Queued, Counted, Placed, Waiting, Told, Flags, Advanced,
              Archived, FailureKept, CursorTruthful, Running, Integrated, MaxInFlight,
              ParallelActive, Flagged, IsCanceled
<1> QED BY <1>2, <1>4, <1>5, Parts

\* A plan unit is removed between two starts.
LEMMA RemovePlanKeeps ==
  ASSUME IInv, NEW p \in Plan, RemovePlan(p)
  PROVE  IInv'
<1>1. /\ pc = "down" /\ run.here /\ units' = units \ {p} /\ plan' = [plan EXCEPT ![p] = "pending"]
      /\ UNCHANGED <<left, run, archive, bill, spend, pc, cap, ctxDone, loop, job, out, settles,
                     guard, iter, budget, history>>
  BY DEF RemovePlan
<1>2. Running = {} /\ Running' = {} /\ settles = <<>> /\ \A q \in Plan : job[q] = "off"
  BY <1>1, AtRest DEF Running
<1>3. loop = Idle /\ ~failed /\ archive # "completed"
  BY <1>1 DEF IInv, Control, Advanced, FailureKept, Archived
<1>4. Control'
  BY <1>1, <1>2, <1>3, Down DEF Archived, history
<1>5. Trees'
  BY <1>1, <1>2, AsideTrees DEF history
<1>6. Typed'
  BY <1>1, Parts DEF Typed, Books, Bills, Status, history
<1> QED BY <1>4, <1>5, <1>6, Parts

\* A step that changes nothing.
LEMMA StutterKeeps == IInv /\ UNCHANGED vars => IInv'
<1> SUFFICES ASSUME IInv, UNCHANGED vars PROVE IInv'
  OBVIOUS
<1>1. Control'
  BY DEF vars, record, history, IInv, Control, Queued, Counted, Placed, Waiting, Told, Flags, Advanced,
         Archived, FailureKept, CursorTruthful, Running, Integrated, MaxInFlight,
         ParallelActive, Flagged, IsCanceled
<1>2. Trees'
  BY AsideTrees DEF vars, record, history, tamperGuard, Concurrent, ParallelActive
<1>3. Typed'
  BY Parts DEF Typed, Books, Bills, vars, record, history
<1> QED BY <1>1, <1>2, <1>3, Parts

\* No step breaks the invariant.
LEMMA StepInv == IInv /\ [Next]_vars => IInv'
  BY StartKeeps, EnterPhaseKeeps, AllPhasesDoneKeeps, DispatchKeeps, ReceiveKeeps, EndPhaseKeeps,
     ReportKeeps, GoroutineKeeps, RemovePlanKeeps, TamperKeeps, InterruptKeeps, CrashKeeps,
     StutterKeeps DEF Next, Scheduler

\* The invariant holds in every reachable state of a batch.
LEMMA Invariance == Spec => []IInv
  BY InitInv, StepInv, PTL DEF Spec

----------------------------------------------------------------------------
(* The theorems.                                                           *)

\* Every reachable state of a batch has the declared types.
THEOREM TypeCorrect == Spec => []TypeOK
  BY Invariance, PTL DEF IInv

\* The phase barrier holds for any phases and slots: a plan in flight is one of
\* the current phase, and the phases behind it are integrated.
THEOREM PhaseBarrierHolds == Spec => []PhaseBarrier
<1>1. IInv => PhaseBarrier
  <2> SUFFICES ASSUME IInv, NEW p \in Running, NEW i \in 1..(loop.phase - 1), NEW q \in InPhase(i)
               PROVE  plan[q] = "integrated"
    BY DEF PhaseBarrier
  <2>1. pc = "loop"
    BY AtRest
  <2> QED BY <2>1 DEF IInv, Control, Advanced, Integrated
<1> QED BY <1>1, Invariance, PTL

\* run.json names the plans in flight, in whatever order they settle.
THEOREM CursorTruthfulHolds == Spec => []CursorTruthful
  BY Invariance, PTL DEF IInv, Control

\* A batch archived as completed has every plan integrated, however many starts
\* failed, paused, were interrupted or died on the way.
THEOREM ArchivedMeansIntegratedHolds == Spec => []ArchivedMeansIntegrated
<1>1. IInv => ArchivedMeansIntegrated
  BY DEF IInv, Control, Archived, ArchivedMeansIntegrated, Integrated
<1> QED BY <1>1, Invariance, PTL

\* A passed story is never taken back, whatever the agents of other plans edit
\* and whichever guards put their trees back.
THEOREM ProgressStaysHolds == Spec => []ProgressStays
  BY Invariance, PTL DEF IInv

\* A failure is reported as such unless the cost cap pauses the batch.
THEOREM FailureIsReportedHolds == Spec => FailureIsReported
<1> DEFINE A == pc = "report" /\ pc' = "down" /\ failed /\ ~ctxDone
                  => outcome' \in {"failed", "cost-capped", "crash"}
<1>1. IInv /\ [Next]_vars => [A]_vars
  <2> SUFFICES ASSUME IInv, Next, pc = "report", pc' = "down", failed, ~ctxDone
               PROVE  outcome' \in {"failed", "cost-capped", "crash"}
    OBVIOUS
  <2>1. "failed" \in loop.errs /\ ~IsCanceled
    <3>1. \A p \in Plan : job[p] # "sent"
      BY AtRest
    <3> QED BY <3>1 DEF IInv, Control, FailureKept, Flags
  <2>2. CASE Report
    BY <2>1, <2>2 DEF Report, Exit, HardFail
  <2>3. CASE Crash
    BY <2>3 DEF Crash
  <2>4. \A p \in Plan : ~Goroutine(p)
    BY AtRest DEF Goroutine, RunPlan, Snapshot, Restore, Iterate, IterateEnds, Gates, Integrate
  <2>5. \A p, q \in Plan : ~Tamper(p, q) /\ ~RemovePlan(p)
    BY AtRest DEF Tamper, RemovePlan
  <2>6. (\A c \in Caps : ~Start(c)) /\ ~EnterPhase /\ ~AllPhasesDone /\ ~Dispatch /\ ~Receive /\ ~EndPhase
    BY DEF Start, EnterPhase, AllPhasesDone, Dispatch, Receive, EndPhase
  <2>7. ~Interrupt
    BY DEF Interrupt
  <2> QED BY <2>2, <2>3, <2>4, <2>5, <2>6, <2>7 DEF Next, Scheduler
<1> QED BY <1>1, Invariance, PTL DEF Spec, FailureIsReported

----------------------------------------------------------------------------
(* The cost cap.  An iteration that ends at the cap or above it takes its  *)
(* goroutine off the loop, and its outcome, once received, ends the        *)
(* dispatch of others: so the slots of the phase pay for what is above,    *)
(* but for the iterations after which the cap was not looked at.           *)

\* The most one iteration costs, and what was spent or allowed before any went over.
Most == CHOOSE m \in Costs : \A c \in Costs : c <= m
Base == IF before >= cap THEN before ELSE cap - 1

\* The goroutines that may still run an iteration, and those that went over the cap and
\* have not been received.
Live == {p \in Plan : job[p] \notin {"off", "sent"}}
Over == {p \in Plan : job[p] = "sent" /\ out[p] = "cost-capped"}

\* While plans are still dispatched, the goroutines that went over pay for it; after that,
\* the slots without a goroutine that may still run one.
Bounded ==
  /\ pc = "down" => unchecked = 0
  /\ cap > 0 =>
       /\ pc = "phase" => spend <= Base + Most * unchecked
       /\ pc = "loop" =>
            /\ spend <= Base + Most * (MaxInFlight - Cardinality(Live) + unchecked)
            /\ ~loop.stop => spend <= Base + Most * (Cardinality(Over) + unchecked)

CInv == IInv /\ Bounded

\* An iteration costs no more than some cost does.
CostsBounded == \E m \in Costs : \A c \in Costs : c <= m

LEMMA MostIsMost == CostsBounded => Most \in Nat /\ \A c \in Costs : c <= Most
<1> SUFFICES ASSUME CostsBounded PROVE Most \in Nat /\ \A c \in Costs : c <= Most
  OBVIOUS
<1>1. Most \in Costs /\ \A c \in Costs : c <= Most
  BY DEF CostsBounded, Most
<1> QED BY <1>1, BatchAssumption

\* Products of a cost.
LEMMA Products ==
  ASSUME NEW m \in Nat, NEW a \in Int, NEW b \in Int, a <= b
  PROVE  /\ m * a \in Int /\ m * b \in Int /\ m * a <= m * b
         /\ m * (a + 1) = m * a + m /\ m * (b + 1) = m * b + m /\ m * 0 = 0
<1>1. b - a \in Nat /\ m * (b - a) \in Nat
  OBVIOUS
<1>2. m * b = m * a + m * (b - a)
  BY <1>1
<1> QED BY <1>1, <1>2

\* The two kinds of goroutines are among those in flight.
LEMMA Kinds ==
  ASSUME IInv
  PROVE  /\ IsFiniteSet(Live) /\ IsFiniteSet(Over)
         /\ Cardinality(Live) \in Nat /\ Cardinality(Over) \in Nat
         /\ Cardinality(Live) + Cardinality(Over) <= loop.inFlight
<1>1. IsFiniteSet(Running) /\ Cardinality(Running) = loop.inFlight
  BY DEF IInv, Control, Counted
<1>2. Live \cup Over \subseteq Running /\ Live \cap Over = {}
  BY DEF Live, Over, Running
<1>3. IsFiniteSet(Live) /\ IsFiniteSet(Over)
  BY <1>1, <1>2, FS_Subset
<1>4. Cardinality(Live \cup Over) = Cardinality(Live) + Cardinality(Over)
  <2>1. /\ Cardinality(Live \cup Over) =
             Cardinality(Live) + Cardinality(Over) - Cardinality(Live \cap Over)
    BY <1>3, FS_Union
  <2>2. Cardinality(Live \cap Over) = 0
    BY <1>2, FS_EmptySet
  <2> QED BY <1>3, <2>1, <2>2, FS_CardinalityType
<1>5. Cardinality(Live \cup Over) <= Cardinality(Running)
  BY <1>1, <1>2, FS_Subset
<1> QED BY <1>1, <1>3, <1>4, <1>5, FS_CardinalityType

\* So they fit in the slots.
Roomy ==
  /\ Cardinality(Live) \in Nat /\ Cardinality(Over) \in Nat
  /\ MaxInFlight \in Nat /\ MaxInFlight >= 1
  /\ pc = "loop" => Cardinality(Over) <= MaxInFlight - Cardinality(Live)

LEMMA Room == IInv => Roomy
<1> SUFFICES ASSUME IInv PROVE Roomy
  OBVIOUS
<1>1. pc = "loop" => loop.inFlight <= MaxInFlight
  BY DEF IInv, Control, Counted
<1>2. loop.inFlight \in Nat
  BY DEF IInv, TypeOK
<1> QED BY <1>1, <1>2, Kinds, Slots DEF Roomy

\* The same of the state a step leads to.
LEMMA RoomNext == IInv' => Roomy'
  BY Room, PTL

\* What the goroutines that went over may have spent, the slots have too.
LEMMA FromOver ==
  ASSUME CostsBounded, IInv', pc' = "loop",
         cap' > 0 => spend' <= Base' + Most * (Cardinality(Over)' + unchecked')
  PROVE  Bounded'
<1>1. Roomy' /\ unchecked' \in Nat
  BY RoomNext DEF IInv, TypeOK
<1> DEFINE o == Cardinality(Over)' + unchecked'
           l == MaxInFlight' - Cardinality(Live)' + unchecked'
<1>2. o \in Int /\ l \in Int /\ o <= l
  BY <1>1 DEF Roomy
<1>3. Most * o <= Most * l /\ Most * o \in Int /\ Most * l \in Int
  <2> HIDE DEF o, l
  <2> QED BY <1>2, MostIsMost, Products
<1>4. spend' \in Int /\ Base' \in Int
  BY DEF IInv, TypeOK, Base
<1> QED BY <1>3, <1>4 DEF Bounded

\* A start begins at what was spent; a phase with what its predecessor left.
LEMMA BoundedAtRest ==
  ASSUME CostsBounded, IInv', pc' = "loop", \A p \in Plan : job'[p] = "off",
         cap' > 0 => spend' <= Base' + Most * unchecked'
  PROVE  Bounded'
<1>1. Over' = {}
  BY DEF Over
<1>2. Cardinality(Over)' = 0 /\ unchecked' \in Nat
  BY <1>1, FS_EmptySet DEF IInv, TypeOK
<1> QED BY <1>2, FromOver

\* A step of a goroutine that costs no more than what is no longer checked for lets no
\* other spend more.
LEMMA FreeStep ==
  ASSUME CostsBounded, CInv, IInv', NEW p \in Plan, Goroutine(p),
         \/ spend' <= spend /\ unchecked' = unchecked
         \/ spend' <= spend + Most /\ unchecked' = unchecked + 1
  PROVE  Bounded'
<1>1. Moves(p) /\ TypeOK /\ pc = "loop"
  BY GoroutineMoves, AtRest DEF CInv, IInv, Moves
<1>2. /\ UNCHANGED <<cap, before, pc, loop>>
      /\ job[p] \notin {"off", "sent"} /\ \A q \in Plan \ {p} : job'[q] = job[q] /\ out'[q] = out[q]
  BY <1>1, MovesIntegrated DEF Moves, CInv, IInv, Control
<1>3. Live' \subseteq Live /\ Over \subseteq Over'
  BY <1>2 DEF Live, Over
<1>4. Roomy /\ Roomy'
  BY Room, RoomNext DEF CInv
<1>5. Cardinality(Live)' <= Cardinality(Live)
  BY <1>3, Kinds, FS_Subset DEF CInv
<1>6. Cardinality(Over) <= Cardinality(Over)'
  <2>1. IsFiniteSet(Running')
    BY DEF IInv, Control, Counted
  <2>2. Over' \subseteq Running'
    BY DEF Over, Running
  <2>3. IsFiniteSet(Over')
    BY <2>1, <2>2, FS_Subset
  <2> QED BY <1>3, <2>3, FS_Subset
<1>7. MaxInFlight' = MaxInFlight /\ Base' = Base
  BY <1>2 DEF MaxInFlight, ParallelActive, Base
<1> DEFINE a == MaxInFlight - Cardinality(Live) + unchecked
           b == MaxInFlight' - Cardinality(Live)' + unchecked'
           c == Cardinality(Over) + unchecked
           d == Cardinality(Over)' + unchecked'
<1>8. /\ a \in Int /\ b \in Int /\ c \in Int /\ d \in Int /\ a <= b /\ c <= d
      /\ unchecked' = unchecked + 1 => a + 1 <= b /\ c + 1 <= d
  <2>1. unchecked \in Nat /\ (unchecked' = unchecked \/ unchecked' = unchecked + 1)
    BY <1>1 DEF TypeOK
  <2>2. /\ Cardinality(Live) \in Nat /\ Cardinality(Live)' \in Nat /\ MaxInFlight \in Nat
        /\ Cardinality(Over) \in Nat /\ Cardinality(Over)' \in Nat
    BY <1>4 DEF Roomy
  <2> QED BY <1>5, <1>6, <1>7, <2>1, <2>2
<1>9. spend \in Int /\ spend' \in Int /\ Base \in Int /\ Most \in Nat
  BY <1>1, MostIsMost DEF TypeOK, Base, Moves, Books
<1>10. {Most * a, Most * b, Most * c, Most * d} \subseteq Int
  <2> HIDE DEF a, b, c, d
  <2> QED BY <1>8, <1>9, Products
<1>11. /\ spend' - spend <= Most * b - Most * a
       /\ spend' - spend <= Most * d - Most * c
  <2> HIDE DEF a, b, c, d
  <2>1. CASE spend' <= spend /\ unchecked' = unchecked
    <3>1. Most * a <= Most * b /\ Most * c <= Most * d
      BY <1>8, <1>9, Products
    <3> QED BY <1>9, <1>10, <2>1, <3>1
  <2>2. CASE spend' <= spend + Most /\ unchecked' = unchecked + 1
    <3>1. a + 1 \in Int /\ c + 1 \in Int /\ a + 1 <= b /\ c + 1 <= d
      BY <1>8, <2>2
    <3>2. Most * (a + 1) <= Most * b /\ Most * (c + 1) <= Most * d
      BY <1>8, <1>9, <3>1, Products
    <3>3. Most * (a + 1) = Most * a + Most /\ Most * (c + 1) = Most * c + Most
      BY <1>8, <1>9, Products
    <3> QED BY <1>9, <1>10, <2>2, <3>2, <3>3
  <2> QED BY <2>1, <2>2
<1>12. cap > 0 => spend <= Base + Most * a /\ (~loop.stop => spend <= Base + Most * c)
  BY <1>1 DEF CInv, Bounded
<1>13. cap > 0 => spend' <= Base + Most * b /\ (~loop.stop => spend' <= Base + Most * d)
  <2> HIDE DEF a, b, c, d
  <2> QED BY <1>9, <1>10, <1>11, <1>12
<1> QED BY <1>1, <1>2, <1>7, <1>13 DEF Bounded

\* An iteration that ends below the cap leaves all the room there was; one that does not
\* takes its goroutine with it; one after which the cap is not looked at is counted.
LEMMA IterateBounded ==
  ASSUME CostsBounded, CInv, IInv', NEW p \in Plan, Iterate(p)
  PROVE  Bounded'
<1>1. Moves(p) /\ TypeOK /\ pc = "loop" /\ Goroutine(p)
  BY GoroutineMoves, AtRest DEF CInv, IInv, Moves, Goroutine
<1>2. /\ UNCHANGED <<cap, before, pc, loop>>
      /\ job[p] \notin {"off", "sent"} /\ \A q \in Plan \ {p} : job'[q] = job[q] /\ out'[q] = out[q]
  BY <1>1, MovesIntegrated DEF Moves, CInv, IInv, Control
<1>3. Roomy /\ Roomy'
  BY Room, RoomNext DEF CInv
<1>4. MaxInFlight' = MaxInFlight /\ Base' = Base
  BY <1>2 DEF MaxInFlight, ParallelActive, Base
<1>5. /\ spend \in Int /\ spend' \in Int /\ Base \in Int /\ cap \in Nat /\ Most \in Nat
      /\ unchecked \in Nat /\ unchecked' \in Nat
  BY <1>1, MostIsMost DEF TypeOK, Base, Moves, Books
<1>6. PICK f \in Fates :
        /\ spend' <= spend + f.cost
        /\ unchecked' = IF Broken(f) \/ ~f.read THEN unchecked + 1 ELSE unchecked
        /\ \/ ~Broken(f) /\ Capped(f) /\ Settle(p, "interrupted", "cost-capped")
           \/ Broken(f)
           \/ ~Broken(f) /\ ~Capped(f)
  BY <1>1, IterateDoes DEF TypeOK, Bills
<1>7. spend' <= spend + Most
  <2>1. f.cost \in Costs
    BY DEF Fates
  <2>2. f.cost <= Most /\ f.cost \in Nat
    BY <2>1, MostIsMost, BatchAssumption
  <2> QED BY <1>5, <1>6, <2>2
<1>8. CASE Broken(f) \/ ~f.read
  BY <1>1, <1>6, <1>7, <1>8, FreeStep
<1>9. CASE ~Broken(f) /\ f.read /\ ~CapHit(spend')
  <2>1. cap > 0 => spend' <= Base'
    BY <1>2, <1>4, <1>5, <1>9 DEF CapHit, Base, TypeOK
  <2> DEFINE o == Cardinality(Over)' + unchecked'
  <2>2. 0 \in Int /\ o \in Int /\ 0 <= o
    BY <1>3, <1>5 DEF Roomy
  <2>3. Most * 0 <= Most * o /\ Most * 0 = 0 /\ Most * o \in Int
    <3> HIDE DEF o
    <3> QED BY <1>5, <2>2, Products
  <2>4. cap' > 0 => spend' <= Base' + Most * (Cardinality(Over)' + unchecked')
    BY <1>2, <1>4, <1>5, <2>1, <2>3
  <2> QED BY <1>1, <1>2, <2>4, FromOver
<1>10. CASE ~Broken(f) /\ f.read /\ CapHit(spend')
  <2>1. Settle(p, "interrupted", "cost-capped") /\ unchecked' = unchecked
    BY <1>6, <1>10 DEF Capped
  <2>2. job'[p] = "sent" /\ out'[p] = "cost-capped"
    BY <1>1, <2>1 DEF Settle, TypeOK
  <2>3. Live' = Live \ {p} /\ p \in Live /\ Over' = Over \cup {p} /\ p \notin Over
    BY <1>2, <2>2 DEF Live, Over
  <2>4. Cardinality(Live)' = Cardinality(Live) - 1 /\ Cardinality(Over)' = Cardinality(Over) + 1
    BY <2>3, Kinds, FS_RemoveElement, FS_AddElement DEF CInv
  <2> DEFINE a == MaxInFlight - Cardinality(Live) + unchecked
             c == Cardinality(Over) + unchecked
  <2>5. /\ a \in Int /\ c \in Int
        /\ MaxInFlight' - Cardinality(Live)' + unchecked' = a + 1
        /\ Cardinality(Over)' + unchecked' = c + 1
    BY <1>3, <1>4, <1>5, <2>1, <2>4 DEF Roomy
  <2>6. /\ Most * (a + 1) = Most * a + Most /\ Most * (c + 1) = Most * c + Most
        /\ Most * a \in Int /\ Most * c \in Int
    <3> HIDE DEF a, c
    <3> QED BY <1>5, <2>5, Products
  <2>7. cap > 0 => /\ spend <= Base + Most * a
                   /\ ~loop.stop => spend <= Base + Most * c
    BY <1>1 DEF CInv, Bounded
  <2> HIDE DEF a, c
  <2> QED BY <1>1, <1>2, <1>4, <1>5, <1>7, <2>5, <2>6, <2>7 DEF Bounded
<1> QED BY <1>8, <1>9, <1>10

\* A slot that is filled was free, and the dispatch goes on.
LEMMA DispatchBounded ==
  ASSUME CostsBounded, CInv, IInv', Dispatch
  PROVE  Bounded'
<1>1. PICK p \in FirstPending :
        /\ job' = [job EXCEPT ![p] = "start"]
        /\ loop' = [loop EXCEPT !.pending = @ \ {p}, !.begun = TRUE, !.inFlight = @ + 1]
  BY DEF Dispatch
<1>2. pc = "loop" /\ ~loop.stop /\ UNCHANGED <<cap, before, unchecked, pc, spend, out>>
  BY DEF Dispatch, CanDispatch, history
<1>3. TypeOK /\ Control
  BY DEF CInv, IInv
<1>4. p \in Plan /\ p \notin Running
  BY <1>1, <1>2, <1>3 DEF FirstPending, TypeOK, Control, Placed
<1>5. Over' = Over
  BY <1>1, <1>2, <1>3, <1>4 DEF Over, Running, TypeOK
<1>6. cap' > 0 => spend' <= Base' + Most * (Cardinality(Over)' + unchecked')
  BY <1>2, <1>5 DEF CInv, Bounded, Base
<1> QED BY <1>2, <1>6, FromOver

\* A goroutine that went over, once received, ends the dispatch.
LEMMA ReceiveBounded ==
  ASSUME CostsBounded, CInv, IInv', Receive
  PROVE  Bounded'
<1> DEFINE p == Head(settles)
           o == out[p]
<1>1. /\ pc = "loop" /\ loop.inFlight > 0 /\ settles # <<>>
      /\ job' = [job EXCEPT ![p] = "off"] /\ loop' = Settled(o)
      /\ UNCHANGED <<cap, before, unchecked, pc, spend, out>>
  BY DEF Receive, history
<1>2. TypeOK /\ Control /\ loop \in Loops
  BY DEF CInv, IInv, TypeOK, Loops
<1>3. settles \in Seq(Plan) /\ p = settles[1] /\ 1 \in 1..Len(settles)
  BY <1>1, <1>2 DEF TypeOK
<1>4. p \in Plan /\ job[p] = "sent" /\ o \in Outcome
  BY <1>2, <1>3 DEF TypeOK, Control, Queued
<1> HIDE DEF p, o
<1>5. loop'.phase = loop.phase
  BY <1>1, <1>2, <1>4, SettledFlags
<1>6. loop'.stop = FALSE => loop.stop = FALSE /\ o # "cost-capped"
  BY <1>1, <1>2, <1>4 DEF Settled, Loops, Outcome
<1>7. Live' = Live
  BY <1>1, <1>2, <1>4 DEF Live, TypeOK
<1>8. o # "cost-capped" => Over' = Over
  BY <1>1, <1>2, <1>4 DEF Over, TypeOK, o
<1>9. MaxInFlight' = MaxInFlight /\ Base' = Base
  BY <1>1, <1>5 DEF MaxInFlight, ParallelActive, Base
<1>10. loop'.stop \in BOOLEAN /\ loop.stop \in BOOLEAN
  BY <1>2 DEF IInv, TypeOK, Loops
<1> QED BY <1>1, <1>6, <1>7, <1>8, <1>9, <1>10 DEF CInv, Bounded

\* No step lets a batch spend more than that.
LEMMA StepBounded == ASSUME CostsBounded, CInv, IInv', [Next]_vars PROVE Bounded'
<1>1. ASSUME NEW c \in Caps, Start(c) PROVE Bounded'
  <2>1. /\ pc' = "phase" /\ cap' = c /\ before' = spend /\ spend' = spend /\ unchecked' = 0
        /\ spend \in Int /\ c \in Nat
    BY <1>1, BatchAssumption DEF Start, CInv, Bounded, IInv, TypeOK
  <2>2. Most * 0 = 0
    BY MostIsMost
  <2> QED BY <2>1, <2>2 DEF Bounded, Base
<1>2. CASE EnterPhase
  <2>1. /\ pc = "phase" /\ pc' = "loop" /\ UNCHANGED <<cap, before, unchecked, spend, job>>
    BY <1>2 DEF EnterPhase, record, history
  <2>2. \A p \in Plan : job'[p] = "off"
    BY <2>1, AtRest DEF CInv
  <2>3. cap' > 0 => spend' <= Base' + Most * unchecked'
    BY <2>1 DEF CInv, Bounded, Base
  <2> QED BY <2>1, <2>2, <2>3, BoundedAtRest
<1>3. CASE EndPhase
  <2>1. /\ pc = "loop" /\ loop.inFlight = 0 /\ UNCHANGED <<cap, before, unchecked, spend>>
        /\ pc' = IF Flagged \/ ctxDone THEN "report" ELSE "phase"
    BY <1>3 DEF EndPhase, record, history
  <2>2. Cardinality(Over) = 0
    BY <2>1, Kinds DEF CInv
  <2>3. Cardinality(Over) + unchecked = unchecked
    BY <2>2 DEF CInv, IInv, TypeOK
  <2>4. pc' = "phase" => ~loop.stop
    BY <2>1 DEF CInv, IInv, Control, Flags
  <2>5. spend \in Int /\ Base \in Int /\ Base' = Base
    BY <2>1 DEF CInv, IInv, TypeOK, Base
  <2> QED BY <2>1, <2>2, <2>3, <2>4, <2>5 DEF CInv, Bounded
<1>4. ASSUME NEW p \in Plan, Goroutine(p) PROVE Bounded'
  <2>1. CASE Iterate(p)
    BY <2>1, IterateBounded
  <2>2. CASE ~Iterate(p)
    <3>1. UNCHANGED <<spend, unchecked>> /\ spend \in Int
      BY <1>4, <2>2 DEF Goroutine, RunPlan, Snapshot, Restore, IterateEnds, Gates, Integrate, record,
                        history, CInv, IInv, TypeOK
    <3> QED BY <1>4, <3>1, FreeStep
  <2> QED BY <2>1, <2>2
<1>5. CASE Dispatch \/ Receive
  BY <1>5, DispatchBounded, ReceiveBounded
<1>6. CASE pc' \in {"down", "report"} /\ (pc' = "down" => unchecked' = 0)
  BY <1>6 DEF Bounded
<1>7. CASE UNCHANGED <<cap, before, unchecked, pc, spend, loop, job, out>>
  BY <1>7 DEF CInv, Bounded, Base, Live, Over, MaxInFlight, ParallelActive
<1>8. AllPhasesDone \/ Report \/ Crash =>
        pc' \in {"down", "report"} /\ (pc' = "down" => unchecked' = 0)
  BY DEF AllPhasesDone, Report, Crash, Exit
<1>9. ASSUME NEW p \in Plan, NEW q \in Plan, Tamper(p, q) \/ RemovePlan(p) PROVE Bounded'
  BY <1>7, <1>9 DEF Tamper, RemovePlan, history
<1>10. Interrupt \/ UNCHANGED vars => UNCHANGED <<cap, before, unchecked, pc, spend, loop, job, out>>
  BY DEF Interrupt, vars, record, history
<1> QED BY <1>1, <1>2, <1>3, <1>4, <1>5, <1>6, <1>7, <1>8, <1>9, <1>10 DEF Next, Scheduler

\* The cap is a cap on what is on record, for any cap, slots, phases and costs, whatever is
\* overwritten, as long as an iteration has a most it may cost: each slot lets one iteration
\* past it, no slot a second one, and on top come those after which it was not looked at.
THEOREM CapOvershootHolds ==
  ASSUME CostsBounded
  PROVE  Spec => []CapOvershoot
<1>1. CInv => CapOvershoot
  <2> SUFFICES ASSUME CInv, cap > 0, pc = "loop"
               PROVE  spend <= Base + (MaxInFlight + unchecked) * Most
    BY DEF CapOvershoot, Base, Most
  <2> DEFINE a == MaxInFlight - Cardinality(Live) + unchecked
             b == MaxInFlight + unchecked
  <2>1. a \in Int /\ b \in Int /\ a <= b
    <3>1. Cardinality(Live) \in Nat /\ MaxInFlight \in Nat /\ unchecked \in Nat
      BY Room DEF CInv, Roomy, IInv, TypeOK
    <3> QED BY <3>1
  <2>2. Most * a <= Most * b /\ Most * a \in Int /\ Most * b \in Int /\ Most * b = b * Most
    <3> HIDE DEF a, b
    <3> QED BY <2>1, MostIsMost, Products
  <2>3. spend \in Int /\ Base \in Int /\ spend <= Base + Most * a
    BY DEF CInv, Bounded, IInv, TypeOK, Base
  <2> HIDE DEF a
  <2> QED BY <2>2, <2>3
<1>2. Init => CInv
  BY InitInv DEF Init, CInv, Bounded
<1>3. CInv /\ [Next]_vars => CInv'
  BY StepInv, StepBounded DEF CInv
<1>4. Spec => []CInv
  BY <1>2, <1>3, PTL DEF Spec
<1> QED BY <1>1, <1>4, PTL

----------------------------------------------------------------------------
(* BatchExec implements PlanOrder.                                          *)

\* A plan that is dispatched has everything behind it
\* done, and beside it only plans of its own parallel phase.
LEMMA DispatchOrdered == ASSUME IInv, Dispatch PROVE \E p \in Plan : Order!Run(p)
<1>1. PICK p \in FirstPending : job' = [job EXCEPT ![p] = "start"]
  BY DEF Dispatch
<1>2. /\ pc = "loop" /\ pc' = "loop" /\ loop.inFlight < MaxInFlight
      /\ UNCHANGED plan
  BY DEF Dispatch, CanDispatch
<1>3. p \in Plan /\ p \in loop.pending /\ p \in InPhase(loop.phase) \ Integrated
  BY <1>2 DEF FirstPending, IInv, TypeOK, Control, Waiting
<1>4. p \notin Running /\ Running' = Running \cup {p}
  BY <1>1, <1>3 DEF IInv, TypeOK, Control, Placed, Running
<1>5. loop.phase \in PhaseIndex /\ loop.inFlight = Cardinality(Running) /\ loop.inFlight \in Nat
  BY <1>2 DEF IInv, TypeOK, Control, Counted
<1>6. Behind(p) \subseteq Integrated
  <2> SUFFICES ASSUME NEW i \in PhaseIndex, \A k \in 1..i : p \notin InPhase(k)
               PROVE  InPhase(i) \subseteq Integrated
    BY DEF Behind
  <2>1. i < loop.phase
    BY <1>3, <1>5 DEF PhaseIndex
  <2>2. i \in 1..(loop.phase - 1)
    BY <1>5, <2>1 DEF PhaseIndex
  <2> QED BY <1>2, <2>2 DEF IInv, Control, Advanced
<1>7. Running' \in PhaseCrews(loop.phase)
  <2>1. IsFiniteSet(Running)
    BY DEF IInv, Control, Counted
  <2>2. Cardinality(Running') = loop.inFlight + 1
    BY <1>4, <1>5, <2>1, FS_AddElement
  <2>3. Cardinality(Running') <= MaxInFlight
    BY <1>2, <1>5, <2>2, Slots
  <2>4. Running' \subseteq InPhase(loop.phase)
    BY <1>3, <1>4 DEF IInv, Control, Placed
  <2> QED BY <2>3, <2>4 DEF PhaseCrews, MaxInFlight, ParallelActive
<1>8. Running' \in UNION {PhaseCrews(i) : i \in PhaseIndex}
  BY <1>5, <1>7
<1>9. Order!Run(p)
  BY <1>2, <1>3, <1>4, <1>6, <1>8 DEF Order!Run, Integrated
<1> QED BY <1>3, <1>9

\* Every step is one of PlanOrder, or changes nothing it speaks of.
LEMMA OrderStep == ASSUME IInv, [Next]_vars PROVE [Order!Next]_(Order!vars)
<1> SUFFICES Order!Next \/ UNCHANGED Order!vars
  OBVIOUS
<1> USE DEF Order!Next
<1>t. TypeOK /\ Control /\ job \in [Plan -> JobStep]
  BY DEF IInv, TypeOK
<1>1. ASSUME NEW c \in Caps, Start(c) PROVE Order!Begin
  BY <1>1 DEF Start, Order!Begin, Running
<1>2. CASE Dispatch
  BY <1>2, DispatchOrdered
<1>3. CASE Receive
  <2>1. Running' \subseteq Running
    BY <1>3, <1>t DEF Receive, Running
  <2>2. pc = "loop" /\ UNCHANGED <<pc, plan>>
    BY <1>3 DEF Receive
  <2> QED BY <2>1, <2>2 DEF Order!Stop, Order!Over
<1>4. CASE Report
  <2>1. pc = "report" /\ UNCHANGED <<plan, job>>
    BY <1>4 DEF Report, Exit
  <2>2. Running = {} /\ Running' = {}
    BY <1>t, <2>1, NoneRunning DEF Control, Counted, Running
  <2> QED BY <2>1, <2>2 DEF Order!Stop, Order!Over
<1>5. CASE Crash
  <2>1. Running' = {} /\ pc # "down" /\ UNCHANGED plan
    BY <1>5 DEF Crash, record, Running, NoActive
  <2> QED BY <2>1 DEF Order!Stop, Order!Over
<1>6. ASSUME NEW p \in Plan, Goroutine(p) PROVE Order!Next \/ UNCHANGED Order!vars
  <2>1. Moves(p) /\ UNCHANGED pc
    BY <1>6, GoroutineMoves DEF Moves
  <2>2. /\ Running' = Running /\ p \in Running
        /\ Integrated \subseteq Integrated' /\ Integrated' \subseteq Integrated \cup {p}
    BY <1>t, <2>1, MovesRunning, MovesIntegrated DEF Control
  <2>3. pc = "loop"
    BY <1>t, <2>2, NoneRunning DEF Control, Counted
  <2>4. CASE Integrated' = Integrated
    BY <2>1, <2>2, <2>4 DEF Order!vars, Integrated
  <2>5. CASE Integrated' = Integrated \cup {p}
    BY <2>1, <2>2, <2>3, <2>5 DEF Order!Finish, Order!Over, Integrated
  <2> QED BY <2>2, <2>4, <2>5
<1>7. ASSUME NEW p \in Plan, RemovePlan(p) PROVE Order!Operate
  <2>1. pc = "down" /\ UNCHANGED <<pc, job>> /\ Integrated' \subseteq Integrated
    BY <1>t, <1>7 DEF RemovePlan, Integrated, TypeOK
  <2>2. Running' = Running
    BY <2>1 DEF Running
  <2>3. [q \in Plan |-> Behind(q)] \in [Plan -> SUBSET Plan]
    BY PhasePlans DEF Behind
  <2> QED BY <2>1, <2>2, <2>3 DEF Order!Operate, Integrated
<1>8. CASE UNCHANGED <<plan, job>> /\ (pc # "down" <=> pc' # "down")
  BY <1>8 DEF Order!vars, Running
<1>9. EnterPhase \/ AllPhasesDone \/ EndPhase \/ Interrupt \/ (\E p, q \in Plan : Tamper(p, q)) \/ UNCHANGED vars
        => UNCHANGED <<plan, job>> /\ (pc # "down" <=> pc' # "down")
  BY DEF EnterPhase, AllPhasesDone, EndPhase, Interrupt, Tamper, record, vars
<1> QED BY <1>1, <1>2, <1>3, <1>4, <1>5, <1>6, <1>7, <1>8, <1>9 DEF Next, Scheduler

\* A batch implements the order of plans (module PlanOrder), for any phases and slots, and
\* whatever fails, dies, is interrupted, tampered with or removed.
THEOREM BatchKeepsOrder == Spec => KeepsOrder
<1>1. Init => Order!Init
  <2> SUFFICES ASSUME Init PROVE Order!Init
    OBVIOUS
  <2>1. [p \in Plan |-> Behind(p)] \in [Plan -> SUBSET Plan]
    BY PhasePlans DEF Behind
  <2> QED BY <2>1 DEF Init, Order!Init, Running, NoActive
<1>2. IInv /\ [Next]_vars => [Order!Next]_(Order!vars)
  BY OrderStep
<1> QED BY <1>1, <1>2, Invariance, PTL DEF Spec, KeepsOrder, Order!Spec
=============================================================================

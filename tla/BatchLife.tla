----------------------------- MODULE BatchLife -----------------------------
(***************************************************************************)
(* The life of the batches of a project: compiled by `plan` (new,          *)
(* --replace, --append), run by `start`, archived by it (FinalizeBatch),   *)
(* given up by `batch abort`, cleaned up as an orphan by `start` or        *)
(* `recover`.                                                              *)
(*                                                                         *)
(* No two of the files involved change together.  A command reads them     *)
(* once, as it begins, and then goes through steps that each write one     *)
(* file or remove one tree; it may die between any two, and a step may     *)
(* fail.  `start` holds a lock against other starts; the other commands    *)
(* take none, and only refuse when state.json says that a plan is running. *)
(*                                                                         *)
(* What is abstract: a plan as compiled from one envelope is a ticket      *)
(* <<plan, envelope>>; the plans of a batch run one after the other        *)
(* (module BatchExec has the scheduler), SinglePlan is one step (PlanRun), *)
(* so is the integration (PlanMerge); an interrupted, failed or reviewed   *)
(* plan is "stopped"; of evidence it matters which envelope's run left it. *)
(* A start without an active batch (the queue of single plans) is left     *)
(* out, and so are cost, branch mode and worktrees.                        *)
(*                                                                         *)
(* Bounds: the envelopes compiled are those of Envelopes, in that order,   *)
(* and MaxTrouble things of the given Kinds go wrong.                      *)
(***************************************************************************)
EXTENDS Integers, Sequences, FiniteSets

CONSTANTS Plan,       \* plan IDs
          Batch,      \* batch IDs
          Envelopes,  \* the envelopes the operator compiles: [title, plans]
          Commands,   \* the commands he uses
          Kinds,      \* the kinds of trouble that may happen
          MaxTrouble,
          Troubled,   \* the commands it may happen to
          Live        \* the commands that may go on while a start runs

Operated == {"plan", "replace", "append", "abort", "recover"}
Trouble ==
  {"crash", "plan", "archive", "relocate", "remove", "batch", "config", "state", "run"}
Cmd == {"none", "plan", "replace", "append", "abort", "recover", "exec", "finalize", "fallback"}

Gen == 1..Len(Envelopes)
Ticket == Plan \X Gen
PlansOf(work) == {work[i][1] : i \in DOMAIN work}
Tickets(work) == {work[i] : i \in DOMAIN work}

\* An envelope has plans, and each of them once (Validate).
ASSUME LifeAssumption ==
  /\ Envelopes \in Seq([title : Batch, plans : Seq(Plan)])
  /\ \A g \in Gen : Envelopes[g].plans # <<>>
  /\ \A g \in Gen : \A i, j \in DOMAIN Envelopes[g].plans :
       Envelopes[g].plans[i] = Envelopes[g].plans[j] => i = j
  /\ "none" \notin Plan \cup Batch
  /\ Commands \subseteq Operated /\ Kinds \subseteq Trouble /\ MaxTrouble \in Nat
  /\ Troubled \subseteq Cmd /\ Live \subseteq Commands

VARIABLES
  run,       \* run.json: the active batch, "none" when the file is not there
  dir,       \* batch.json of each batch: its tickets in order, <<>> when it is not there
  units,     \* config.json: the order of each registered plan unit, 0 for the others
  prd,       \* the envelope each plan's prd.json was written from, 0 when it is not there
  state,     \* state.json: the status of each plan
  stable,    \* archive/<id>.json
  siblings,  \* archive/<id>.<time>.<reason>.json
  evidence,  \* execution/plans/<plan>: the envelope of the last run in it, 0 for none
  shelf,     \* archive/<id>/plans/<plan>: the evidence moved there
  pc,        \* the next step of the running start and of the running command
  mem,       \* what each of them has in memory
  trouble,   \* how much has gone wrong
  compiled,  \* how many envelopes have been compiled
  \* History, read by no action:
  worked,    \* the tickets SinglePlan has completed
  born       \* the batches that have been active

files   == <<run, dir, units, prd, state>>
guarded == <<run, dir, prd>>
archive == <<stable, siblings, evidence, shelf>>
history == <<worked, born>>
vars == <<files, archive, pc, mem, trouble, compiled, history>>

----------------------------------------------------------------------------
Actor == {"start", "command"}
Status == {"none", "running", "stopped", "completed", "integrated"}

\* An archive entry, and the tickets of the batch it closes; a `rich` one names
\* them.  The exclusive create leaves an empty file that the rename replaces.
Entry == [id : Batch, work : SUBSET Ticket,
          reason : {"replaced", "aborted", "orphaned", "completed"}, rich : BOOLEAN]
NoEntry == [reason |-> "none"]
Empty   == [reason |-> "empty"]

\* What an actor read, or decided, as it began: the batch it is about and its
\* tickets, the envelope it compiles, config.json and state.json, and the
\* batch.json it overwrites.  `now` is the plan a start is working on, `seen` its
\* tamper guard's snapshot of run.json and of .springfield/plans.
NoMem == [cmd |-> "none", id |-> "none", work |-> <<>>, gen |-> 0,
          units |-> [p \in Plan |-> 0], state |-> [p \in Plan |-> "none"],
          prior |-> <<>>, now |-> "none", seen |-> <<>>]

Init ==
  /\ run = "none" /\ dir = [b \in Batch |-> <<>>]
  /\ units = [p \in Plan |-> 0] /\ prd = [p \in Plan |-> 0]
  /\ state = [p \in Plan |-> "none"]
  /\ stable = [b \in Batch |-> NoEntry] /\ siblings = {}
  /\ evidence = [p \in Plan |-> 0] /\ shelf = {}
  /\ pc = [a \in Actor |-> "idle"] /\ mem = [a \in Actor |-> NoMem]
  /\ trouble = 0 /\ compiled = 0 /\ worked = {} /\ born = {}

----------------------------------------------------------------------------
(* The order of the steps of each command, as the step that follows each.  *)

CompileAfter == [write |-> "prds", prds |-> "register", register |-> "cursor", cursor |-> "idle"]

\* ArchiveBatchNormalized and ClearRun, then the new batch.
ReplaceAfter ==
  [create |-> "fill", fill |-> "rmdir", rmdir |-> "reap", reap |-> "clear", clear |-> "write",
   write |-> "prds", prds |-> "register", register |-> "cursor", cursor |-> "idle"]

\* Mutant: the batch directory goes before the archive entry is written.
AbortAfter_RemovesFirst ==
  [create |-> "rmdir", rmdir |-> "fill", fill |-> "reap", reap |-> "clear",
   clear |-> "register", register |-> "idle"]

AbortAfter ==
  [create |-> "fill", fill |-> "rmdir", rmdir |-> "reap", reap |-> "clear",
   clear |-> "register", register |-> "idle"]

OrphanAfter ==
  [create |-> "fill", fill |-> "rmdir", rmdir |-> "wipe", wipe |-> "clear", clear |-> "idle"]

FinalizeAfter ==
  [create |-> "fill", fill |-> "relocate", relocate |-> "rmdir", rmdir |-> "register",
   register |-> "flush", flush |-> "clear", clear |-> "idle"]

\* The completion path when the project cannot be loaded.
FallbackAfter ==
  [create |-> "fill", fill |-> "rmdir", rmdir |-> "reap", reap |-> "clear", clear |-> "idle"]

After ==
  [plan |-> CompileAfter, append |-> CompileAfter, replace |-> ReplaceAfter,
   abort |-> AbortAfter, recover |-> OrphanAfter, finalize |-> FinalizeAfter,
   fallback |-> FallbackAfter]

Steps == {"idle", "exec", "create", "fill", "relocate", "rmdir", "reap", "wipe", "register",
          "flush", "clear", "write", "prds", "cursor"}

Idle(a) == pc[a] = "idle"

\* The actor a goes to the step s with m in memory; a process that ends has none.
Goto(a, s, m) ==
  pc' = [pc EXCEPT ![a] = s] /\ mem' = [mem EXCEPT ![a] = IF s = "idle" THEN NoMem ELSE m]
Advance(a) == Goto(a, After[mem[a].cmd][pc[a]], mem[a])
Quit(a) == Goto(a, "idle", NoMem)

\* Something of that kind goes wrong for a, as often as the bound allows.
Fails(a, kind) ==
  /\ kind \in Kinds /\ mem[a].cmd \in Troubled
  /\ trouble < MaxTrouble /\ trouble' = trouble + 1
Calm == UNCHANGED trouble

----------------------------------------------------------------------------
(* What the commands read and check as they begin.                         *)

\* There is an active batch and its batch.json is there.
Readable == run # "none" /\ dir[run] # <<>>
Running == {p \in Plan : state[p] = "running"}
NewPlans(g) == {Envelopes[g].plans[i] : i \in DOMAIN Envelopes[g].plans}

\* The tickets of the envelope g, in its order.
Body(g) == [i \in DOMAIN Envelopes[g].plans |-> <<Envelopes[g].plans[i], g>>]

Now(cmd, g) ==
  [cmd |-> cmd, id |-> run, work |-> IF run = "none" THEN <<>> ELSE dir[run], gen |-> g,
   units |-> units, state |-> state, prior |-> <<>>, now |-> "none", seen |-> <<>>]

May(c) == c \in Commands /\ Idle("command") /\ (c \in Live \/ Idle("start"))
MayStart == Idle("start") /\ (Idle("command") \/ mem["command"].cmd \in Live)
MayCompile(c) == May(c) /\ compiled < Len(Envelopes) /\ compiled' = compiled + 1

\* Without a readable active batch `plan` compiles a new one, with --replace too.
PlanNew ==
  /\ MayCompile("plan") /\ ~Readable
  /\ Goto("command", "write",
          [Now("plan", compiled + 1) EXCEPT !.id = Envelopes[compiled + 1].title])
  /\ UNCHANGED <<files, archive, trouble, history>>

\* --replace refuses when it would remove a running plan.
PlanReplace ==
  /\ MayCompile("replace") /\ Readable
  /\ Running \subseteq NewPlans(compiled + 1)
  /\ Goto("command", "create", Now("replace", compiled + 1))
  /\ UNCHANGED <<files, archive, trouble, history>>

\* --append refuses while a plan runs, and a plan ID the batch has.
PlanAppend ==
  /\ MayCompile("append") /\ Readable
  /\ Running = {} /\ NewPlans(compiled + 1) \cap PlansOf(dir[run]) = {}
  /\ Goto("command", "write", Now("append", compiled + 1))
  /\ UNCHANGED <<files, archive, trouble, history>>

\* Mutant: the teardown without the archive entry.
BatchAbort_NoArchive ==
  /\ May("abort") /\ Readable
  /\ Running \cap PlansOf(dir[run]) = {}
  /\ Goto("command", "rmdir", Now("abort", 0))
  /\ UNCHANGED <<files, archive, trouble, compiled, history>>

\* batch abort refuses while a plan of the batch runs.
BatchAbort ==
  /\ May("abort") /\ Readable
  /\ Running \cap PlansOf(dir[run]) = {}
  /\ Goto("command", "create", Now("abort", 0))
  /\ UNCHANGED <<files, archive, trouble, compiled, history>>

\* LoadProject: every registered plan has its prd.json.
Valid(u) == \A p \in Plan : u[p] # 0 => prd[p] # 0

\* recover without --plan: an orphan is archived; otherwise, unless a start
\* holds the lock, running plans are marked interrupted.
RecoverOrphan ==
  /\ May("recover") /\ run # "none" /\ ~Readable
  /\ Goto("command", "create", Now("recover", 0))
  /\ UNCHANGED <<files, archive, trouble, compiled, history>>

RecoverStale ==
  /\ May("recover") /\ Readable /\ Idle("start") /\ Valid(units) /\ Running # {}
  /\ state' = [p \in Plan |-> IF p \in Running THEN "stopped" ELSE state[p]]
  /\ UNCHANGED <<run, dir, units, prd, archive, pc, mem, trouble, compiled, history>>

----------------------------------------------------------------------------
(* The archive entry.                                                      *)

Reason == [replace |-> "replaced", abort |-> "aborted", recover |-> "orphaned",
           finalize |-> "completed", fallback |-> "completed"]

EntryOf(m) == [id |-> m.id, work |-> Tickets(m.work), reason |-> Reason[m.cmd],
               rich |-> m.cmd = "finalize"]

\* No entry could be written: the completion path goes on to ClearRun, the
\* other commands return the error.
GivesUp(a) ==
  IF mem[a].cmd \in {"finalize", "fallback"}
  THEN Goto(a, "clear", mem[a])
  ELSE Quit(a)

\* maybeWriteArchiveSibling: the same reason is a re-archive, which at most adds
\* the per-plan records; a distinct reason, or a file that cannot be decoded,
\* makes a sibling.
Collide(m) ==
  IF stable[m.id].reason = Reason[m.cmd]
  THEN /\ stable' = IF m.cmd = "finalize" /\ ~stable[m.id].rich
                    THEN [stable EXCEPT ![m.id] = EntryOf(m)] ELSE stable
       /\ UNCHANGED siblings
  ELSE siblings' = siblings \cup {EntryOf(m)} /\ UNCHANGED stable

\* Mutant: the create is not exclusive.
Create_NotExclusive(a) ==
  /\ pc[a] = "create"
  /\ Calm /\ stable' = [stable EXCEPT ![mem[a].id] = Empty] /\ UNCHANGED siblings
  /\ Advance(a)
  /\ UNCHANGED <<files, evidence, shelf, compiled, history>>

\* writeJSONExclusive, the O_EXCL create; an orphan ignores an entry that is
\* already there.
Create(a) ==
  /\ pc[a] = "create"
  /\ \/ /\ Calm /\ stable[mem[a].id] = NoEntry
        /\ stable' = [stable EXCEPT ![mem[a].id] = Empty] /\ UNCHANGED siblings
        /\ Advance(a)
     \/ /\ Calm /\ stable[mem[a].id] # NoEntry
        /\ IF mem[a].cmd = "recover" THEN UNCHANGED <<stable, siblings>> ELSE Collide(mem[a])
        /\ Goto(a, After[mem[a].cmd]["fill"], mem[a])
     \/ /\ Fails(a, "archive") /\ GivesUp(a) /\ UNCHANGED <<stable, siblings>>
  /\ UNCHANGED <<files, evidence, shelf, compiled, history>>

\* writeJSONExclusive, the rename of the finished entry over the created file.
Fill(a) ==
  /\ pc[a] = "fill"
  /\ \/ /\ Calm /\ stable' = [stable EXCEPT ![mem[a].id] = EntryOf(mem[a])] /\ Advance(a)
     \/ /\ Fails(a, "archive") /\ GivesUp(a) /\ UNCHANGED stable
  /\ UNCHANGED <<files, siblings, evidence, shelf, compiled, history>>

\* FinalizeBatch moves each plan's evidence, over what an earlier batch of the
\* same ID left there; what cannot be moved stays.
Relocate(a) ==
  /\ pc[a] = "relocate" /\ Advance(a)
  /\ \E stay \in SUBSET PlansOf(mem[a].work) :
       LET there == {p \in PlansOf(mem[a].work) : evidence[p] # 0}
           moved == there \ stay IN
       /\ IF stay = {} THEN Calm ELSE Fails(a, "relocate")
       /\ shelf' = {s \in shelf : s.id # mem[a].id \/ s.ticket[1] \notin there}
                     \cup {[id |-> mem[a].id, ticket |-> <<p, evidence[p]>>] : p \in moved}
       /\ evidence' = [p \in Plan |-> IF p \in moved THEN 0 ELSE evidence[p]]
  /\ UNCHANGED <<files, stable, siblings, compiled, history>>

\* FinalizeBatch and RecoverOrphan go on when the directory stays.
RemoveBatchDir(a) ==
  /\ pc[a] = "rmdir"
  /\ \/ Calm /\ dir' = [dir EXCEPT ![mem[a].id] = <<>>] /\ Advance(a)
     \/ /\ Fails(a, "remove") /\ UNCHANGED dir
        /\ IF mem[a].cmd \in {"finalize", "recover"} THEN Advance(a) ELSE GivesUp(a)
  /\ UNCHANGED <<run, units, prd, state, archive, compiled, history>>

\* ArchiveBatchNormalized removes the evidence of the batch's plans, and
\* RecoverOrphan all there is.
RemoveEvidence(a) ==
  /\ pc[a] \in {"reap", "wipe"} /\ Advance(a) /\ Calm
  /\ evidence' = [p \in Plan |-> IF pc[a] = "wipe" \/ p \in PlansOf(mem[a].work)
                                 THEN 0 ELSE evidence[p]]
  /\ UNCHANGED <<files, stable, siblings, shelf, compiled, history>>

ClearRun(a) ==
  /\ pc[a] = "clear"
  /\ \/ Calm /\ run' = "none" /\ Advance(a)
     \/ Fails(a, "run") /\ UNCHANGED run /\ Quit(a)
  /\ UNCHANGED <<dir, units, prd, state, archive, compiled, history>>

----------------------------------------------------------------------------
(* WriteBatch, the registry and the cursor.                                *)

Target(m) == IF m.cmd = "append" THEN m.id ELSE Envelopes[m.gen].title

\* WriteBatch writes batch.json, over the one of an earlier batch of the same
\* ID; when that fails the file is as it was.
WriteBatchFile(a) ==
  /\ pc[a] = "write"
  /\ LET m == mem[a] IN
     \/ /\ Calm
        /\ Goto(a, After[m.cmd]["write"],
                [m EXCEPT !.id = Target(m), !.prior = dir[Target(m)]])
        /\ dir' = [dir EXCEPT ![Target(m)] =
                     (IF m.cmd = "append" THEN m.work ELSE <<>>) \o Body(m.gen)]
     \/ Fails(a, "batch") /\ UNCHANGED dir /\ Quit(a)
  /\ UNCHANGED <<run, units, prd, state, archive, compiled, history>>

OrderIn(g, p) == CHOOSE i \in DOMAIN Envelopes[g].plans : Envelopes[g].plans[i] = p

\* ... and, plan by plan, its prd.json into a directory that is cleared first; when that
\* fails, those already written are removed and batch.json is put back.  A process that
\* dies on the way leaves the first plans written and the next one cleared, or written.
WritePlanFiles(a) ==
  /\ pc[a] = "prds"
  /\ LET m == mem[a] IN
     \/ /\ Calm /\ Advance(a) /\ UNCHANGED dir
        /\ prd' = [p \in Plan |-> IF p \in NewPlans(m.gen) THEN m.gen ELSE prd[p]]
     \/ /\ Fails(a, "batch") /\ Quit(a)
        /\ dir' = [dir EXCEPT ![m.id] = m.prior]
        /\ \E gone \in SUBSET NewPlans(m.gen) :
             prd' = [p \in Plan |-> IF p \in gone THEN 0 ELSE prd[p]]
     \/ /\ Fails(a, "crash") /\ Quit(a) /\ UNCHANGED dir
        /\ \E n \in DOMAIN Envelopes[m.gen].plans, left \in {0, m.gen} :
             prd' = [p \in Plan |-> IF p \notin NewPlans(m.gen) \/ OrderIn(m.gen, p) > n THEN prd[p]
                                   ELSE IF OrderIn(m.gen, p) = n THEN left ELSE m.gen]
  /\ UNCHANGED <<run, units, state, archive, compiled, history>>

LastOrder(u) == CHOOSE n \in {u[p] : p \in Plan} : \A p \in Plan : u[p] <= n

\* AddPlanUnit refuses an ID that is registered and an order that is taken.
\* --replace removes first what is in its way.
Refused(m) ==
  /\ m.cmd \in {"plan", "append"}
  /\ \/ \E p \in NewPlans(m.gen) : m.units[p] # 0
     \/ m.cmd = "plan" /\ \E p \in NewPlans(m.gen), q \in Plan : m.units[q] = OrderIn(m.gen, p)

\* The registry each command leaves behind.
Registry(m) ==
  CASE m.cmd = "replace" ->
         [p \in Plan |-> IF p \in NewPlans(m.gen) THEN OrderIn(m.gen, p) ELSE 0]
    [] m.cmd = "plan" ->
         [p \in Plan |-> IF p \in NewPlans(m.gen) THEN OrderIn(m.gen, p) ELSE m.units[p]]
    [] m.cmd = "append" ->
         [p \in Plan |-> IF p \in NewPlans(m.gen)
                         THEN LastOrder(m.units) + OrderIn(m.gen, p) ELSE m.units[p]]
    [] m.cmd \in {"abort", "finalize"} ->
         [p \in Plan |-> IF p \in PlansOf(m.work) THEN 0 ELSE m.units[p]]

\* The command registers or removes its units in memory and saves config.json,
\* which a unit without its prd.json forbids.  FinalizeBatch goes on after a
\* failure.  RemovePlanUnit also forgets the state of the plan, in memory.
Register(a) ==
  /\ pc[a] = "register"
  /\ LET m == mem[a]
         forgotten == {p \in PlansOf(m.work) : m.units[p] # 0}
         left == [m EXCEPT !.state = [p \in Plan |-> IF p \in forgotten
                                                     THEN "none" ELSE m.state[p]]] IN
     \/ /\ Calm /\ ~Refused(m) /\ Valid(Registry(m))
        /\ units' = Registry(m) /\ Goto(a, After[m.cmd]["register"], left)
     \/ /\ \/ Calm /\ (Refused(m) \/ ~Valid(Registry(m)))
           \/ Fails(a, "config")
        /\ UNCHANGED units
        /\ Goto(a, IF m.cmd = "finalize" THEN "flush" ELSE "idle", left)
  /\ UNCHANGED <<run, dir, prd, state, archive, compiled, history>>

\* FinalizeBatch, and no other command, saves the state its removals left.
FlushState(a) ==
  /\ pc[a] = "flush" /\ Advance(a)
  /\ \/ Calm /\ state' = mem[a].state
     \/ Fails(a, "state") /\ UNCHANGED state
  /\ UNCHANGED <<run, dir, units, prd, archive, compiled, history>>

WriteCursor(a) ==
  /\ pc[a] = "cursor"
  /\ \/ Calm /\ run' = mem[a].id /\ Advance(a) /\ born' = born \cup {mem[a].id}
     \/ Fails(a, "run") /\ Quit(a) /\ UNCHANGED <<run, born>>
  /\ UNCHANGED <<dir, units, prd, state, archive, compiled, worked>>

----------------------------------------------------------------------------
(* springfield start.                                                      *)

\* Mutant: a start does not clean up an orphan.
Start_IgnoresOrphan ==
  /\ MayStart /\ Readable
  /\ Valid(units) /\ \E p \in Plan : units[p] # 0
  /\ Goto("start", "exec", Now("exec", 0))
  /\ UNCHANGED <<files, archive, trouble, compiled, history>>

\* A start with an orphaned cursor cleans it up; with an invalid or an empty
\* registry it ends in an error.
Start ==
  /\ MayStart /\ run # "none"
  /\ IF ~Readable
     THEN Goto("start", "create", Now("recover", 0))
     ELSE /\ Valid(units) /\ \E p \in Plan : units[p] # 0
          /\ Goto("start", "exec", Now("exec", 0))
  /\ UNCHANGED <<files, archive, trouble, compiled, history>>

Me == mem["start"]

\* Mutant: a plan that has stopped is passed over.
Left_SkipsStopped ==
  {i \in DOMAIN Me.work : Me.state[Me.work[i][1]] \notin {"integrated", "stopped"}}

\* The plans of the batch that are not integrated, by place.
Left == {i \in DOMAIN Me.work : Me.state[Me.work[i][1]] # "integrated"}

Executing == pc["start"] = "exec"
NextPlan == Me.work[CHOOSE i \in Left : \A j \in Left : i <= j][1]

\* The scheduler has nothing left to dispatch: a plan that is not registered
\* ends the batch without an error (NoEligiblePlan).
Finished ==
  Left # {} => Me.units[NextPlan] = 0 /\ Me.state[NextPlan] # "completed"

\* The plan p gets the status s, in memory and, unless the save is left out,
\* on disk: SaveState writes the whole map.
Marked(p, s) == [Me.state EXCEPT ![p] = s]

\* OnDispatch writes the cursor; a plan that has completed goes to its
\* integration.
Dispatch ==
  /\ Executing /\ Me.now = "none" /\ ~Finished
  /\ run' = Me.id
  /\ IF Me.state[NextPlan] = "completed"
     THEN /\ mem' = [mem EXCEPT !["start"].now = NextPlan]
          /\ UNCHANGED <<state, evidence>>
     ELSE /\ mem' = [mem EXCEPT !["start"].now = NextPlan,
                                !["start"].state = Marked(NextPlan, "running"),
                                !["start"].seen = <<Me.id, dir, prd>>]
          /\ state' = Marked(NextPlan, "running")
          /\ evidence' = [evidence EXCEPT ![NextPlan] = prd[NextPlan]]
  /\ UNCHANGED <<dir, units, prd, stable, siblings, shelf, pc, trouble, compiled, history>>

Working == Executing /\ Me.now # "none" /\ Me.state[Me.now] = "running"

\* Before each agent the guard takes its snapshot, and after it what differs is
\* put back and the plan fails.
Snapshot ==
  /\ Working /\ Me.seen # guarded
  /\ mem' = [mem EXCEPT !["start"].seen = guarded]
  /\ UNCHANGED <<files, archive, pc, trouble, compiled, history>>

Restore ==
  /\ Working /\ Me.seen # guarded
  /\ run' = Me.id /\ dir' = Me.seen[2] /\ prd' = Me.seen[3]
  /\ state' = Marked(Me.now, "stopped") /\ Quit("start")
  /\ UNCHANGED <<units, archive, trouble, compiled, history>>

\* SinglePlan's end: completed, or stopped, which ends the start.
Work ==
  /\ Working
  /\ LET p == Me.now IN
     \/ /\ Calm /\ state' = Marked(p, "completed")
        /\ mem' = [mem EXCEPT !["start"].state = Marked(p, "completed"),
                              !["start"].seen = <<>>]
        /\ worked' = worked \cup {<<p, prd[p]>>}
        /\ UNCHANGED <<run, pc>>
     \/ /\ Fails("start", "plan") /\ state' = Marked(p, "stopped")
        /\ run' = Me.id /\ Quit("start") /\ UNCHANGED worked
  /\ UNCHANGED <<dir, units, prd, archive, compiled, born>>

\* integratePlan; when it fails the start ends and the plan stays completed.
Integrate ==
  /\ Executing /\ Me.now # "none" /\ Me.state[Me.now] = "completed"
  /\ run' = Me.id
  /\ \/ /\ Calm /\ state' = Marked(Me.now, "integrated")
        /\ mem' = [mem EXCEPT !["start"].state = Marked(Me.now, "integrated"),
                              !["start"].now = "none"]
        /\ UNCHANGED pc
     \/ Fails("start", "plan") /\ UNCHANGED state /\ Quit("start")
  /\ UNCHANGED <<dir, units, prd, archive, compiled, history>>

\* Execute has returned without an error: the batch and the project are read
\* again, if the project can be, and the batch is archived as completed.
Complete ==
  /\ Executing /\ Me.now = "none" /\ Finished
  /\ run' = IF Left = {} THEN run ELSE Me.id
  /\ \E cmd \in {"finalize", "fallback"} :
       /\ cmd = "finalize" => Valid(units)
       /\ IF cmd = "fallback" /\ Valid(units) THEN Fails("start", "config") ELSE Calm
       /\ Goto("start", "create",
               [Now(cmd, 0) EXCEPT !.id = Me.id,
                                   !.work = IF dir[Me.id] # <<>> THEN dir[Me.id] ELSE Me.work])
  /\ UNCHANGED <<dir, units, prd, state, archive, compiled, history>>

----------------------------------------------------------------------------
Crash(a) ==
  /\ ~Idle(a) /\ Fails(a, "crash") /\ Quit(a)
  /\ UNCHANGED <<files, archive, compiled, history>>

Step(a) ==
  \/ Create(a) \/ Fill(a) \/ Relocate(a) \/ RemoveBatchDir(a) \/ RemoveEvidence(a)
  \/ ClearRun(a) \/ WriteBatchFile(a) \/ WritePlanFiles(a) \/ Register(a)
  \/ FlushState(a) \/ WriteCursor(a)

Running_Start == Dispatch \/ Snapshot \/ Restore \/ Work \/ Integrate \/ Complete

Operator == PlanNew \/ PlanReplace \/ PlanAppend \/ BatchAbort \/ RecoverOrphan \/ RecoverStale

Next ==
  \/ Operator \/ Start \/ Running_Start
  \/ \E a \in Actor : Step(a) \/ Crash(a)

Spec == Init /\ [][Next]_vars

\* What has begun goes on, and a start is given again as long as there is a
\* batch; no other command is owed.
FairSpec ==
  /\ Spec /\ WF_vars(Start) /\ WF_vars(Running_Start)
  /\ \A a \in Actor : WF_vars(Step(a))

----------------------------------------------------------------------------
(* Properties.                                                             *)

\* Every finished entry of the archive, of whatever batch.
Entries == ({stable[b] : b \in Batch} \cup siblings) \ {NoEntry, Empty}

\* The variables have their types; no two registered plans have the same order;
\* whoever is at a step has one that its command goes through.
OrdersDistinct == \A p, q \in Plan : units[p] = units[q] => p = q \/ units[p] = 0

TypeOK ==
  /\ run \in Batch \cup {"none"} /\ \A b \in Batch : Tickets(dir[b]) \subseteq Ticket
  /\ units \in [Plan -> Nat] /\ OrdersDistinct /\ prd \in [Plan -> 0..Len(Envelopes)]
  /\ state \in [Plan -> Status] /\ evidence \in [Plan -> 0..Len(Envelopes)]
  /\ stable \in [Batch -> Entry \cup {NoEntry, Empty}] /\ siblings \subseteq Entry
  /\ shelf \subseteq [id : Batch, ticket : Ticket]
  /\ pc \in [Actor -> Steps]
  /\ \A a \in Actor : pc[a] \notin {"idle", "exec"} => pc[a] \in DOMAIN After[mem[a].cmd]
  /\ trouble \in 0..MaxTrouble /\ compiled \in 0..Len(Envelopes)
  /\ worked \subseteq Ticket /\ born \subseteq Batch

\* A batch that has been active never gets lost, whatever crashes or fails: it
\* has its batch.json or its entry in the archive.
Accounted == \A b \in born : dir[b] # <<>> \/ \E e \in Entries : e.id = b

\* The cursor of a batch whose directory is gone always has its entry already:
\* the stub of RecoverOrphan, which has no record of the plans, is never what
\* is left of a batch.
NoOrphanStub == \A b \in Batch : stable[b].reason # "orphaned"

\* The evidence of the plans that FinalizeBatch archives is not lost: it is where
\* it was or with the archive, unless the batch is also given up.
GivenUp(b) == \E e \in Entries : e.id = b /\ e.reason \in {"replaced", "aborted"}

EvidenceKept ==
  \A e \in Entries : e.rich /\ ~GivenUp(e.id) =>
    \A t \in e.work \cap worked :
      evidence[t[1]] = t[2] \/ [id |-> e.id, ticket |-> t] \in shelf

\* An archive entry is never replaced by another one, nor loses its records.
EntryIsFinal ==
  [][\A b \in Batch : stable[b] \in Entries =>
       stable'[b].reason = stable[b].reason /\ (stable[b].rich => stable'[b].rich)]_vars

\* What is archived as completed has run.
CompletedMeansRun == \A e \in Entries : e.reason = "completed" => e.work \subseteq worked

\* An active batch does not stay active for ever.
CursorReleased == \A b \in Batch : run = b ~> run # b
=============================================================================

--------------------------- MODULE BatchLifeProofs ---------------------------
(***************************************************************************)
(* What holds of the batches of a project for any plans, envelopes and     *)
(* commands, any trouble of any kind, and any order of the steps.          *)
(*                                                                         *)
(* TInv says where each actor is and what it knows; AInv adds the archive, *)
(* whose entries are final whoever runs beside whom; LInv adds what keeps  *)
(* a batch from being lost, which needs the hypothesis Apart; CInv adds    *)
(* what is in the files, in the registry and in memory while no plan is    *)
(* in two envelopes, so that what is archived as completed has run.        *)
(***************************************************************************)
EXTENDS BatchLife, WellFoundedInduction, SequenceTheorems, TLAPS

----------------------------------------------------------------------------
(* Where an actor is, and what it has in memory.                           *)

Compiling == {"plan", "append", "replace"}
Archiving == {"replace", "abort", "recover", "finalize", "fallback"}

\* The commands whose next step may be s.
Path ==
  [create |-> Archiving, fill |-> Archiving, rmdir |-> Archiving, clear |-> Archiving,
   reap |-> {"replace", "abort", "fallback"}, relocate |-> {"finalize"}, wipe |-> {"recover"},
   register |-> {"plan", "append", "replace", "abort", "finalize"}, flush |-> {"finalize"},
   write |-> Compiling, prds |-> Compiling, cursor |-> Compiling,
   exec |-> {"exec"}, idle |-> {"none"}]

\* What both of them may do.
Mine == [start   |-> {"none", "exec", "recover", "finalize", "fallback"},
         command |-> {"none", "plan", "replace", "append", "abort", "recover"}]

Dirs == [Batch -> Seq(Ticket)]
States == [Plan -> Status]

Fields == {"cmd", "id", "work", "gen", "units", "state", "prior", "now", "seen"}

\* A memory has its fields, and those that a step follows have their types.
Memory(m) ==
  /\ DOMAIN m = Fields
  /\ m.cmd \in Cmd /\ m.id \in Batch \cup {"none"} /\ m.work \in Seq(Ticket)
  /\ m.prior \in Seq(Ticket) /\ m.state \in States
  /\ m.seen # <<>> => m.seen[2] \in Dirs

\* An actor is at a step of its command, and knows what it is about.
Placed(a) ==
  /\ pc[a] \in Steps /\ mem[a].cmd \in Mine[a] /\ mem[a].cmd \in Path[pc[a]]
  /\ pc[a] # "idle" => mem[a].id \in Batch
  /\ mem[a].cmd \in {"plan", "append", "replace"} => mem[a].gen \in Gen

Shaped ==
  /\ run \in Batch \cup {"none"} /\ dir \in Dirs /\ state \in States
  /\ stable \in [Batch -> Entry \cup {NoEntry, Empty}] /\ siblings \subseteq Entry
  /\ DOMAIN pc = Actor /\ DOMAIN mem = Actor
  /\ \A a \in Actor : Memory(mem[a]) /\ Placed(a)
  /\ compiled \in Nat


\* A start that works on a plan has the guard's snapshot, until the plan is completed.
Watched ==
  pc["start"] = "exec" /\ mem["start"].now # "none" =>
    /\ mem["start"].now \in Plan
    /\ mem["start"].seen = <<>> => mem["start"].state[mem["start"].now] # "running"

TInv == Shaped /\ Watched

\* The steps that come before some.
Comes(c, s, t) ==
  /\ t \notin {"create", "exec"}
  /\ t = "fill" => s = "create"
  /\ t = "relocate" => s \in {"create", "fill"}
  /\ t = "rmdir" => s \in {"create", "fill", "relocate"}
  /\ t = "write" => s = "clear"
  /\ t = "prds" => s = "write"
  /\ t = "register" /\ c \in Compiling => s = "prds"
  /\ t = "cursor" => s = "register"

\* The step that follows is one of the command.
Follows(c, s) ==
  /\ After[c][s] \in Steps /\ (After[c][s] = "idle" \/ c \in Path[After[c][s]])
  /\ Comes(c, s, After[c][s])

LEMMA AfterFollows == \A s \in Steps \ {"idle", "exec"} : \A c \in Path[s] : Follows(c, s)
<1>1. ASSUME NEW c \in Path["create"] PROVE Follows(c, "create")
  BY <1>1 DEF Path, Follows, Comes, After, CompileAfter, ReplaceAfter, AbortAfter, OrphanAfter,
          FinalizeAfter, FallbackAfter, Compiling, Archiving, Steps
<1>2. ASSUME NEW c \in Path["fill"] PROVE Follows(c, "fill")
  BY <1>2 DEF Path, Follows, Comes, After, CompileAfter, ReplaceAfter, AbortAfter, OrphanAfter,
          FinalizeAfter, FallbackAfter, Compiling, Archiving, Steps
<1>3. ASSUME NEW c \in Path["relocate"] PROVE Follows(c, "relocate")
  BY <1>3 DEF Path, Follows, Comes, After, CompileAfter, ReplaceAfter, AbortAfter, OrphanAfter,
          FinalizeAfter, FallbackAfter, Compiling, Archiving, Steps
<1>4. ASSUME NEW c \in Path["rmdir"] PROVE Follows(c, "rmdir")
  BY <1>4 DEF Path, Follows, Comes, After, CompileAfter, ReplaceAfter, AbortAfter, OrphanAfter,
          FinalizeAfter, FallbackAfter, Compiling, Archiving, Steps
<1>5. ASSUME NEW c \in Path["reap"] PROVE Follows(c, "reap")
  BY <1>5 DEF Path, Follows, Comes, After, CompileAfter, ReplaceAfter, AbortAfter, OrphanAfter,
          FinalizeAfter, FallbackAfter, Compiling, Archiving, Steps
<1>6. ASSUME NEW c \in Path["wipe"] PROVE Follows(c, "wipe")
  BY <1>6 DEF Path, Follows, Comes, After, CompileAfter, ReplaceAfter, AbortAfter, OrphanAfter,
          FinalizeAfter, FallbackAfter, Compiling, Archiving, Steps
<1>7. ASSUME NEW c \in Path["register"] PROVE Follows(c, "register")
  BY <1>7 DEF Path, Follows, Comes, After, CompileAfter, ReplaceAfter, AbortAfter, OrphanAfter,
          FinalizeAfter, FallbackAfter, Compiling, Archiving, Steps
<1>8. ASSUME NEW c \in Path["flush"] PROVE Follows(c, "flush")
  BY <1>8 DEF Path, Follows, Comes, After, CompileAfter, ReplaceAfter, AbortAfter, OrphanAfter,
          FinalizeAfter, FallbackAfter, Compiling, Archiving, Steps
<1>9. ASSUME NEW c \in Path["clear"] PROVE Follows(c, "clear")
  BY <1>9 DEF Path, Follows, Comes, After, CompileAfter, ReplaceAfter, AbortAfter, OrphanAfter,
          FinalizeAfter, FallbackAfter, Compiling, Archiving, Steps
<1>10. ASSUME NEW c \in Path["write"] PROVE Follows(c, "write")
  BY <1>10 DEF Path, Follows, Comes, After, CompileAfter, ReplaceAfter, AbortAfter, OrphanAfter,
          FinalizeAfter, FallbackAfter, Compiling, Archiving, Steps
<1>11. ASSUME NEW c \in Path["prds"] PROVE Follows(c, "prds")
  BY <1>11 DEF Path, Follows, Comes, After, CompileAfter, ReplaceAfter, AbortAfter, OrphanAfter,
          FinalizeAfter, FallbackAfter, Compiling, Archiving, Steps
<1>12. ASSUME NEW c \in Path["cursor"] PROVE Follows(c, "cursor")
  BY <1>12 DEF Path, Follows, Comes, After, CompileAfter, ReplaceAfter, AbortAfter, OrphanAfter,
          FinalizeAfter, FallbackAfter, Compiling, Archiving, Steps
<1> QED BY <1>1, <1>2, <1>3, <1>4, <1>5, <1>6, <1>7, <1>8, <1>9, <1>10, <1>11, <1>12 DEF Steps

\* What an actor may go on to.
Ready(a, s, m) ==
  /\ Memory(m) /\ s \in Steps
  /\ s # "idle" => /\ m.cmd \in Mine[a] /\ m.cmd \in Path[s] /\ m.id \in Batch
                   /\ m.cmd \in {"plan", "append", "replace"} => m.gen \in Gen

\* The process that is gone has nothing in memory.
LEMMA NoMemory == Memory(NoMem)
  BY DEF Memory, Fields, NoMem, Cmd, States, Status

\* What each of them has in memory after one of them has gone on.
LEMMA GotoIs ==
  ASSUME Shaped, NEW a \in Actor, NEW s, NEW m, Goto(a, s, m)
  PROVE  /\ pc'[a] = s /\ mem'[a] = IF s = "idle" THEN NoMem ELSE m
         /\ \A b \in Actor \ {a} : pc'[b] = pc[b] /\ mem'[b] = mem[b]
         /\ DOMAIN pc' = Actor /\ DOMAIN mem' = Actor
  BY DEF Shaped, Goto

\* Both are where they should be after one of them has gone on.
LEMMA GotoPlaced ==
  ASSUME Shaped, NEW a \in Actor, NEW s, NEW m, Goto(a, s, m), Ready(a, s, m)
  PROVE  \A b \in Actor : Memory(mem'[b]) /\ Placed(b)'
<1>1. \A b \in Actor \ {a} : Memory(mem'[b]) /\ Placed(b)'
  BY GotoIs DEF Shaped, Placed
<1>2. CASE s = "idle"
  <2>1. pc'[a] = "idle" /\ mem'[a] = NoMem
    BY <1>2, GotoIs
  <2>2. Memory(mem'[a])
    BY <2>1, NoMemory
  <2>3. Placed(a)'
    BY <2>1 DEF Placed, NoMem, Steps, Mine, Path, Actor
  <2> QED BY <1>1, <2>2, <2>3
<1>3. CASE s # "idle"
  <2>1. pc'[a] = s /\ mem'[a] = m
    BY <1>3, GotoIs
  <2>2. Memory(mem'[a]) /\ Placed(a)'
    BY <1>3, <2>1 DEF Ready, Placed
  <2> QED BY <1>1, <2>2
<1> QED BY <1>2, <1>3

\* What an actor knows of itself before a step.
LEMMA Known ==
  ASSUME Shaped, NEW a \in Actor, pc[a] \notin {"idle", "exec"}
  PROVE  /\ Memory(mem[a]) /\ mem[a].id \in Batch /\ mem[a].cmd \in Path[pc[a]]
         /\ Ready(a, After[mem[a].cmd][pc[a]], mem[a])
         /\ Comes(mem[a].cmd, pc[a], After[mem[a].cmd][pc[a]])
         /\ Ready(a, "idle", NoMem)
<1>1. Memory(mem[a]) /\ Placed(a)
  BY DEF Shaped
<1>2. Follows(mem[a].cmd, pc[a])
  BY <1>1, AfterFollows DEF Placed
<1> QED BY <1>1, <1>2, NoMemory DEF Placed, Ready, Follows, Steps

\* So going on, and ending, keep them where they should be.
LEMMA AdvancePlaced ==
  ASSUME Shaped, NEW a \in Actor, pc[a] \notin {"idle", "exec"}, Advance(a) \/ Quit(a)
  PROVE  \A b \in Actor : Memory(mem'[b]) /\ Placed(b)'
<1>1. CASE Advance(a)
  BY <1>1, Known, GotoPlaced DEF Advance
<1>2. CASE Quit(a)
  BY <1>2, Known, GotoPlaced DEF Quit
<1> QED BY <1>1, <1>2

\* An envelope has plans, and they make tickets.
LEMMA BodyIs ==
  ASSUME NEW g \in Gen
  PROVE  /\ Envelopes[g].title \in Batch /\ Envelopes[g].plans \in Seq(Plan)
         /\ Body(g) \in Seq(Ticket) /\ Body(g) # <<>>
<1> DEFINE E == [title : Batch, plans : Seq(Plan)]
<1>1. Envelopes \in Seq(E) /\ g \in 1..Len(Envelopes)
  BY LifeAssumption DEF Gen
<1> HIDE DEF E
<1>2. Envelopes[g] \in E
  BY <1>1
<1>3. Envelopes[g].title \in Batch /\ Envelopes[g].plans \in Seq(Plan)
  BY <1>2 DEF E
<1> DEFINE ps == Envelopes[g].plans
<1>4. ps \in Seq(Plan) /\ ps # <<>>
  BY <1>3, LifeAssumption
<1>5. Body(g) = [i \in DOMAIN ps |-> <<ps[i], g>>]
  BY DEF Body
<1> HIDE DEF ps
<1>6. DOMAIN ps = 1..Len(ps) /\ Len(ps) \in Nat /\ Len(ps) # 0 /\ \A i \in 1..Len(ps) : ps[i] \in Plan
  BY <1>4
<1>7. [i \in 1..Len(ps) |-> <<ps[i], g>>] \in Seq(Ticket)
  BY <1>6 DEF Ticket
<1>8. Body(g) # <<>>
  BY <1>5, <1>6
<1> QED BY <1>3, <1>5, <1>6, <1>7, <1>8

\* The compiled envelopes are envelopes.
LEMMA GenIs ==
  ASSUME compiled \in Nat, compiled < Len(Envelopes)
  PROVE  compiled + 1 \in Gen
<1>1. Len(Envelopes) \in Nat
  BY LifeAssumption
<1> QED BY <1>1 DEF Gen

\* An archive entry is one.
LEMMA EntryIs ==
  ASSUME NEW m, Memory(m), m.cmd \in Archiving, m.id \in Batch
  PROVE  /\ EntryOf(m) \in Entry /\ EntryOf(m).id = m.id /\ EntryOf(m).reason = Reason[m.cmd]
         /\ EntryOf(m).rich = (m.cmd = "finalize")
<1> DEFINE w == m.work
<1>1. w \in Seq(Ticket)
  BY DEF Memory
<1> HIDE DEF w
<1>2. \A i \in DOMAIN w : w[i] \in Ticket
  BY <1>1
<1>3. Tickets(w) \in SUBSET Ticket
  BY <1>2 DEF Tickets
<1>4. Reason[m.cmd] \in {"replaced", "aborted", "orphaned", "completed"}
  BY DEF Reason, Archiving
<1>5. (m.cmd = "finalize") \in BOOLEAN
  OBVIOUS
<1>6. EntryOf(m) = [id |-> m.id, work |-> Tickets(w), reason |-> Reason[m.cmd],
                    rich |-> (m.cmd = "finalize")]
  BY DEF EntryOf, w
<1> QED BY <1>3, <1>4, <1>5, <1>6 DEF Entry

\* What a command reads as it begins.
LEMMA NowIs ==
  ASSUME Shaped, NEW cmd \in Cmd, NEW g
  PROVE  /\ Memory(Now(cmd, g)) /\ Now(cmd, g).cmd = cmd /\ Now(cmd, g).id = run
         /\ Now(cmd, g).gen = g /\ Now(cmd, g).now = "none" /\ Now(cmd, g).seen = <<>>
         /\ \A b \in Batch : /\ Memory([Now(cmd, g) EXCEPT !.id = b])
                             /\ [Now(cmd, g) EXCEPT !.id = b].cmd = cmd
                             /\ [Now(cmd, g) EXCEPT !.id = b].id = b
                             /\ [Now(cmd, g) EXCEPT !.id = b].gen = g
                             /\ [Now(cmd, g) EXCEPT !.id = b].now = "none"
                             /\ [Now(cmd, g) EXCEPT !.id = b].seen = <<>>
<1> DEFINE w == IF run = "none" THEN <<>> ELSE dir[run]
<1>1. w \in Seq(Ticket) /\ run \in Batch \cup {"none"} /\ state \in States
  BY DEF Shaped, Dirs
<1>2. Now(cmd, g) = [cmd |-> cmd, id |-> run, work |-> w, gen |-> g, units |-> units,
                     state |-> state, prior |-> <<>>, now |-> "none", seen |-> <<>>]
  BY DEF Now
<1> HIDE DEF w
<1> QED BY <1>1, <1>2 DEF Memory, Fields

\* The command that begins is ready for its first step.
LEMMA OperatorPlaced ==
  ASSUME Shaped, Operator \/ Start
  PROVE  \A b \in Actor : Memory(mem'[b]) /\ Placed(b)'
<1>0. "command" \in Actor /\ "start" \in Actor
  BY DEF Actor
<1> USE DEF Mine, Path, Compiling, Archiving, Steps
<1>1. CASE PlanNew
  <2> DEFINE g == compiled + 1
             m == [Now("plan", g) EXCEPT !.id = Envelopes[g].title]
  <2>1. g \in Gen /\ Envelopes[g].title \in Batch
    BY <1>1, GenIs, BodyIs DEF PlanNew, MayCompile, Shaped
  <2>2. Goto("command", "write", m)
    BY <1>1 DEF PlanNew
  <2>3. Memory(m) /\ m.cmd = "plan" /\ m.id \in Batch /\ m.gen \in Gen
    BY <2>1, NowIs DEF Cmd
  <2> HIDE DEF m, g
  <2>4. Ready("command", "write", m)
    BY <2>3 DEF Ready
  <2> QED BY <1>0, <2>2, <2>4, GotoPlaced
<1>2. CASE PlanReplace \/ PlanAppend
  <2> DEFINE g == compiled + 1
  <2>1. g \in Gen /\ run \in Batch
    BY <1>2, GenIs DEF PlanReplace, PlanAppend, MayCompile, Shaped, Readable
  <2>2. \/ Goto("command", "create", Now("replace", g))
        \/ Goto("command", "write", Now("append", g))
    BY <1>2 DEF PlanReplace, PlanAppend
  <2>3. Ready("command", "create", Now("replace", g)) /\ Ready("command", "write", Now("append", g))
    BY <2>1, NowIs DEF Ready, Cmd
  <2> QED BY <1>0, <2>2, <2>3, GotoPlaced
<1>3. CASE BatchAbort \/ RecoverOrphan
  <2>1. run \in Batch
    BY <1>3 DEF BatchAbort, RecoverOrphan, Shaped, Readable
  <2>2. \/ Goto("command", "create", Now("abort", 0))
        \/ Goto("command", "create", Now("recover", 0))
    BY <1>3 DEF BatchAbort, RecoverOrphan
  <2>3. Ready("command", "create", Now("abort", 0)) /\ Ready("command", "create", Now("recover", 0))
    BY <2>1, NowIs DEF Ready, Cmd
  <2> QED BY <1>0, <2>2, <2>3, GotoPlaced
<1>4. CASE RecoverStale
  BY <1>4 DEF RecoverStale, Shaped, Placed
<1>5. CASE Start
  <2>1. run \in Batch
    BY <1>5 DEF Start, Shaped
  <2>2. \/ Goto("start", "create", Now("recover", 0))
        \/ Goto("start", "exec", Now("exec", 0))
    BY <1>5 DEF Start
  <2>3. Ready("start", "create", Now("recover", 0)) /\ Ready("start", "exec", Now("exec", 0))
    BY <2>1, NowIs DEF Ready, Cmd
  <2> QED BY <1>0, <2>2, <2>3, GotoPlaced
<1> QED BY <1>1, <1>2, <1>3, <1>4, <1>5 DEF Operator

\* What a start has in memory as it completes its batch.
LEMMA CompleteIs ==
  ASSUME Shaped, Complete
  PROVE  \E m : /\ Goto("start", "create", m) /\ Ready("start", "create", m)
                /\ m.cmd \in {"finalize", "fallback"} /\ m.id = Me.id /\ m.seen = <<>>
<1>1. PICK cmd \in {"finalize", "fallback"} :
        Goto("start", "create",
             [Now(cmd, 0) EXCEPT !.id = Me.id,
                                 !.work = IF dir[Me.id] # <<>> THEN dir[Me.id] ELSE Me.work])
  BY DEF Complete
<1>2. Memory(Me) /\ Placed("start") /\ "start" \in Actor /\ Me = mem["start"] /\ dir \in Dirs
  BY DEF Shaped, Me, Actor
<1> DEFINE w == IF dir[Me.id] # <<>> THEN dir[Me.id] ELSE Me.work
           n == Now(cmd, 0)
           b == Me.id
           m == [n EXCEPT !.id = b, !.work = w]
<1>3. Goto("start", "create", m)
  BY <1>1
<1>4. b \in Batch /\ w \in Seq(Ticket)
  BY <1>2 DEF Complete, Executing, Placed, Memory, Dirs
<1>5. Memory(n) /\ n.cmd = cmd /\ n.seen = <<>>
  BY NowIs DEF Cmd
<1> HIDE DEF w, n, b
<1>6. Memory(m) /\ m.cmd = cmd /\ m.id = b /\ m.seen = <<>>
  BY <1>4, <1>5 DEF Memory, Fields
<1> HIDE DEF m
<1>7. Ready("start", "create", m)
  BY <1>4, <1>6 DEF Ready, Mine, Path, Archiving, Steps
<1> QED BY <1>3, <1>6, <1>7 DEF b

\* A running start changes only what it knows of its plans.
LEMMA RunningPlaced ==
  ASSUME Shaped, Running_Start
  PROVE  \A b \in Actor : Memory(mem'[b]) /\ Placed(b)'
<1>0. "start" \in Actor /\ Memory(Me) /\ Placed("start") /\ Me = mem["start"] /\ DOMAIN mem = Actor
  BY DEF Actor, Shaped, Me
<1>1. ASSUME UNCHANGED pc, NEW m, mem' = [mem EXCEPT !["start"] = m], Memory(m), m.cmd = Me.cmd,
             m.gen = Me.gen, m.id = Me.id
      PROVE  \A b \in Actor : Memory(mem'[b]) /\ Placed(b)'
  BY <1>0, <1>1 DEF Shaped, Placed
<1>2. CASE Quit("start")
  <2>1. Ready("start", "idle", NoMem)
    BY NoMemory DEF Ready, Steps
  <2> QED BY <1>0, <1>2, <2>1, GotoPlaced DEF Quit
<1>3. \A p, s : s \in Status => Marked(p, s) \in States
  BY <1>0 DEF Marked, Memory, States
<1>4. <<Me.id, dir, prd>>[2] \in Dirs /\ guarded[2] \in Dirs
  BY DEF Shaped, guarded
<1>6. CASE Dispatch
  <2> DEFINE q == NextPlan
             s == Marked(NextPlan, "running")
             z == <<Me.id, dir, prd>>
  <2>1. UNCHANGED pc /\ s \in States /\ z[2] \in Dirs
    BY <1>3, <1>4, <1>6 DEF Dispatch, Status
  <2>2. \/ mem' = [mem EXCEPT !["start"].now = q]
        \/ mem' = [mem EXCEPT !["start"].now = q, !["start"].state = s, !["start"].seen = z]
    BY <1>6 DEF Dispatch
  <2> HIDE DEF q, s, z
  <2>3. \/ mem' = [mem EXCEPT !["start"] = [Me EXCEPT !.now = q]]
        \/ mem' = [mem EXCEPT !["start"] = [Me EXCEPT !.now = q, !.state = s, !.seen = z]]
    BY <1>0, <2>2
  <2>4. \A m \in {[Me EXCEPT !.now = q], [Me EXCEPT !.now = q, !.state = s, !.seen = z]} :
          Memory(m) /\ m.cmd = Me.cmd /\ m.gen = Me.gen /\ m.id = Me.id
    BY <1>0, <2>1 DEF Memory, Fields
  <2> QED BY <1>1, <2>1, <2>3, <2>4
<1>7. CASE Snapshot
  <2> DEFINE z == guarded
  <2>1. UNCHANGED pc /\ mem' = [mem EXCEPT !["start"].seen = z] /\ z[2] \in Dirs
    BY <1>4, <1>7 DEF Snapshot
  <2> HIDE DEF z
  <2>2. mem' = [mem EXCEPT !["start"] = [Me EXCEPT !.seen = z]]
    BY <1>0, <2>1
  <2>3. LET m == [Me EXCEPT !.seen = z] IN
          Memory(m) /\ m.cmd = Me.cmd /\ m.gen = Me.gen /\ m.id = Me.id
    BY <1>0, <2>1 DEF Memory, Fields
  <2> QED BY <1>1, <2>1, <2>2, <2>3
<1>8. CASE Restore
  BY <1>2, <1>8 DEF Restore
<1>9. CASE Work
  <2> DEFINE s == Marked(Me.now, "completed")
  <2>1. /\ s \in States
        /\ \/ Quit("start")
           \/ UNCHANGED pc /\ mem' = [mem EXCEPT !["start"].state = s, !["start"].seen = <<>>]
    BY <1>3, <1>9 DEF Work, Status
  <2> HIDE DEF s
  <2>2. Quit("start") \/ mem' = [mem EXCEPT !["start"] = [Me EXCEPT !.state = s, !.seen = <<>>]]
    BY <1>0, <2>1
  <2>3. LET m == [Me EXCEPT !.state = s, !.seen = <<>>] IN
          Memory(m) /\ m.cmd = Me.cmd /\ m.gen = Me.gen /\ m.id = Me.id
    BY <1>0, <2>1 DEF Memory, Fields
  <2> QED BY <1>1, <1>2, <2>1, <2>2, <2>3
<1>10. CASE Integrate
  <2> DEFINE s == Marked(Me.now, "integrated")
  <2>1. /\ s \in States
        /\ \/ Quit("start")
           \/ UNCHANGED pc /\ mem' = [mem EXCEPT !["start"].state = s, !["start"].now = "none"]
    BY <1>3, <1>10 DEF Integrate, Status
  <2> HIDE DEF s
  <2>2. Quit("start") \/ mem' = [mem EXCEPT !["start"] = [Me EXCEPT !.state = s, !.now = "none"]]
    BY <1>0, <2>1
  <2>3. LET m == [Me EXCEPT !.state = s, !.now = "none"] IN
          Memory(m) /\ m.cmd = Me.cmd /\ m.gen = Me.gen /\ m.id = Me.id
    BY <1>0, <2>1 DEF Memory, Fields
  <2> QED BY <1>1, <1>2, <2>1, <2>2, <2>3
<1>11. CASE Complete
  BY <1>0, <1>11, CompleteIs, GotoPlaced DEF Complete
<1> QED BY <1>6, <1>7, <1>8, <1>9, <1>10, <1>11 DEF Running_Start

\* Where the actor a goes, when it goes on, and with what in memory.
Goes(a, t, m) ==
  /\ Goto(a, t, m) /\ Ready(a, t, m)
  /\ t # "idle" => /\ m.cmd = mem[a].cmd /\ m.work = mem[a].work /\ m.gen = mem[a].gen
                   /\ m.units = mem[a].units /\ m.seen = mem[a].seen /\ Comes(m.cmd, pc[a], t)
                   /\ pc[a] # "write" => m.id = mem[a].id /\ m.prior = mem[a].prior
                   /\ pc[a] # "register" => m.state = mem[a].state
                   /\ \A p \in Plan : m.state[p] \in {mem[a].state[p], "none"}

LEMMA OnwardGoes ==
  ASSUME Shaped, NEW a \in Actor, pc[a] \notin {"idle", "exec"}, Advance(a) \/ Quit(a)
  PROVE  \E t, m : Goes(a, t, m)
<1>1. CASE Advance(a)
  <2>1. Goes(a, After[mem[a].cmd][pc[a]], mem[a])
    BY <1>1, Known DEF Goes, Advance
  <2> QED BY <2>1
<1>2. CASE Quit(a)
  <2>1. Goes(a, "idle", NoMem)
    BY <1>2, Known DEF Goes, Quit
  <2> QED BY <2>1
<1> QED BY <1>1, <1>2

LEMMA UpGoes ==
  ASSUME Shaped, NEW a \in Actor, pc[a] \notin {"idle", "exec"}, GivesUp(a)
  PROVE  \E t, m : Goes(a, t, m) /\ t \in {"clear", "idle"}
<1>1. CASE Goto(a, "clear", mem[a]) /\ mem[a].cmd \in {"finalize", "fallback"}
  <2>1. Ready(a, "clear", mem[a])
    BY <1>1, Known DEF Ready, Path, Archiving, Steps, Shaped, Placed
  <2>2. Goes(a, "clear", mem[a])
    BY <1>1, <2>1 DEF Goes, Comes
  <2> QED BY <2>2
<1>2. CASE Quit(a)
  <2>1. Goes(a, "idle", NoMem)
    BY <1>2, Known DEF Goes, Quit
  <2> QED BY <2>1
<1> QED BY <1>1, <1>2 DEF GivesUp

LEMMA CreateGoes ==
  ASSUME Shaped, NEW a \in Actor, Create(a)
  PROVE  \E t, m : /\ Goes(a, t, m) /\ mem[a].cmd \in Archiving /\ mem[a].id \in Batch
                   /\ stable[mem[a].id] # NoEntry => t # "fill"
                   /\ t = "fill" => /\ stable[mem[a].id] = NoEntry /\ UNCHANGED siblings
                                    /\ stable' = [stable EXCEPT ![mem[a].id] = Empty]
<1>1. pc[a] = "create"
  BY DEF Create
<1>2. Memory(mem[a]) /\ mem[a].id \in Batch /\ mem[a].cmd \in Archiving
  BY <1>1, Known DEF Path
<1>3. CASE Goto(a, After[mem[a].cmd]["fill"], mem[a])
  <2> DEFINE c == mem[a].cmd
  <2>1. Follows(c, "fill")
    BY <1>2, AfterFollows DEF Path, Steps
  <2>2. Ready(a, After[c]["fill"], mem[a])
    BY <1>2, <2>1 DEF Follows, Ready, Shaped, Placed
  <2>3. After[c]["fill"] # "fill" /\ Comes(c, "create", After[c]["fill"])
    BY <2>1 DEF Follows, Comes
  <2>4. Goes(a, After[c]["fill"], mem[a])
    BY <1>1, <1>3, <2>2, <2>3 DEF Goes
  <2> QED BY <1>2, <2>3, <2>4
<1>4. CASE Advance(a) /\ stable[mem[a].id] = NoEntry /\ UNCHANGED siblings
             /\ stable' = [stable EXCEPT ![mem[a].id] = Empty]
  BY <1>1, <1>2, <1>4, OnwardGoes
<1>5. CASE GivesUp(a)
  BY <1>1, <1>2, <1>5, UpGoes
<1> QED BY <1>3, <1>4, <1>5 DEF Create

\* Every step goes on, gives up or ends.
LEMMA StepGoes ==
  ASSUME Shaped, NEW a \in Actor, Step(a)
  PROVE  \E t, m : Goes(a, t, m)
<1>1. CASE Create(a)
  BY <1>1, CreateGoes
<1>2. CASE Fill(a)
  BY <1>2, OnwardGoes, UpGoes DEF Fill
<1>3. CASE Relocate(a) \/ RemoveEvidence(a) \/ FlushState(a)
  BY <1>3, OnwardGoes DEF Relocate, RemoveEvidence, FlushState
<1>4. CASE RemoveBatchDir(a)
  BY <1>4, OnwardGoes, UpGoes DEF RemoveBatchDir
<1>5. CASE ClearRun(a) \/ WritePlanFiles(a) \/ WriteCursor(a)
  BY <1>5, OnwardGoes DEF ClearRun, WritePlanFiles, WriteCursor
<1>6. CASE WriteBatchFile(a)
  <2>0. pc[a] = "write" /\ mem[a].cmd \in Compiling
    BY <1>6, Known DEF WriteBatchFile, Path
  <2>1. CASE Quit(a)
    BY <2>0, <2>1, OnwardGoes
  <2> DEFINE b == Target(mem[a])
             w == dir[b]
             m == [mem[a] EXCEPT !.id = b, !.prior = w]
  <2>2. CASE Goto(a, After[mem[a].cmd]["write"], m)
    <3>1. b \in Batch /\ w \in Seq(Ticket) /\ Memory(mem[a])
      BY <2>0, Known, BodyIs DEF Target, Compiling, Shaped, Dirs, Placed
    <3> HIDE DEF b, w
    <3>2. Memory(m) /\ m.cmd = mem[a].cmd /\ m.gen = mem[a].gen /\ m.id = b /\ m.seen = mem[a].seen
          /\ m.state = mem[a].state /\ m.work = mem[a].work /\ m.units = mem[a].units
      BY <3>1 DEF Memory, Fields
    <3> HIDE DEF m
    <3>3. Ready(a, After[mem[a].cmd]["write"], m) /\ Comes(m.cmd, "write", After[mem[a].cmd]["write"])
      BY <2>0, <3>1, <3>2, AfterFollows DEF Ready, Follows, Shaped, Placed, Path, Steps
    <3>4. Goes(a, After[mem[a].cmd]["write"], m)
      BY <2>0, <2>2, <3>2, <3>3 DEF Goes
    <3> QED BY <3>4
  <2> QED BY <1>6, <2>1, <2>2 DEF WriteBatchFile
<1>7. CASE Register(a)
  <2>0. pc[a] = "register" /\ mem[a].id \in Batch /\ Memory(mem[a]) /\ Placed(a)
    BY <1>7, Known DEF Register, Shaped
  <2> DEFINE forgotten == {p \in PlansOf(mem[a].work) : mem[a].units[p] # 0}
             u == [p \in Plan |-> IF p \in forgotten THEN "none" ELSE mem[a].state[p]]
             m == [mem[a] EXCEPT !.state = u]
  <2>1. \/ Goto(a, After[mem[a].cmd]["register"], m)
        \/ Goto(a, IF mem[a].cmd = "finalize" THEN "flush" ELSE "idle", m)
    BY <1>7 DEF Register
  <2>2. u \in States /\ \A p \in Plan : u[p] \in {mem[a].state[p], "none"}
    BY <2>0 DEF Memory, States, Status
  <2> HIDE DEF u
  <2>3. Memory(m) /\ m.cmd = mem[a].cmd /\ m.gen = mem[a].gen /\ m.id = mem[a].id
        /\ m.seen = mem[a].seen /\ m.prior = mem[a].prior /\ m.work = mem[a].work
        /\ m.gen = mem[a].gen /\ m.units = mem[a].units
        /\ \A p \in Plan : m.state[p] \in {mem[a].state[p], "none"}
    BY <2>0, <2>2 DEF Memory, Fields
  <2> HIDE DEF m
  <2>4. CASE Goto(a, After[mem[a].cmd]["register"], m)
    <3>1. Ready(a, After[mem[a].cmd]["register"], m) /\ Comes(m.cmd, "register", After[mem[a].cmd]["register"])
      BY <2>0, <2>3, AfterFollows DEF Ready, Follows, Placed, Steps
    <3>2. Goes(a, After[mem[a].cmd]["register"], m)
      BY <2>0, <2>3, <2>4, <3>1 DEF Goes
    <3> QED BY <3>2
  <2>5. CASE Goto(a, IF mem[a].cmd = "finalize" THEN "flush" ELSE "idle", m)
    <3> DEFINE t == IF mem[a].cmd = "finalize" THEN "flush" ELSE "idle"
    <3>1. Ready(a, t, m) /\ Comes(m.cmd, "register", t)
      BY <2>0, <2>3 DEF Ready, Placed, Steps, Path, Comes
    <3>2. Goes(a, t, m)
      BY <2>0, <2>3, <2>5, <3>1 DEF Goes
    <3> QED BY <3>2
  <2> QED BY <2>1, <2>4, <2>5
<1> QED BY <1>1, <1>2, <1>3, <1>4, <1>5, <1>6, <1>7 DEF Step

\* So do the steps of a command keep them.
LEMMA StepPlaced ==
  ASSUME Shaped, NEW a \in Actor, Step(a) \/ Crash(a)
  PROVE  \A b \in Actor : Memory(mem'[b]) /\ Placed(b)'
<1>1. CASE Step(a)
  BY <1>1, StepGoes, GotoPlaced DEF Goes
<1>2. CASE Crash(a)
  <2>1. Ready(a, "idle", NoMem)
    BY NoMemory DEF Ready, Steps
  <2> QED BY <1>2, <2>1, GotoPlaced DEF Crash, Quit
<1> QED BY <1>1, <1>2

\* Both go on where they should.
LEMMA AllPlaced ==
  ASSUME Shaped, Next
  PROVE  \A b \in Actor : Memory(mem'[b]) /\ Placed(b)'
  BY OperatorPlaced, RunningPlaced, StepPlaced DEF Next

LEMMA DomainsKept ==
  ASSUME Shaped, Next
  PROVE  DOMAIN pc' = Actor /\ DOMAIN mem' = Actor
<1>1. \A a, t, m : Goto(a, t, m) => DOMAIN pc' = Actor /\ DOMAIN mem' = Actor
  BY DEF Shaped, Goto
<1>2. CASE Operator \/ Start
  BY <1>1, <1>2 DEF Operator, PlanNew, PlanReplace, PlanAppend, BatchAbort, RecoverOrphan, RecoverStale,
                    Start, Shaped
<1>3. CASE Running_Start
  BY <1>1, <1>3 DEF Running_Start, Dispatch, Snapshot, Restore, Work, Integrate, Complete, Quit, Shaped
<1>4. ASSUME NEW a \in Actor, Step(a) \/ Crash(a)
      PROVE  DOMAIN pc' = Actor /\ DOMAIN mem' = Actor
  BY <1>1, <1>4, StepGoes DEF Goes, Crash, Quit
<1> QED BY <1>2, <1>3, <1>4 DEF Next

\* The cursor names a batch, or none.
LEMMA RunTyped ==
  ASSUME Shaped, Next
  PROVE  run' \in Batch \cup {"none"}
<1>1. CASE Operator \/ Start
  BY <1>1 DEF Operator, PlanNew, PlanReplace, PlanAppend, BatchAbort, RecoverOrphan, RecoverStale,
              Start, Shaped, files
<1>2. CASE Running_Start
  BY <1>2 DEF Running_Start, Dispatch, Snapshot, Restore, Work, Integrate, Complete, Shaped, files,
              Executing, Working, Placed, Me, Actor
<1>3. ASSUME NEW a \in Actor, Step(a) \/ Crash(a)
      PROVE  run' \in Batch \cup {"none"}
  <2>1. run' \in {run, "none"} \/ (pc[a] = "cursor" /\ run' = mem[a].id)
    BY <1>3 DEF Step, Create, Fill, Relocate, RemoveBatchDir, RemoveEvidence, ClearRun,
                WriteBatchFile, WritePlanFiles, Register, FlushState, WriteCursor, Crash, files
  <2> QED BY <2>1, Known DEF Shaped
<1> QED BY <1>1, <1>2, <1>3 DEF Next

\* Every batch.json has tickets.
LEMMA DirTyped ==
  ASSUME TInv, Next
  PROVE  dir' \in Dirs
<1> USE DEF TInv
<1>0. dir \in Dirs /\ "start" \in Actor
  BY DEF Shaped, Actor
<1>1. CASE Operator \/ Start
  BY <1>0, <1>1 DEF Operator, PlanNew, PlanReplace, PlanAppend, BatchAbort, RecoverOrphan,
                    RecoverStale, Start, files
<1>2. CASE Running_Start
  <2>1. CASE Restore
    <3>1. Me.seen # <<>> => Me.seen[2] \in Dirs
      BY <1>0 DEF Shaped, Memory, Me
    <3> QED BY <2>1, <3>1 DEF Restore, Working, Executing, Watched, Me
  <2> QED BY <1>0, <1>2, <2>1 DEF Running_Start, Dispatch, Snapshot, Work, Integrate, Complete, files
<1>3. ASSUME NEW a \in Actor, Step(a) \/ Crash(a)
      PROVE  dir' \in Dirs
  <2>1. CASE RemoveBatchDir(a)
    <3>1. <<>> \in Seq(Ticket)
      OBVIOUS
    <3>2. UNCHANGED dir \/ dir' = [dir EXCEPT ![mem[a].id] = <<>>]
      BY <2>1 DEF RemoveBatchDir
    <3> QED BY <1>0, <3>1, <3>2 DEF Dirs
  <2>2. CASE WriteBatchFile(a)
    <3>1. pc[a] = "write"
      BY <2>2 DEF WriteBatchFile
    <3>2. Memory(mem[a]) /\ mem[a].gen \in Gen
      BY <3>1, Known DEF Shaped, Placed, Path, Compiling
    <3> DEFINE w == (IF mem[a].cmd = "append" THEN mem[a].work ELSE <<>>) \o Body(mem[a].gen)
    <3>3. w \in Seq(Ticket)
      BY <3>2, BodyIs DEF Memory
    <3>4. UNCHANGED dir \/ dir' = [dir EXCEPT ![Target(mem[a])] = w]
      BY <2>2 DEF WriteBatchFile
    <3> HIDE DEF w
    <3> QED BY <1>0, <3>3, <3>4 DEF Dirs
  <2>3. CASE WritePlanFiles(a)
    <3>1. pc[a] = "prds"
      BY <2>3 DEF WritePlanFiles
    <3>2. mem[a].prior \in Seq(Ticket)
      BY <3>1, Known DEF Memory
    <3>3. UNCHANGED dir \/ dir' = [dir EXCEPT ![mem[a].id] = mem[a].prior]
      BY <2>3 DEF WritePlanFiles
    <3> QED BY <1>0, <3>2, <3>3 DEF Dirs
  <2> QED BY <1>0, <1>3, <2>1, <2>2, <2>3
          DEF Step, Create, Fill, Relocate, RemoveEvidence, ClearRun, Register, FlushState,
              WriteCursor, Crash, files
<1> QED BY <1>1, <1>2, <1>3 DEF Next

\* Every plan has a status.
LEMMA StateTyped ==
  ASSUME Shaped, Next
  PROVE  state' \in States
<1>0. state \in States /\ "start" \in Actor
  BY DEF Shaped, Actor
<1>1. CASE Operator \/ Start
  <2>1. CASE RecoverStale
    BY <1>0, <2>1 DEF RecoverStale, States, Status
  <2> QED BY <1>0, <1>1, <2>1 DEF Operator, PlanNew, PlanReplace, PlanAppend, BatchAbort,
                                  RecoverOrphan, Start, files
<1>2. CASE Running_Start
  <2>1. \A p, s : s \in Status => Marked(p, s) \in States
    BY <1>0 DEF Shaped, Memory, Me, Marked, States
  <2> QED BY <1>0, <1>2, <2>1
          DEF Running_Start, Dispatch, Snapshot, Restore, Work, Integrate, Complete, files, Status
<1>3. ASSUME NEW a \in Actor, Step(a) \/ Crash(a)
      PROVE  state' \in States
  <2>1. UNCHANGED state \/ (pc[a] = "flush" /\ state' = mem[a].state)
    BY <1>3 DEF Step, Create, Fill, Relocate, RemoveBatchDir, RemoveEvidence, ClearRun,
                WriteBatchFile, WritePlanFiles, Register, FlushState, WriteCursor, Crash, files
  <2> QED BY <1>0, <2>1, Known DEF Memory
<1> QED BY <1>1, <1>2, <1>3 DEF Next

\* Only the two steps that write an archive entry change the archive.
LEMMA ArchiveChanges ==
  ASSUME Next
  PROVE  UNCHANGED <<stable, siblings>> \/ \E a \in Actor : Create(a) \/ Fill(a)
<1>1. CASE Operator \/ Start
  BY <1>1 DEF Operator, PlanNew, PlanReplace, PlanAppend, BatchAbort, RecoverOrphan, RecoverStale,
              Start, archive
<1>2. CASE Running_Start
  BY <1>2 DEF Running_Start, Dispatch, Snapshot, Restore, Work, Integrate, Complete, archive
<1>3. ASSUME NEW a \in Actor, Step(a) \/ Crash(a)
      PROVE  UNCHANGED <<stable, siblings>> \/ Create(a) \/ Fill(a)
  BY <1>3 DEF Step, Relocate, RemoveBatchDir, RemoveEvidence, ClearRun, WriteBatchFile,
              WritePlanFiles, Register, FlushState, WriteCursor, Crash, archive
<1> QED BY <1>1, <1>2, <1>3 DEF Next

\* What the two steps do to the archive.
LEMMA CreateDoes ==
  ASSUME Shaped, NEW a \in Actor, Create(a)
  PROVE  LET b == mem[a].id
             e == EntryOf(mem[a]) IN
         \/ UNCHANGED <<stable, siblings>>
         \/ /\ stable[b] = NoEntry /\ stable' = [stable EXCEPT ![b] = Empty] /\ UNCHANGED siblings
         \/ /\ stable[b] # NoEntry /\ stable[b].reason = e.reason /\ ~stable[b].rich /\ e.rich
            /\ stable' = [stable EXCEPT ![b] = e] /\ UNCHANGED siblings
         \/ /\ stable[b] # NoEntry /\ siblings' = siblings \cup {e} /\ UNCHANGED stable
<1>1. mem[a].cmd \in Archiving /\ mem[a].id \in Batch /\ Memory(mem[a])
  BY CreateGoes, Known DEF Create
<1> QED BY <1>1, EntryIs DEF Create, Collide

LEMMA FillDoes ==
  ASSUME Shaped, NEW a \in Actor, Fill(a)
  PROVE  UNCHANGED siblings /\ (UNCHANGED stable \/ stable' = [stable EXCEPT ![mem[a].id] = EntryOf(mem[a])])
  BY DEF Fill

LEMMA ArchiveTyped ==
  ASSUME Shaped, Next
  PROVE  stable' \in [Batch -> Entry \cup {NoEntry, Empty}] /\ siblings' \subseteq Entry
<1>0. stable \in [Batch -> Entry \cup {NoEntry, Empty}] /\ siblings \subseteq Entry
  BY DEF Shaped
<1>1. ASSUME NEW a \in Actor, Create(a) \/ Fill(a)
      PROVE  mem[a].id \in Batch /\ EntryOf(mem[a]) \in Entry
  BY <1>1, Known, EntryIs DEF Create, Fill, Path
<1>2. ASSUME NEW a \in Actor, Create(a)
      PROVE  stable' \in [Batch -> Entry \cup {NoEntry, Empty}] /\ siblings' \subseteq Entry
  BY <1>0, <1>1, <1>2, CreateDoes
<1>3. ASSUME NEW a \in Actor, Fill(a)
      PROVE  stable' \in [Batch -> Entry \cup {NoEntry, Empty}] /\ siblings' \subseteq Entry
  BY <1>0, <1>1, <1>3, FillDoes
<1> QED BY <1>0, <1>2, <1>3, ArchiveChanges

LEMMA CompiledTyped ==
  ASSUME Shaped, Next
  PROVE  compiled' \in Nat
<1>1. compiled \in Nat
  BY DEF Shaped
<1>2. CASE Operator \/ Start
  BY <1>1, <1>2 DEF Operator, PlanNew, PlanReplace, PlanAppend, BatchAbort, RecoverOrphan,
                    RecoverStale, Start, MayCompile
<1>3. CASE Running_Start
  BY <1>1, <1>3 DEF Running_Start, Dispatch, Snapshot, Restore, Work, Integrate, Complete
<1>4. ASSUME NEW a \in Actor, Step(a) \/ Crash(a)
      PROVE  UNCHANGED compiled
  BY <1>4 DEF Step, Create, Fill, Relocate, RemoveBatchDir, RemoveEvidence, ClearRun,
              WriteBatchFile, WritePlanFiles, Register, FlushState, WriteCursor, Crash
<1> QED BY <1>1, <1>2, <1>3, <1>4 DEF Next

\* A set of natural numbers has a least one.
LEMMA LeastIs == ASSUME NEW S \in SUBSET Nat, S # {} PROVE \E m \in S : \A k \in S : m <= k
<1>1. PICK m \in S : \A k \in S : <<k, m>> \notin OpToRel(<, Nat)
  BY WFMin, NatLessThanWellFounded, Zenon
<1>2. \A k \in S : ~(k < m)
  BY <1>1, Zenon DEF OpToRel
<1> QED BY <1>2

\* The plan a start goes on to is a plan.
LEMMA NextIs == ASSUME Shaped, Left # {} PROVE NextPlan \in Plan
<1> DEFINE w == Me.work
<1>1. w \in Seq(Ticket)
  BY DEF Shaped, Memory, Me, Actor
<1>2. Left \subseteq DOMAIN w
  BY DEF Left
<1> DEFINE i == CHOOSE i \in Left : \A j \in Left : i <= j
<1>3. i \in Left
  <2>1. Left \in SUBSET Nat
    BY <1>1, <1>2
  <2>2. \E m \in Left : \A k \in Left : m <= k
    BY <2>1, LeastIs
  <2> QED BY <2>2
<1>4. NextPlan = w[i][1]
  BY DEF NextPlan
<1> HIDE DEF w, i
<1>5. w[i] \in Ticket
  BY <1>1, <1>2, <1>3
<1> QED BY <1>4, <1>5 DEF Ticket

\* A start that works on a plan is watched.
LEMMA WatchedNext ==
  ASSUME TInv, Next
  PROVE  Watched'
<1>0. /\ "start" \in Actor /\ "command" \in Actor /\ Memory(Me) /\ Me = mem["start"]
      /\ DOMAIN mem = Actor /\ DOMAIN pc = Actor /\ Shaped
  BY DEF TInv, Shaped, Actor, Me
<1>1. CASE UNCHANGED <<pc, mem>>
  BY <1>1 DEF TInv, Watched
<1>2. ASSUME NEW t, NEW m, Goto("command", t, m)
      PROVE  Watched'
  <2>1. UNCHANGED <<pc["start"], mem["start"]>>
    BY <1>0, <1>2, GotoIs
  <2> QED BY <2>1 DEF TInv, Watched
<1>3. ASSUME NEW t, NEW m, Goto("start", t, m), t = "exec" => m.now = "none"
      PROVE  Watched'
  BY <1>0, <1>3, GotoIs DEF Watched
<1>4. CASE Operator \/ Start
  <2>1. Now("exec", 0).now = "none"
    BY NowIs, <1>0 DEF Cmd
  <2> QED BY <1>1, <1>2, <1>3, <1>4, <2>1
          DEF Operator, PlanNew, PlanReplace, PlanAppend, BatchAbort, RecoverOrphan, RecoverStale, Start
<1>5. CASE Dispatch
  <2> DEFINE q == NextPlan
             s == Marked(NextPlan, "running")
             z == <<Me.id, dir, prd>>
  <2>1. q \in Plan /\ z # <<>>
    BY <1>0, <1>5, NextIs DEF Dispatch, Finished
  <2>2. \/ mem' = [mem EXCEPT !["start"].now = q] /\ Me.state[q] = "completed"
        \/ mem' = [mem EXCEPT !["start"].now = q, !["start"].state = s, !["start"].seen = z]
    BY <1>5 DEF Dispatch
  <2> HIDE DEF q, s, z
  <2>3. mem'["start"].now = q /\ \/ mem'["start"].state[q] = "completed"
                                 \/ mem'["start"].seen = z
    BY <1>0, <2>2 DEF Memory, Fields
  <2> QED BY <2>1, <2>3 DEF Watched
<1>6. CASE Snapshot
  <2> DEFINE z == guarded
  <2>1. UNCHANGED pc /\ mem' = [mem EXCEPT !["start"].seen = z] /\ z # <<>>
    BY <1>6 DEF Snapshot, guarded
  <2> HIDE DEF z
  <2>2. mem'["start"].now = Me.now /\ mem'["start"].seen = z
    BY <1>0, <2>1 DEF Memory, Fields
  <2> QED BY <1>0, <2>1, <2>2 DEF Watched, TInv
<1>7. CASE Quit("start")
  BY <1>3, <1>7 DEF Quit
<1>8. CASE Work
  <2> DEFINE s == Marked(Me.now, "completed")
  <2>1. Me.now \in Plan
    BY <1>0, <1>8 DEF Work, Working, Executing, TInv, Watched
  <2>2. s[Me.now] = "completed"
    BY <1>0, <2>1 DEF Marked, Memory, States
  <2>3. Quit("start") \/ (UNCHANGED pc /\ mem' = [mem EXCEPT !["start"].state = s, !["start"].seen = <<>>])
    BY <1>8 DEF Work
  <2> HIDE DEF s
  <2>4. CASE mem' = [mem EXCEPT !["start"].state = s, !["start"].seen = <<>>]
    <3>1. mem'["start"].now = Me.now /\ mem'["start"].state = s
      BY <1>0, <2>4 DEF Memory, Fields
    <3> QED BY <2>1, <2>2, <3>1 DEF Watched
  <2> QED BY <1>7, <2>3, <2>4
<1>9. CASE Integrate
  <2> DEFINE s == Marked(Me.now, "integrated")
  <2>1. Quit("start") \/ mem' = [mem EXCEPT !["start"].state = s, !["start"].now = "none"]
    BY <1>9 DEF Integrate
  <2> HIDE DEF s
  <2>2. CASE mem' = [mem EXCEPT !["start"].state = s, !["start"].now = "none"]
    <3>1. mem'["start"].now = "none"
      BY <1>0, <2>2 DEF Memory, Fields
    <3> QED BY <3>1 DEF Watched
  <2> QED BY <1>7, <2>1, <2>2
<1>10. CASE Complete
  BY <1>0, <1>3, <1>10, CompleteIs
<1>11. CASE Running_Start
  BY <1>5, <1>6, <1>7, <1>8, <1>9, <1>10, <1>11 DEF Running_Start, Restore
<1>12. ASSUME NEW a \in Actor, Step(a) \/ Crash(a)
       PROVE  Watched'
  <2>1. \E t, m : Goto(a, t, m) /\ t # "exec"
    <3>1. CASE Step(a)
      BY <1>0, <3>1, StepGoes DEF Goes, Comes
    <3>2. CASE Crash(a)
      BY <3>2 DEF Crash, Quit
    <3> QED BY <1>12, <3>1, <3>2
  <2> QED BY <1>2, <1>3, <2>1 DEF Actor
<1> QED BY <1>4, <1>11, <1>12 DEF Next

LEMMA TInvNext ==
  ASSUME TInv, [Next]_vars
  PROVE  TInv'
<1>1. CASE Next
  <2>1. Shaped'
    BY <1>1, AllPlaced, DomainsKept, RunTyped, DirTyped, StateTyped, ArchiveTyped, CompiledTyped
       DEF Shaped, TInv
  <2> QED BY <1>1, <2>1, WatchedNext DEF TInv
<1>2. CASE UNCHANGED vars
  BY <1>2 DEF TInv, Watched, Shaped, Placed, Memory, vars, files, archive, history
<1> QED BY <1>1, <1>2

LEMMA TInvInit == Init => TInv
<1> SUFFICES ASSUME Init PROVE TInv
  OBVIOUS
<1>1. \A a \in Actor : pc[a] = "idle" /\ mem[a] = NoMem
  BY DEF Init
<1>2. \A a \in Actor : Memory(mem[a]) /\ Placed(a)
  BY <1>1, NoMemory DEF Placed, NoMem, Steps, Mine, Path, Actor
<1>3. dir \in Dirs /\ state \in States
  BY DEF Init, Dirs, States, Status
<1> QED BY <1>1, <1>2, <1>3 DEF Init, TInv, Watched, Shaped, Entry, Actor

----------------------------------------------------------------------------
(* The archive.                                                            *)

\* An entry is under the ID of its batch, and a sibling beside an entry.  Between
\* the create and the rename the file is empty, and of one actor only.
Named == \A b \in Batch : stable[b] \in Entry => stable[b].id = b
Kept == \A e \in siblings : stable[e.id] # NoEntry
Creating ==
  \A a \in Actor : pc[a] = "fill" =>
    /\ stable[mem[a].id] = Empty
    /\ \A b \in Actor \ {a} : pc[b] = "fill" => mem[b].id # mem[a].id

AInv == TInv /\ Named /\ Kept /\ Creating

\* The archive is empty as the project begins.
LEMMA AInvInit == Init => AInv
<1>1. Init => Named /\ Kept /\ Creating
  BY DEF Init, Named, Kept, Creating, NoEntry, Entry, Actor
<1> QED BY <1>1, TInvInit DEF AInv

\* Who is about to fill an entry was, or has just created it.
LEMMA FillComes ==
  ASSUME TInv, Next, NEW a \in Actor, pc'[a] = "fill"
  PROVE  \/ pc[a] = "fill" /\ mem'[a] = mem[a]
         \/ /\ Create(a) /\ mem'[a].id = mem[a].id
            /\ stable[mem[a].id] = NoEntry /\ stable' = [stable EXCEPT ![mem[a].id] = Empty]
            /\ \A b \in Actor \ {a} : pc'[b] = pc[b] /\ mem'[b] = mem[b]
<1>0. Shaped
  BY DEF TInv
<1>1. CASE Operator \/ Start
  <2>1. UNCHANGED <<pc, mem>> \/ \E b \in Actor : \E t, m : Goto(b, t, m) /\ t # "fill"
    BY <1>1 DEF Operator, PlanNew, PlanReplace, PlanAppend, BatchAbort, RecoverOrphan, RecoverStale,
                Start, Actor
  <2> QED BY <1>0, <2>1, GotoIs
<1>2. CASE Running_Start
  <2>1. CASE \E t, m : Goto("start", t, m) /\ t # "fill"
    BY <1>0, <2>1, GotoIs DEF Actor
  <2>2. CASE UNCHANGED pc /\ pc["start"] = "exec"
    <3>1. a = "command"
      BY <2>2 DEF Actor
    <3>2. mem'[a] = mem[a]
      BY <1>0, <1>2, <3>1, GotoIs
         DEF Running_Start, Dispatch, Snapshot, Restore, Work, Integrate, Complete, Quit, Shaped, Actor
    <3> QED BY <2>2, <3>2
  <2> QED BY <1>2, <2>1, <2>2
          DEF Running_Start, Dispatch, Snapshot, Restore, Work, Integrate, Complete, Quit, Working, Executing
<1>3. ASSUME NEW b \in Actor, Step(b)
      PROVE  \/ pc[a] = "fill" /\ mem'[a] = mem[a]
             \/ /\ Create(a) /\ mem'[a].id = mem[a].id
                /\ stable[mem[a].id] = NoEntry /\ stable' = [stable EXCEPT ![mem[a].id] = Empty]
                /\ \A c \in Actor \ {a} : pc'[c] = pc[c] /\ mem'[c] = mem[c]
  <2>1. PICK t, m : Goes(b, t, m)
    BY <1>0, <1>3, StepGoes
  <2>2. CASE b = a
    <3>1. pc[a] = "create"
      BY <1>0, <2>1, <2>2, GotoIs DEF Goes, Comes
    <3>2. Create(a)
      BY <1>3, <2>2, <3>1 DEF Step, Fill, Relocate, RemoveBatchDir, RemoveEvidence, ClearRun,
         WriteBatchFile, WritePlanFiles, Register, FlushState, WriteCursor
    <3>3. PICK u, n : Goes(a, u, n) /\ (u = "fill" => /\ stable[mem[a].id] = NoEntry
                                                      /\ stable' = [stable EXCEPT ![mem[a].id] = Empty])
      BY <1>0, <3>2, CreateGoes
    <3>4. u = "fill" /\ mem'[a] = n /\ n.id = mem[a].id
      BY <1>0, <3>1, <3>3, GotoIs DEF Goes
    <3>5. \A c \in Actor \ {a} : pc'[c] = pc[c] /\ mem'[c] = mem[c]
      BY <1>0, <3>3, GotoIs DEF Goes
    <3> QED BY <3>2, <3>3, <3>4, <3>5
  <2>3. CASE b # a
    BY <1>0, <2>1, <2>3, GotoIs DEF Goes
  <2> QED BY <2>2, <2>3
<1>4. ASSUME NEW b \in Actor, Crash(b)
      PROVE  pc[a] = "fill" /\ mem'[a] = mem[a]
  BY <1>0, <1>4, GotoIs DEF Crash, Quit
<1> QED BY <1>1, <1>2, <1>3, <1>4 DEF Next

\* No entry is a missing or an empty file.
LEMMA NoneIs == NoEntry \notin Entry /\ Empty \notin Entry /\ Empty # NoEntry
  BY DEF NoEntry, Empty, Entry

\* What a step writes in the archive.
LEMMA Archives ==
  ASSUME TInv, Creating, Next
  PROVE  \/ UNCHANGED <<stable, siblings>>
         \/ \E a \in Actor, e \in Entry :
              /\ e.id = mem[a].id /\ e.id \in Batch
              /\ \/ /\ stable[e.id] = NoEntry /\ stable' = [stable EXCEPT ![e.id] = Empty]
                    /\ UNCHANGED siblings
                 \/ /\ stable[e.id] \in Entry /\ stable[e.id].reason = e.reason /\ ~stable[e.id].rich
                    /\ stable' = [stable EXCEPT ![e.id] = e] /\ UNCHANGED siblings
                 \/ /\ stable[e.id] # NoEntry /\ siblings' = siblings \cup {e} /\ UNCHANGED stable
                 \/ /\ pc[a] = "fill" /\ pc'[a] # "fill" /\ stable[e.id] = Empty
                    /\ stable' = [stable EXCEPT ![e.id] = e] /\ UNCHANGED siblings
<1>0. Shaped
  BY DEF TInv
<1> SUFFICES ASSUME ~UNCHANGED <<stable, siblings>>
             PROVE  \E a \in Actor, e \in Entry :
              /\ e.id = mem[a].id /\ e.id \in Batch
              /\ \/ /\ stable[e.id] = NoEntry /\ stable' = [stable EXCEPT ![e.id] = Empty]
                    /\ UNCHANGED siblings
                 \/ /\ stable[e.id] \in Entry /\ stable[e.id].reason = e.reason /\ ~stable[e.id].rich
                    /\ stable' = [stable EXCEPT ![e.id] = e] /\ UNCHANGED siblings
                 \/ /\ stable[e.id] # NoEntry /\ siblings' = siblings \cup {e} /\ UNCHANGED stable
                 \/ /\ pc[a] = "fill" /\ pc'[a] # "fill" /\ stable[e.id] = Empty
                    /\ stable' = [stable EXCEPT ![e.id] = e] /\ UNCHANGED siblings
  OBVIOUS
<1>1. PICK a \in Actor : Create(a) \/ Fill(a)
  BY ArchiveChanges
<1> DEFINE e == EntryOf(mem[a])
<1>2. /\ e \in Entry /\ e.id = mem[a].id /\ e.id \in Batch
      /\ e.reason \in {"replaced", "aborted", "orphaned", "completed"}
  <2>1. Memory(mem[a]) /\ mem[a].cmd \in Archiving /\ mem[a].id \in Batch
    BY <1>0, <1>1, Known DEF Create, Fill, Path
  <2>2. Reason[mem[a].cmd] \in {"replaced", "aborted", "orphaned", "completed"}
    BY <2>1 DEF Reason, Archiving
  <2> QED BY <2>1, <2>2, EntryIs
<1>3. CASE Create(a)
  <2>1. stable[e.id] # NoEntry /\ stable[e.id].reason = e.reason => stable[e.id] \in Entry
    BY <1>0, <1>2 DEF Shaped, Empty
  <2>2. \/ stable[e.id] = NoEntry /\ stable' = [stable EXCEPT ![e.id] = Empty] /\ UNCHANGED siblings
        \/ /\ stable[e.id] # NoEntry /\ stable[e.id].reason = e.reason /\ ~stable[e.id].rich
           /\ stable' = [stable EXCEPT ![e.id] = e] /\ UNCHANGED siblings
        \/ stable[e.id] # NoEntry /\ siblings' = siblings \cup {e} /\ UNCHANGED stable
    BY <1>0, <1>2, <1>3, CreateDoes
  <2> HIDE DEF e
  <2> QED BY <1>2, <2>1, <2>2
<1>4. CASE Fill(a)
  <2>1. pc[a] = "fill" /\ stable[e.id] = Empty
    BY <1>2, <1>4 DEF Fill, Creating
  <2>2. pc'[a] # "fill"
    <3>1. (Advance(a) \/ GivesUp(a)) /\ pc[a] \notin {"idle", "exec"}
      BY <1>4 DEF Fill
    <3>2. \E t, m : Goto(a, t, m) /\ t # "fill"
      <4>1. CASE Advance(a)
        <5>1. Comes(mem[a].cmd, "fill", After[mem[a].cmd]["fill"])
          BY <1>0, <2>1, Known
        <5> QED BY <2>1, <4>1, <5>1 DEF Advance, Comes
      <4>2. CASE GivesUp(a)
        BY <4>2 DEF GivesUp, Quit
      <4> QED BY <3>1, <4>1, <4>2
    <3> QED BY <1>0, <3>2, GotoIs
  <2>3. UNCHANGED siblings /\ stable' = [stable EXCEPT ![e.id] = e]
    BY <1>0, <1>2, <1>4, FillDoes
  <2> HIDE DEF e
  <2> QED BY <1>2, <2>1, <2>2, <2>3
<1> QED BY <1>1, <1>3, <1>4

LEMMA AInvNext ==
  ASSUME AInv, [Next]_vars
  PROVE  AInv'
<1>1. CASE UNCHANGED vars
  BY <1>1, TInvNext DEF AInv, Named, Kept, Creating, vars, archive
<1>2. CASE Next
  <2>0. /\ TInv /\ TInv' /\ Named /\ Kept /\ Creating /\ Shaped
        /\ stable \in [Batch -> Entry \cup {NoEntry, Empty}] /\ siblings \subseteq Entry
    BY TInvNext DEF AInv, TInv, Shaped
  <2>1. \A e \in Entry : e.id \in Batch
    BY DEF Entry
  <2>2. Named' /\ Kept'
    BY <1>2, <2>0, <2>1, Archives, NoneIs DEF Named, Kept
  <2>3. ASSUME NEW a \in Actor, pc[a] = "fill", pc'[a] = "fill"
        PROVE  stable'[mem[a].id] = Empty
    <3>1. /\ stable[mem[a].id] = Empty
          /\ \A b \in Actor : pc[b] = "fill" /\ pc'[b] # "fill" => mem[b].id # mem[a].id
      BY <2>0, <2>3 DEF Creating
    <3> DEFINE i == mem[a].id
    <3>2. /\ stable[i] = Empty /\ i \in DOMAIN stable
          /\ \A b \in Actor : pc[b] = "fill" /\ pc'[b] # "fill" => mem[b].id # i
      BY <2>0, <2>3, <3>1, Known
    <3>3. UNCHANGED stable
          \/ \E b \in Actor, e \in Entry :
               /\ e.id = mem[b].id
               /\ \/ stable[e.id] = NoEntry /\ stable' = [stable EXCEPT ![e.id] = Empty]
                  \/ stable[e.id] \in Entry /\ stable' = [stable EXCEPT ![e.id] = e]
                  \/ pc[b] = "fill" /\ pc'[b] # "fill" /\ stable' = [stable EXCEPT ![e.id] = e]
      BY <1>2, <2>0, Archives
    <3> HIDE DEF i
    <3>4. ASSUME NEW b \in Actor, NEW e \in Entry, e.id = mem[b].id,
                 \/ stable[e.id] = NoEntry /\ stable' = [stable EXCEPT ![e.id] = Empty]
                 \/ stable[e.id] \in Entry /\ stable' = [stable EXCEPT ![e.id] = e]
                 \/ pc[b] = "fill" /\ pc'[b] # "fill" /\ stable' = [stable EXCEPT ![e.id] = e]
          PROVE  stable'[i] = Empty
      <4>1. e.id # i
        BY <3>2, <3>4, NoneIs
      <4> QED BY <3>2, <3>4, <4>1
    <3> QED BY <3>2, <3>3, <3>4 DEF i
  <2>4. ASSUME NEW a \in Actor, pc'[a] = "fill"
        PROVE  stable'[mem'[a].id] = Empty
    <3>1. mem[a].id \in Batch /\ DOMAIN stable = Batch
      BY <1>2, <2>0, <2>4, FillComes, Known DEF Create
    <3> QED BY <1>2, <2>0, <2>3, <2>4, <3>1, FillComes
  <2>5. ASSUME NEW a \in Actor, NEW b \in Actor \ {a}, pc'[a] = "fill", pc'[b] = "fill"
        PROVE  mem'[a].id # mem'[b].id
    <3>1. \A c \in Actor : pc[c] = "fill" => stable[mem[c].id] # NoEntry
      BY <2>0, NoneIs DEF Creating
    <3> QED BY <1>2, <2>0, <2>5, <3>1, FillComes DEF Creating, Create
  <2> QED BY <2>0, <2>2, <2>4, <2>5 DEF AInv, Creating
<1> QED BY <1>1, <1>2

\* The batch b is in the archive.
HasEntry(b) == stable[b] \in Entry \/ \E e \in siblings : e.id = b

LEMMA HasIs ==
  ASSUME AInv, NEW b \in Batch
  PROVE  HasEntry(b) <=> \E e \in Entries : e.id = b
<1>1. stable \in [Batch -> Entry \cup {NoEntry, Empty}] /\ siblings \subseteq Entry /\ Named
  BY DEF AInv, TInv, Shaped
<1>2. Entries = {e \in {stable[c] : c \in Batch} : e \in Entry} \cup siblings
  BY <1>1, NoneIs DEF Entries
<1> QED BY <1>1, <1>2 DEF HasEntry, Named

LEMMA HasStays ==
  ASSUME AInv, Next, NEW b \in Batch, HasEntry(b)
  PROVE  HasEntry(b)'
<1>1. stable \in [Batch -> Entry \cup {NoEntry, Empty}] /\ TInv /\ Creating
  BY DEF AInv, TInv, Shaped
<1> QED BY <1>1, Archives, NoneIs DEF HasEntry

\* Archive entries are final: an entry that has been written keeps its reason, and its record
\* of the plans, whoever archives a batch of that ID again and whenever (writeJSONExclusive,
\* maybeWriteArchiveSibling).
THEOREM EntryIsFinalHolds == Spec => EntryIsFinal
<1>1. Spec => []AInv
  BY AInvInit, AInvNext, PTL DEF Spec
<1>2. ASSUME AInv, [Next]_vars
      PROVE  [\A b \in Batch : stable[b] \in Entries =>
                stable'[b].reason = stable[b].reason /\ (stable[b].rich => stable'[b].rich)]_vars
  <2>1. CASE UNCHANGED vars
    BY <2>1
  <2>2. CASE Next
    <3>1. stable \in [Batch -> Entry \cup {NoEntry, Empty}] /\ TInv /\ Creating
      BY <1>2 DEF AInv, TInv, Shaped
    <3>2. ASSUME NEW b \in Batch, stable[b] \in Entries
          PROVE  stable'[b].reason = stable[b].reason /\ (stable[b].rich => stable'[b].rich)
      <4>1. stable[b] # NoEntry /\ stable[b] # Empty
        BY <3>2 DEF Entries
      <4> QED BY <2>2, <3>1, <4>1, Archives
    <3> QED BY <3>2
  <2> QED BY <1>2, <2>1, <2>2
<1> QED BY <1>1, <1>2, PTL DEF Spec, EntryIsFinal

----------------------------------------------------------------------------
(* Nothing is lost.                                                        *)

\* No batch is compiled anew while a start runs.
Apart == Live \cap {"plan", "replace"} = {}

Alone == mem["command"].cmd \in {"plan", "replace"} => Idle("start")

\* With d for .springfield/plans no batch is lost.
Lossless(d) == \A b \in born : d[b] # <<>> \/ HasEntry(b)

\* What an actor relies on, and no step of the other one takes away: the batch it works on has
\* been active; what it may put back loses nothing; the batch it activates is there; the one it
\* removes has its entry.
Carries(a) ==
  /\ mem[a].cmd \in {"exec", "append"} => mem[a].id \in born
  /\ pc[a] = "exec" /\ mem[a].seen # <<>> => Lossless(mem[a].seen[2])
  /\ pc[a] = "prds" /\ mem[a].id \in born => mem[a].prior # <<>> \/ HasEntry(mem[a].id)
  /\ pc[a] \in {"prds", "register", "cursor"} /\ mem[a].cmd \in {"plan", "replace"} =>
       dir[mem[a].id] # <<>>
  /\ pc[a] \in {"relocate", "rmdir"} \/ (pc[a] = "create" /\ mem[a].cmd = "recover") =>
       HasEntry(mem[a].id)
  /\ mem[a].cmd = "recover" => pc[a] # "fill"

LInv ==
  /\ AInv /\ Alone /\ born \subseteq Batch /\ (run # "none" => run \in born)
  /\ Lossless(dir) /\ (\A a \in Actor : Carries(a)) /\ NoOrphanStub

LEMMA LInvInit == Init => LInv
<1> SUFFICES ASSUME Init PROVE LInv
  OBVIOUS
<1>1. \A a \in Actor : pc[a] = "idle" /\ mem[a] = NoMem
  BY DEF Init
<1>2. \A a \in Actor : Carries(a)
  BY <1>1 DEF Carries, NoMem
<1> QED BY <1>1, <1>2, AInvInit DEF Init, LInv, Alone, Lossless, NoOrphanStub, NoEntry, NoMem, Actor

\* Only one of them moves.
Others(a) == \A b \in Actor \ {a} : pc'[b] = pc[b] /\ mem'[b] = mem[b]

\* A command or a start begins.
Begins(a) ==
  /\ UNCHANGED <<run, dir, born, stable, siblings>> /\ pc[a] = "idle"
  /\ \/ /\ a = "start" /\ MayStart /\ run \in Batch /\ mem'[a].id = run
        /\ \/ pc'[a] = "exec" /\ mem'[a].cmd = "exec" /\ mem'[a].seen = <<>>
           \/ pc'[a] = "create" /\ mem'[a].cmd = "recover" /\ ~Readable
     \/ /\ a = "command" /\ May(mem'[a].cmd)
        /\ \/ pc'[a] = "write" /\ mem'[a].cmd = "plan"
           \/ pc'[a] = "create" /\ mem'[a].cmd \in {"replace", "abort"}
           \/ /\ run \in Batch /\ mem'[a].id = run
              /\ \/ pc'[a] = "write" /\ mem'[a].cmd = "append"
                 \/ pc'[a] = "create" /\ mem'[a].cmd = "recover" /\ ~Readable

LEMMA BeginsIs ==
  ASSUME Shaped, Operator \/ Start
  PROVE  UNCHANGED <<pc, mem, run, dir, born, stable, siblings>>
         \/ \E a \in Actor : Begins(a) /\ Others(a)
<1>0. "command" \in Actor /\ "start" \in Actor
  BY DEF Actor
<1>1. CASE PlanNew
  <2> DEFINE g == compiled + 1
             m == [Now("plan", g) EXCEPT !.id = Envelopes[g].title]
  <2>1. g \in Gen /\ Envelopes[g].title \in Batch
    BY <1>1, GenIs, BodyIs DEF PlanNew, MayCompile, Shaped
  <2>2. Goto("command", "write", m) /\ May("plan") /\ UNCHANGED <<run, dir, born, stable, siblings>>
    BY <1>1 DEF PlanNew, MayCompile, files, archive, history
  <2>3. m.cmd = "plan"
    BY <2>1, NowIs DEF Cmd
  <2> HIDE DEF m, g
  <2>4. pc'["command"] = "write" /\ mem'["command"] = m /\ Others("command")
    BY <1>0, <2>2, GotoIs DEF Others
  <2>5. Begins("command")
    BY <2>2, <2>3, <2>4 DEF Begins, May, Idle
  <2> QED BY <1>0, <2>4, <2>5
<1>2. CASE PlanReplace \/ PlanAppend \/ BatchAbort \/ RecoverOrphan
  <2>0. \E c \in {"replace", "append", "abort", "recover"} : \E g :
          /\ May(c) /\ Goto("command", IF c = "append" THEN "write" ELSE "create", Now(c, g))
          /\ run # "none" /\ (c = "recover" => ~Readable)
          /\ UNCHANGED <<run, dir, born, stable, siblings>>
    BY <1>2 DEF PlanReplace, PlanAppend, BatchAbort, RecoverOrphan, MayCompile, files, archive,
                history, Readable
  <2>1. PICK c, g :
          /\ c \in {"replace", "append", "abort", "recover"}
          /\ May(c) /\ Goto("command", IF c = "append" THEN "write" ELSE "create", Now(c, g))
          /\ run # "none" /\ (c = "recover" => ~Readable)
          /\ UNCHANGED <<run, dir, born, stable, siblings>>
    BY <2>0
  <2>2. Now(c, g).cmd = c /\ Now(c, g).id = run /\ run \in Batch
    BY <2>1, NowIs DEF Cmd, Shaped
  <2>3. /\ pc'["command"] = IF c = "append" THEN "write" ELSE "create"
        /\ mem'["command"] = Now(c, g) /\ Others("command")
    BY <1>0, <2>1, GotoIs DEF Others
  <2>4. Begins("command")
    BY <2>1, <2>2, <2>3 DEF Begins, May, Idle
  <2> QED BY <1>0, <2>3, <2>4
<1>3. CASE RecoverStale
  BY <1>3 DEF RecoverStale, archive, history
<1>4. CASE Start
  <2>1. PICK c \in {"exec", "recover"} :
          /\ MayStart /\ Goto("start", IF c = "exec" THEN "exec" ELSE "create", Now(c, 0))
          /\ run # "none" /\ (c = "recover" => ~Readable)
          /\ UNCHANGED <<run, dir, born, stable, siblings>>
    BY <1>4 DEF Start, files, archive, history
  <2>2. Now(c, 0).cmd = c /\ Now(c, 0).id = run /\ run \in Batch /\ Now(c, 0).seen = <<>>
    BY <2>1, NowIs DEF Cmd, Shaped
  <2>3. /\ pc'["start"] = IF c = "exec" THEN "exec" ELSE "create"
        /\ mem'["start"] = Now(c, 0) /\ Others("start")
    BY <1>0, <2>1, GotoIs DEF Others
  <2>4. Begins("start")
    BY <2>1, <2>2, <2>3 DEF Begins, MayStart, Idle
  <2> QED BY <1>0, <2>3, <2>4
<1> QED BY <1>1, <1>2, <1>3, <1>4 DEF Operator

\* A start goes on with its plans.
Works ==
  /\ UNCHANGED <<born, stable, siblings>> /\ pc["start"] = "exec" /\ run' \in {run, Me.id}
  /\ \/ /\ UNCHANGED dir /\ pc'["start"] = "exec" /\ mem'["start"].cmd = Me.cmd
        /\ mem'["start"].id = Me.id
        /\ mem'["start"].seen \in {Me.seen, <<>>} \/ mem'["start"].seen[2] = dir
     \/ /\ UNCHANGED dir /\ pc'["start"] = "create" /\ mem'["start"].cmd \in {"finalize", "fallback"}
     \/ /\ pc'["start"] = "idle" /\ mem'["start"] = NoMem
        /\ UNCHANGED dir \/ (Me.seen # <<>> /\ dir' = Me.seen[2])

LEMMA WorksIs ==
  ASSUME TInv, Running_Start
  PROVE  Works /\ Others("start")
<1>0. /\ "start" \in Actor /\ Memory(Me) /\ Placed("start") /\ Me = mem["start"]
      /\ DOMAIN mem = Actor /\ DOMAIN pc = Actor /\ Shaped
  BY DEF TInv, Actor, Shaped, Me
<1> USE DEF Working, Executing, files, archive, history
<1>1. CASE Dispatch
  <2> DEFINE q == NextPlan
             s == Marked(NextPlan, "running")
             z == <<Me.id, dir, prd>>
  <2>1. /\ UNCHANGED <<born, stable, siblings, dir, pc>> /\ pc["start"] = "exec" /\ run' = Me.id
        /\ z[2] = dir
    BY <1>1 DEF Dispatch
  <2>2. \/ mem' = [mem EXCEPT !["start"].now = q]
        \/ mem' = [mem EXCEPT !["start"].now = q, !["start"].state = s, !["start"].seen = z]
    BY <1>1 DEF Dispatch
  <2> HIDE DEF q, s, z
  <2>3. mem'["start"].cmd = Me.cmd /\ mem'["start"].id = Me.id /\ mem'["start"].seen \in {Me.seen, z}
    BY <1>0, <2>2 DEF Memory, Fields
  <2>4. Others("start")
    BY <1>0, <2>1, <2>2 DEF Others
  <2> QED BY <2>1, <2>3, <2>4 DEF Works
<1>2. CASE Snapshot
  <2> DEFINE z == guarded
  <2>1. /\ UNCHANGED <<born, stable, siblings, dir, pc, run>> /\ pc["start"] = "exec" /\ z[2] = dir
        /\ mem' = [mem EXCEPT !["start"].seen = z]
    BY <1>2 DEF Snapshot, guarded
  <2> HIDE DEF z
  <2>2. mem'["start"].cmd = Me.cmd /\ mem'["start"].id = Me.id /\ mem'["start"].seen = z /\ Others("start")
    BY <1>0, <2>1 DEF Memory, Fields, Others
  <2> QED BY <2>1, <2>2 DEF Works
<1>3. ASSUME Quit("start"), UNCHANGED dir \/ (Me.seen # <<>> /\ dir' = Me.seen[2]), run' \in {run, Me.id},
             UNCHANGED <<born, stable, siblings>>, pc["start"] = "exec"
      PROVE  Works /\ Others("start")
  BY <1>0, <1>3, GotoIs DEF Quit, Works, Others
<1>4. CASE Restore
  <2>1. Me.seen # <<>>
    BY <1>0, <1>4 DEF Restore, TInv, Watched
  <2> QED BY <1>3, <1>4, <2>1 DEF Restore
<1>5. CASE Work
  <2> DEFINE s == Marked(Me.now, "completed")
  <2>1. /\ UNCHANGED <<born, stable, siblings, dir>> /\ pc["start"] = "exec"
        /\ \/ UNCHANGED <<pc, run>> /\ mem' = [mem EXCEPT !["start"].state = s, !["start"].seen = <<>>]
           \/ Quit("start") /\ run' = Me.id
    BY <1>5 DEF Work
  <2> HIDE DEF s
  <2>2. CASE UNCHANGED <<pc, run>> /\ mem' = [mem EXCEPT !["start"].state = s, !["start"].seen = <<>>]
    <3>1. mem'["start"].cmd = Me.cmd /\ mem'["start"].id = Me.id /\ mem'["start"].seen = <<>>
          /\ Others("start")
      BY <1>0, <2>2 DEF Memory, Fields, Others
    <3> QED BY <2>1, <2>2, <3>1 DEF Works
  <2> QED BY <1>3, <2>1, <2>2
<1>6. CASE Integrate
  <2> DEFINE s == Marked(Me.now, "integrated")
  <2>1. /\ UNCHANGED <<born, stable, siblings, dir>> /\ pc["start"] = "exec" /\ run' = Me.id
        /\ \/ UNCHANGED pc /\ mem' = [mem EXCEPT !["start"].state = s, !["start"].now = "none"]
           \/ Quit("start")
    BY <1>6 DEF Integrate
  <2> HIDE DEF s
  <2>2. CASE UNCHANGED pc /\ mem' = [mem EXCEPT !["start"].state = s, !["start"].now = "none"]
    <3>1. mem'["start"].cmd = Me.cmd /\ mem'["start"].id = Me.id /\ mem'["start"].seen = Me.seen
          /\ Others("start")
      BY <1>0, <2>2 DEF Memory, Fields, Others
    <3> QED BY <2>1, <2>2, <3>1 DEF Works
  <2> QED BY <1>3, <2>1, <2>2
<1>7. CASE Complete
  <2>1. PICK m : Goto("start", "create", m) /\ m.cmd \in {"finalize", "fallback"}
    BY <1>0, <1>7, CompleteIs
  <2>2. pc'["start"] = "create" /\ mem'["start"] = m /\ Others("start")
    BY <1>0, <2>1, GotoIs DEF Others
  <2>3. UNCHANGED <<born, stable, siblings, dir>> /\ pc["start"] = "exec" /\ run' \in {run, Me.id}
    BY <1>7 DEF Complete
  <2> QED BY <2>1, <2>2, <2>3 DEF Works
<1> QED BY <1>1, <1>2, <1>4, <1>5, <1>6, <1>7 DEF Running_Start

\* What the other one relies on stays.
LEMMA OtherCarries ==
  ASSUME LInv, Next, NEW b \in Actor, pc'[b] = pc[b], mem'[b] = mem[b],
         born' = born \/ pc[b] = "idle", dir' = dir \/ mem[b].cmd \notin {"plan", "replace"}
  PROVE  Carries(b)'
<1>1. Carries(b) /\ Placed(b) /\ born \subseteq Batch
  BY DEF LInv, AInv, TInv, Shaped
<1>2. \A c \in Batch : HasEntry(c) => HasEntry(c)'
  BY HasStays DEF LInv
<1>3. CASE pc[b] = "idle"
  BY <1>1, <1>3 DEF Carries, Placed, Path
<1>4. CASE pc[b] # "idle"
  <2>1. mem[b].id \in Batch /\ born' = born
    BY <1>1, <1>4 DEF Placed
  <2>2. \A d : Lossless(d) => Lossless(d)'
    BY <1>1, <1>2, <2>1 DEF Lossless
  <2> QED BY <1>1, <1>2, <2>1, <2>2 DEF Carries
<1> QED BY <1>3, <1>4

\* A batch that is created in the archive, or was there, has its entry when it goes on.
LEMMA CreateHas ==
  ASSUME AInv, NEW a \in Actor, Create(a), NEW b, b = mem[a].id, mem[a].cmd = "recover" => HasEntry(b)
  PROVE  /\ pc'[a] \in {"relocate", "rmdir"} => HasEntry(b)'
         /\ mem[a].cmd = "recover" => pc'[a] # "fill"
         /\ pc'[a] \notin {"create", "exec", "prds", "cursor"}
<1>0. Shaped /\ Named /\ Kept /\ stable \in [Batch -> Entry \cup {NoEntry, Empty}]
  BY DEF AInv, TInv, Shaped
<1> DEFINE e == EntryOf(mem[a])
<1>1. /\ pc[a] = "create" /\ Memory(mem[a]) /\ b \in Batch /\ mem[a].cmd \in Archiving
      /\ e \in Entry /\ e.id = b /\ e.reason = Reason[mem[a].cmd]
      /\ e.reason \in {"replaced", "aborted", "orphaned", "completed"}
  <2>1. pc[a] = "create" /\ Memory(mem[a]) /\ b \in Batch /\ mem[a].cmd \in Archiving
    BY <1>0, Known DEF Create, Path
  <2>2. Reason[mem[a].cmd] \in {"replaced", "aborted", "orphaned", "completed"}
    BY <2>1 DEF Reason, Archiving
  <2> QED BY <2>1, <2>2, EntryIs
<1>2. HasEntry(b) => stable[b] # NoEntry
  BY <1>0, NoneIs DEF HasEntry, Kept
<1>3. CASE /\ stable[b] # NoEntry /\ Goto(a, After[mem[a].cmd]["fill"], mem[a])
           /\ IF mem[a].cmd = "recover" THEN UNCHANGED <<stable, siblings>> ELSE Collide(mem[a])
  <2>1. Comes(mem[a].cmd, "fill", After[mem[a].cmd]["fill"])
    BY <1>1, AfterFollows DEF Follows, Path, Steps
  <2>2. pc'[a] = After[mem[a].cmd]["fill"]
    BY <1>0, <1>3, GotoIs
  <2>3. HasEntry(b)'
    <3>1. CASE UNCHANGED <<stable, siblings>> /\ (mem[a].cmd = "recover" \/ stable[b].reason = e.reason)
      <4>1. stable[b].reason = e.reason => stable[b] \in Entry
        BY <1>0, <1>1, <1>3 DEF Empty
      <4> QED BY <3>1, <4>1 DEF HasEntry
    <3>2. CASE stable' = [stable EXCEPT ![b] = e]
      BY <1>0, <1>1, <3>2 DEF HasEntry
    <3>3. CASE siblings' = siblings \cup {e}
      BY <1>1, <3>3 DEF HasEntry
    <3> QED BY <1>1, <1>3, <3>1, <3>2, <3>3 DEF Collide
  <2> QED BY <2>1, <2>2, <2>3 DEF Comes
<1>4. CASE Advance(a) /\ stable[b] = NoEntry
  <2>1. After[mem[a].cmd]["create"] = "fill"
    BY <1>1 DEF Archiving, After, ReplaceAfter, AbortAfter, OrphanAfter, FinalizeAfter, FallbackAfter
  <2>2. pc'[a] = "fill"
    BY <1>0, <1>1, <1>4, <2>1, GotoIs DEF Advance
  <2> QED BY <1>2, <1>4, <2>2
<1>5. CASE GivesUp(a)
  <2>1. pc'[a] \in {"clear", "idle"}
    BY <1>0, <1>5, GotoIs DEF GivesUp, Quit
  <2> QED BY <2>1
<1> QED BY <1>3, <1>4, <1>5 DEF Create

LEMMA FillHas ==
  ASSUME AInv, NEW a \in Actor, Fill(a), NEW b, b = mem[a].id
  PROVE  /\ pc'[a] \in {"relocate", "rmdir"} => HasEntry(b)'
         /\ pc'[a] \notin {"create", "exec", "prds", "cursor", "fill"}
<1>0. Shaped /\ pc[a] = "fill"
  BY DEF AInv, TInv, Fill
<1>1. CASE stable' = [stable EXCEPT ![mem[a].id] = EntryOf(mem[a])] /\ Advance(a)
  <2>1. mem[a].id \in Batch /\ EntryOf(mem[a]) \in Entry
    BY <1>0, Known, EntryIs DEF Path
  <2>2. HasEntry(b)'
    BY <1>0, <1>1, <2>1 DEF HasEntry, Shaped
  <2>3. Comes(mem[a].cmd, "fill", After[mem[a].cmd]["fill"])
    BY <1>0, Known
  <2>4. pc'[a] = After[mem[a].cmd]["fill"]
    BY <1>0, <1>1, GotoIs DEF Advance
  <2> QED BY <2>2, <2>3, <2>4 DEF Comes
<1>2. CASE GivesUp(a)
  <2>1. pc'[a] \in {"clear", "idle"}
    BY <1>0, <1>2, GotoIs DEF GivesUp, Quit
  <2> QED BY <2>1
<1> QED BY <1>1, <1>2 DEF Fill

\* No stub of an orphan is written.
LEMMA StubNext ==
  ASSUME LInv, Next
  PROVE  NoOrphanStub'
<1>0. Shaped /\ NoOrphanStub /\ stable \in [Batch -> Entry \cup {NoEntry, Empty}]
  BY DEF LInv, AInv, TInv, Shaped
<1>1. CASE UNCHANGED stable
  BY <1>0, <1>1 DEF NoOrphanStub
<1>2. ASSUME NEW a \in Actor, Create(a)
      PROVE  NoOrphanStub'
  BY <1>0, <1>2, CreateDoes DEF NoOrphanStub, Empty
<1>3. ASSUME NEW a \in Actor, Fill(a)
      PROVE  NoOrphanStub'
  <2>1. pc[a] = "fill" /\ mem[a].cmd # "recover"
    BY <1>3 DEF Fill, LInv, Carries
  <2>2. EntryOf(mem[a]).reason # "orphaned"
    BY <1>0, <2>1, Known, EntryIs DEF Path, Archiving, Reason
  <2> QED BY <1>0, <1>3, <2>2, FillDoes DEF NoOrphanStub
<1> QED BY <1>1, <1>2, <1>3, ArchiveChanges

\* While one of them is under way the other one compiles no batch anew.
LEMMA Aside ==
  ASSUME LInv, NEW a \in Actor, pc[a] # "idle", NEW b \in Actor \ {a}
  PROVE  /\ mem[b].cmd \notin {"plan", "replace"}
         /\ mem[a].cmd \in {"plan", "replace"} => pc[b] = "idle"
  BY DEF LInv, Alone, Idle, Actor, AInv, TInv, Shaped, Placed, Mine

LEMMA AloneStays ==
  ASSUME LInv, Shaped', NEW a \in Actor, pc[a] # "idle", Others(a),
         pc'[a] # "idle" => mem'[a].cmd = mem[a].cmd \/ mem'[a].cmd \notin {"plan", "replace"}
  PROVE  Alone'
<1>1. pc'[a] = "idle" => mem'[a].cmd = "none"
  BY DEF Shaped, Placed, Path
<1>2. CASE a = "start"
  <2>1. mem'["command"] = mem["command"]
    BY <1>2 DEF Others, Actor
  <2> QED BY <1>2, <2>1, Aside DEF Alone, Actor
<1>3. CASE a = "command"
  <2>1. pc'["start"] = pc["start"]
    BY <1>3 DEF Others, Actor
  <2> QED BY <1>1, <1>3, <2>1, Aside DEF Alone, Actor, Idle
<1> QED BY <1>2, <1>3 DEF Actor

LEMMA LosslessStays ==
  ASSUME LInv, Next, UNCHANGED born
  PROVE  \A d : Lossless(d) => Lossless(d)'
<1>1. \A c \in Batch : HasEntry(c) => HasEntry(c)'
  BY HasStays DEF LInv
<1> QED BY <1>1 DEF LInv, Lossless

\* A batch whose batch.json is gone has its entry.
LEMMA GoneHas ==
  ASSUME LInv, run # "none", ~Readable
  PROVE  HasEntry(run)
  BY DEF LInv, Readable, Lossless

\* What is left to show of a step.
Keeps(a) == born' \subseteq Batch /\ (run' # "none" => run' \in born') /\ Lossless(dir)' /\ Carries(a)'

LEMMA BeginsKeeps ==
  ASSUME LInv, Next, Apart, NEW a \in Actor, Begins(a), Others(a)
  PROVE  Alone' /\ \A b \in Actor : Keeps(b)
<1>0. /\ UNCHANGED <<run, dir, born, stable, siblings>> /\ pc[a] = "idle" /\ Shaped /\ Shaped'
      /\ born \subseteq Batch /\ (run # "none" => run \in born) /\ Lossless(dir)
  BY AInvNext DEF Begins, LInv, AInv, TInv
<1>1. Lossless(dir)'
  BY <1>0 DEF Lossless, HasEntry
<1>2. Carries(a)'
  <2>1. ~Readable /\ mem'[a].id = run /\ run \in Batch => HasEntry(mem[a].id)'
    <3>1. "none" \notin Batch
      BY LifeAssumption
    <3> QED BY <1>0, <3>1, GoneHas DEF HasEntry
  <2>2. mem'[a].cmd \in {"exec", "append"} => mem'[a].id = run /\ run \in Batch
    BY DEF Begins
  <2>3. "none" \notin Batch
    BY LifeAssumption
  <2> QED BY <1>0, <2>1, <2>2, <2>3 DEF Begins, Carries
<1>3. \A b \in Actor \ {a} : Carries(b)'
  BY <1>0, OtherCarries DEF Others
<1>4. Alone'
  <2>0. \A b \in Actor : pc[b] = "idle" => mem[b].cmd = "none"
    BY <1>0 DEF Shaped, Placed, Path
  <2>1. CASE a = "start"
    <3>1. mem'["command"] = mem["command"] /\ MayStart
      BY <2>1 DEF Others, Actor, Begins
    <3> QED BY <2>0, <3>1 DEF Alone, MayStart, Idle, Apart, Actor
  <2>2. CASE a = "command"
    <3>1. pc'["start"] = pc["start"] /\ May(mem'["command"].cmd)
      BY <2>2 DEF Others, Actor, Begins
    <3> QED BY <3>1 DEF Alone, May, Idle, Apart
  <2> QED BY <2>1, <2>2 DEF Actor
<1> QED BY <1>0, <1>1, <1>2, <1>3, <1>4 DEF Keeps

LEMMA WorksKeeps ==
  ASSUME LInv, Next, Works, Others("start")
  PROVE  Alone' /\ \A b \in Actor : Keeps(b)
<1>0. /\ UNCHANGED <<born, stable, siblings>> /\ pc["start"] = "exec" /\ Shaped /\ Shaped'
      /\ "start" \in Actor /\ Carries("start") /\ Placed("start") /\ Me = mem["start"]
      /\ born \subseteq Batch /\ (run # "none" => run \in born) /\ Lossless(dir)
      /\ run' \in {run, Me.id}
  BY AInvNext DEF Works, LInv, AInv, TInv, Shaped, Actor, Me
<1>1. Me.id \in born /\ Me.cmd = "exec"
  BY <1>0 DEF Carries, Placed, Path
<1>2. dir' = dir \/ (Me.seen # <<>> /\ dir' = Me.seen[2])
  BY DEF Works
<1>3. Me.seen # <<>> => Lossless(Me.seen[2])
  BY <1>0 DEF Carries
<1>4. Lossless(dir')
  BY <1>0, <1>2, <1>3
<1>5. Lossless(dir)'
  BY <1>0, <1>4 DEF Lossless, HasEntry
<1>6. Carries("start")'
  BY <1>0, <1>1, <1>3 DEF Works, Carries, Lossless, HasEntry, NoMem
<1>7. ASSUME NEW b \in Actor \ {"start"} PROVE Carries(b)'
  BY <1>0, <1>7, OtherCarries, Aside DEF Others
<1>8. Alone'
  BY <1>0, <1>1, AloneStays DEF Works
<1> QED BY <1>0, <1>1, <1>5, <1>6, <1>7, <1>8 DEF Keeps

LEMMA ArchiveKeeps ==
  ASSUME LInv, Next, NEW a \in Actor, Create(a) \/ Fill(a)
  PROVE  Keeps(a) /\ UNCHANGED <<dir, born>>
<1>0. /\ UNCHANGED <<run, dir, born>> /\ Shaped /\ AInv /\ pc[a] \in {"create", "fill"}
      /\ born \subseteq Batch /\ (run # "none" => run \in born) /\ Lossless(dir) /\ Carries(a)
  BY DEF LInv, AInv, TInv, Create, Fill, files, history
<1>1. Lossless(dir)'
  BY <1>0, LosslessStays DEF Lossless
<1>2. PICK t, m : Goes(a, t, m)
  BY <1>0, CreateGoes, StepGoes DEF Step
<1>3. pc'[a] = t /\ (t # "idle" => mem'[a].cmd = mem[a].cmd /\ mem'[a].id = mem[a].id)
      /\ (t = "idle" => mem'[a] = NoMem) /\ (t # "idle" => Comes(mem[a].cmd, pc[a], t))
  BY <1>0, <1>2, GotoIs DEF Goes
<1>4. /\ pc'[a] \in {"relocate", "rmdir"} => HasEntry(mem[a].id)'
      /\ mem[a].cmd = "recover" => pc'[a] # "fill"
      /\ pc'[a] \notin {"create", "exec", "prds", "cursor"}
  <2> DEFINE b == mem[a].id
  <2>1. /\ pc'[a] \in {"relocate", "rmdir"} => (stable'[b] \in Entry \/ \E e \in siblings' : e.id = b)
        /\ mem[a].cmd = "recover" => pc'[a] # "fill"
        /\ pc'[a] \notin {"create", "exec", "prds", "cursor"}
    BY <1>0, CreateHas, FillHas DEF Carries, HasEntry, Create, Fill
  <2>2. pc'[a] \in {"relocate", "rmdir"} => mem'[a].id = b
    BY <1>3
  <2> QED BY <2>1, <2>2 DEF HasEntry
<1>5. Carries(a)'
  BY <1>0, <1>3, <1>4 DEF Carries, Comes, Compiling, NoMem
<1> QED BY <1>0, <1>1, <1>5 DEF Keeps

\* What the actor a relies on after a step that leaves the archive alone.
LEMMA RestCarries ==
  ASSUME LInv, Next, NEW a \in Actor, pc[a] \notin {"idle", "exec", "create", "fill", "write"},
         NEW t, NEW m, Goes(a, t, m), born \subseteq born',
         dir' = dir \/ pc[a] \notin {"prds", "register"} \/ t = "idle"
  PROVE  Carries(a)'
<1>0. Shaped /\ Carries(a) /\ mem[a].id \in Batch
  BY Known DEF LInv, AInv, TInv
<1>1. CASE t = "idle"
  BY <1>0, <1>1, GotoIs DEF Goes, Carries, NoMem
<1>2. CASE t # "idle"
  <2> DEFINE b == mem[a].id
  <2>1. pc'[a] = t /\ mem'[a].cmd = mem[a].cmd /\ mem'[a].id = b /\ Comes(mem[a].cmd, pc[a], t)
    BY <1>0, <1>2, GotoIs DEF Goes
  <2>2. HasEntry(b) => (stable'[b] \in Entry \/ \E e \in siblings' : e.id = b)
    BY <1>0, HasStays DEF LInv, HasEntry
  <2>3. t = "rmdir" => HasEntry(b)
    BY <1>0, <2>1 DEF Comes, Carries
  <2>4. t \in {"register", "cursor"} /\ mem[a].cmd \in {"plan", "replace"} => dir'[b] # <<>>
    BY <1>0, <1>2, <2>1 DEF Comes, Carries, Compiling
  <2>5. mem[a].cmd \in {"exec", "append"} => b \in born'
    BY <1>0 DEF Carries
  <2>6. t \notin {"create", "exec", "fill", "prds", "relocate"}
    BY <2>1 DEF Comes
  <2> HIDE DEF b
  <2> QED BY <2>1, <2>2, <2>3, <2>4, <2>5, <2>6 DEF Carries, HasEntry
<1> QED BY <1>1, <1>2

\* The steps of a command but those of the archive.
LEMMA QuietKeeps ==
  ASSUME LInv, Next, NEW a \in Actor,
         Relocate(a) \/ RemoveEvidence(a) \/ FlushState(a) \/ Register(a) \/ ClearRun(a)
  PROVE  Keeps(a) /\ UNCHANGED <<dir, born>>
<1>0. /\ UNCHANGED <<dir, born>> /\ run' \in {run, "none"} /\ Shaped
      /\ pc[a] \notin {"idle", "exec", "create", "fill", "write"}
      /\ born \subseteq Batch /\ (run # "none" => run \in born) /\ Lossless(dir)
  BY DEF LInv, AInv, TInv, Relocate, RemoveEvidence, FlushState, Register, ClearRun, files, history
<1>1. Lossless(dir)'
  BY <1>0, LosslessStays DEF Lossless
<1>2. Carries(a)'
  BY <1>0, RestCarries, StepGoes DEF Step
<1> QED BY <1>0, <1>1, <1>2 DEF Keeps

LEMMA RemoveKeeps ==
  ASSUME LInv, Next, NEW a \in Actor, RemoveBatchDir(a)
  PROVE  Keeps(a) /\ UNCHANGED born
<1>0. /\ UNCHANGED <<run, born>> /\ Shaped /\ pc[a] = "rmdir" /\ Carries(a)
      /\ born \subseteq Batch /\ (run # "none" => run \in born) /\ Lossless(dir) /\ dir \in Dirs
      /\ mem[a].id \in Batch
  BY Known DEF LInv, AInv, TInv, RemoveBatchDir, history, Shaped
<1>1. \A c \in Batch : HasEntry(c) => HasEntry(c)'
  BY HasStays DEF LInv
<1>2. dir' = dir \/ dir' = [dir EXCEPT ![mem[a].id] = <<>>]
  BY DEF RemoveBatchDir
<1>3. Lossless(dir)'
  <2>1. ASSUME NEW c \in born' PROVE dir'[c] # <<>> \/ HasEntry(c)'
    <3>1. dir[c] # <<>> \/ HasEntry(c)
      BY <1>0, <2>1 DEF Lossless
    <3>2. c = mem[a].id => HasEntry(c)
      BY <1>0 DEF Carries
    <3> QED BY <1>0, <1>1, <1>2, <2>1, <3>1, <3>2 DEF Dirs
  <2> QED BY <2>1 DEF Lossless
<1>4. Carries(a)'
  BY <1>0, RestCarries, StepGoes DEF Step
<1> QED BY <1>0, <1>3, <1>4 DEF Keeps

LEMMA PlansKeeps ==
  ASSUME LInv, Next, NEW a \in Actor, WritePlanFiles(a)
  PROVE  Keeps(a) /\ UNCHANGED born
<1>0. /\ UNCHANGED <<run, born>> /\ Shaped /\ pc[a] = "prds" /\ Carries(a)
      /\ born \subseteq Batch /\ (run # "none" => run \in born) /\ Lossless(dir) /\ dir \in Dirs
      /\ mem[a].id \in Batch
  BY Known DEF LInv, AInv, TInv, WritePlanFiles, history, Shaped
<1>1. \A c \in Batch : HasEntry(c) => HasEntry(c)'
  BY HasStays DEF LInv
<1>2. dir' = dir \/ (Quit(a) /\ dir' = [dir EXCEPT ![mem[a].id] = mem[a].prior])
  BY DEF WritePlanFiles
<1>3. Lossless(dir)'
  <2>1. ASSUME NEW c \in born' PROVE dir'[c] # <<>> \/ HasEntry(c)'
    <3>1. dir[c] # <<>> \/ HasEntry(c)
      BY <1>0, <2>1 DEF Lossless
    <3>2. c = mem[a].id => mem[a].prior # <<>> \/ HasEntry(c)
      BY <1>0, <2>1 DEF Carries
    <3> QED BY <1>0, <1>1, <1>2, <2>1, <3>1, <3>2 DEF Dirs
  <2> QED BY <2>1 DEF Lossless
<1>4. Carries(a)'
  <2>1. PICK t, m : Goes(a, t, m)
    BY <1>0, StepGoes DEF Step
  <2>2. dir' = dir \/ t = "idle"
    BY <1>0, <1>2, <2>1, GotoIs DEF Goes, Quit
  <2> QED BY <1>0, <2>1, <2>2, RestCarries
<1> QED BY <1>0, <1>3, <1>4 DEF Keeps

LEMMA CursorKeeps ==
  ASSUME LInv, Next, NEW a \in Actor, WriteCursor(a)
  PROVE  Keeps(a) /\ UNCHANGED dir /\ \A b \in Actor \ {a} : born' = born \/ pc[b] = "idle"
<1>0. /\ UNCHANGED dir /\ Shaped /\ pc[a] = "cursor" /\ Carries(a)
      /\ born \subseteq Batch /\ (run # "none" => run \in born) /\ Lossless(dir)
      /\ mem[a].id \in Batch /\ mem[a].cmd \in Compiling
  BY Known DEF LInv, AInv, TInv, WriteCursor, Path
<1>1. \A c \in Batch : HasEntry(c) => HasEntry(c)'
  BY HasStays DEF LInv
<1>2. \/ run' = run /\ born' = born
      \/ run' = mem[a].id /\ born' = born \cup {mem[a].id}
  BY DEF WriteCursor
<1>3. mem[a].id \in born \/ (mem[a].cmd \in {"plan", "replace"} /\ dir[mem[a].id] # <<>>)
  BY <1>0 DEF Carries, Compiling
<1>4. Lossless(dir)'
  <2>1. ASSUME NEW c \in born' PROVE dir[c] # <<>> \/ HasEntry(c)'
    BY <1>0, <1>1, <1>2, <1>3, <2>1 DEF Lossless
  <2> QED BY <1>0, <2>1 DEF Lossless
<1>5. Carries(a)'
  BY <1>0, <1>2, RestCarries, StepGoes DEF Step
<1>6. \A b \in Actor \ {a} : born' = born \/ pc[b] = "idle"
  BY <1>0, <1>2, <1>3, Aside
<1> QED BY <1>0, <1>2, <1>4, <1>5, <1>6 DEF Keeps

\* The batch that is written is there, and what was there is put back when the write fails.
LEMMA WriteKeeps ==
  ASSUME LInv, Next, NEW a \in Actor, WriteBatchFile(a)
  PROVE  Keeps(a) /\ UNCHANGED born
<1>0. /\ UNCHANGED <<run, born>> /\ Shaped /\ pc[a] = "write" /\ Carries(a) /\ Memory(mem[a])
      /\ born \subseteq Batch /\ (run # "none" => run \in born) /\ Lossless(dir) /\ dir \in Dirs
      /\ mem[a].cmd \in Compiling /\ mem[a].gen \in Gen /\ mem[a].id \in Batch
  <2>1. /\ UNCHANGED <<run, born>> /\ Shaped /\ pc[a] = "write" /\ Carries(a)
        /\ born \subseteq Batch /\ (run # "none" => run \in born) /\ Lossless(dir)
    BY DEF LInv, AInv, TInv, WriteBatchFile, history
  <2>2. dir \in Dirs /\ Memory(mem[a]) /\ Placed(a)
    BY <2>1 DEF Shaped
  <2>3. mem[a].cmd \in Compiling /\ mem[a].gen \in Gen /\ mem[a].id \in Batch
    BY <2>1, <2>2 DEF Placed, Path, Compiling
  <2> QED BY <2>1, <2>2, <2>3
<1>1. \A c \in Batch : HasEntry(c) => HasEntry(c)'
  BY HasStays DEF LInv
<1> DEFINE b == Target(mem[a])
           w == (IF mem[a].cmd = "append" THEN mem[a].work ELSE <<>>) \o Body(mem[a].gen)
           r == dir[b]
           m == [mem[a] EXCEPT !.id = b, !.prior = r]
<1>2. \/ Quit(a) /\ dir' = dir
      \/ Goto(a, After[mem[a].cmd]["write"], m) /\ dir' = [dir EXCEPT ![b] = w]
  BY DEF WriteBatchFile
<1>3. b \in Batch /\ (mem[a].cmd = "append" => b = mem[a].id)
  BY <1>0, BodyIs DEF Target
<1>4. w # <<>>
  <2> DEFINE x == IF mem[a].cmd = "append" THEN mem[a].work ELSE <<>>
             y == Body(mem[a].gen)
  <2>1. x \in Seq(Ticket) /\ y \in Seq(Ticket) /\ y # <<>>
    BY <1>0, BodyIs DEF Memory
  <2>2. w = x \o y
    OBVIOUS
  <2> HIDE DEF x, y, w
  <2>3. Len(y) # 0 /\ Len(y) \in Nat /\ Len(x) \in Nat
    BY <2>1
  <2>4. Len(w) = Len(x) + Len(y)
    BY <2>1, <2>2
  <2>5. Len(w) # 0
    BY <2>3, <2>4
  <2> QED BY <2>5
<1> HIDE DEF w, b
<1>5. Lossless(dir)'
  BY <1>0, <1>1, <1>2, <1>3, <1>4 DEF Lossless, Dirs
<1>6. Carries(a)'
  <2>1. CASE Quit(a)
    BY <1>0, <2>1, GotoIs DEF Quit, Carries, NoMem
  <2>2. CASE Goto(a, After[mem[a].cmd]["write"], m) /\ dir' = [dir EXCEPT ![b] = w]
    <3>1. After[mem[a].cmd]["write"] = "prds"
      BY <1>0 DEF Compiling, After, CompileAfter, ReplaceAfter
    <3>2. m.id = b /\ m.prior = r /\ m.cmd = mem[a].cmd
      BY <1>0 DEF Memory, Fields
    <3> HIDE DEF m
    <3>3. pc'[a] = "prds" /\ mem'[a].id = b /\ mem'[a].prior = r /\ mem'[a].cmd = mem[a].cmd
      BY <1>0, <2>2, <3>1, <3>2, GotoIs
    <3>4. b \in born => r # <<>> \/ (stable'[b] \in Entry \/ \E e \in siblings' : e.id = b)
      BY <1>0, <1>1, <1>3 DEF Lossless, HasEntry
    <3>5. dir'[b] # <<>>
      BY <1>0, <1>3, <1>4, <2>2 DEF Dirs
    <3>6. mem[a].cmd \in {"exec", "append"} => b \in born'
      BY <1>0, <1>3 DEF Carries, Compiling
    <3> HIDE DEF r
    <3> QED BY <1>0, <3>3, <3>4, <3>5, <3>6 DEF Carries, HasEntry, Compiling
  <2> QED BY <1>2, <2>1, <2>2
<1> QED BY <1>0, <1>5, <1>6 DEF Keeps

LEMMA StepKeeps ==
  ASSUME LInv, Next, NEW a \in Actor, Step(a) \/ Crash(a)
  PROVE  Alone' /\ \A b \in Actor : Keeps(b)
<1>0. Shaped /\ Shaped' /\ pc[a] # "idle"
  BY AInvNext DEF LInv, AInv, TInv, Step, Create, Fill, Relocate, RemoveBatchDir, RemoveEvidence,
     ClearRun, WriteBatchFile, WritePlanFiles, Register, FlushState, WriteCursor, Crash, Idle
<1>1. Others(a) /\ (pc'[a] # "idle" => mem'[a].cmd = mem[a].cmd)
  BY <1>0, StepGoes, GotoIs DEF Goes, Crash, Quit, Others
<1>2. Alone'
  BY <1>0, <1>1, AloneStays
<1>3. Keeps(a) /\ \A b \in Actor \ {a} : born' = born \/ pc[b] = "idle"
  <2>1. CASE Step(a)
    BY <2>1, ArchiveKeeps, QuietKeeps, RemoveKeeps, PlansKeeps, CursorKeeps, WriteKeeps DEF Step
  <2>2. CASE Crash(a)
    <3>1. UNCHANGED <<run, dir, born>> /\ pc'[a] = "idle" /\ mem'[a] = NoMem
      BY <1>0, <2>2, GotoIs DEF Crash, Quit, files, history
    <3>2. Carries(a)'
      BY <3>1 DEF Carries, NoMem
    <3>3. Lossless(dir)'
      BY <3>1, LosslessStays DEF LInv, Lossless
    <3> QED BY <3>1, <3>2, <3>3 DEF Keeps, LInv
  <2> QED BY <2>1, <2>2
<1>4. \A b \in Actor \ {a} : Carries(b)'
  BY <1>0, <1>1, <1>3, OtherCarries, Aside DEF Others
<1> QED BY <1>2, <1>3, <1>4 DEF Keeps

LEMMA LInvNext ==
  ASSUME LInv, Apart, [Next]_vars
  PROVE  LInv'
<1>1. CASE UNCHANGED vars
  <2>1. AInv'
    BY <1>1, AInvNext DEF LInv
  <2> QED BY <1>1, <2>1 DEF LInv, Alone, Idle, Lossless, HasEntry, Carries, NoOrphanStub, vars, files,
                            archive, history
<1>2. CASE Next
  <2>0. AInv /\ AInv' /\ NoOrphanStub' /\ TInv /\ Shaped /\ "start" \in Actor
    BY <1>2, AInvNext, StubNext DEF LInv, AInv, TInv, Actor
  <2>1. CASE Alone' /\ \A b \in Actor : Keeps(b)
    BY <2>0, <2>1 DEF LInv, Keeps
  <2>2. CASE UNCHANGED <<pc, mem, run, dir, born, stable, siblings>>
    BY <2>0, <2>2 DEF LInv, Alone, Idle, Lossless, HasEntry, Carries
  <2>3. CASE Operator \/ Start
    BY <1>2, <2>0, <2>1, <2>2, <2>3, BeginsIs, BeginsKeeps
  <2>4. CASE Running_Start
    BY <1>2, <2>0, <2>1, <2>4, WorksIs, WorksKeeps
  <2>5. ASSUME NEW a \in Actor, Step(a) \/ Crash(a) PROVE LInv'
    BY <1>2, <2>1, <2>5, StepKeeps
  <2> QED BY <1>2, <2>3, <2>4, <2>5 DEF Next
<1> QED BY <1>1, <1>2

----------------------------------------------------------------------------
(* What is archived as completed has run.                                  *)

Title(g) == Envelopes[g].title

\* The registry without any plan, and with those of the envelope g.
Nothing == [p \in Plan |-> 0]
Units(g) == [p \in Plan |-> IF p \in NewPlans(g) THEN OrderIn(g, p) ELSE 0]

\* No envelope is appended, and no two have their title or a plan in common.
Distinct ==
  /\ Apart /\ "append" \notin Commands
  /\ \A g, h \in Gen : g # h => Title(g) # Title(h) /\ NewPlans(g) \cap NewPlans(h) = {}

\* An envelope has plans, each of which has its place in it, and one of them is the first.
LEMMA PlansIs ==
  ASSUME NEW g \in Gen
  PROVE  /\ NewPlans(g) \subseteq Plan
         /\ \A p \in NewPlans(g) : OrderIn(g, p) \in Nat \ {0}
         /\ \E p \in NewPlans(g) : OrderIn(g, p) = 1
         /\ PlansOf(Body(g)) = NewPlans(g)
         /\ Tickets(Body(g)) = {<<p, g>> : p \in NewPlans(g)}
         /\ \A i \in DOMAIN Body(g) : Body(g)[i][1] \in NewPlans(g)
<1> DEFINE ps == Envelopes[g].plans
<1>1. ps \in Seq(Plan) /\ ps # <<>> /\ \A i, j \in DOMAIN ps : ps[i] = ps[j] => i = j
  BY BodyIs, LifeAssumption
<1>2. /\ NewPlans(g) = {ps[i] : i \in DOMAIN ps} /\ Body(g) = [i \in DOMAIN ps |-> <<ps[i], g>>]
      /\ \A p : OrderIn(g, p) = CHOOSE i \in DOMAIN ps : ps[i] = p
  BY DEF NewPlans, Body, OrderIn
<1> HIDE DEF ps
<1>3. DOMAIN ps = 1..Len(ps) /\ Len(ps) \in Nat /\ Len(ps) # 0 /\ \A i \in 1..Len(ps) : ps[i] \in Plan
  BY <1>1
<1>4. \A i \in DOMAIN ps : OrderIn(g, ps[i]) = i
  BY <1>1, <1>2
<1>5. NewPlans(g) \subseteq Plan /\ \A p \in NewPlans(g) : OrderIn(g, p) \in Nat \ {0}
  BY <1>2, <1>3, <1>4
<1>6. \E p \in NewPlans(g) : OrderIn(g, p) = 1
  BY <1>2, <1>3, <1>4
<1> DEFINE b == Body(g)
<1>7. DOMAIN b = DOMAIN ps /\ \A i \in DOMAIN ps : b[i] = <<ps[i], g>>
  BY <1>2
<1>8. PlansOf(b) = {b[i][1] : i \in DOMAIN b} /\ Tickets(b) = {b[i] : i \in DOMAIN b}
  BY DEF PlansOf, Tickets
<1> HIDE DEF b
<1>9. /\ PlansOf(b) = NewPlans(g) /\ Tickets(b) = {<<p, g>> : p \in NewPlans(g)}
      /\ \A i \in DOMAIN b : b[i][1] \in NewPlans(g)
  BY <1>2, <1>7, <1>8
<1> QED BY <1>5, <1>6, <1>9 DEF b

\* The registry tells which envelope is in it.
LEMMA UnitsIs ==
  ASSUME Distinct, NEW g \in Gen
  PROVE  /\ Units(g) # Nothing /\ \A p \in NewPlans(g) : Units(g)[p] # 0
         /\ \E p \in Plan : Units(g)[p] = 1
         /\ \A h \in Gen : Units(h) = Units(g) => h = g
<1>1. /\ NewPlans(g) \subseteq Plan
      /\ \A p \in NewPlans(g) : OrderIn(g, p) \in Nat \ {0}
      /\ \E p \in NewPlans(g) : OrderIn(g, p) = 1
  BY PlansIs
<1>2. \A p \in Plan : Units(g)[p] = IF p \in NewPlans(g) THEN OrderIn(g, p) ELSE 0
  BY DEF Units
<1>3. PICK p \in NewPlans(g) : Units(g)[p] = 1
  BY <1>1, <1>2
<1>4. \A q \in NewPlans(g) : Units(g)[q] # 0
  BY <1>1, <1>2
<1>5. Units(g) # Nothing
  BY <1>1, <1>3 DEF Nothing
<1>6. ASSUME NEW h \in Gen, Units(h) = Units(g), h # g PROVE FALSE
  <2>1. p \notin NewPlans(h)
    BY <1>6 DEF Distinct
  <2>2. Units(h)[p] = 0
    BY <1>1, <2>1 DEF Units
  <2> QED BY <1>3, <1>6, <2>2
<1> QED BY <1>1, <1>3, <1>4, <1>5, <1>6

\* With d for .springfield/plans, a batch.json is as its envelope was compiled; with r for the
\* prd.json files, each is of an envelope that names its plan; with s for state.json and w for the
\* tickets that have been worked on, a plan that has completed has run.
Compiles(b, w) == w = <<>> \/ \E g \in Gen : Title(g) = b /\ w = Body(g)
Compiled(d) == \A b \in Batch : Compiles(b, d[b])
Sourced(r) == r \in [Plan -> Nat] /\ \A p \in Plan : r[p] # 0 => r[p] \in Gen /\ p \in NewPlans(r[p])
Ran(s, w) == \A p \in Plan : s[p] \in {"completed", "integrated"} =>
               \E g \in Gen : p \in NewPlans(g) /\ <<p, g>> \in w

\* The registry has the plans of one envelope, or none; where the active batch can be read they
\* are its plans.
Whole(u) == u = Nothing \/ \E g \in Gen : u = Units(g)
Matched == run # "none" /\ dir[run] # <<>> => \A g \in Gen : units = Units(g) => Title(g) = run

Filed ==
  /\ Compiled(dir) /\ Sourced(prd) /\ Ran(state, worked) /\ Whole(units) /\ Matched
  /\ \A b \in born : \E g \in 1..compiled : g \in Gen /\ Title(g) = b

\* What an actor has in memory is about the batch of the envelope g.
About(m, g) == Title(g) = m.id /\ m.work = Body(g) /\ m.units \in {Nothing, Units(g)}

\* A start has registered plans, which nobody writes anew while it runs, and one that archives
\* the batch has run them all.
Executes(m) ==
  \E g \in Gen : /\ About(m, g) /\ m.units = Units(g) /\ units \in {Nothing, Units(g)}
                 /\ \A p \in NewPlans(g) : prd[p] = g
                 /\ m.now # "none" => m.now \in NewPlans(g)

Started ==
  LET m == mem["start"] IN
  /\ Ran(m.state, worked)
  /\ m.seen # <<>> => Compiled(m.seen[2]) /\ Sourced(m.seen[3])
  /\ pc["start"] = "exec" => Executes(m)
  /\ m.cmd \in {"finalize", "fallback"} =>
       Tickets(m.work) \subseteq worked /\ \E g \in Gen : About(m, g)

\* A command that compiles a batch does so once, and while none can be read.
Compiler(m, s) ==
  /\ m.gen \in 1..compiled /\ Title(m.gen) \notin born /\ Whole(m.units)
  /\ s \in {"prds", "register", "cursor"} => m.id = Title(m.gen)
  /\ s = "prds" => Compiles(m.id, m.prior)
  /\ s \in {"write", "prds", "register", "cursor"} => run = "none" \/ dir[run] = <<>>
  /\ s = "cursor" => units = Units(m.gen)

Operating ==
  LET m == mem["command"] IN
  /\ m.cmd # "append"
  /\ m.cmd = "abort" => \E g \in Gen : About(m, g)
  /\ m.cmd \in {"plan", "replace"} => Compiler(m, pc["command"])

HasRun(e, w) == e.reason = "completed" => e.work \subseteq w
Archived ==
  /\ \A b \in Batch : stable[b] \in Entry => HasRun(stable[b], worked)
  /\ \A e \in siblings : HasRun(e, worked)

CInv == LInv /\ Filed /\ Started /\ Operating /\ Archived

\* The project begins without plans.
LEMMA CInvInit == Init => CInv
<1> SUFFICES ASSUME Init PROVE CInv
  OBVIOUS
<1>1. /\ dir = [b \in Batch |-> <<>>] /\ prd = Nothing /\ units = Nothing /\ born = {} /\ run = "none"
      /\ state = [p \in Plan |-> "none"] /\ stable = [b \in Batch |-> NoEntry] /\ siblings = {}
      /\ \A a \in Actor : pc[a] = "idle" /\ mem[a] = NoMem
  BY DEF Init, Nothing
<1>2. Filed
  BY <1>1 DEF Filed, Compiled, Compiles, Sourced, Ran, Whole, Matched, Nothing
<1>3. Started
  BY <1>1 DEF Started, NoMem, Ran, Actor
<1>4. Operating
  BY <1>1 DEF Operating, NoMem, Actor
<1>5. Archived
  BY <1>1, NoneIs DEF Archived
<1> QED BY <1>2, <1>3, <1>4, <1>5, LInvInit DEF CInv

LEMMA RanMore == ASSUME NEW s, NEW w, Ran(s, w), NEW v, w \subseteq v PROVE Ran(s, v)
  BY DEF Ran

\* SinglePlan's work is never undone.
LEMMA WorkedStays ==
  ASSUME Next
  PROVE  worked \subseteq worked'
<1>1. CASE Operator \/ Start
  BY <1>1 DEF Operator, PlanNew, PlanReplace, PlanAppend, BatchAbort, RecoverOrphan, RecoverStale,
              Start, history
<1>2. CASE Running_Start
  BY <1>2 DEF Running_Start, Dispatch, Snapshot, Restore, Work, Integrate, Complete, history
<1>3. ASSUME NEW a \in Actor, Step(a) \/ Crash(a)
      PROVE  UNCHANGED worked
  BY <1>3 DEF Step, Create, Fill, Relocate, RemoveBatchDir, RemoveEvidence, ClearRun,
              WriteBatchFile, WritePlanFiles, Register, FlushState, WriteCursor, Crash, history
<1> QED BY <1>1, <1>2, <1>3 DEF Next

\* What a start archives as completed it has run.
LEMMA ArchivedNext ==
  ASSUME CInv, Next
  PROVE  Archived'
<1>0. /\ Shaped /\ stable \in [Batch -> Entry \cup {NoEntry, Empty}] /\ worked \subseteq worked'
      /\ Archived /\ Started
  BY WorkedStays DEF CInv, LInv, AInv, TInv, Shaped
<1>1. \A e : HasRun(e, worked) => HasRun(e, worked')
  BY <1>0 DEF HasRun
<1>2. ASSUME NEW a \in Actor, Create(a) \/ Fill(a)
      PROVE  mem[a].id \in Batch /\ EntryOf(mem[a]) \in Entry /\ HasRun(EntryOf(mem[a]), worked)
  <2>1. /\ Memory(mem[a]) /\ mem[a].id \in Batch /\ mem[a].cmd \in Archiving /\ mem[a].cmd \in Mine[a]
    BY <1>0, <1>2, Known DEF Create, Fill, Path, Shaped, Placed
  <2>2. EntryOf(mem[a]).work = Tickets(mem[a].work) /\ EntryOf(mem[a]).reason = Reason[mem[a].cmd]
    BY DEF EntryOf
  <2>3. Reason[mem[a].cmd] = "completed" => mem[a].cmd \in {"finalize", "fallback"}
    BY <2>1 DEF Archiving, Reason
  <2>4. mem[a].cmd \in {"finalize", "fallback"} => a = "start"
    BY <2>1 DEF Mine, Actor
  <2> QED BY <1>0, <2>1, <2>2, <2>3, <2>4, EntryIs DEF Started, HasRun
<1>3. ASSUME NEW a \in Actor, Create(a)
      PROVE  Archived'
  BY <1>0, <1>1, <1>2, <1>3, CreateDoes, NoneIs DEF Archived
<1>4. ASSUME NEW a \in Actor, Fill(a)
      PROVE  Archived'
  BY <1>0, <1>1, <1>2, <1>4, FillDoes DEF Archived
<1>5. CASE UNCHANGED <<stable, siblings>>
  BY <1>0, <1>1, <1>5 DEF Archived
<1> QED BY <1>3, <1>4, <1>5, ArchiveChanges

\* What a start, or a command, reads of a batch that can be read.
LEMMA ReadIs ==
  ASSUME CInv, Distinct, Readable
  PROVE  \E g \in Gen : Title(g) = run /\ dir[run] = Body(g) /\ units \in {Nothing, Units(g)}
<1>0. run \in Batch /\ run # "none" /\ dir[run] # <<>> /\ Compiled(dir) /\ Whole(units) /\ Matched
  BY DEF CInv, LInv, AInv, TInv, Shaped, Filed, Readable
<1>1. PICK g \in Gen : Title(g) = run /\ dir[run] = Body(g)
  BY <1>0 DEF Compiled, Compiles
<1>2. ASSUME NEW h \in Gen, units = Units(h) PROVE h = g
  BY <1>0, <1>1, <1>2 DEF Matched, Distinct
<1> QED BY <1>0, <1>1, <1>2 DEF Whole

\* What both of them know stays, when only what they do not rely on changes.
LEMMA StartedStays ==
  ASSUME CInv, Next, pc'["start"] = pc["start"], mem'["start"] = mem["start"],
         pc["start"] = "exec" => units' \in {units, Nothing} /\ prd' = prd
  PROVE  Started'
<1>1. worked \subseteq worked' /\ Started
  BY WorkedStays DEF CInv
<1> DEFINE m == mem["start"]
<1>2. Ran(m.state, worked')
  BY <1>1, RanMore DEF Started
<1>3. ASSUME pc["start"] = "exec", NEW g \in Gen,
             /\ About(m, g) /\ m.units = Units(g) /\ units \in {Nothing, Units(g)}
             /\ \A p \in NewPlans(g) : prd[p] = g
             /\ m.now # "none" => m.now \in NewPlans(g)
      PROVE  units' \in {Nothing, Units(g)} /\ \A p \in NewPlans(g) : prd'[p] = g
  BY <1>3
<1>4. pc["start"] = "exec" =>
        \E g \in Gen : /\ About(m, g) /\ m.units = Units(g) /\ units' \in {Nothing, Units(g)}
                       /\ \A p \in NewPlans(g) : prd'[p] = g
                       /\ m.now # "none" => m.now \in NewPlans(g)
  <2> HIDE DEF m
  <2> QED BY <1>1, <1>3 DEF Started, Executes, m
<1>5. /\ m.seen # <<>> => Compiled(m.seen[2]) /\ Sourced(m.seen[3])
      /\ m.cmd \in {"finalize", "fallback"} =>
           Tickets(m.work) \subseteq worked' /\ \E g \in Gen : About(m, g)
  BY <1>1 DEF Started
<1>6. m = mem'["start"]
  OBVIOUS
<1> HIDE DEF m
<1> QED BY <1>2, <1>4, <1>5, <1>6 DEF Started, Executes

LEMMA OperatingStays ==
  ASSUME CInv, pc'["command"] = pc["command"], mem'["command"] = mem["command"],
         mem["command"].cmd \notin {"plan", "replace"}
  PROVE  Operating'
<1>1. Operating
  BY DEF CInv
<1> QED BY <1>1 DEF Operating

\* The titles of the batches that have been active are those of envelopes that were compiled.
LEMMA FreshIs ==
  ASSUME CInv, Distinct, compiled + 1 \in Gen
  PROVE  Title(compiled + 1) \notin born
<1>1. compiled \in Nat
  BY DEF CInv, LInv, AInv, TInv, Shaped
<1> QED BY <1>1 DEF CInv, Filed, Distinct

\* A command or a start begins.
LEMMA BeginsRun ==
  ASSUME CInv, Distinct, Next, Operator \/ Start
  PROVE  Filed' /\ Started' /\ Operating'
<1>0. /\ Shaped /\ Filed /\ Started /\ Operating /\ "start" \in Actor /\ "command" \in Actor
      /\ compiled \in Nat
  BY DEF CInv, LInv, AInv, TInv, Actor, Shaped
<1>1. ASSUME UNCHANGED <<run, dir, units, prd, state, worked, born>>, compiled' \in {compiled, compiled + 1}
      PROVE  Filed'
  BY <1>0, <1>1 DEF Filed, Matched
<1>2. ASSUME NEW s, NEW m, Goto("command", s, m), UNCHANGED <<units, prd>>
      PROVE  Started'
  BY <1>0, <1>2, GotoIs, StartedStays
<1>3. ASSUME NEW c, May(c)
      PROVE  mem["command"].cmd = "none" /\ c \in Commands
  BY <1>0, <1>3 DEF May, Idle, Shaped, Placed, Path
<1>4. CASE PlanNew
  <2> DEFINE g == compiled + 1
             m == [Now("plan", g) EXCEPT !.id = Envelopes[g].title]
  <2>1. g \in Gen /\ Title(g) \notin born /\ g \in 1..compiled'
    BY <1>0, <1>4, GenIs, FreshIs DEF PlanNew, MayCompile
  <2>2. /\ Goto("command", "write", m) /\ (run = "none" \/ dir[run] = <<>>)
        /\ UNCHANGED <<run, dir, units, prd, state, worked, born>> /\ compiled' = compiled + 1
    BY <1>4 DEF PlanNew, MayCompile, files, history, Readable
  <2>3. m.cmd = "plan" /\ m.gen = g /\ m.units = units
    BY <1>0 DEF Now
  <2> HIDE DEF m, g
  <2>4. pc'["command"] = "write" /\ mem'["command"] = m
    BY <1>0, <2>2, GotoIs
  <2>5. Operating'
    BY <1>0, <2>1, <2>2, <2>3, <2>4 DEF Operating, Compiler, Filed
  <2> QED BY <1>1, <1>2, <2>2, <2>5
<1>5. CASE PlanReplace
  <2> DEFINE g == compiled + 1
             m == Now("replace", g)
  <2>1. g \in Gen /\ Title(g) \notin born /\ g \in 1..compiled'
    BY <1>0, <1>5, GenIs, FreshIs DEF PlanReplace, MayCompile
  <2>2. /\ Goto("command", "create", m)
        /\ UNCHANGED <<run, dir, units, prd, state, worked, born>> /\ compiled' = compiled + 1
    BY <1>5 DEF PlanReplace, MayCompile, files, history
  <2>3. m.cmd = "replace" /\ m.gen = g /\ m.units = units
    BY <1>0 DEF Now
  <2> HIDE DEF m, g
  <2>4. pc'["command"] = "create" /\ mem'["command"] = m
    BY <1>0, <2>2, GotoIs
  <2>5. Operating'
    BY <1>0, <2>1, <2>2, <2>3, <2>4 DEF Operating, Compiler, Filed
  <2> QED BY <1>1, <1>2, <2>2, <2>5
<1>6. CASE PlanAppend
  BY <1>3, <1>6 DEF PlanAppend, MayCompile, Distinct
<1>7. CASE BatchAbort
  <2> DEFINE m == Now("abort", 0)
  <2>1. PICK g \in Gen : Title(g) = run /\ dir[run] = Body(g) /\ units \in {Nothing, Units(g)}
    BY <1>7, ReadIs DEF BatchAbort
  <2>2. /\ Goto("command", "create", m) /\ run # "none"
        /\ UNCHANGED <<run, dir, units, prd, state, worked, born, compiled>>
    BY <1>7 DEF BatchAbort, files, history, Readable
  <2>3. m.cmd = "abort" /\ m.id = run /\ m.work = dir[run] /\ m.units = units
    BY <2>2 DEF Now
  <2> HIDE DEF m
  <2>4. pc'["command"] = "create" /\ mem'["command"] = m
    BY <1>0, <2>2, GotoIs
  <2>5. Operating'
    BY <2>1, <2>3, <2>4 DEF Operating, About
  <2> QED BY <1>1, <1>2, <2>2, <2>5
<1>8. CASE RecoverOrphan
  <2> DEFINE m == Now("recover", 0)
  <2>2. /\ Goto("command", "create", m) /\ UNCHANGED <<run, dir, units, prd, state, worked, born, compiled>>
    BY <1>8 DEF RecoverOrphan, files, history
  <2>3. m.cmd = "recover"
    BY <2>2 DEF Now
  <2> HIDE DEF m
  <2>4. pc'["command"] = "create" /\ mem'["command"] = m
    BY <1>0, <2>2, GotoIs
  <2>5. Operating'
    BY <2>3, <2>4 DEF Operating
  <2> QED BY <1>1, <1>2, <2>2, <2>5
<1>9. CASE RecoverStale
  <2>1. /\ UNCHANGED <<run, dir, units, prd, worked, born, compiled, pc, mem>>
        /\ \A p \in Plan : state'[p] \in {state[p], "stopped"}
    BY <1>9 DEF RecoverStale, history
  <2>2. Filed'
    BY <1>0, <2>1 DEF Filed, Matched, Ran
  <2>3. mem["command"].cmd = "none"
    BY <1>3, <1>9 DEF RecoverStale
  <2> QED BY <2>1, <2>2, <2>3, StartedStays, OperatingStays
<1>10. CASE Start
  <2>1. PICK c \in {"exec", "recover"} :
          /\ MayStart /\ Goto("start", IF c = "exec" THEN "exec" ELSE "create", Now(c, 0))
          /\ c = "exec" => Readable /\ Valid(units) /\ \E p \in Plan : units[p] # 0
          /\ UNCHANGED <<run, dir, units, prd, state, worked, born, compiled>>
    BY <1>10 DEF Start, files, history
  <2>2. /\ pc'["start"] = IF c = "exec" THEN "exec" ELSE "create"
        /\ mem'["start"] = Now(c, 0)
        /\ pc'["command"] = pc["command"] /\ mem'["command"] = mem["command"]
    BY <1>0, <2>1, GotoIs DEF Actor
  <2>3. mem["command"].cmd \notin {"plan", "replace"}
    BY <1>0, <2>1 DEF MayStart, Idle, Distinct, Apart, Shaped, Placed, Path
  <2> DEFINE m == Now(c, 0)
  <2>4. /\ m.cmd = c /\ m.id = run /\ m.units = units /\ m.state = state /\ m.seen = <<>>
        /\ m.now = "none" /\ (run # "none" => m.work = dir[run])
    BY DEF Now
  <2>5. ASSUME c = "exec"
        PROVE  \E g \in Gen : /\ About(m, g) /\ m.units = Units(g) /\ units = Units(g)
                              /\ \A p \in NewPlans(g) : prd[p] = g
    <3>1. PICK g \in Gen : Title(g) = run /\ dir[run] = Body(g) /\ units \in {Nothing, Units(g)}
      BY <2>1, <2>5, ReadIs
    <3>2. units = Units(g) /\ run # "none"
      BY <2>1, <2>5, <3>1 DEF Nothing, Readable
    <3>3. ASSUME NEW p \in NewPlans(g) PROVE prd[p] = g
      <4>1. p \in Plan /\ units[p] # 0
        BY <3>2, PlansIs, UnitsIs
      <4>2. prd[p] # 0
        BY <2>1, <2>5, <4>1 DEF Valid
      <4> QED BY <1>0, <4>1, <4>2 DEF Filed, Sourced, Distinct
    <3> QED BY <2>4, <3>1, <3>2, <3>3 DEF About
  <2> HIDE DEF m
  <2>6. Started'
    BY <1>0, <2>1, <2>2, <2>4, <2>5 DEF Started, Executes, Filed, m
  <2> QED BY <1>1, <2>1, <2>2, <2>3, <2>6, OperatingStays
<1> QED BY <1>4, <1>5, <1>6, <1>7, <1>8, <1>9, <1>10 DEF Operator

\* The plan a start goes on to is one of its batch.
LEMMA NextAmong ==
  ASSUME Shaped, Left # {}, NEW g \in Gen, Me.work = Body(g)
  PROVE  NextPlan \in NewPlans(g)
<1> DEFINE w == Me.work
<1>1. w \in Seq(Ticket) /\ \A i \in DOMAIN w : w[i][1] \in NewPlans(g)
  BY PlansIs DEF Shaped, Memory, Me, Actor
<1>2. Left \subseteq DOMAIN w
  BY DEF Left
<1> DEFINE i == CHOOSE i \in Left : \A j \in Left : i <= j
<1>3. i \in Left
  <2>1. Left \in SUBSET Nat
    BY <1>1, <1>2
  <2>2. \E m \in Left : \A k \in Left : m <= k
    BY <2>1, LeastIs
  <2> QED BY <2>2
<1>4. NextPlan = w[i][1]
  BY DEF NextPlan
<1> HIDE DEF w, i
<1> QED BY <1>1, <1>2, <1>3, <1>4

\* What is marked as completed, or integrated, has run.
LEMMA MarkedRan ==
  ASSUME Shaped, NEW w, Ran(Me.state, w), NEW p \in Plan, NEW s,
         s \in {"completed", "integrated"} => \E g \in Gen : p \in NewPlans(g) /\ <<p, g>> \in w
  PROVE  Ran(Marked(p, s), w)
<1>1. Me.state \in States
  BY DEF Shaped, Memory, Me, Actor
<1> QED BY <1>1 DEF Ran, Marked, States

\* A running start goes on.
LEMMA RunningRun ==
  ASSUME CInv, Distinct, Next, Running_Start
  PROVE  Filed' /\ Started' /\ Operating'
<1>0. /\ TInv /\ Shaped /\ Filed /\ Started /\ Operating /\ "start" \in Actor /\ "command" \in Actor
      /\ Me = mem["start"] /\ Memory(Me) /\ DOMAIN mem = Actor /\ DOMAIN pc = Actor
      /\ run \in Batch \cup {"none"} /\ dir \in Dirs /\ worked \subseteq worked'
  BY WorkedStays DEF CInv, LInv, AInv, TInv, Actor, Shaped, Me
<1>1. /\ pc["start"] = "exec" /\ run' \in {run, Me.id} /\ UNCHANGED <<units, born, compiled>>
  BY DEF Running_Start, Dispatch, Snapshot, Restore, Work, Integrate, Complete, Working, Executing,
         files, history
<1>2. Operating'
  <2>1. pc'["command"] = pc["command"] /\ mem'["command"] = mem["command"]
    BY <1>0, WorksIs DEF Others, Actor
  <2>2. mem["command"].cmd \notin {"plan", "replace"}
    BY <1>0, <1>1, Aside DEF CInv, Actor
  <2> QED BY <2>1, <2>2, OperatingStays
<1>3. PICK g \in Gen : /\ About(Me, g) /\ Me.units = Units(g) /\ units \in {Nothing, Units(g)}
                       /\ \A p \in NewPlans(g) : prd[p] = g
                       /\ Me.now # "none" => Me.now \in NewPlans(g)
  BY <1>0, <1>1 DEF Started, Executes
<1>4. /\ Title(g) = Me.id /\ Me.work = Body(g) /\ NewPlans(g) \subseteq Plan /\ Me.id \in Batch
      /\ \A h \in Gen : units = Units(h) => h = g
  BY <1>3, PlansIs, UnitsIs, BodyIs DEF About, Title
<1>5. ASSUME Compiled(dir'), Sourced(prd'), Ran(state', worked'), UNCHANGED dir \/ run' = Me.id
      PROVE  Filed'
  <2>1. Matched'
    <3>1. CASE run' = Me.id
      BY <1>1, <1>4, <3>1 DEF Matched
    <3>2. CASE UNCHANGED <<run, dir>>
      BY <1>0, <1>1, <3>2 DEF Matched, Filed
    <3> QED BY <1>1, <1>5, <3>1, <3>2
  <2> QED BY <1>0, <1>1, <1>5, <2>1 DEF Filed
<1>6. /\ Ran(Me.state, worked) /\ Ran(Me.state, worked') /\ Ran(state, worked')
      /\ Compiled(dir) /\ Sourced(prd) /\ (Me.seen # <<>> => Compiled(Me.seen[2]) /\ Sourced(Me.seen[3]))
  BY <1>0, RanMore DEF Filed, Started
<1>7. ASSUME Quit("start") PROVE Started'
  <2>1. pc'["start"] = "idle" /\ mem'["start"] = NoMem
    BY <1>0, <1>7, GotoIs DEF Quit
  <2> QED BY <2>1 DEF Started, NoMem, Ran
<1>8. ASSUME NEW n, mem' = [mem EXCEPT !["start"] = n], UNCHANGED <<pc, prd>>, n.cmd = Me.cmd,
             n.id = Me.id, n.work = Me.work, n.units = Me.units, n.now = "none" \/ n.now \in NewPlans(g),
             Ran(n.state, worked'), n.seen # <<>> => Compiled(n.seen[2]) /\ Sourced(n.seen[3])
      PROVE  Started'
  <2>1. mem'["start"] = n
    BY <1>0, <1>8
  <2>2. \E h \in Gen : /\ About(n, h) /\ n.units = Units(h) /\ units' \in {Nothing, Units(h)}
                       /\ \A p \in NewPlans(h) : prd'[p] = h
                       /\ n.now # "none" => n.now \in NewPlans(h)
    BY <1>1, <1>3, <1>8 DEF About
  <2>3. n.cmd = "exec"
    BY <1>0, <1>1, <1>8 DEF Shaped, Placed, Path
  <2> QED BY <1>8, <2>1, <2>2, <2>3 DEF Started, Executes
<1>9. CASE Dispatch
  <2> DEFINE q == NextPlan
             s == Marked(NextPlan, "running")
             z == <<Me.id, dir, prd>>
  <2>1. /\ q \in NewPlans(g) /\ Ran(s, worked') /\ z[2] = dir /\ z[3] = prd
    <3>1. q \in NewPlans(g)
      BY <1>0, <1>4, <1>9, NextAmong DEF Dispatch, Finished
    <3>2. Ran(s, worked')
      BY <1>0, <1>4, <1>6, <3>1, MarkedRan
    <3> QED BY <3>1, <3>2
  <2>2. /\ UNCHANGED <<pc, prd, dir>> /\ run' = Me.id
        /\ \/ mem' = [mem EXCEPT !["start"].now = q] /\ UNCHANGED state
           \/ /\ mem' = [mem EXCEPT !["start"].now = q, !["start"].state = s, !["start"].seen = z]
              /\ state' = s
    BY <1>9 DEF Dispatch
  <2> HIDE DEF q, s, z
  <2>3. Filed'
    BY <1>5, <1>6, <2>1, <2>2
  <2>4. CASE mem' = [mem EXCEPT !["start"].now = q]
    <3> DEFINE n == [Me EXCEPT !.now = q]
    <3>1. mem' = [mem EXCEPT !["start"] = n]
      BY <1>0, <2>4
    <3>2. /\ n.cmd = Me.cmd /\ n.id = Me.id /\ n.work = Me.work /\ n.units = Me.units /\ n.now = q
          /\ n.state = Me.state /\ n.seen = Me.seen
      BY <1>0 DEF Memory, Fields
    <3> HIDE DEF n
    <3>3. UNCHANGED <<pc, prd>> /\ Started'
      BY <1>6, <1>8, <2>1, <2>2, <3>1, <3>2
    <3> QED BY <1>2, <2>3, <3>3
  <2>5. CASE mem' = [mem EXCEPT !["start"].now = q, !["start"].state = s, !["start"].seen = z]
    <3> DEFINE n == [Me EXCEPT !.now = q, !.state = s, !.seen = z]
    <3>1. mem' = [mem EXCEPT !["start"] = n]
      BY <1>0, <2>5
    <3>2. /\ n.cmd = Me.cmd /\ n.id = Me.id /\ n.work = Me.work /\ n.units = Me.units /\ n.now = q
          /\ n.state = s /\ n.seen = z
      BY <1>0 DEF Memory, Fields
    <3> HIDE DEF n
    <3>3. UNCHANGED <<pc, prd>> /\ Started'
      BY <1>6, <1>8, <2>1, <2>2, <3>1, <3>2
    <3> QED BY <1>2, <2>3, <3>3
  <2> QED BY <2>2, <2>4, <2>5
<1>10. CASE Snapshot
  <2> DEFINE z == guarded
  <2>1. /\ UNCHANGED <<pc, prd, dir, run, state>> /\ mem' = [mem EXCEPT !["start"].seen = z]
        /\ z[2] = dir /\ z[3] = prd
    BY <1>10 DEF Snapshot, guarded, files
  <2> HIDE DEF z
  <2> DEFINE n == [Me EXCEPT !.seen = z]
  <2>2. mem' = [mem EXCEPT !["start"] = n]
    BY <1>0, <2>1
  <2>3. /\ n.cmd = Me.cmd /\ n.id = Me.id /\ n.work = Me.work /\ n.units = Me.units /\ n.now = Me.now
        /\ n.state = Me.state /\ n.seen = z
    BY <1>0 DEF Memory, Fields
  <2> HIDE DEF n
  <2>4. Started'
    BY <1>3, <1>6, <1>8, <2>1, <2>2, <2>3
  <2> QED BY <1>2, <1>5, <1>6, <2>1, <2>4
<1>11. CASE Restore
  <2>1. /\ run' = Me.id /\ dir' = Me.seen[2] /\ prd' = Me.seen[3] /\ Quit("start")
        /\ state' = Marked(Me.now, "stopped") /\ Me.seen # <<>> /\ Me.now \in NewPlans(g)
    BY <1>0, <1>3, <1>11 DEF Restore, Working, Executing, TInv, Watched
  <2>2. Ran(state', worked')
    BY <1>0, <1>4, <1>6, <2>1, MarkedRan
  <2> QED BY <1>2, <1>5, <1>6, <1>7, <2>1, <2>2
<1>12. CASE Work
  <2> DEFINE p == Me.now
             s == Marked(Me.now, "completed")
             t == Marked(Me.now, "stopped")
  <2>1. /\ UNCHANGED <<prd, dir>> /\ p \in NewPlans(g) /\ p \in Plan
        /\ \/ /\ UNCHANGED <<pc, run>> /\ state' = s /\ worked' = worked \cup {<<p, prd[p]>>}
              /\ mem' = [mem EXCEPT !["start"].state = s, !["start"].seen = <<>>]
           \/ Quit("start") /\ run' = Me.id /\ state' = t
    BY <1>3, <1>4, <1>12 DEF Work, Working
  <2>2. worked' = worked \cup {<<p, prd[p]>>} => <<p, g>> \in worked'
    BY <1>3, <2>1
  <2>3. Ran(t, worked')
    BY <1>0, <1>6, <2>1, MarkedRan
  <2>4. worked' = worked \cup {<<p, prd[p]>>} => Ran(s, worked')
    BY <1>0, <1>6, <2>1, <2>2, MarkedRan
  <2> HIDE DEF s, t
  <2>5. CASE /\ UNCHANGED <<pc, run>> /\ state' = s /\ worked' = worked \cup {<<p, prd[p]>>}
             /\ mem' = [mem EXCEPT !["start"].state = s, !["start"].seen = <<>>]
    <3> DEFINE n == [Me EXCEPT !.state = s, !.seen = <<>>]
    <3>1. mem' = [mem EXCEPT !["start"] = n]
      BY <1>0, <2>5
    <3>2. /\ n.cmd = Me.cmd /\ n.id = Me.id /\ n.work = Me.work /\ n.units = Me.units /\ n.now = p
          /\ n.state = s /\ n.seen = <<>>
      BY <1>0 DEF Memory, Fields
    <3> HIDE DEF n
    <3>3. Started'
      BY <1>8, <2>1, <2>4, <2>5, <3>1, <3>2
    <3> QED BY <1>2, <1>5, <1>6, <2>1, <2>4, <2>5, <3>3
  <2>6. CASE Quit("start") /\ run' = Me.id /\ state' = t
    BY <1>2, <1>5, <1>6, <1>7, <2>1, <2>3, <2>6
  <2> QED BY <2>1, <2>5, <2>6
<1>13. CASE Integrate
  <2> DEFINE p == Me.now
             s == Marked(Me.now, "integrated")
  <2>1. /\ UNCHANGED <<prd, dir>> /\ p \in NewPlans(g) /\ p \in Plan /\ Me.state[p] = "completed"
        /\ run' = Me.id
        /\ \/ /\ UNCHANGED pc /\ state' = s
              /\ mem' = [mem EXCEPT !["start"].state = s, !["start"].now = "none"]
           \/ Quit("start") /\ UNCHANGED state
    BY <1>3, <1>4, <1>13 DEF Integrate
  <2>2. Ran(s, worked')
    <3>1. \E h \in Gen : p \in NewPlans(h) /\ <<p, h>> \in worked'
      BY <1>6, <2>1 DEF Ran
    <3> QED BY <1>0, <1>6, <2>1, <3>1, MarkedRan
  <2> HIDE DEF s
  <2>3. CASE /\ UNCHANGED pc /\ state' = s
             /\ mem' = [mem EXCEPT !["start"].state = s, !["start"].now = "none"]
    <3> DEFINE n == [Me EXCEPT !.state = s, !.now = "none"]
    <3>1. mem' = [mem EXCEPT !["start"] = n]
      BY <1>0, <2>3
    <3>2. /\ n.cmd = Me.cmd /\ n.id = Me.id /\ n.work = Me.work /\ n.units = Me.units /\ n.now = "none"
          /\ n.state = s /\ n.seen = Me.seen
      BY <1>0 DEF Memory, Fields
    <3> HIDE DEF n
    <3>3. Started'
      BY <1>6, <1>8, <2>1, <2>2, <2>3, <3>1, <3>2
    <3> QED BY <1>2, <1>5, <1>6, <2>1, <2>2, <2>3, <3>3
  <2>4. CASE Quit("start") /\ UNCHANGED state
    BY <1>2, <1>5, <1>6, <1>7, <2>1, <2>4
  <2> QED BY <2>1, <2>3, <2>4
<1>14. CASE Complete
  <2>1. UNCHANGED <<dir, prd, state, worked>> /\ Finished
    BY <1>14 DEF Complete, history
  <2>2. PICK c \in {"finalize", "fallback"} :
          Goto("start", "create",
               [Now(c, 0) EXCEPT !.id = Me.id,
                                 !.work = IF dir[Me.id] # <<>> THEN dir[Me.id] ELSE Me.work])
    BY <1>14 DEF Complete
  <2> DEFINE w == IF dir[Me.id] # <<>> THEN dir[Me.id] ELSE Me.work
             b == Me.id
             m == [Now(c, 0) EXCEPT !.id = b, !.work = w]
  <2>3. w = Body(g)
    <3>1. Compiles(Me.id, dir[Me.id])
      BY <1>4, <1>6 DEF Compiled
    <3> QED BY <1>4, <3>1 DEF Compiles, Distinct
  <2>4. m.cmd = c /\ m.id = b /\ m.work = w /\ m.units = units /\ m.state = state /\ m.seen = <<>>
    <3> HIDE DEF w, b
    <3> QED BY DEF Now
  <2>5. pc'["start"] = "create" /\ mem'["start"] = m
    BY <1>0, <2>2, GotoIs
  <2>6. Tickets(w) \subseteq worked
    <3>1. Left = {}
      <4>1. SUFFICES ASSUME Left # {} PROVE FALSE
        OBVIOUS
      <4>2. NextPlan \in NewPlans(g)
        BY <1>0, <1>4, <4>1, NextAmong
      <4>3. Me.units[NextPlan] # 0
        BY <1>3, <4>2, UnitsIs
      <4> QED BY <2>1, <4>1, <4>3 DEF Finished
    <3>2. ASSUME NEW p \in NewPlans(g) PROVE <<p, g>> \in worked
      <4>1. \E i \in DOMAIN Body(g) : Body(g)[i][1] = p
        BY PlansIs DEF PlansOf
      <4>2. Me.state[p] = "integrated"
        BY <1>4, <3>1, <4>1 DEF Left
      <4>3. \E h \in Gen : p \in NewPlans(h) /\ <<p, h>> \in worked
        BY <1>4, <1>6, <4>2 DEF Ran
      <4> QED BY <4>3 DEF Distinct
    <3> QED BY <2>3, <3>2, PlansIs
  <2>7. Started'
    <3>1. About(m, g)
      BY <1>3, <1>4, <2>3, <2>4 DEF About
    <3> HIDE DEF m, w
    <3> QED BY <1>6, <2>1, <2>4, <2>5, <2>6, <3>1 DEF Started
  <2>8. Filed'
    BY <1>5, <1>6, <2>1
  <2> QED BY <1>2, <2>7, <2>8
<1> QED BY <1>9, <1>10, <1>11, <1>12, <1>13, <1>14 DEF Running_Start

\* The command at a step that compiles a batch.
LEMMA CompilerIs ==
  ASSUME CInv, NEW a \in Actor, pc[a] \notin {"idle", "exec"}, mem[a].cmd \in Compiling
  PROVE  /\ a = "command" /\ mem[a].cmd \in {"plan", "replace"} /\ Compiler(mem[a], pc[a])
         /\ mem[a].gen \in Gen /\ Title(mem[a].gen) \in Batch /\ run # Title(mem[a].gen)
<1>1. Placed(a) /\ Operating /\ (run # "none" => run \in born)
  BY DEF CInv, LInv, AInv, TInv, Shaped
<1>2. a = "command" /\ mem[a].cmd \in {"plan", "replace"} /\ mem[a].gen \in Gen
  BY <1>1 DEF Placed, Mine, Compiling, Actor, Operating
<1>3. Compiler(mem[a], pc[a])
  BY <1>1, <1>2 DEF Operating
<1>4. Title(mem[a].gen) \in Batch /\ "none" \notin Batch
  BY <1>2, BodyIs, LifeAssumption DEF Title
<1> QED BY <1>1, <1>2, <1>3, <1>4 DEF Compiler

\* The registry a command leaves behind.
LEMMA RegisterIs ==
  ASSUME CInv, Distinct, NEW a \in Actor, Register(a)
  PROVE  /\ \/ UNCHANGED units
            \/ mem[a].cmd \in {"abort", "finalize"} /\ units' = Nothing
            \/ mem[a].cmd \in {"plan", "replace"} /\ units' = Units(mem[a].gen)
         /\ pc'[a] = "cursor" => units' = Units(mem[a].gen)
<1>0. Shaped /\ Started /\ Operating /\ pc[a] = "register"
  BY DEF CInv, LInv, AInv, TInv, Register
<1>1. mem[a].cmd \in {"plan", "append", "replace", "abort", "finalize"} /\ mem[a].cmd \in Mine[a]
  BY <1>0, Known DEF Path, Shaped, Placed
<1> DEFINE m == mem[a]
<1>2. ASSUME m.cmd \in {"abort", "finalize"} PROVE Registry(m) = Nothing
  <2>1. PICK g \in Gen : About(m, g)
    BY <1>0, <1>1, <1>2 DEF Started, Operating, Mine, Actor
  <2>2. PlansOf(m.work) = NewPlans(g) /\ m.units \in {Nothing, Units(g)}
    BY <2>1, PlansIs DEF About
  <2>3. Registry(m) = [p \in Plan |-> IF p \in PlansOf(m.work) THEN 0 ELSE m.units[p]]
    BY <1>2 DEF Registry
  <2>4. \A p \in Plan : p \notin NewPlans(g) => m.units[p] = 0
    BY <2>2 DEF Nothing, Units
  <2> HIDE DEF m
  <2> QED BY <2>2, <2>3, <2>4 DEF Nothing
<1>3. ASSUME m.cmd \in Compiling
      PROVE  m.cmd \in {"plan", "replace"} /\ (~Refused(m) => Registry(m) = Units(m.gen))
  <2>1. m.cmd \in {"plan", "replace"} /\ m.gen \in Gen /\ Whole(m.units)
    BY <1>0, <1>3, CompilerIs DEF Compiler
  <2>2. ASSUME m.cmd = "plan", ~Refused(m) PROVE m.units = Nothing
    <3>1. SUFFICES ASSUME NEW h \in Gen, m.units = Units(h) PROVE FALSE
      BY <2>1 DEF Whole
    <3>2. PICK q \in Plan : m.units[q] = 1
      BY <3>1, UnitsIs
    <3>3. PICK p \in NewPlans(m.gen) : OrderIn(m.gen, p) = 1
      BY <2>1, PlansIs
    <3> QED BY <2>2, <3>2, <3>3 DEF Refused
  <2>3. CASE m.cmd = "plan"
    <3>1. Registry(m) = [p \in Plan |-> IF p \in NewPlans(m.gen) THEN OrderIn(m.gen, p) ELSE m.units[p]]
      BY <2>3 DEF Registry
    <3> HIDE DEF m
    <3> QED BY <2>1, <2>2, <2>3, <3>1 DEF Units, Nothing
  <2>4. CASE m.cmd = "replace"
    BY <2>1, <2>4 DEF Registry, Units
  <2> QED BY <2>1, <2>3, <2>4
<1>4. \/ ~Refused(m) /\ units' = Registry(m)
      \/ UNCHANGED units /\ \E n : Goto(a, IF m.cmd = "finalize" THEN "flush" ELSE "idle", n)
  BY DEF Register
<1>5. pc'[a] = "cursor" => ~Refused(m) /\ units' = Registry(m) /\ m.cmd \in Compiling
  <2>1. SUFFICES ASSUME pc'[a] = "cursor" PROVE ~Refused(m) /\ units' = Registry(m) /\ m.cmd \in Compiling
    OBVIOUS
  <2>2. \A n : ~Goto(a, IF m.cmd = "finalize" THEN "flush" ELSE "idle", n)
    BY <1>0, <2>1, GotoIs
  <2>3. PICK s, n : Goes(a, s, n)
    BY <1>0, StepGoes DEF Step
  <2>4. s = "cursor"
    BY <1>0, <2>1, <2>3, GotoIs DEF Goes
  <2>5. n.cmd = m.cmd /\ n.cmd \in Compiling
    BY <2>3, <2>4 DEF Goes, Ready, Path
  <2> QED BY <1>4, <2>2, <2>5
<1> HIDE DEF m
<1>6. m.cmd \in {"abort", "finalize"} \/ m.cmd \in Compiling
  BY <1>1 DEF Compiling, m
<1> QED BY <1>2, <1>3, <1>4, <1>5, <1>6 DEF m

\* The batch that is written is the envelope's.
LEMMA WriteIs ==
  ASSUME CInv, Distinct, NEW a \in Actor, WriteBatchFile(a)
  PROVE  LET g == mem[a].gen IN
         /\ UNCHANGED <<run, units, prd, state, worked, born, compiled>>
         /\ dir' \in {dir, [dir EXCEPT ![Title(g)] = Body(g)]}
         /\ pc'[a] # "idle" => mem'[a].id = Title(g) /\ mem'[a].prior = dir[Title(g)]
<1>0. Shaped /\ pc[a] = "write" /\ Memory(mem[a])
  BY Known DEF CInv, LInv, AInv, TInv, WriteBatchFile
<1>1. mem[a].cmd \in {"plan", "replace"} /\ mem[a].gen \in Gen
  BY <1>0, Known, CompilerIs DEF Path
<1> DEFINE g == mem[a].gen
           b == Title(g)
           r == dir[b]
           m == [mem[a] EXCEPT !.id = b, !.prior = r]
<1>2. Target(mem[a]) = b
  BY <1>1 DEF Target, Title
<1>3. (IF mem[a].cmd = "append" THEN mem[a].work ELSE <<>>) \o Body(g) = Body(g)
  BY <1>1, BodyIs, ConcatEmptySeq
<1>4. /\ UNCHANGED <<run, units, prd, state, worked, born, compiled>>
      /\ \/ Quit(a) /\ UNCHANGED dir
         \/ Goto(a, After[mem[a].cmd]["write"], m) /\ dir' = [dir EXCEPT ![b] = Body(g)]
  BY <1>2, <1>3 DEF WriteBatchFile, history
<1>5. m.id = b /\ m.prior = r
  <2> HIDE DEF b, r
  <2> QED BY <1>0 DEF Memory, Fields
<1> HIDE DEF m
<1>6. pc'[a] # "idle" => mem'[a] = m
  BY <1>0, <1>4, GotoIs DEF Quit
<1> QED BY <1>4, <1>5, <1>6

\* What a step of a command writes in the project's files.
LEMMA StepFiled ==
  ASSUME CInv, Distinct, Next, NEW a \in Actor, Step(a)
  PROVE  Filed'
<1>0. /\ Shaped /\ Filed /\ Started /\ dir \in Dirs /\ (run # "none" => run \in born)
      /\ compiled \in Nat
  BY DEF CInv, LInv, AInv, TInv, Shaped
<1>1. CASE UNCHANGED <<run, dir, units, prd, state, worked, born, compiled>>
  BY <1>0, <1>1 DEF Filed, Matched
<1>2. CASE Create(a) \/ Fill(a) \/ Relocate(a) \/ RemoveEvidence(a)
  BY <1>1, <1>2 DEF Create, Fill, Relocate, RemoveEvidence, files, history
<1>3. CASE RemoveBatchDir(a)
  <2>1. /\ UNCHANGED <<run, units, prd, state, worked, born, compiled>>
        /\ dir' \in {dir, [dir EXCEPT ![mem[a].id] = <<>>]}
    BY <1>3 DEF RemoveBatchDir, history
  <2>2. \A b \in Batch : dir'[b] \in {dir[b], <<>>}
    BY <1>0, <2>1 DEF Dirs
  <2>3. Compiled(dir')
    BY <1>0, <2>2 DEF Filed, Compiled, Compiles
  <2>4. Matched'
    BY <1>0, <2>1, <2>2 DEF Filed, Matched, Shaped
  <2> QED BY <1>0, <2>1, <2>3, <2>4 DEF Filed
<1>4. CASE ClearRun(a)
  <2>1. UNCHANGED <<dir, units, prd, state, worked, born, compiled>> /\ run' \in {run, "none"}
    BY <1>4 DEF ClearRun, history
  <2> QED BY <1>0, <2>1 DEF Filed, Matched
<1>5. CASE WriteBatchFile(a)
  <2>0. pc[a] = "write" /\ mem[a].cmd \in Compiling
    BY <1>0, <1>5, Known DEF WriteBatchFile, Path
  <2> DEFINE g == mem[a].gen
  <2>1. /\ g \in Gen /\ Title(g) \in Batch /\ run # Title(g) /\ (run = "none" \/ dir[run] = <<>>)
    BY <2>0, CompilerIs DEF Compiler
  <2>2. /\ UNCHANGED <<run, units, prd, state, worked, born, compiled>>
        /\ dir' \in {dir, [dir EXCEPT ![Title(g)] = Body(g)]}
    BY <1>5, WriteIs
  <2> HIDE DEF g
  <2>3. \A b \in Batch : dir'[b] = dir[b] \/ (b = Title(g) /\ dir'[b] = Body(g))
    BY <1>0, <2>2 DEF Dirs
  <2>4. Compiled(dir')
    BY <1>0, <2>1, <2>3 DEF Filed, Compiled, Compiles
  <2>5. Matched'
    BY <1>0, <2>1, <2>2, <2>3 DEF Matched, Shaped
  <2> QED BY <1>0, <2>2, <2>4, <2>5 DEF Filed
<1>6. CASE WritePlanFiles(a)
  <2>0. pc[a] = "prds" /\ mem[a].cmd \in Compiling /\ mem[a].id \in Batch
    BY <1>0, <1>6, Known DEF WritePlanFiles, Path
  <2> DEFINE g == mem[a].gen
             i == mem[a].id
             w == mem[a].prior
  <2>1. /\ g \in Gen /\ i = Title(g) /\ Compiles(i, w) /\ run # Title(g) /\ NewPlans(g) \subseteq Plan
        /\ (run = "none" \/ dir[run] = <<>>)
    BY <2>0, CompilerIs, PlansIs DEF Compiler
  <2>2. /\ UNCHANGED <<run, units, state, worked, born, compiled>>
        /\ dir' \in {dir, [dir EXCEPT ![i] = w]}
        /\ \/ prd' = [p \in Plan |-> IF p \in NewPlans(g) THEN g ELSE prd[p]]
           \/ \E gone \in SUBSET NewPlans(g) : prd' = [p \in Plan |-> IF p \in gone THEN 0 ELSE prd[p]]
           \/ \E n \in DOMAIN Envelopes[g].plans, left \in {0, g} :
                prd' = [p \in Plan |-> IF p \notin NewPlans(g) \/ OrderIn(g, p) > n THEN prd[p]
                                      ELSE IF OrderIn(g, p) = n THEN left ELSE g]
    BY <1>6 DEF WritePlanFiles, history
  <2> HIDE DEF g, w, i
  <2>3. \A b \in Batch : dir'[b] = dir[b] \/ (b = i /\ dir'[b] = w)
    BY <1>0, <2>2 DEF Dirs
  <2>4. Compiled(dir')
    BY <1>0, <2>1, <2>3 DEF Filed, Compiled
  <2>5. Matched'
    BY <1>0, <2>1, <2>2, <2>3 DEF Matched, Shaped
  <2>6. Sourced(prd')
    <3>1. Sourced(prd) /\ g \in Nat
      BY <1>0, <2>1 DEF Filed, Gen
    <3>2. CASE prd' = [p \in Plan |-> IF p \in NewPlans(g) THEN g ELSE prd[p]]
      BY <2>1, <3>1, <3>2 DEF Sourced
    <3>3. CASE \E gone \in SUBSET NewPlans(g) : prd' = [p \in Plan |-> IF p \in gone THEN 0 ELSE prd[p]]
      BY <3>1, <3>3 DEF Sourced
    <3>4. CASE \E n \in DOMAIN Envelopes[g].plans, left \in {0, g} :
                 prd' = [p \in Plan |-> IF p \notin NewPlans(g) \/ OrderIn(g, p) > n THEN prd[p]
                                       ELSE IF OrderIn(g, p) = n THEN left ELSE g]
      <4>1. \A p \in Plan : prd'[p] = prd[p] \/ prd'[p] = 0 \/ (prd'[p] = g /\ p \in NewPlans(g))
        BY <3>4
      <4>2. prd' \in [Plan -> Nat]
        <5>1. DOMAIN prd' = Plan /\ prd' = [p \in Plan |-> prd'[p]]
          BY <3>4
        <5> QED BY <3>1, <4>1, <5>1 DEF Sourced
      <4> QED BY <2>1, <3>1, <4>1, <4>2 DEF Sourced
    <3> QED BY <2>2, <3>2, <3>3, <3>4
  <2> QED BY <1>0, <2>2, <2>4, <2>5, <2>6 DEF Filed
<1>7. CASE Register(a)
  <2>0. pc[a] = "register" /\ UNCHANGED <<run, dir, prd, state, worked, born, compiled>>
    BY <1>7 DEF Register, history
  <2>1. CASE UNCHANGED units
    BY <1>1, <2>0, <2>1
  <2>2. CASE units' = Nothing
    <3>1. Matched'
      BY <2>2, UnitsIs DEF Matched
    <3> QED BY <1>0, <2>0, <2>2, <3>1 DEF Filed, Whole
  <2>3. CASE mem[a].cmd \in {"plan", "replace"} /\ units' = Units(mem[a].gen)
    <3>1. mem[a].gen \in Gen /\ (run = "none" \/ dir[run] = <<>>)
      BY <2>0, <2>3, CompilerIs DEF Compiler, Compiling
    <3>2. Matched'
      BY <2>0, <3>1 DEF Matched
    <3> QED BY <1>0, <2>0, <2>3, <3>1, <3>2 DEF Filed, Whole
  <2> QED BY <1>7, <2>1, <2>2, <2>3, RegisterIs
<1>8. CASE FlushState(a)
  <2>1. pc[a] = "flush" /\ UNCHANGED <<run, dir, units, prd, worked, born, compiled>>
        /\ state' \in {state, mem[a].state}
    BY <1>8 DEF FlushState, history
  <2>2. a = "start"
    BY <1>0, <2>1, Known DEF Path, Mine, Shaped, Placed, Actor
  <2>3. Ran(state', worked)
    BY <1>0, <2>1, <2>2 DEF Filed, Started
  <2> QED BY <1>0, <2>1, <2>3 DEF Filed, Matched
<1>9. CASE WriteCursor(a)
  <2>0. pc[a] = "cursor" /\ mem[a].cmd \in Compiling
    BY <1>0, <1>9, Known DEF WriteCursor, Path
  <2> DEFINE g == mem[a].gen
  <2>1. /\ g \in Gen /\ g \in 1..compiled /\ mem[a].id = Title(g) /\ units = Units(g)
    BY <2>0, CompilerIs DEF Compiler
  <2>2. /\ UNCHANGED <<dir, units, prd, state, worked, compiled>>
        /\ \/ UNCHANGED <<run, born>>
           \/ run' = mem[a].id /\ born' = born \cup {mem[a].id}
    BY <1>9 DEF WriteCursor
  <2> HIDE DEF g
  <2>3. \A h \in Gen : units = Units(h) => h = g
    BY <2>1, UnitsIs
  <2>4. CASE run' = mem[a].id /\ born' = born \cup {mem[a].id}
    <3>1. Matched'
      BY <2>1, <2>2, <2>3, <2>4 DEF Matched
    <3>2. \A b \in born' : \E h \in 1..compiled' : h \in Gen /\ Title(h) = b
      BY <1>0, <2>1, <2>2, <2>4 DEF Filed
    <3> QED BY <1>0, <2>2, <3>1, <3>2 DEF Filed
  <2> QED BY <1>1, <2>2, <2>4
<1> QED BY <1>2, <1>3, <1>4, <1>5, <1>6, <1>7, <1>8, <1>9 DEF Step

\* What a start knows is true after its own steps.
LEMMA OwnStarted ==
  ASSUME CInv, Next, Step("start")
  PROVE  Started'
<1>0. Shaped /\ Started /\ "start" \in Actor /\ worked \subseteq worked'
  BY WorkedStays DEF CInv, LInv, AInv, TInv, Actor
<1>1. PICK t, m : Goes("start", t, m)
  BY <1>0, StepGoes
<1>2. pc'["start"] = t /\ mem'["start"] = IF t = "idle" THEN NoMem ELSE m
  BY <1>0, <1>1, GotoIs DEF Goes
<1>3. CASE t = "idle"
  BY <1>2, <1>3 DEF Started, NoMem, Ran
<1>4. CASE t # "idle"
  <2> DEFINE k == mem["start"]
  <2>1. /\ m.cmd = k.cmd /\ m.work = k.work /\ m.units = k.units /\ m.seen = k.seen
        /\ t # "exec" /\ (pc["start"] # "write" => m.id = k.id)
        /\ \A p \in Plan : m.state[p] \in {k.state[p], "none"}
    BY <1>1, <1>4 DEF Goes, Comes
  <2>2. Ran(m.state, worked')
    BY <1>0, <2>1 DEF Started, Ran
  <2>3. m.cmd \in {"finalize", "fallback"} => m.id = k.id
    <3>1. Placed("start")
      BY <1>0 DEF Shaped
    <3> QED BY <2>1, <3>1 DEF Placed, Path, Compiling
  <2>4. \A g : About(k, g) /\ m.cmd \in {"finalize", "fallback"} => About(m, g)
    BY <2>1, <2>3 DEF About
  <2>5. mem'["start"] = m /\ pc'["start"] # "exec"
    BY <1>2, <1>4, <2>1
  <2>6. /\ k.seen # <<>> => Compiled(k.seen[2]) /\ Sourced(k.seen[3])
        /\ k.cmd \in {"finalize", "fallback"} => Tickets(k.work) \subseteq worked /\ \E g \in Gen : About(k, g)
    BY <1>0 DEF Started
  <2>7. m.cmd \in {"finalize", "fallback"} =>
          Tickets(m.work) \subseteq worked' /\ \E g \in Gen : About(m, g)
    BY <1>0, <2>1, <2>4, <2>6
  <2>8. m.seen # <<>> => Compiled(m.seen[2]) /\ Sourced(m.seen[3])
    BY <2>1, <2>6
  <2> HIDE DEF k
  <2> QED BY <2>2, <2>5, <2>7, <2>8 DEF Started
<1> QED BY <1>3, <1>4

\* What a command that compiles a batch relies on is true after its own steps.
LEMMA OwnCompiler ==
  ASSUME CInv, Distinct, Next, Step("command"), mem["command"].cmd \in {"plan", "replace"},
         NEW t, NEW m, Goes("command", t, m), t # "idle"
  PROVE  Compiler(m, t)'
<1> DEFINE a == "command"
           g == mem[a].gen
<1>0. /\ Shaped /\ a \in Actor /\ Operating /\ Filed /\ dir \in Dirs /\ (run # "none" => run \in born)
  BY DEF CInv, LInv, AInv, TInv, Actor, Shaped
<1>1. pc'[a] = t /\ mem'[a] = m
  BY <1>0, GotoIs DEF Goes
<1>2. pc[a] \notin {"idle", "exec"} /\ Compiler(mem[a], pc[a])
  BY <1>0 DEF Operating, Step, Create, Fill, Relocate, RemoveBatchDir, RemoveEvidence, ClearRun,
              WriteBatchFile, WritePlanFiles, Register, FlushState, WriteCursor
<1>3. g \in Gen /\ Title(g) \in Batch /\ run # Title(g)
  BY <1>0, <1>2, CompilerIs DEF Compiling
<1>4. /\ m.cmd = mem[a].cmd /\ m.gen = g /\ m.units = mem[a].units /\ Comes(m.cmd, pc[a], t)
      /\ m.cmd \in {"plan", "replace"} /\ (pc[a] # "write" => m.id = mem[a].id)
  BY DEF Goes
<1>5. UNCHANGED <<born, compiled>>
  <2>1. CASE WriteCursor(a)
    <3>1. pc[a] = "cursor" /\ (Advance(a) \/ Quit(a))
      BY <2>1 DEF WriteCursor
    <3>2. Advance(a) => Goto(a, "idle", mem[a])
      BY <1>4, <3>1 DEF Advance, After, CompileAfter, ReplaceAfter
    <3>3. pc'[a] = "idle"
      BY <1>0, <3>1, <3>2, GotoIs DEF Quit
    <3> QED BY <1>1, <3>3
  <2> QED BY <2>1 DEF Step, Create, Fill, Relocate, RemoveBatchDir, RemoveEvidence, ClearRun,
                      WriteBatchFile, WritePlanFiles, Register, FlushState, history
<1>6. m.gen \in 1..compiled' /\ Title(m.gen) \notin born' /\ Whole(m.units)
  BY <1>2, <1>4, <1>5 DEF Compiler
<1>7. CASE t = "write"
  <2>1. pc[a] = "clear"
    BY <1>4, <1>7 DEF Comes
  <2>2. ClearRun(a)
    BY <2>1 DEF Step, Create, Fill, Relocate, RemoveBatchDir, RemoveEvidence, WriteBatchFile,
                WritePlanFiles, Register, FlushState, WriteCursor
  <2>3. run' = "none" \/ Quit(a)
    BY <2>2 DEF ClearRun
  <2>4. ~Quit(a)
    BY <1>0, <1>1, GotoIs DEF Quit
  <2> QED BY <1>6, <1>7, <2>3, <2>4 DEF Compiler
<1>8. CASE t = "prds"
  <2>1. pc[a] = "write"
    BY <1>4, <1>8 DEF Comes
  <2>2. WriteBatchFile(a)
    BY <2>1 DEF Step, Create, Fill, Relocate, RemoveBatchDir, RemoveEvidence, ClearRun,
                WritePlanFiles, Register, FlushState, WriteCursor
  <2>3. /\ UNCHANGED run /\ dir' \in {dir, [dir EXCEPT ![Title(g)] = Body(g)]}
        /\ m.id = Title(g) /\ m.prior = dir[Title(g)]
    BY <1>0, <1>1, <1>8, <2>2, WriteIs
  <2>4. Compiles(m.id, m.prior)
    BY <1>0, <1>3, <2>3 DEF Filed, Compiled
  <2>5. run' = "none" \/ dir'[run'] = <<>>
    <3>1. run = "none" \/ dir[run] = <<>>
      BY <1>2, <2>1 DEF Compiler
    <3> HIDE DEF g
    <3> QED BY <1>0, <1>3, <2>3, <3>1 DEF Dirs, Shaped
  <2> QED BY <1>4, <1>6, <1>8, <2>3, <2>4, <2>5 DEF Compiler
<1>9. CASE t = "register"
  <2>1. pc[a] = "prds"
    BY <1>4, <1>9 DEF Comes, Compiling
  <2>2. WritePlanFiles(a)
    BY <2>1 DEF Step, Create, Fill, Relocate, RemoveBatchDir, RemoveEvidence, ClearRun,
                WriteBatchFile, Register, FlushState, WriteCursor
  <2>3. UNCHANGED run /\ (UNCHANGED dir \/ Quit(a))
    BY <2>2 DEF WritePlanFiles
  <2>4. ~Quit(a)
    BY <1>0, <1>1, GotoIs DEF Quit
  <2> QED BY <1>2, <1>4, <1>6, <1>9, <2>1, <2>3, <2>4 DEF Compiler
<1>10. CASE t = "cursor"
  <2>1. pc[a] = "register"
    BY <1>4, <1>10 DEF Comes
  <2>2. Register(a)
    BY <2>1 DEF Step, Create, Fill, Relocate, RemoveBatchDir, RemoveEvidence, ClearRun,
                WriteBatchFile, WritePlanFiles, FlushState, WriteCursor
  <2>3. UNCHANGED <<run, dir>> /\ units' = Units(g)
    BY <1>0, <1>1, <1>10, <2>2, RegisterIs DEF Register
  <2> QED BY <1>2, <1>4, <1>6, <1>10, <2>1, <2>3 DEF Compiler
<1>11. CASE t \notin {"write", "prds", "register", "cursor"}
  BY <1>6, <1>11 DEF Compiler
<1> QED BY <1>7, <1>8, <1>9, <1>10, <1>11

LEMMA OwnOperating ==
  ASSUME CInv, Distinct, Next, Step("command")
  PROVE  Operating'
<1>0. Shaped /\ Operating /\ "command" \in Actor
  BY DEF CInv, LInv, AInv, TInv, Actor
<1>1. PICK t, m : Goes("command", t, m)
  BY <1>0, StepGoes
<1>2. pc'["command"] = t /\ mem'["command"] = IF t = "idle" THEN NoMem ELSE m
  BY <1>0, <1>1, GotoIs DEF Goes
<1>3. CASE t = "idle"
  BY <1>2, <1>3 DEF Operating, NoMem
<1>4. CASE t # "idle"
  <2> DEFINE k == mem["command"]
  <2>1. m.cmd = k.cmd /\ m.work = k.work /\ m.units = k.units /\ (pc["command"] # "write" => m.id = k.id)
    BY <1>1, <1>4 DEF Goes
  <2>2. m.cmd = "abort" => m.id = k.id
    <3>1. Placed("command")
      BY <1>0 DEF Shaped
    <3> QED BY <2>1, <3>1 DEF Placed, Path, Compiling
  <2>3. m.cmd = "abort" => \E g \in Gen : About(m, g)
    BY <1>0, <2>1, <2>2 DEF Operating, About
  <2>4. m.cmd \in {"plan", "replace"} => Compiler(m, t)'
    BY <1>1, <1>4, <2>1, OwnCompiler
  <2>5. mem'["command"] = m /\ pc'["command"] = t /\ m.cmd # "append"
    BY <1>0, <1>2, <1>4, <2>1 DEF Operating
  <2> HIDE DEF k
  <2> QED BY <2>3, <2>4, <2>5 DEF Operating, Compiler
<1> QED BY <1>3, <1>4

\* A step of a command, or its death.
LEMMA StepRun ==
  ASSUME CInv, Distinct, Next, NEW a \in Actor, Step(a) \/ Crash(a)
  PROVE  Filed' /\ Started' /\ Operating'
<1>0. /\ Shaped /\ Filed /\ Started /\ Operating /\ LInv /\ pc[a] # "idle"
  BY DEF CInv, LInv, AInv, TInv, Step, Create, Fill, Relocate, RemoveBatchDir, RemoveEvidence,
     ClearRun, WriteBatchFile, WritePlanFiles, Register, FlushState, WriteCursor, Crash, Idle
<1>1. \A b \in Actor \ {a} : pc'[b] = pc[b] /\ mem'[b] = mem[b]
  BY <1>0, StepGoes, GotoIs DEF Goes, Crash, Quit
<1>2. \A b \in Actor \ {a} : mem[b].cmd \notin {"plan", "replace"}
  BY <1>0, Aside
<1>3. ASSUME Step(a), a = "command", pc["start"] = "exec"
      PROVE  units' \in {units, Nothing} /\ prd' = prd
  <2>1. mem[a].cmd \notin Compiling
    <3>1. mem[a].cmd \notin {"plan", "replace"}
      BY <1>0, <1>3, Aside DEF Actor
    <3> QED BY <1>0, <1>3, <3>1 DEF Operating, Compiling
  <2>2. UNCHANGED prd
    <3>1. ~WritePlanFiles(a)
      BY <1>0, <2>1, Known DEF WritePlanFiles, Path
    <3> QED BY <1>3, <3>1 DEF Step, Create, Fill, Relocate, RemoveBatchDir, RemoveEvidence, ClearRun,
                             WriteBatchFile, Register, FlushState, WriteCursor, files
  <2>3. CASE Register(a)
    BY <2>1, <2>2, <2>3, RegisterIs DEF Compiling
  <2>4. CASE ~Register(a)
    BY <1>3, <2>2, <2>4 DEF Step, Create, Fill, Relocate, RemoveBatchDir, RemoveEvidence, ClearRun,
                            WriteBatchFile, WritePlanFiles, FlushState, WriteCursor, files
  <2> QED BY <2>3, <2>4
<1>4. CASE Step(a)
  <2>1. CASE a = "start"
    BY <1>1, <1>2, <1>4, <2>1, StepFiled, OwnStarted, OperatingStays DEF Actor
  <2>2. CASE a = "command"
    BY <1>1, <1>3, <1>4, <2>2, StepFiled, OwnOperating, StartedStays DEF Actor
  <2> QED BY <2>1, <2>2 DEF Actor
<1>5. CASE Crash(a)
  <2>1. /\ UNCHANGED <<run, dir, units, prd, state, worked, born, compiled>>
        /\ pc'[a] = "idle" /\ mem'[a] = NoMem
    BY <1>0, <1>5, GotoIs DEF Crash, Quit, files, history
  <2>2. Filed'
    BY <1>0, <2>1 DEF Filed, Matched
  <2>3. CASE a = "start"
    <3>1. Started'
      BY <2>1, <2>3 DEF Started, NoMem, Ran
    <3> QED BY <1>1, <1>2, <2>2, <2>3, <3>1, OperatingStays DEF Actor
  <2>4. CASE a = "command"
    <3>1. Operating'
      BY <2>1, <2>4 DEF Operating, NoMem
    <3> QED BY <1>1, <2>1, <2>2, <2>4, <3>1, StartedStays DEF Actor
  <2> QED BY <2>3, <2>4 DEF Actor
<1> QED BY <1>4, <1>5

LEMMA CInvNext ==
  ASSUME CInv, Distinct, [Next]_vars
  PROVE  CInv'
<1>1. LInv'
  BY LInvNext DEF CInv, Distinct
<1>2. CASE UNCHANGED vars
  BY <1>1, <1>2 DEF CInv, Filed, Matched, Started, Executes, Operating, Compiler, Archived, vars, files,
                    archive, history
<1>3. CASE Next
  <2>1. Filed' /\ Started' /\ Operating'
    BY <1>3, BeginsRun, RunningRun, StepRun DEF Next
  <2> QED BY <1>1, <1>3, <2>1, ArchivedNext DEF CInv
<1> QED BY <1>2, <1>3

----------------------------------------------------------------------------
(* The theorems.                                                           *)

\* No batch that has been active is lost: while no batch is compiled anew during a start, it has
\* its batch.json or its archive entry whatever crashes, fails or is given up between two steps
\* (ArchiveBatchNormalized, FinalizeBatch, RecoverOrphan, WriteBatch and its rollback, the guard's
\* restore).
THEOREM AccountedHolds == ASSUME Apart PROVE Spec => []Accounted
<1>1. LInv => Accounted
  <2> SUFFICES ASSUME LInv, NEW b \in born PROVE dir[b] # <<>> \/ \E e \in Entries : e.id = b
    BY DEF Accounted
  <2>1. b \in Batch /\ AInv /\ (dir[b] # <<>> \/ HasEntry(b))
    BY DEF LInv, Lossless
  <2> QED BY <2>1, HasIs
<1>2. Spec => []LInv
  BY LInvInit, LInvNext, Apart, PTL DEF Spec
<1> QED BY <1>1, <1>2, PTL

\* RecoverOrphan never writes the stub of a batch: when a start or `recover` meets a cursor whose
\* batch.json is gone, the entry of the batch is in the archive already.
THEOREM NoOrphanStubHolds == ASSUME Apart PROVE Spec => []NoOrphanStub
<1>1. Spec => []LInv
  BY LInvInit, LInvNext, Apart, PTL DEF Spec
<1> QED BY <1>1, PTL DEF LInv

\* What is archived as completed has run: FinalizeBatch, and the archive that takes its place when
\* the project cannot be loaded, never record a plan that SinglePlan has not completed, while no
\* batch is compiled anew during a start, none is appended to, and no two envelopes have a title or
\* a plan in common.
THEOREM CompletedMeansRunHolds == ASSUME Distinct PROVE Spec => []CompletedMeansRun
<1>1. CInv => CompletedMeansRun
  <2> SUFFICES ASSUME CInv, NEW e \in Entries, e.reason = "completed" PROVE e.work \subseteq worked
    BY DEF CompletedMeansRun
  <2>1. Archived /\ stable \in [Batch -> Entry \cup {NoEntry, Empty}]
    BY DEF CInv, LInv, AInv, TInv, Shaped
  <2> QED BY <2>1 DEF Archived, HasRun, Entries
<1>2. Spec => []CInv
  BY CInvInit, CInvNext, Distinct, PTL DEF Spec
<1> QED BY <1>1, <1>2, PTL
=============================================================================

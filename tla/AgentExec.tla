----------------------------- MODULE AgentExec -----------------------------
(***************************************************************************)
(* One dispatch of an agent: exec.Run (internal/core/exec/index.go), the   *)
(* stall detector it races against the wall-clock deadline                 *)
(* (internal/core/stall/stall.go), the escalation the detector fires       *)
(* (planrun/runner.go, stallHook), and the terminal record the caller      *)
(* writes when Run has returned.                                           *)
(*                                                                         *)
(* Six things move on their own: the agent process, the two goroutines     *)
(* that scan its output, the goroutine that kills it at the deadline, the  *)
(* watcher of the stall detector, and the goroutine in Run.                *)
(*                                                                         *)
(* A line of output is its number on its stream.  A line of Long is above  *)
(* maxScannerLine: the scanner gives up on it.  A pipe holds Buffer        *)
(* lines.  Silence is counted in ticks of the clock up to Threshold.       *)
(***************************************************************************)
EXTENDS Integers, Sequences, FiniteSets

CONSTANTS Lines,      \* lines the agent may write to each stream
          Long,       \* of each stream, the lines that are too long to scan
          Buffer,     \* lines a pipe holds
          Threshold,  \* ticks without an event before the agent counts as stalled
          Timeouts    \* the timeouts a caller asks for, in ticks; 0 is none

ASSUME ExecAssumption ==
  /\ Lines \in Nat /\ Buffer \in Nat \ {0} /\ Threshold \in Nat \ {0}
  /\ Long \in [{"stdout", "stderr"} -> SUBSET (1..Lines)] /\ Timeouts \subseteq Nat

VARIABLES main,     \* where Run stands
          proc,     \* the process, its exit code when it is gone, and its heirs
          pipe,     \* the two pipes
          scan,     \* the two scanner goroutines
          events,   \* Result.Events
          result,   \* Result.ExitCode and Result.Err
          timer,    \* the deadline of the context
          stall,    \* the detector: silence so far, and whether it has fired
          watch,    \* the watcher goroutine
          record    \* the plan's record in memory and as saved in state.json

vars == <<main, proc, pipe, scan, events, result, timer, stall, watch, record>>

Stream == {"stdout", "stderr"}
None   == "none"
Killed == -1
Note   == 0             \* the event a scanner emits about its own failure

\* An event has a type; from is the stream it tells of.  The two differ for a note: it
\* is an error, so its type is stderr, and its text names the stream that failed.
Event(s, n) == [type |-> IF n = Note THEN "stderr" ELSE s, from |-> s, line |-> n]

\* What the record says of the plan.
Records == [status : {"running", "ended"}, stalls : Nat]
Running == [status |-> "running", stalls |-> 0]
Ended   == [status |-> "ended", stalls |-> 0]

Init ==
  /\ main = "called"
  /\ proc = [state |-> "none", code |-> 0, hand |-> None, heir |-> FALSE]
  /\ pipe = [s \in Stream |-> [queue |-> <<>>, written |-> 0]]
  /\ scan = [s \in Stream |-> [state |-> "off", held |-> <<>>]]
  /\ events = <<>>
  /\ result = [exit |-> Killed, err |-> None]
  /\ \E t \in Timeouts : timer = [timeout |-> t, left |-> t, expired |-> FALSE]
  /\ \E on \in BOOLEAN : stall = [on |-> on, silent |-> 0, fired |-> FALSE]
  /\ watch = "off"
  /\ record = [memory |-> Running, saved |-> Running]

-----------------------------------------------------------------------------
(* Run.                                                                    *)

\* A pipe cannot be made or the process cannot be started.
StartFails ==
  /\ main = "called"
  /\ main' = "returned"
  /\ result' = [exit |-> Killed, err |-> "start"]
  /\ UNCHANGED <<proc, pipe, scan, events, timer, stall, watch, record>>

Start ==
  /\ main = "called"
  /\ main' = "scanning"
  /\ proc' = [proc EXCEPT !.state = "running"]
  /\ scan' = [s \in Stream |-> [state |-> "scanning", held |-> <<>>]]
  /\ watch' = IF stall.on THEN "watching" ELSE "off"
  /\ UNCHANGED <<pipe, events, result, timer, stall, record>>

\* Mutant: the process is waited for while its output is still being read.
ScannersDone_TooSoon ==
  /\ main = "scanning"
  /\ main' = "reaping"
  /\ UNCHANGED <<proc, pipe, scan, events, result, timer, stall, watch, record>>

\* wg.Wait: both scanners are done.
ScannersDone ==
  /\ main = "scanning"
  /\ \A s \in Stream : scan[s].state \in {"eof", "failed"}
  /\ main' = "reaping"
  /\ UNCHANGED <<proc, pipe, scan, events, result, timer, stall, watch, record>>

\* proc.Wait, and the deferred stop of the watcher.
Reap ==
  /\ main = "reaping"
  /\ proc.state = "gone"
  /\ main' = "joining"
  /\ result' = [exit |-> proc.code,
                err  |-> IF timer.expired THEN "deadline"
                         ELSE IF proc.code # 0 THEN "exit" ELSE None]
  /\ UNCHANGED <<proc, pipe, scan, events, timer, stall, watch, record>>

\* Mutant: the watcher is cancelled and not joined.
Join_CancelOnly ==
  /\ main = "joining"
  /\ main' = "returned"
  /\ UNCHANGED <<proc, pipe, scan, events, result, timer, stall, watch, record>>

\* <-watchDone.
Join ==
  /\ main = "joining"
  /\ watch \in {"off", "done"}
  /\ main' = "returned"
  /\ UNCHANGED <<proc, pipe, scan, events, result, timer, stall, watch, record>>

\* The caller writes the terminal record over the running one and saves it.
EndRecord ==
  /\ main = "returned"
  /\ main' = "ending"
  /\ record' = [record EXCEPT !.memory = Ended]
  /\ UNCHANGED <<proc, pipe, scan, events, result, timer, stall, watch>>

SaveEnd ==
  /\ main = "ending"
  /\ main' = "ended"
  /\ record' = [record EXCEPT !.saved = record.memory]
  /\ UNCHANGED <<proc, pipe, scan, events, result, timer, stall, watch>>

-----------------------------------------------------------------------------
(* The agent, and what it leaves behind.                                   *)

\* The agent begins to write its next line to a stream.
Speak(s) ==
  /\ proc.state = "running" /\ proc.hand = None
  /\ pipe[s].written < Lines
  /\ proc' = [proc EXCEPT !.hand = s]
  /\ UNCHANGED <<main, pipe, scan, events, result, timer, stall, watch, record>>

\* The write ends when the pipe has room for it.
Write(s) ==
  /\ proc.state = "running" /\ proc.hand = s
  /\ Len(pipe[s].queue) < Buffer
  /\ LET n == pipe[s].written + 1
     IN pipe' = [pipe EXCEPT ![s] = [queue |-> Append(@.queue, n), written |-> n]]
  /\ proc' = [proc EXCEPT !.hand = None]
  /\ UNCHANGED <<main, scan, events, result, timer, stall, watch, record>>

\* The agent exits; a child of it may keep the pipes open.
Exit(code, heir) ==
  /\ proc.state = "running" /\ proc.hand = None
  /\ proc' = [proc EXCEPT !.state = "gone", !.code = code, !.heir = heir]
  /\ UNCHANGED <<main, pipe, scan, events, result, timer, stall, watch, record>>

HeirExits ==
  /\ proc.heir
  /\ proc' = [proc EXCEPT !.heir = FALSE]
  /\ UNCHANGED <<main, pipe, scan, events, result, timer, stall, watch, record>>

\* exec.CommandContext kills the process, and only it, when the context is done.
Kill(heir) ==
  /\ timer.expired
  /\ proc.state = "running"
  /\ proc' = [state |-> "gone", code |-> Killed, hand |-> None, heir |-> heir]
  /\ UNCHANGED <<main, pipe, scan, events, result, timer, stall, watch, record>>

-----------------------------------------------------------------------------
(* The scanners.  emit is two steps: the heartbeat, then the event.        *)

\* Detector.Observe.
Observed == [stall EXCEPT !.silent = 0, !.fired = FALSE]

Scan(s) ==
  /\ scan[s].state = "scanning" /\ scan[s].held = <<>>
  /\ pipe[s].queue # <<>>
  /\ LET n == Head(pipe[s].queue)
     IN scan' = [scan EXCEPT ![s].held = <<IF n \in Long[s] THEN Note ELSE n>>]
  /\ pipe' = [pipe EXCEPT ![s].queue = Tail(@)]
  /\ stall' = Observed
  /\ UNCHANGED <<main, proc, events, result, timer, watch, record>>

\* A scanner that has reported its failure reads no more of its pipe.  Both scanners
\* report on stderr.
Emit(s) ==
  /\ scan[s].held # <<>>
  /\ events' = Append(events, Event(s, scan[s].held[1]))
  /\ scan' = [scan EXCEPT ![s] =
       [state |-> IF @.held = <<Note>> THEN "failed" ELSE "scanning", held |-> <<>>]]
  /\ UNCHANGED <<main, proc, pipe, result, timer, stall, watch, record>>

\* End of file: every holder of the write end has closed it.
Eof(s) ==
  /\ scan[s].state = "scanning" /\ scan[s].held = <<>>
  /\ pipe[s].queue = <<>>
  /\ proc.state = "gone" /\ ~proc.heir
  /\ scan' = [scan EXCEPT ![s].state = "eof"]
  /\ UNCHANGED <<main, proc, pipe, events, result, timer, stall, watch, record>>

-----------------------------------------------------------------------------
(* The clock and the watcher.                                              *)

\* A tick only counts while the dispatch is on.
Tick ==
  /\ main \notin {"called", "ended"}
  /\ stall' = [stall EXCEPT !.silent = IF @ < Threshold THEN @ + 1 ELSE @]
  /\ timer' = [timer EXCEPT !.left = IF @ = 0 THEN 0 ELSE @ - 1]
  /\ <<stall', timer'>> # <<stall, timer>>
  /\ UNCHANGED <<main, proc, pipe, scan, events, result, watch, record>>

Expire ==
  /\ main \in {"scanning", "reaping", "joining"}
  /\ timer.timeout > 0 /\ timer.left = 0 /\ ~timer.expired
  /\ timer' = [timer EXCEPT !.expired = TRUE]
  /\ UNCHANGED <<main, proc, pipe, scan, events, result, stall, watch, record>>

\* edgeStale and the call of onStale.  A ticker that is ready together with the
\* end of the watch may still be the one select takes.
EdgeStale ==
  /\ watch = "watching"
  /\ stall.silent >= Threshold /\ ~stall.fired
  /\ stall' = [stall EXCEPT !.fired = TRUE]
  /\ watch' = "escalating"
  /\ UNCHANGED <<main, proc, pipe, scan, events, result, timer, record>>

\* stallHook: the stamp on the plan's record, then SaveState.
Stamp ==
  /\ watch = "escalating"
  /\ record' = [record EXCEPT !.memory.stalls = @ + 1]
  /\ watch' = "saving"
  /\ UNCHANGED <<main, proc, pipe, scan, events, result, timer, stall>>

SaveStamp ==
  /\ watch = "saving"
  /\ record' = [record EXCEPT !.saved = record.memory]
  /\ watch' = "watching"
  /\ UNCHANGED <<main, proc, pipe, scan, events, result, timer, stall>>

\* Mutant: only the deadline ends the watch.
StopWatch_OnlyDeadline ==
  /\ watch = "watching"
  /\ timer.expired
  /\ watch' = "done"
  /\ UNCHANGED <<main, proc, pipe, scan, events, result, timer, stall, record>>

\* The watch ends with its context: stopped by Run, or the deadline's.
StopWatch ==
  /\ watch = "watching"
  /\ main = "joining" \/ timer.expired
  /\ watch' = "done"
  /\ UNCHANGED <<main, proc, pipe, scan, events, result, timer, stall, record>>

-----------------------------------------------------------------------------
Run     == StartFails \/ Start \/ ScannersDone \/ Reap \/ Join \/ EndRecord \/ SaveEnd
Agent   == \/ \E s \in Stream : Speak(s) \/ Write(s)
           \/ \E code \in {0, 1}, heir \in BOOLEAN : Exit(code, heir)
           \/ HeirExits
Killer  == \E heir \in BOOLEAN : Kill(heir)
Scanner(s) == Scan(s) \/ Emit(s) \/ Eof(s)
Clock   == Tick \/ Expire
Watcher == EdgeStale \/ Stamp \/ SaveStamp \/ StopWatch

Next == Run \/ Agent \/ Killer \/ (\E s \in Stream : Scanner(s)) \/ Clock \/ Watcher

Spec == Init /\ [][Next]_vars

\* Goroutines and the clock go on.  The agent writes what it has begun to write
\* when there is room; it ends on its own only where no timeout is asked for.
FairSpec ==
  /\ Spec
  /\ WF_vars(Run) /\ WF_vars(Killer) /\ WF_vars(Clock) /\ WF_vars(Watcher)
  /\ \A s \in Stream : WF_vars(Scanner(s)) /\ WF_vars(Write(s))
  /\ WF_vars(timer.timeout = 0 /\ \E c \in {0, 1}, h \in BOOLEAN : Exit(c, h))

-----------------------------------------------------------------------------
TypeOK ==
  /\ main \in {"called", "scanning", "reaping", "joining", "returned", "ending", "ended"}
  /\ proc \in [state : {"none", "running", "gone"}, code : {0, 1, Killed},
               hand : Stream \cup {None}, heir : BOOLEAN]
  /\ \A s \in Stream : /\ pipe[s].written \in 0..Lines
                       /\ Len(pipe[s].queue) <= Buffer
                       /\ scan[s].state \in {"off", "scanning", "eof", "failed"}
                       /\ scan[s].held \in {<<>>} \cup {<<n>> : n \in 0..Lines}
  /\ result \in [exit : {0, 1, Killed}, err : {None, "start", "exit", "deadline"}]
  /\ timer.left <= timer.timeout
  /\ stall.silent \in 0..Threshold
  /\ watch \in {"off", "watching", "escalating", "saving", "done"}
  /\ record \in [memory : Records, saved : Records]

\* The events that tell of a stream, the place of an event among those, and the lines
\* that come out: all of them, or those up to the first that is too long.
Told(s) == {k \in DOMAIN events : events[k].from = s}
Nth(k) == Cardinality({j \in Told(events[k].from) : j <= k})
Reached(s) == {n \in 1..pipe[s].written : \A m \in 1..(n - 1) : m \notin Long[s]}

(* When Run returns, its result holds every line the agent wrote, in order *)
(* on each stream and under the stream's own type; where a line was too    *)
(* long, everything before it and then a note on stderr, so that stdout    *)
(* ends where its scanner gave up and nothing on it tells why.  Reading    *)
(* must be over before the process is waited for.                          *)
OutputIsWhole ==
  main \in {"returned", "ending", "ended"} =>
    \A s \in Stream :
      /\ {Nth(k) : k \in Told(s)} = Reached(s)
      /\ \A k \in Told(s) :
           events[k] = Event(s, IF Nth(k) \in Long[s] THEN Note ELSE Nth(k))

(* An escalation in flight never touches the record of a plan that has     *)
(* ended: once the terminal record is saved, the saved record stays.       *)
TerminalRecordStays == [][record.saved = Ended => record'.saved = Ended]_vars

\* The two ways a dispatch can hang: a write nobody reads and no deadline to
\* end it, and a child that survives the agent with the pipes open.
WriteUnread == timer.timeout = 0 /\ proc.hand # None /\ scan[proc.hand].state = "failed"
HeirSilent  == proc.state = "gone" /\ proc.heir

(* A dispatch returns and its plan's record ends, except in these two ways *)
(* (an over-long line on a dispatch without a timeout; a surviving child). *)
RunReturns == <>(main = "ended") \/ <>[](WriteUnread \/ HeirSilent)
=============================================================================

--------------------------- MODULE AgentProofs ---------------------------
(***************************************************************************)
(* What holds of the agents.  Of one dispatch (AgentExec), for any number  *)
(* of lines, any that are too long, any pipe, any threshold and any        *)
(* timeout: the stall watcher never touches a record that is final, and    *)
(* the result holds the whole output.  Of the chain of agents              *)
(* (AgentChain), for any lists, transcripts and exits: a success rests on  *)
(* work, a run that only burned turns is passed on, and only the clock     *)
(* shortens a cooldown.                                                    *)
(*                                                                         *)
(* The first takes two facts at once: the watcher has been joined before   *)
(* Run returns (Joined), and both copies of the record say "running" until *)
(* then (RecordAt), so that a saved terminal record means that the         *)
(* dispatch is over and nobody is left to write.                           *)
(***************************************************************************)
EXTENDS AgentExec, AgentChain, FiniteSetTheorems, SequenceTheorems, TLAPS

\* A record, wherever it is, has a status and a number of stalls.
RecordTyped == record \in [memory : Records, saved : Records]

\* A watcher that may still write is one Run has not joined.
Joined == watch \in {"watching", "escalating", "saving"} =>
            main \in {"scanning", "reaping", "joining"}

\* What the two copies of the record say at each place of Run.
RecordAt ==
  /\ main \notin {"ending", "ended"} => record.memory.status = "running"
  /\ main # "ended" => record.saved.status = "running"
  /\ main \in {"ending", "ended"} => record.memory = Ended
  /\ main = "ended" => record.saved = Ended

IInv == RecordTyped /\ Joined /\ RecordAt

----------------------------------------------------------------------------
\* The invariant holds as the dispatch is called.
LEMMA InitInv == Init => IInv
  BY DEF Init, IInv, RecordTyped, Joined, RecordAt, Records, Running

\* Run keeps it: it returns only when the watcher is done, and nothing but Run
\* makes the record terminal.
LEMMA RunInv == IInv /\ Run => IInv'
<1> SUFFICES ASSUME IInv, Run PROVE IInv'
  OBVIOUS
<1> USE DEF IInv, RecordTyped, Joined, RecordAt
<1>1. CASE StartFails
  BY <1>1 DEF StartFails
<1>2. CASE Start
  BY <1>2 DEF Start
<1>3. CASE ScannersDone
  BY <1>3 DEF ScannersDone
<1>4. CASE Reap
  BY <1>4 DEF Reap
<1>5. CASE Join
  BY <1>5 DEF Join
<1>6. CASE EndRecord
  BY <1>6 DEF EndRecord, Records, Ended
<1>7. CASE SaveEnd
  BY <1>7 DEF SaveEnd, Records, Ended
<1> QED BY <1>1, <1>2, <1>3, <1>4, <1>5, <1>6, <1>7 DEF Run

\* So does the watcher: while it writes, the record it writes is the running one.
LEMMA WatcherInv == IInv /\ Watcher => IInv'
<1> SUFFICES ASSUME IInv, Watcher PROVE IInv'
  OBVIOUS
<1> USE DEF IInv, RecordTyped, Joined, RecordAt
<1>1. CASE EdgeStale
  BY <1>1 DEF EdgeStale
<1>2. CASE Stamp
  BY <1>2 DEF Stamp, Records
<1>3. CASE SaveStamp
  BY <1>3 DEF SaveStamp, Records
<1>4. CASE StopWatch
  BY <1>4 DEF StopWatch
<1> QED BY <1>1, <1>2, <1>3, <1>4 DEF Watcher

\* The agent, its killer, the scanners and the clock leave all of it alone.
LEMMA OthersInv ==
  IInv /\ (Agent \/ Killer \/ (\E s \in Stream : Scanner(s)) \/ Clock) => IInv'
  BY DEF IInv, RecordTyped, Joined, RecordAt, Agent, Killer, Scanner, Clock, Speak, Write, Exit,
         HeirExits, Kill, Scan, Emit, Eof, Tick, Expire

\* No step breaks the invariant.
LEMMA StepInv == IInv /\ [Next]_vars => IInv'
<1>1. IInv /\ UNCHANGED vars => IInv'
  BY DEF vars, IInv, RecordTyped, Joined, RecordAt
<1> QED BY <1>1, RunInv, WatcherInv, OthersInv DEF Next

\* The invariant holds in every reachable state of a dispatch.
LEMMA Invariance == Spec => []IInv
  BY InitInv, StepInv, PTL DEF Spec

\* A saved terminal record means that the dispatch is over, and then no step
\* writes it: Run has ended, and the watcher is not in the middle of anything.
LEMMA EndedStays == IInv /\ [Next]_vars => (record.saved = Ended => record'.saved = Ended)
<1> SUFFICES ASSUME IInv, [Next]_vars, record.saved = Ended PROVE record' = record
  OBVIOUS
<1>1. main = "ended" /\ watch \notin {"escalating", "saving"}
  BY DEF IInv, Joined, RecordAt, Ended
<1>2. ~Run /\ ~Stamp /\ ~SaveStamp
  BY <1>1 DEF Run, StartFails, Start, ScannersDone, Reap, Join, EndRecord, SaveEnd, Stamp, SaveStamp
<1> QED
  BY <1>2 DEF Next, Watcher, EdgeStale, StopWatch, Agent, Killer, Scanner, Clock, Speak, Write, Exit,
              HeirExits, Kill, Scan, Emit, Eof, Tick, Expire, vars

\* An escalation of the stall detector never touches the record of a plan that
\* has ended, whatever the agent writes, whenever it is killed, and however the
\* watcher and Run interleave.
THEOREM TerminalRecordStaysHolds == Spec => TerminalRecordStays
  BY Invariance, EndedStays, PTL DEF Spec, TerminalRecordStays

----------------------------------------------------------------------------
(* The output.  What a scanner has read, what it holds and what it has     *)
(* emitted are the same lines at every moment; so when both are done, and  *)
(* only then does Run return, the events are all that the agent wrote, up  *)
(* to the first line that was too long.                                    *)

\* The lines read out of a pipe, the events of a stream, and what comes out of a line.
Taken(s) == pipe[s].written - Len(pipe[s].queue)
Count(s) == Cardinality(Told(s))
Out(s, n) == IF n \in Long[s] THEN Note ELSE n

\* What is in the pipes, in the scanners and in the events has its type.
Carried ==
  /\ proc \in [state : {"none", "running", "gone"}, code : {0, 1, Killed},
               hand : Stream \cup {None}, heir : BOOLEAN]
  /\ \A s \in Stream : proc.hand = s => pipe[s].written < Lines
  /\ pipe \in [Stream -> [queue : Seq(1..Lines), written : 0..Lines]]
  /\ scan \in [Stream -> [state : {"off", "scanning", "eof", "failed"},
                          held : {<<>>} \cup {<<n>> : n \in 0..Lines}]]
  /\ events \in Seq([type : Stream, from : Stream, line : 0..Lines])

\* A pipe holds what has been written and not been read, in order.
InOrder(s) == \A i \in 1..Len(pipe[s].queue) : pipe[s].queue[i] = Taken(s) + i

\* The events of a stream are its lines, each in its place.
Heard(s) ==
  /\ {Nth(k) : k \in Told(s)} = 1..Count(s)
  /\ \A k \in Told(s) : events[k] = Event(s, Out(s, Nth(k)))

\* No line is lost between the pipe and the events, and none is read after one that was
\* too long.
Flow(s) ==
  /\ IF scan[s].held = <<>> THEN Count(s) = Taken(s)
     ELSE /\ scan[s].state = "scanning" /\ Count(s) = Taken(s) - 1
          /\ scan[s].held = <<Out(s, Taken(s))>>
  /\ IF scan[s].state = "failed"
     THEN Count(s) \in Long[s] /\ \A m \in 1..(Count(s) - 1) : m \notin Long[s]
     ELSE \A m \in 1..Count(s) : m \notin Long[s]
  /\ scan[s].state = "off" => pipe[s].written = 0 /\ proc.state = "none"
  /\ scan[s].state = "eof" => pipe[s].queue = <<>> /\ proc.state = "gone"

\* Run returns when both scanners are done, and the process is gone; or it never started
\* one.
Closed ==
  /\ main = "called" => \A s \in Stream : scan[s].state = "off"
  /\ main \in {"reaping", "joining", "returned", "ending", "ended"} =>
       \/ \A s \in Stream : scan[s].state \in {"eof", "failed"}
       \/ main \notin {"reaping", "joining"} /\ \A s \in Stream : scan[s].state = "off"

OInv == Carried /\ Closed /\ \A s \in Stream : InOrder(s) /\ Heard(s) /\ Flow(s)

\* The lines of a stream that are on their way or have come out.
LineOf(s) == InOrder(s) /\ Heard(s) /\ Flow(s)

\* Counting the events that are told.
LEMMA ToldIsFinite ==
  ASSUME Carried
  PROVE  \A s \in Stream : /\ Told(s) \subseteq 1..Len(events) /\ IsFiniteSet(Told(s))
                           /\ Count(s) \in Nat
<1> SUFFICES ASSUME NEW s \in Stream
             PROVE  Told(s) \subseteq 1..Len(events) /\ IsFiniteSet(Told(s)) /\ Count(s) \in Nat
  OBVIOUS
<1>1. Len(events) \in Nat /\ DOMAIN events = 1..Len(events)
  BY DEF Carried
<1>2. Told(s) \subseteq 1..Len(events)
  BY <1>1 DEF Told
<1>3. IsFiniteSet(1..Len(events))
  BY <1>1, FS_Interval
<1>4. IsFiniteSet(Told(s))
  BY <1>2, <1>3, FS_Subset
<1> QED BY <1>2, <1>4, FS_CardinalityType DEF Count

\* An event that is emitted comes last on its stream, and moves no other.
LEMMA ToldGrows ==
  ASSUME Carried, NEW s \in Stream, NEW e \in [type : Stream, from : Stream, line : 0..Lines],
         NEW n \in Nat, n = Len(events) + 1, e.from = s, events' = Append(events, e)
  PROVE  /\ Told(s)' = Told(s) \cup {n} /\ Count(s)' = Count(s) + 1
         /\ \A t \in Stream \ {s} : Told(t)' = Told(t) /\ Count(t)' = Count(t)
         /\ \A k \in 1..Len(events) : events'[k] = events[k] /\ Nth(k)' = Nth(k)
         /\ events'[n] = e /\ Nth(n)' = Count(s) + 1
<1>1. /\ Len(events) \in Nat /\ DOMAIN events = 1..Len(events)
      /\ DOMAIN events' = 1..n /\ events'[n] = e
      /\ \A k \in 1..Len(events) : events'[k] = events[k]
  BY DEF Carried
<1>2. n \notin 1..Len(events) /\ 1..n = (1..Len(events)) \cup {n}
  BY <1>1
<1>3. Told(s)' = Told(s) \cup {n}
  BY <1>1, <1>2 DEF Told
<1>4. \A t \in Stream \ {s} : Told(t)' = Told(t)
  BY <1>1, <1>2 DEF Told
<1>5. n \notin Told(s)
  BY <1>1, <1>2 DEF Told
<1>6. Count(s)' = Count(s) + 1
  BY <1>3, <1>5, ToldIsFinite, FS_AddElement DEF Count
<1>7. ASSUME NEW k \in 1..Len(events) PROVE Nth(k)' = Nth(k)
  <2>1. {j \in Told(events[k].from)' : j <= k} = {j \in Told(events[k].from) : j <= k}
    <3>1. ~(n <= k)
      BY <1>1
    <3> DEFINE S == [type : Stream, from : Stream, line : 0..Lines]
    <3>2. events \in Seq(S)
      BY DEF Carried
    <3>3. events[k] \in S
      <4> HIDE DEF S
      <4> QED BY <3>2
    <3>4. events[k].from \in Stream
      BY <3>3
    <3> QED BY <1>3, <1>4, <3>1, <3>4
  <2> QED BY <1>1, <2>1 DEF Nth
<1>8. Nth(n)' = Count(s) + 1
  <2>1. \A j \in Told(s) \cup {n} : j <= n
    BY <1>1, ToldIsFinite
  <2>2. {j \in Told(s)' : j <= n} = Told(s)'
    BY <1>3, <2>1
  <2>3. events'[n].from = s
    BY <1>1
  <2>4. Nth(n)' = Count(s)'
    BY <2>2, <2>3 DEF Nth, Count
  <2> QED BY <1>6, <2>4
<1>9. \A t \in Stream \ {s} : Count(t)' = Count(t)
  BY <1>4 DEF Count
<1> QED BY <1>1, <1>3, <1>4, <1>6, <1>7, <1>8, <1>9

\* Nothing that leaves the events alone moves one.
LEMMA ToldStays ==
  ASSUME UNCHANGED events
  PROVE  \A s \in Stream : Told(s)' = Told(s) /\ Count(s)' = Count(s) /\ (Heard(s) => Heard(s)')
<1>1. \A s \in Stream : Told(s)' = Told(s)
  BY DEF Told
<1>2. \A k : Nth(k)' = Nth(k)
  BY DEF Nth, Told
<1>3. \A s \in Stream : Count(s)' = Count(s)
  BY <1>1 DEF Count
<1> QED BY <1>1, <1>2, <1>3 DEF Heard, Out

\* The types.
LEMMA InitOut == Init => OInv
<1> SUFFICES ASSUME Init PROVE OInv
  OBVIOUS
<1> USE ExecAssumption
<1>1. Carried
  BY DEF Init, Carried, None, Stream
<1>2. Closed
  BY DEF Init, Closed
<1>3. ASSUME NEW s \in Stream PROVE LineOf(s)
  <2>1. Told(s) = {} /\ Count(s) = 0
    BY FS_EmptySet DEF Init, Told, Count
  <2>2. InOrder(s)
    BY DEF Init, InOrder
  <2>3. Heard(s)
    BY <2>1 DEF Heard
  <2>4. Flow(s)
    BY <2>1 DEF Init, Flow, Taken
  <2> QED BY <2>2, <2>3, <2>4 DEF LineOf
<1> QED BY <1>1, <1>2, <1>3 DEF OInv, LineOf

LEMMA CarriedStep == OInv /\ [Next]_vars => Carried'
<1> SUFFICES ASSUME OInv, [Next]_vars PROVE Carried'
  OBVIOUS
<1> USE ExecAssumption
<1>0. Carried
  BY DEF OInv
<1> DEFINE Proc == proc \in [state : {"none", "running", "gone"}, code : {0, 1, Killed},
                              hand : Stream \cup {None}, heir : BOOLEAN]
           Room == \A s \in Stream : proc.hand = s => pipe[s].written < Lines
<1>1. CASE UNCHANGED <<pipe, scan, events>> /\ Proc' /\ Room'
  BY <1>0, <1>1 DEF Carried
<1>2. CASE Start
  BY <1>0, <1>2 DEF Carried, Start
<1>3. ASSUME NEW s \in Stream, Write(s) PROVE Carried'
  <2>0. pipe[s] \in [queue : Seq(1..Lines), written : 0..Lines] /\ pipe[s].written < Lines
    BY <1>0, <1>3 DEF Carried, Write
  <2>1. pipe[s].queue \in Seq(1..Lines) /\ pipe[s].written + 1 \in 1..Lines
    BY <2>0
  <2>2. Append(pipe[s].queue, pipe[s].written + 1) \in Seq(1..Lines)
    BY <2>1
  <2>3. pipe' \in [Stream -> [queue : Seq(1..Lines), written : 0..Lines]]
    BY <1>0, <1>3, <2>1, <2>2 DEF Carried, Write
  <2>4. proc' \in [state : {"none", "running", "gone"}, code : {0, 1, Killed},
                   hand : Stream \cup {None}, heir : BOOLEAN] /\ proc'.hand \notin Stream
    BY <1>0, <1>3 DEF Carried, Write, None, Stream
  <2> QED BY <1>0, <1>3, <2>3, <2>4 DEF Carried, Write
<1>4. ASSUME NEW s \in Stream, Scan(s) PROVE Carried'
  <2> DEFINE q == pipe[s].queue
  <2>1. q \in Seq(1..Lines) /\ q # <<>>
    BY <1>0, <1>4 DEF Carried, Scan
  <2>2. Head(q) \in 1..Lines /\ Tail(q) \in Seq(1..Lines)
    <3> HIDE DEF q
    <3>1. Len(q) \in Nat \ {0} /\ \A i \in 1..Len(q) : q[i] \in 1..Lines
      BY <2>1
    <3>2. Head(q) = q[1] /\ 1 \in 1..Len(q)
      BY <2>1, <3>1
    <3> QED BY <2>1, <3>1, <3>2
  <2>3. pipe' \in [Stream -> [queue : Seq(1..Lines), written : 0..Lines]]
    <3>1. pipe' = [pipe EXCEPT ![s].queue = Tail(q)]
      BY <1>0, <1>4 DEF Carried, Scan
    <3> HIDE DEF q
    <3>2. pipe \in [Stream -> [queue : Seq(1..Lines), written : 0..Lines]]
      BY <1>0 DEF Carried
    <3> QED BY <2>2, <3>1, <3>2
  <2>4. PICK n \in 0..Lines : scan' = [scan EXCEPT ![s].held = <<n>>]
    <3>1. (IF Head(q) \in Long[s] THEN Note ELSE Head(q)) \in 0..Lines
      BY <2>2 DEF Note
    <3>2. scan' = [scan EXCEPT ![s].held = <<IF Head(q) \in Long[s] THEN Note ELSE Head(q)>>]
      BY <1>4 DEF Scan
    <3> QED BY <3>1, <3>2
  <2>5. scan' \in [Stream -> [state : {"off", "scanning", "eof", "failed"},
                              held : {<<>>} \cup {<<m>> : m \in 0..Lines}]]
    BY <1>0, <2>4 DEF Carried
  <2>6. \A t \in Stream : pipe'[t].written = pipe[t].written
    BY <1>0, <1>4 DEF Carried, Scan
  <2> QED BY <1>0, <1>4, <2>3, <2>5, <2>6 DEF Carried, Scan
<1>5. ASSUME NEW s \in Stream, Emit(s) PROVE Carried'
  <2>0. scan[s].held \in {<<>>} \cup {<<n>> : n \in 0..Lines} /\ scan[s].held # <<>>
    BY <1>0, <1>5 DEF Carried, Emit
  <2>1. PICK n \in 0..Lines : scan[s].held = <<n>>
    BY <2>0
  <2>2. events' = Append(events, Event(s, n))
    BY <1>5, <2>1 DEF Emit
  <2>3. Event(s, n) \in [type : Stream, from : Stream, line : 0..Lines]
    BY DEF Event, Stream
  <2>4. events' \in Seq([type : Stream, from : Stream, line : 0..Lines])
    BY <1>0, <2>2, <2>3 DEF Carried
  <2> QED BY <1>0, <1>5, <2>4 DEF Carried, Emit
<1>6. ASSUME NEW s \in Stream, Eof(s) PROVE Carried'
  BY <1>0, <1>6 DEF Carried, Eof
<1>7. Run => Start \/ UNCHANGED <<proc, pipe, scan, events>>
  BY DEF Run, StartFails, ScannersDone, Reap, Join, EndRecord, SaveEnd
<1>8. Agent => (\E s \in Stream : Write(s)) \/ (UNCHANGED <<pipe, scan, events>> /\ Proc' /\ Room')
  <2>1. ASSUME NEW s \in Stream, Speak(s) PROVE UNCHANGED <<pipe, scan, events>> /\ Proc' /\ Room'
    BY <1>0, <2>1 DEF Speak, Carried
  <2>2. ASSUME NEW code \in {0, 1}, NEW heir \in BOOLEAN, Exit(code, heir)
        PROVE  UNCHANGED <<pipe, scan, events>> /\ Proc' /\ Room'
    BY <1>0, <2>2 DEF Exit, Carried
  <2>3. HeirExits => UNCHANGED <<pipe, scan, events>> /\ Proc' /\ Room'
    BY <1>0 DEF HeirExits, Carried
  <2> QED BY <2>1, <2>2, <2>3 DEF Agent
<1>9. Killer => UNCHANGED <<pipe, scan, events>> /\ Proc' /\ Room'
  BY DEF Killer, Kill, None, Stream
<1>10. Clock \/ Watcher \/ UNCHANGED vars => UNCHANGED <<proc, pipe, scan, events>>
  BY DEF Clock, Tick, Expire, Watcher, EdgeStale, Stamp, SaveStamp, StopWatch, vars
<1>11. UNCHANGED <<proc, pipe, scan, events>> => Proc' /\ Room'
  BY <1>0 DEF Carried
<1> QED
  BY <1>1, <1>2, <1>3, <1>4, <1>5, <1>6, <1>7, <1>8, <1>9, <1>10, <1>11 DEF Next, Scanner


\* A stream whose pipe, scanner and events a step leaves alone keeps its lines, as long as
\* the process comes and goes only once.
LEMMA LineStays ==
  ASSUME NEW s \in Stream, LineOf(s), UNCHANGED events, pipe'[s] = pipe[s], scan'[s] = scan[s],
         proc'.state # proc.state => proc.state # "gone" /\ scan[s].state # "off"
  PROVE  LineOf(s)'
<1>1. Count(s)' = Count(s) /\ Heard(s)'
  BY ToldStays DEF LineOf
<1>2. Taken(s)' = Taken(s)
  BY DEF Taken
<1>3. InOrder(s)'
  BY <1>2 DEF LineOf, InOrder
<1>4. Flow(s)'
  BY <1>1, <1>2 DEF LineOf, Flow, Out
<1> QED BY <1>1, <1>3, <1>4 DEF LineOf

\* A line that is written goes to the end of its pipe.
LEMMA LineWritten ==
  ASSUME OInv, NEW s \in Stream, Write(s)
  PROVE  LineOf(s)'
<1> DEFINE q == pipe[s].queue
           w == pipe[s].written
<1>1. q \in Seq(1..Lines) /\ w \in 0..Lines /\ Lines \in Nat
  BY ExecAssumption DEF OInv, Carried
<1>2. pipe'[s].queue = Append(q, w + 1) /\ pipe'[s].written = w + 1
  BY DEF OInv, Carried, Write
<1>3. scan'[s] = scan[s] /\ scan[s].state \notin {"off", "eof"} /\ UNCHANGED events
  BY DEF OInv, Flow, Write
<1>4. Taken(s) = w - Len(q) /\ InOrder(s) /\ Heard(s) /\ Flow(s)
  BY DEF Taken, OInv
<1>5. \A i \in 1..Len(q) : q[i] = Taken(s) + i
  BY <1>4 DEF InOrder
<1> HIDE DEF q, w
<1>6. Len(Append(q, w + 1)) = Len(q) + 1
  BY <1>1
<1>7. Taken(s)' = Taken(s)
  BY <1>1, <1>2, <1>4, <1>6 DEF Taken
<1>8. InOrder(s)'
  <2>1. ASSUME NEW i \in 1..(Len(q) + 1) PROVE Append(q, w + 1)[i] = Taken(s) + i
    BY <1>1, <1>4, <1>5, <2>1
  <2> QED BY <1>2, <1>6, <1>7, <2>1 DEF InOrder
<1>9. Count(s)' = Count(s) /\ Heard(s)'
  BY <1>3, <1>4, ToldStays
<1>10. Flow(s)'
  BY <1>3, <1>4, <1>7, <1>9 DEF Flow, Out
<1> QED BY <1>8, <1>9, <1>10 DEF LineOf

\* A scanner takes the first line of its pipe, the one after those it has read.
LEMMA LineScanned ==
  ASSUME OInv, NEW s \in Stream, Scan(s)
  PROVE  LineOf(s)'
<1> DEFINE q == pipe[s].queue
           w == pipe[s].written
<1>1. q \in Seq(1..Lines) /\ q # <<>> /\ w \in 0..Lines /\ Lines \in Nat
  BY ExecAssumption DEF OInv, Carried, Scan
<1>2. pipe'[s].queue = Tail(q) /\ pipe'[s].written = w
  BY DEF OInv, Carried, Scan
<1>3. /\ scan'[s].state = "scanning" /\ scan[s].state = "scanning" /\ scan[s].held = <<>>
      /\ scan'[s].held = <<Out(s, Head(q))>> /\ UNCHANGED events
  BY DEF OInv, Carried, Scan, Out
<1>4. Taken(s) = w - Len(q) /\ InOrder(s) /\ Heard(s) /\ Flow(s)
  BY DEF Taken, OInv
<1>5. \A i \in 1..Len(q) : q[i] = Taken(s) + i
  BY <1>4 DEF InOrder
<1> HIDE DEF q, w
<1>6. /\ Len(q) \in Nat \ {0} /\ Len(Tail(q)) = Len(q) - 1 /\ Head(q) = q[1]
      /\ \A i \in 1..(Len(q) - 1) : Tail(q)[i] = q[i + 1]
  BY <1>1
<1>7. Taken(s)' = Taken(s) + 1 /\ Taken(s) \in Int /\ Head(q) = Taken(s) + 1
  BY <1>1, <1>2, <1>4, <1>5, <1>6 DEF Taken
<1>8. InOrder(s)'
  <2>1. ASSUME NEW i \in 1..(Len(q) - 1) PROVE Tail(q)[i] = Taken(s) + 1 + i
    <3>1. i + 1 \in 1..Len(q)
      BY <1>6
    <3> QED BY <1>5, <1>6, <1>7, <3>1
  <2> QED BY <1>2, <1>6, <1>7, <2>1 DEF InOrder
<1>9. Count(s)' = Count(s) /\ Heard(s)'
  BY <1>3, <1>4, ToldStays
<1>10. Flow(s)'
  BY <1>3, <1>4, <1>7, <1>9 DEF Flow, Out
<1> QED BY <1>8, <1>9, <1>10 DEF LineOf

\* What a scanner holds becomes the next event of its stream; a note is its last.
LEMMA LineEmitted ==
  ASSUME OInv, NEW s \in Stream, Emit(s)
  PROVE  \A t \in Stream : LineOf(t)'
<1> DEFINE c == Count(s) + 1
<1>1. Carried /\ (\A t \in Stream : LineOf(t)) /\ Count(s) \in Nat
  BY ToldIsFinite DEF OInv, LineOf
<1>2. Taken(s) = c /\ scan[s].state = "scanning" /\ scan[s].held = <<Out(s, c)>>
  <2>1. Taken(s) \in Int
    BY <1>1 DEF Carried, Taken
  <2> QED BY <1>1, <2>1 DEF LineOf, Flow, Emit
<1>3. \A m \in 1..Count(s) : m \notin Long[s]
  BY <1>1, <1>2 DEF LineOf, Flow
<1>4. Out(s, c) \in 0..Lines
  <2>1. scan[s].held \in {<<>>} \cup {<<n>> : n \in 0..Lines}
    BY <1>1 DEF Carried
  <2> QED BY <1>2, <2>1
<1> DEFINE e == Event(s, Out(s, c))
<1>5. e \in [type : Stream, from : Stream, line : 0..Lines] /\ e.from = s /\ events' = Append(events, e)
  BY <1>2, <1>4 DEF Emit, Event, Stream
<1>6. PICK n \in Nat : n = Len(events) + 1 /\ DOMAIN events = 1..Len(events)
  BY <1>1 DEF Carried
<1>7. /\ Told(s)' = Told(s) \cup {n} /\ Count(s)' = c
      /\ \A t \in Stream \ {s} : Told(t)' = Told(t) /\ Count(t)' = Count(t)
      /\ \A k \in 1..Len(events) : events'[k] = events[k] /\ Nth(k)' = Nth(k)
      /\ events'[n] = Event(s, Out(s, c)) /\ Nth(n)' = c
  <2> HIDE DEF e
  <2>1. /\ Told(s)' = Told(s) \cup {n} /\ Count(s)' = c
        /\ \A t \in Stream \ {s} : Told(t)' = Told(t) /\ Count(t)' = Count(t)
        /\ \A k \in 1..Len(events) : events'[k] = events[k] /\ Nth(k)' = Nth(k)
        /\ events'[n] = e /\ Nth(n)' = c
    BY <1>1, <1>5, <1>6, ToldGrows
  <2> QED BY <2>1 DEF e
<1> HIDE DEF e, c
<1>8. \A t \in Stream : Told(t) \subseteq 1..Len(events)
  BY <1>1, ToldIsFinite
<1>9. ASSUME NEW t \in Stream \ {s} PROVE LineOf(t)'
  <2>1. LineOf(t) /\ Told(t)' = Told(t) /\ Count(t)' = Count(t) /\ Taken(t)' = Taken(t)
    BY <1>1, <1>7 DEF Emit, Taken
  <2>2. \A k \in Told(t)' : events'[k] = events[k] /\ Nth(k)' = Nth(k)
    BY <1>7, <1>8, <2>1
  <2>3. Heard(t)'
    BY <2>1, <2>2 DEF LineOf, Heard, Out
  <2>4. scan'[t] = scan[t] /\ UNCHANGED <<pipe, proc>>
    BY <1>1 DEF Carried, Emit
  <2>5. InOrder(t)'
    BY <2>1, <2>4 DEF LineOf, InOrder
  <2>6. Flow(t)'
    BY <2>1, <2>4 DEF LineOf, Flow, Out
  <2> QED BY <2>3, <2>5, <2>6 DEF LineOf
<1>10. Taken(s)' = Taken(s) /\ UNCHANGED <<pipe, proc>>
  BY DEF Emit, Taken
<1>11. Heard(s)'
  <2>1. \A k \in Told(s) : events'[k] = events[k] /\ Nth(k)' = Nth(k)
    BY <1>7, <1>8
  <2>2. {Nth(k)' : k \in Told(s)'} = {Nth(k) : k \in Told(s)} \cup {c}
    BY <1>7, <2>1
  <2>3. (1..Count(s)) \cup {c} = 1..c
    BY <1>1 DEF c
  <2>4. Heard(s)
    BY <1>1 DEF LineOf
  <2>5. {Nth(k)' : k \in Told(s)'} = 1..Count(s)'
    BY <1>7, <2>2, <2>3, <2>4 DEF Heard
  <2>6. \A k \in Told(s)' : events'[k] = Event(s, Out(s, Nth(k)'))
    BY <1>7, <2>1, <2>4 DEF Heard
  <2> QED BY <2>5, <2>6 DEF Heard, Out
<1>12. InOrder(s)'
  BY <1>1, <1>10 DEF LineOf, InOrder
<1>13. Flow(s)'
  <2>1. c \in Nat \ {0} /\ c - 1 = Count(s)
    BY <1>1 DEF c
  <2>2. Out(s, c) = Note <=> c \in Long[s]
    BY <2>1 DEF Out, Note
  <2>3. scan'[s].held = <<>> /\ scan'[s].state = IF c \in Long[s] THEN "failed" ELSE "scanning"
    BY <1>1, <1>2, <2>2 DEF Carried, Emit
  <2>4. \A m \in 1..c : m \in 1..Count(s) \/ m = c
    BY <2>1
  <2> QED BY <1>2, <1>3, <1>7, <1>10, <2>1, <2>3, <2>4 DEF Flow
<1> QED BY <1>9, <1>11, <1>12, <1>13 DEF LineOf

\* A scanner that reaches the end has read all there will be.
LEMMA LineEnds ==
  ASSUME OInv, NEW s \in Stream, Eof(s)
  PROVE  LineOf(s)'
<1>1. /\ scan'[s].state = "eof" /\ scan'[s].held = <<>> /\ scan[s].held = <<>>
      /\ scan[s].state = "scanning" /\ pipe[s].queue = <<>> /\ proc.state = "gone"
      /\ UNCHANGED <<pipe, proc, events>>
  BY DEF OInv, Carried, Eof
<1>2. LineOf(s)
  BY DEF OInv, LineOf
<1>3. Count(s)' = Count(s) /\ Heard(s)' /\ Taken(s)' = Taken(s)
  BY <1>1, <1>2, ToldStays DEF LineOf, Taken
<1>4. InOrder(s)' /\ Flow(s)'
  BY <1>1, <1>2, <1>3 DEF LineOf, InOrder, Flow
<1> QED BY <1>3, <1>4 DEF LineOf

\* Each scanner begins with an empty pipe.
LEMMA LineBegins ==
  ASSUME OInv, Start, NEW s \in Stream
  PROVE  LineOf(s)'
<1>1. /\ scan'[s].state = "scanning" /\ scan'[s].held = <<>>
      /\ scan[s].state = "off" /\ UNCHANGED <<pipe, events>>
  BY DEF OInv, Closed, Start
<1>2. LineOf(s)
  BY DEF OInv, LineOf
<1>3. Count(s)' = Count(s) /\ Heard(s)' /\ Taken(s)' = Taken(s)
  BY <1>1, <1>2, ToldStays DEF LineOf, Taken
<1>4. InOrder(s)' /\ Flow(s)'
  BY <1>1, <1>2, <1>3 DEF LineOf, InOrder, Flow
<1> QED BY <1>3, <1>4 DEF LineOf

\* No step loses a line, repeats one or moves one.
LEMMA LineStep == OInv /\ [Next]_vars => \A s \in Stream : LineOf(s)'
<1> SUFFICES ASSUME OInv, [Next]_vars, NEW s \in Stream PROVE LineOf(s)'
  OBVIOUS
<1>1. LineOf(s) /\ (scan[s].state = "off" => proc.state = "none")
  BY DEF OInv, LineOf, Flow
<1>2. CASE Start
  BY <1>2, LineBegins
<1>3. ASSUME NEW t \in Stream, Write(t) PROVE LineOf(s)'
  <2>1. t # s => pipe'[s] = pipe[s] /\ scan'[s] = scan[s] /\ UNCHANGED events /\ proc'.state = proc.state
    BY <1>3 DEF OInv, Carried, Write
  <2> QED BY <1>1, <1>3, <2>1, LineWritten, LineStays
<1>4. ASSUME NEW t \in Stream, Scan(t) PROVE LineOf(s)'
  <2>1. t # s => pipe'[s] = pipe[s] /\ scan'[s] = scan[s] /\ UNCHANGED <<events, proc>>
    BY <1>4 DEF OInv, Carried, Scan
  <2> QED BY <1>1, <1>4, <2>1, LineScanned, LineStays
<1>5. ASSUME NEW t \in Stream, Emit(t) PROVE LineOf(s)'
  BY <1>5, LineEmitted
<1>6. ASSUME NEW t \in Stream, Eof(t) PROVE LineOf(s)'
  <2>1. t # s => pipe'[s] = pipe[s] /\ scan'[s] = scan[s] /\ UNCHANGED <<events, proc>>
    BY <1>6 DEF OInv, Carried, Eof
  <2> QED BY <1>1, <1>6, <2>1, LineEnds, LineStays
<1>7. CASE /\ UNCHANGED <<pipe, scan, events>>
           /\ proc'.state # proc.state => proc.state = "running"
  BY <1>1, <1>7, LineStays
<1>8. Run => Start \/ UNCHANGED <<proc, pipe, scan, events>>
  BY DEF Run, StartFails, ScannersDone, Reap, Join, EndRecord, SaveEnd
<1>9. ASSUME Agent, \A t \in Stream : ~Write(t) PROVE LineOf(s)'
  <2>1. ASSUME NEW t \in Stream, Speak(t) PROVE LineOf(s)'
    BY <1>7, <2>1 DEF Speak, OInv, Carried
  <2>2. ASSUME NEW code \in {0, 1}, NEW heir \in BOOLEAN, Exit(code, heir) PROVE LineOf(s)'
    BY <1>7, <2>2 DEF Exit, OInv, Carried
  <2>3. CASE HeirExits
    BY <1>7, <2>3 DEF HeirExits, OInv, Carried
  <2> QED BY <1>9, <2>1, <2>2, <2>3 DEF Agent
<1>10. CASE Killer
  BY <1>7, <1>10 DEF Killer, Kill
<1>11. Clock \/ Watcher \/ UNCHANGED vars => UNCHANGED <<proc, pipe, scan, events>>
  BY DEF Clock, Tick, Expire, Watcher, EdgeStale, Stamp, SaveStamp, StopWatch, vars
<1> QED BY <1>2, <1>3, <1>4, <1>5, <1>6, <1>7, <1>8, <1>9, <1>10, <1>11 DEF Next, Scanner

\* Run waits for both scanners, and no scanner works when it is over.
LEMMA ClosedStep == OInv /\ [Next]_vars => Closed'
<1> SUFFICES ASSUME OInv, [Next]_vars PROVE Closed'
  OBVIOUS
<1>1. Carried /\ Closed /\ \A s \in Stream : scan[s].held # <<>> => scan[s].state = "scanning"
  BY DEF OInv, Flow
<1>2. CASE Run
  BY <1>1, <1>2 DEF Run, StartFails, Start, ScannersDone, Reap, Join, EndRecord, SaveEnd, Closed
<1>3. ASSUME NEW s \in Stream, Scanner(s) PROVE Closed'
  <2>1. scan[s].state = "scanning" /\ UNCHANGED main
    BY <1>1, <1>3 DEF Scanner, Scan, Emit, Eof
  <2>2. main \notin {"called", "reaping", "joining", "returned", "ending", "ended"}
    BY <1>1, <2>1 DEF Closed
  <2> QED BY <2>1, <2>2 DEF Closed
<1>4. CASE UNCHANGED <<main, scan>>
  BY <1>1, <1>4 DEF Closed
<1>5. Agent \/ Killer \/ Clock \/ Watcher \/ UNCHANGED vars => UNCHANGED <<main, scan>>
  BY DEF Agent, Speak, Write, Exit, HeirExits, Killer, Kill, Clock, Tick, Expire, Watcher, EdgeStale,
         Stamp, SaveStamp, StopWatch, vars
<1> QED BY <1>2, <1>3, <1>4, <1>5 DEF Next

\* The lines are kept in every reachable state of a dispatch.
LEMMA OutInvariance == Spec => []OInv
<1>1. OInv /\ [Next]_vars => OInv'
  BY CarriedStep, ClosedStep, LineStep DEF OInv, LineOf
<1> QED BY InitOut, <1>1, PTL DEF Spec

\* When the scanners are done, what has come out is all that could.
LEMMA DoneIsWhole == OInv => OutputIsWhole
<1> SUFFICES ASSUME OInv, main \in {"returned", "ending", "ended"}, NEW s \in Stream
             PROVE  /\ {Nth(k) : k \in Told(s)} = Reached(s)
                    /\ \A k \in Told(s) :
                         events[k] = Event(s, IF Nth(k) \in Long[s] THEN Note ELSE Nth(k))
  BY DEF OutputIsWhole
<1> DEFINE q == pipe[s].queue
           w == pipe[s].written
<1>1. Heard(s) /\ Flow(s) /\ Count(s) \in Nat /\ scan[s].state \in {"off", "eof", "failed"}
  BY ToldIsFinite DEF OInv, Closed
<1>2. scan[s].held = <<>> /\ Count(s) = Taken(s)
  BY <1>1 DEF Flow
<1>3. q \in Seq(1..Lines) /\ w \in 0..Lines /\ Lines \in Nat /\ Taken(s) = w - Len(q)
  BY ExecAssumption DEF OInv, Carried, Taken
<1> HIDE DEF q, w
<1>4. Len(q) \in Nat /\ Count(s) <= w /\ (q = <<>> => Count(s) = w)
  BY <1>1, <1>2, <1>3
<1>5. 1..Count(s) = Reached(s)
  <2>1. CASE scan[s].state = "failed"
    <3>1. Count(s) \in Long[s] /\ \A m \in 1..(Count(s) - 1) : m \notin Long[s]
      BY <1>1, <2>1 DEF Flow
    <3>2. ASSUME NEW n \in 1..Count(s) PROVE n \in Reached(s)
      <4>1. n \in 1..w /\ \A m \in 1..(n - 1) : m \in 1..(Count(s) - 1)
        BY <1>1, <1>3, <1>4
      <4> QED BY <3>1, <4>1 DEF Reached, w
    <3>3. ASSUME NEW n \in Reached(s) PROVE n \in 1..Count(s)
      <4>1. n \in 1..w /\ \A m \in 1..(n - 1) : m \notin Long[s]
        BY DEF Reached, w
      <4>2. Count(s) # 0
        <5>1. Long[s] \subseteq 1..Lines
          BY ExecAssumption DEF Stream
        <5> QED BY <1>3, <3>1, <5>1
      <4>3. Count(s) \notin 1..(n - 1)
        BY <3>1, <4>1
      <4> QED BY <1>1, <1>3, <4>1, <4>2, <4>3
    <3> QED BY <3>2, <3>3
  <2>2. CASE scan[s].state # "failed"
    <3>1. \A m \in 1..Count(s) : m \notin Long[s]
      BY <1>1, <2>2 DEF Flow
    <3>2. Count(s) = w
      BY <1>1, <1>4, <1>3, <2>2 DEF Flow, q, w
    <3>3. \A n \in 1..w : \A m \in 1..(n - 1) : m \in 1..Count(s)
      BY <1>3, <3>2
    <3> QED BY <3>1, <3>2, <3>3 DEF Reached, w
  <2> QED BY <2>1, <2>2
<1> QED BY <1>1, <1>5 DEF Heard, Out

\* When Run returns, its result holds every line the agent wrote to a stream, in order,
\* up to the first that is too long, whatever the agent, its heirs and the deadline do.
THEOREM OutputIsWholeHolds == Spec => []OutputIsWhole
  BY OutInvariance, DoneIsWhole, PTL

----------------------------------------------------------------------------
(* The chain of agents, for any lists, transcripts and exits, any default  *)
(* and any cap of the cooldown, and any number of stories.  A chain names  *)
(* an agent once (OncePerCall), and only claude cools down (OneCools): so  *)
(* who follows a claude that only burned turns is not passed over, and is  *)
(* asked.  Judged says what the last dispatch of a call may have been.     *)

\* What a success of an implementer must have seen.
Works(a) == IF a \in {"claude", "gemini"} THEN {"done"} ELSE {"stray", "done"}

\* The cooldowns, the plan, the call and the answer have their types.
ChainTyped ==
  /\ cool \in [Registered -> 0 .. MaxCooldown]
  /\ plan \in [left : 0 .. Stories, advanced : BOOLEAN, dir : BOOLEAN, over : BOOLEAN]
  /\ call \in [kind : Kinds \cup {"idle"}, chain : Seq(STRING), at : Nat, commits : BOOLEAN]
  /\ call.at \in 1 .. Len(call.chain) + 1
  /\ answer.status \in {"none", "passed", "failed"}

\* A chain names every agent once.
OncePerCall ==
  \A i, j \in 1 .. Len(call.chain) : call.chain[i] = call.chain[j] => i = j

\* Only an agent that knows how to cool down does.
OneCools == \A a \in Registered \ Cooldowner : cool[a] = 0

\* A call is made while its plan runs: for a story while one is left.
InCalls == /\ call.kind = "idle" <=> call = Idle
           /\ call # Idle => /\ ~plan.over /\ answer = NoAnswer
                             /\ call.kind = "story" <=> plan.left > 0

\* A success rests on work, a story passes in a story's call, and an agent that only
\* burned turns is the one before whose turn it is.
Judged ==
  call # Idle =>
    /\ last.class = "passed" /\ call.kind # "review" => last.work \in Works(last.agent)
    /\ last.passes => call.kind = "story"
    /\ last.thrash => /\ last.class = "retryable" /\ last.agent = "claude"
                      /\ call.at > 1 /\ call.chain[call.at - 1] = "claude"

ChainInv == /\ ChainTyped /\ OncePerCall /\ OneCools /\ InCalls /\ Judged
            /\ SuccessIsWork /\ ThrashFallsThrough

----------------------------------------------------------------------------
(* The chain.                                                              *)

\* A later first mention has more first mentions before it.
LEMMA RanksDiffer ==
  ASSUME NEW F, IsFiniteSet(F), F \subseteq Nat, NEW i \in F, NEW k \in F, i < k
  PROVE  Cardinality({j \in F : j <= i}) < Cardinality({j \in F : j <= k})
<1> DEFINE A == {j \in F : j <= i}
           B == {j \in F : j <= k}
<1>0. i \in Nat /\ k \in Nat /\ \A j \in F : j \in Nat
  OBVIOUS
<1>1. A \subseteq B /\ k \in B /\ k \notin A
  <2>1. ASSUME NEW j \in F, j <= i PROVE j <= k
    BY <1>0, <2>1
  <2>2. k \in B /\ k \notin A
    BY <1>0
  <2> QED BY <2>1, <2>2
<1>2. IsFiniteSet(B) /\ IsFiniteSet(A)
  BY FS_Subset
<1>3. Cardinality(A) <= Cardinality(B) /\ Cardinality(A) # Cardinality(B)
  BY <1>1, <1>2, FS_Subset
<1>4. Cardinality(A) \in Nat /\ Cardinality(B) \in Nat
  BY <1>2, FS_CardinalityType
<1> QED BY <1>3, <1>4

\* So every rank is that of a first mention.
LEMMA RankIsTaken ==
  ASSUME NEW F, IsFiniteSet(F), F \subseteq Nat, NEW n \in 1 .. Cardinality(F)
  PROVE  \E i \in F : Cardinality({j \in F : j <= i}) = n
<1> DEFINE R == [i \in F |-> Cardinality({j \in F : j <= i})]
           N == 1 .. Cardinality(F)
<1>1. Cardinality(F) \in Nat /\ IsFiniteSet(N) /\ Cardinality(N) = Cardinality(F)
  BY FS_CardinalityType, FS_Interval
<1>2. R \in [F -> N]
  <2> SUFFICES ASSUME NEW i \in F PROVE R[i] \in N
    OBVIOUS
  <2> DEFINE A == {j \in F : j <= i}
  <2>1. IsFiniteSet(A) /\ Cardinality(A) <= Cardinality(F) /\ Cardinality(A) \in Nat
    BY FS_Subset, FS_CardinalityType
  <2>2. i \in A
    OBVIOUS
  <2>3. Cardinality(A) # 0
    BY <2>1, <2>2, FS_EmptySet
  <2> QED BY <1>1, <2>1, <2>3
<1>3. \A i, k \in F : R[i] = R[k] => i = k
  <2> SUFFICES ASSUME NEW i \in F, NEW k \in F, i < k PROVE R[i] # R[k]
    OBVIOUS
  <2>1. R[i] < R[k]
    BY RanksDiffer
  <2> QED BY <1>2, <2>1
<1>4. R \in Injection(F, N)
  BY <1>2, <1>3 DEF Injection, IsInjective
<1>5. R \in Surjection(F, N)
  BY <1>1, <1>4, FS_Injection
<1> QED BY <1>5 DEF Surjection

\* A normalised list names every agent once.
LEMMA NormalizedOnce ==
  ASSUME NEW ids \in Seq(STRING)
  PROVE  LET chain == NormalizeAgentIDs(ids)
         IN  /\ chain \in Seq(STRING)
             /\ \A n, m \in 1 .. Len(chain) : chain[n] = chain[m] => n = m
<1> DEFINE F == FirstMentions(ids)
           Pick(n) == CHOOSE i \in F : Cardinality({j \in F : j <= i}) = n
           chain == NormalizeAgentIDs(ids)
           c == Cardinality(F)
<1>1. F \subseteq 1 .. Len(ids) /\ IsFiniteSet(F) /\ F \subseteq Nat /\ c \in Nat
  <2>0. DOMAIN ids = 1 .. Len(ids) /\ Len(ids) \in Nat
    BY LenProperties
  <2>1. F \subseteq 1 .. Len(ids) /\ Len(ids) \in Nat
    BY <2>0 DEF FirstMentions
  <2>2. IsFiniteSet(1 .. Len(ids))
    BY <2>1, FS_Interval
  <2>3. IsFiniteSet(F)
    BY <2>1, <2>2, FS_Subset
  <2> QED BY <2>1, <2>3, FS_CardinalityType
<1>2. \A n \in 1 .. c : Pick(n) \in F /\ Cardinality({j \in F : j <= Pick(n)}) = n
  <2> SUFFICES ASSUME NEW n \in 1 .. c
               PROVE  Pick(n) \in F /\ Cardinality({j \in F : j <= Pick(n)}) = n
    OBVIOUS
  <2>1. \E i \in F : Cardinality({j \in F : j <= i}) = n
    BY <1>1, RankIsTaken
  <2> QED BY <2>1
<1>3. chain = [n \in 1 .. c |-> ids[Pick(n)]]
  BY DEF NormalizeAgentIDs
<1> HIDE DEF Pick, chain
<1>4. chain \in [1 .. c -> STRING]
  <2>1. ASSUME NEW n \in 1 .. c PROVE ids[Pick(n)] \in STRING
    <3>1. Pick(n) \in 1 .. Len(ids)
      BY <1>1, <1>2
    <3> HIDE DEF Pick
    <3> QED BY <3>1, ElementOfSeq
  <2> QED BY <1>3, <2>1
<1>5. chain \in Seq(STRING) /\ Len(chain) = c
  BY <1>1, <1>4
<1>6. ASSUME NEW n \in 1 .. c, NEW m \in 1 .. c, chain[n] = chain[m] PROVE n = m
  <2>1. ids[Pick(n)] = ids[Pick(m)]
    BY <1>3, <1>6
  <2>2. Pick(n) \in F /\ Pick(m) \in F
    BY <1>2
  <2>3. Pick(n) = Pick(m)
    <3> DEFINE i == Pick(n)
               k == Pick(m)
    <3>1. i \in 1 .. Len(ids) /\ k \in 1 .. Len(ids) /\ ids[i] = ids[k]
          /\ (\A j \in 1 .. i - 1 : ids[j] # ids[i]) /\ (\A j \in 1 .. k - 1 : ids[j] # ids[k])
      BY <2>1, <2>2, <1>1 DEF FirstMentions
    <3> HIDE DEF i, k
    <3> QED BY <3>1 DEF i, k
  <2> QED BY <1>2, <2>3
<1> QED BY <1>5, <1>6 DEF chain

----------------------------------------------------------------------------
(* A dispatch.                                                             *)

\* A cooldown is not longer than the cap, and only of claude.
LEMMA CooldownIsCapped ==
  ASSUME NEW t \in Transcripts("claude")
  PROVE  CooldownAfter(t) \in 0 .. MaxCooldown
<1>1. t.signal \in Int /\ t.until \in Int
  BY CooldownAssumption DEF Transcripts, Absent, NoTime, EpochReset, TextReset, ClockReset, DatedReset,
     Far, CooldownAssumption
<1> QED BY <1>1, CooldownAssumption DEF CooldownAfter, ParseCooldown, CapReset, CooldownAssumption

\* What the runner knows of a dispatch from its class.
LEMMA FateIs ==
  ASSUME NEW a \in Registered, NEW kind \in Kinds, NEW honored \in BOOLEAN,
         NEW fate \in Fates[a][kind][honored]
  PROVE  /\ fate.class \in {"passed", "retryable", "fatal"} /\ fate.hours \in 0 .. MaxCooldown
         /\ fate.class = "passed" /\ kind # "review" => fate.work \in Works(a)
         /\ fate.over /\ ~honored => a = "claude" /\ fate.class = "retryable"
<1>1. PICK o \in Outcomes(a) :
        fate = LET class == Class(a, o, Fault(a, o, kind, honored)) IN
             [class |-> class, started |-> o.end \in Exits,
              hours |-> IF class = "retryable" /\ a \in Cooldowner
                        THEN CooldownAfter(o.said) ELSE 0,
              work |-> o.said.work, over |-> kind = "story" /\ Clean(o) /\ o.said.over]
  BY DEF Fates
<1>2. fate.class \in {"passed", "retryable", "fatal"}
  BY <1>1 DEF Class
<1>3. fate.hours \in 0 .. MaxCooldown
  <2>1. CASE a \in Cooldowner
    <3>1. CASE o.said \in Transcripts("claude")
      BY <1>1, <2>1, <3>1, CooldownIsCapped, CooldownAssumption DEF CooldownAssumption
    <3>2. CASE o.said = Nothing
      BY <1>1, <3>2, CooldownAssumption
      DEF CooldownAfter, ParseCooldown, Nothing, Absent, NoTime, CooldownAssumption
    <3> QED BY <2>1, <3>1, <3>2 DEF Outcomes, Cooldowner
  <2>2. CASE a \notin Cooldowner
    BY <1>1, <2>2, CooldownAssumption DEF CooldownAssumption
  <2> QED BY <2>1, <2>2
<1>4. ASSUME fate.class = "passed", kind # "review" PROVE fate.work \in Works(a)
  <2>1. Fault(a, o, kind, honored) = "none"
    BY <1>1, <1>4 DEF Class
  <2>2. Valid(a, o.said, FALSE)
    <3>1. Clean(o)
      BY <2>1, <1>1 DEF Fault, Clean, Outcomes, Exits, NotStarted
    <3> QED BY <2>1, <3>1, <1>4 DEF Fault
  <2> QED BY <1>1, <2>2
      DEF Valid, ClaudeValid, CodexValid, GeminiValid, OpenCodeValid, Works, Registered
<1>5. ASSUME fate.over, ~honored PROVE a = "claude" /\ fate.class = "retryable"
  <2>1. kind = "story" /\ Clean(o) /\ o.said.over
    BY <1>1, <1>5
  <2>2. a = "claude"
    <3>1. ASSUME o.said \in Transcripts(a) PROVE o.said.over \in IF a = "claude" THEN BOOLEAN ELSE {FALSE}
      BY <3>1 DEF Transcripts
    <3>2. Nothing.over = FALSE
      BY DEF Nothing
    <3> QED BY <2>1, <3>1, <3>2 DEF Outcomes
  <2>3. Fault(a, o, kind, honored) = "turncap"
    BY <2>1, <1>5 DEF Fault
  <2>4. Class(a, o, Fault(a, o, kind, honored)) = "retryable"
    BY <2>2, <2>3 DEF Class, Retryable, ClaudeRetryable
  <2> QED BY <1>1, <2>2, <2>4
<1> QED BY <1>2, <1>3, <1>4, <1>5

\* A dispatch, as far as the rest of the call can tell.
Dispatches(commits, markers, fate) ==
  /\ cool' = Cooled(Turn, fate)
  /\ plan' = [plan EXCEPT !.advanced = plan.advanced \/ commits, !.dir = @ \/ Turn = "opencode"]
  /\ call' = [call EXCEPT !.at = IF fate.class = "retryable" THEN @ + 1 ELSE Len(call.chain) + 1,
                          !.commits = @ \/ commits]
  /\ last'.agent = Turn /\ last'.class = fate.class /\ last'.work = fate.work
  /\ last'.passes = ("story-pass" \in markers) /\ (last'.passes => call.kind = "story")
  /\ last'.thrash => Turn = "claude" /\ fate.class = "retryable"
  /\ answer' = answer

LEMMA DispatchIs ==
  ASSUME ChainTyped, InCalls, Dispatch
  PROVE  /\ Working /\ ~Cooling(Turn) /\ Turn \in Registered /\ call # Idle
         /\ call.kind \in Kinds
         /\ \E fate : \E commits \in BOOLEAN, markers \in SUBSET {"story-pass", "COMPLETE"} :
              /\ fate.class \in {"passed", "retryable", "fatal"} /\ fate.hours \in 0 .. MaxCooldown
              /\ fate.class = "passed" /\ call.kind # "review" => fate.work \in Works(Turn)
              /\ Dispatches(commits, markers, fate)
<1>1. Working /\ ~Cooling(Turn) /\ Turn \in Registered
  BY DEF Dispatch, CanCommand
<1>2. call # Idle
  BY <1>1 DEF Working, Idle
<1>3. call.kind \in Kinds
  BY <1>2 DEF InCalls, ChainTyped
<1>4. PICK commits \in BOOLEAN, markers \in SUBSET {"story-pass", "COMPLETE"} :
        LET advanced == plan.advanced \/ commits
            honored  == WorkComplete(markers, advanced)
        IN \E fate \in Fates[Turn][call.kind][honored] :
           /\ markers # {} \/ commits => fate.started /\ call.kind = "story"
           /\ cool' = Cooled(Turn, fate)
           /\ plan' = [plan EXCEPT !.advanced = advanced, !.dir = @ \/ Turn = "opencode"]
           /\ call' = [call EXCEPT
                         !.at = IF fate.class = "retryable" THEN @ + 1
                                ELSE Len(call.chain) + 1,
                         !.commits = @ \/ commits]
           /\ last' = [agent  |-> Turn, class |-> fate.class, work |-> fate.work,
                       passes |-> "story-pass" \in markers,
                       completes |-> Completes(markers),
                       thrash |-> fate.over /\ ~honored,
                       empty  |-> fate.over /\ ~Completes(markers) /\ ~call'.commits]
  BY DEF Dispatch
<1> DEFINE honored == WorkComplete(markers, plan.advanced \/ commits)
<1>5. honored \in BOOLEAN
  BY DEF WorkComplete, Completes
<1>6. PICK fate \in Fates[Turn][call.kind][honored] :
           /\ markers # {} \/ commits => fate.started /\ call.kind = "story"
           /\ cool' = Cooled(Turn, fate)
           /\ plan' = [plan EXCEPT !.advanced = plan.advanced \/ commits, !.dir = @ \/ Turn = "opencode"]
           /\ call' = [call EXCEPT
                         !.at = IF fate.class = "retryable" THEN @ + 1
                                ELSE Len(call.chain) + 1,
                         !.commits = @ \/ commits]
           /\ last' = [agent  |-> Turn, class |-> fate.class, work |-> fate.work,
                       passes |-> "story-pass" \in markers,
                       completes |-> Completes(markers),
                       thrash |-> fate.over /\ ~honored,
                       empty  |-> fate.over /\ ~Completes(markers) /\ ~call'.commits]
  BY <1>4
<1> HIDE DEF honored
<1>7. /\ fate.class \in {"passed", "retryable", "fatal"} /\ fate.hours \in 0 .. MaxCooldown
      /\ fate.class = "passed" /\ call.kind # "review" => fate.work \in Works(Turn)
      /\ fate.over /\ ~honored => Turn = "claude" /\ fate.class = "retryable"
  BY <1>1, <1>3, <1>5, FateIs
<1>8. Dispatches(commits, markers, fate)
  <2>1. "story-pass" \in markers => markers # {}
    OBVIOUS
  <2>2. answer' = answer
    BY DEF Dispatch
  <2> QED BY <1>6, <1>7, <2>1, <2>2 DEF Dispatches
<1> QED BY <1>1, <1>2, <1>3, <1>7, <1>8

----------------------------------------------------------------------------
(* The invariant.                                                          *)

\* Between two calls there is an empty chain.
LEMMA IdleIs ==
  /\ Idle \in [kind : Kinds \cup {"idle"}, chain : Seq(STRING), at : Nat, commits : BOOLEAN]
  /\ Idle.at \in 1 .. Len(Idle.chain) + 1 /\ Idle.kind = "idle"
<1>1. <<>> \in Seq(STRING) /\ Len(<<>>) = 0
  OBVIOUS
<1> QED BY <1>1 DEF Idle

\* Nobody has been asked yet.
LEMMA ChainInitInv == ChainInit => ChainInv
<1> SUFFICES ASSUME ChainInit PROVE ChainInv
  OBVIOUS
<1>1. ChainTyped
  <2>1. cool \in [Registered -> 0 .. MaxCooldown]
    BY CooldownAssumption DEF ChainInit, CooldownAssumption
  <2>2. plan \in [left : 0 .. Stories, advanced : BOOLEAN, dir : BOOLEAN, over : BOOLEAN]
    BY ListsAssumption DEF ChainInit, NewPlan, ListsAssumption
  <2> QED BY <2>1, <2>2, IdleIs DEF ChainInit, ChainTyped, NoAnswer
<1>2. OncePerCall /\ OneCools /\ InCalls /\ Judged
  BY DEF ChainInit, OncePerCall, OneCools, InCalls, Judged, Idle
<1>3. SuccessIsWork /\ ThrashFallsThrough
  BY DEF ChainInit, NoAnswer, SuccessIsWork, ThrashFallsThrough
<1> QED BY <1>1, <1>2, <1>3 DEF ChainInv

\* A call begins with a chain that names an agent once.
LEMMA CallInv == ChainInv /\ Call => ChainInv'
<1> SUFFICES ASSUME ChainInv, Call PROVE ChainInv'
  OBVIOUS
<1>1. PICK kind \in Kinds, ids \in Lists :
        /\ kind = "story" <=> plan.left > 0
        /\ call' = [Idle EXCEPT !.kind = kind, !.chain = NormalizeAgentIDs(ids)]
  BY DEF Call
<1> DEFINE chain == NormalizeAgentIDs(ids)
<1>2. chain \in Seq(STRING) /\ \A n, m \in 1 .. Len(chain) : chain[n] = chain[m] => n = m
  BY ListsAssumption, NormalizedOnce DEF ListsAssumption
<1> HIDE DEF chain
<1>3. call' = [kind |-> kind, chain |-> chain, at |-> 1, commits |-> FALSE]
  BY <1>1 DEF Idle, chain
<1>4. ~plan.over /\ UNCHANGED <<cool, plan>> /\ last' = Nobody /\ answer' = NoAnswer
  BY DEF Call
<1>5. kind \in {"story", "fix", "review"}
  BY DEF Kinds
<1>6. ChainTyped'
  <2>1. 1 \in 1 .. Len(chain) + 1
    BY <1>2, LenProperties
  <2>2. call' \in [kind : Kinds \cup {"idle"}, chain : Seq(STRING), at : Nat, commits : BOOLEAN]
        /\ call'.at \in 1 .. Len(call'.chain) + 1
    BY <1>2, <1>3, <2>1
  <2>3. UNCHANGED <<cool, plan>> /\ answer'.status = "none"
    BY <1>4 DEF NoAnswer
  <2> QED BY <2>2, <2>3 DEF ChainInv, ChainTyped
<1>7. OncePerCall' /\ OneCools'
  BY <1>2, <1>3, <1>4 DEF ChainInv, OncePerCall, OneCools
<1>8. InCalls'
  BY <1>1, <1>3, <1>4, <1>5 DEF InCalls, Idle
<1>9. Judged' /\ SuccessIsWork' /\ ThrashFallsThrough'
  BY <1>4 DEF Judged, SuccessIsWork, ThrashFallsThrough, Nobody, NoAnswer
<1> QED BY <1>6, <1>7, <1>8, <1>9 DEF ChainInv

\* Who is passed over is cooling, so it is claude, and not the one after claude.
LEMMA SkipInv == ChainInv /\ Skip => ChainInv'
<1> SUFFICES ASSUME ChainInv, Skip PROVE ChainInv'
  OBVIOUS
<1>1. /\ Working /\ Cooling(Turn) /\ call' = [call EXCEPT !.at = @ + 1]
      /\ UNCHANGED <<cool, plan, last, answer>>
  BY DEF Skip
<1>2. Len(call.chain) \in Nat
  BY LenProperties DEF ChainInv, ChainTyped
<1>3. call # Idle /\ call' # Idle
  BY <1>1, <1>2 DEF ChainInv, ChainTyped, Working, Idle
<1>4. ChainTyped'
  BY <1>1, <1>2 DEF ChainInv, ChainTyped, Working
<1>5. OncePerCall' /\ OneCools' /\ InCalls'
  BY <1>1, <1>3 DEF ChainInv, ChainTyped, OncePerCall, OneCools, InCalls
<1>6. ~last.thrash
  <2>1. Turn = "claude"
    BY <1>1 DEF ChainInv, OneCools, Cooling, Cooldowner
  <2> QED BY <1>1, <1>2, <1>3, <2>1 DEF ChainInv, ChainTyped, Judged, OncePerCall, Working, Turn
<1>7. Judged'
  BY <1>1, <1>3, <1>6 DEF ChainInv, ChainTyped, Judged
<1>8. SuccessIsWork' /\ ThrashFallsThrough'
  BY <1>1 DEF ChainInv, SuccessIsWork, ThrashFallsThrough
<1> QED BY <1>4, <1>5, <1>7, <1>8 DEF ChainInv

\* A refusal is not the last dispatch's, if that was of a claude that burned its turns.
LEMMA RefuseInv == ChainInv /\ Refuse => ChainInv'
<1> SUFFICES ASSUME ChainInv, Refuse PROVE ChainInv'
  OBVIOUS
<1>1. /\ Working /\ (Turn \notin Registered \/ Turn \in {"gemini", "opencode"})
      /\ call' = Idle /\ plan' = [plan EXCEPT !.over = TRUE] /\ UNCHANGED <<cool, last>>
      /\ answer' = [status |-> "failed", agent |-> Turn, kind |-> call.kind, chain |-> call.chain]
  BY DEF Refuse, Returns
<1>2. call # Idle
  BY <1>1 DEF Working, Idle
<1>3. ChainTyped'
  BY <1>1, IdleIs DEF ChainInv, ChainTyped
<1>4. OncePerCall' /\ OneCools' /\ InCalls' /\ Judged'
  BY <1>1 DEF ChainInv, OncePerCall, OneCools, InCalls, Judged, Idle
<1>5. SuccessIsWork' /\ ThrashFallsThrough'
  BY <1>1, <1>2 DEF ChainInv, Judged, SuccessIsWork, ThrashFallsThrough, Registered
<1> QED BY <1>3, <1>4, <1>5 DEF ChainInv

\* A dispatch that goes on is retryable, and cools nobody but claude.
LEMMA DispatchInv == ChainInv /\ Dispatch => ChainInv'
<1> SUFFICES ASSUME ChainInv, Dispatch PROVE ChainInv'
  OBVIOUS
<1> USE DEF ChainInv
<1>1. /\ Working /\ ~Cooling(Turn) /\ Turn \in Registered /\ call # Idle
      /\ call.kind \in Kinds
  BY DispatchIs
<1>2. PICK fate : \E commits \in BOOLEAN, markers \in SUBSET {"story-pass", "COMPLETE"} :
              /\ fate.class \in {"passed", "retryable", "fatal"} /\ fate.hours \in 0 .. MaxCooldown
              /\ fate.class = "passed" /\ call.kind # "review" => fate.work \in Works(Turn)
              /\ Dispatches(commits, markers, fate)
  BY DispatchIs
<1>3. PICK commits \in BOOLEAN, markers \in SUBSET {"story-pass", "COMPLETE"} :
              /\ fate.class \in {"passed", "retryable", "fatal"} /\ fate.hours \in 0 .. MaxCooldown
              /\ fate.class = "passed" /\ call.kind # "review" => fate.work \in Works(Turn)
              /\ Dispatches(commits, markers, fate)
  BY <1>2
<1>4. Len(call.chain) \in Nat
  BY LenProperties DEF ChainTyped
<1>5. cool' \in [Registered -> 0 .. MaxCooldown] /\ OneCools'
  BY <1>1, <1>3, CooldownAssumption DEF Dispatches, Cooled, ChainTyped, OneCools, CooldownAssumption
<1>6. plan' \in [left : 0 .. Stories, advanced : BOOLEAN, dir : BOOLEAN, over : BOOLEAN]
      /\ plan'.over = plan.over /\ plan'.left = plan.left
  BY <1>3 DEF Dispatches, ChainTyped
<1>7. /\ call' \in [kind : Kinds \cup {"idle"}, chain : Seq(STRING), at : Nat, commits : BOOLEAN]
      /\ call'.at \in 1 .. Len(call.chain) + 1 /\ call'.chain = call.chain
      /\ call'.kind = call.kind /\ call'.at > 1
      /\ fate.class = "retryable" => call'.at = call.at + 1
  <2>1. call.at \in 1 .. Len(call.chain)
    BY <1>1, <1>4 DEF ChainTyped, Working
  <2>2. call' = [call EXCEPT !.at = IF fate.class = "retryable" THEN call.at + 1 ELSE Len(call.chain) + 1,
                             !.commits = call.commits \/ commits]
    BY <1>3 DEF Dispatches
  <2>3. call' \in [kind : Kinds \cup {"idle"}, chain : Seq(STRING), at : Nat, commits : BOOLEAN]
        /\ call'.chain = call.chain /\ call'.kind = call.kind
        /\ call'.at = IF fate.class = "retryable" THEN call.at + 1 ELSE Len(call.chain) + 1
    <3> DEFINE at == IF fate.class = "retryable" THEN call.at + 1 ELSE Len(call.chain) + 1
               did == call.commits \/ commits
    <3>1. at \in Nat /\ did \in BOOLEAN
      BY <2>1, <1>4
    <3> HIDE DEF at, did
    <3>2. call' = [call EXCEPT !.at = at, !.commits = did]
      BY <2>2 DEF at, did
    <3>3. call \in [kind : Kinds \cup {"idle"}, chain : Seq(STRING), at : Nat, commits : BOOLEAN]
      BY DEF ChainTyped
    <3>4. /\ call' \in [kind : Kinds \cup {"idle"}, chain : Seq(STRING), at : Nat, commits : BOOLEAN]
          /\ call'.chain = call.chain /\ call'.kind = call.kind /\ call'.at = at
      BY <3>1, <3>2, <3>3
    <3> QED BY <3>4 DEF at
  <2> HIDE DEF ChainTyped, ChainInv
  <2> QED BY <2>1, <2>3, <1>4
<1>8. call' # Idle
  BY <1>7 DEF Idle
<1>9. ChainTyped'
  BY <1>3, <1>5, <1>6, <1>7 DEF Dispatches, ChainTyped
<1>10. OncePerCall' /\ InCalls'
  BY <1>1, <1>3, <1>6, <1>7, <1>8 DEF Dispatches, OncePerCall, InCalls
<1>11. Judged'
  BY <1>1, <1>3, <1>7, <1>8 DEF Dispatches, ChainTyped, Judged, Turn
<1>12. SuccessIsWork' /\ ThrashFallsThrough'
  <2>1. answer' = NoAnswer
    BY <1>1, <1>3 DEF Dispatches, InCalls
  <2> QED BY <2>1 DEF SuccessIsWork, ThrashFallsThrough, NoAnswer
<1> QED BY <1>5, <1>9, <1>10, <1>11, <1>12

\* The answer is the last dispatch's.
LEMMA ReturnInv == ChainInv /\ Return => ChainInv'
<1> SUFFICES ASSUME ChainInv, Return PROVE ChainInv'
  OBVIOUS
<1> USE DEF ChainInv
<1>1. /\ call # Idle /\ ~Working /\ call' = Idle /\ UNCHANGED <<cool, last>>
      /\ answer' = [status |-> IF last.class = "passed" THEN "passed" ELSE "failed",
                    agent |-> last.agent, kind |-> call.kind, chain |-> call.chain]
      /\ plan' = [plan EXCEPT !.left = IF last.passes THEN @ - 1 ELSE @,
                              !.over = last.class # "passed" /\ ~(last.completes /\ plan.advanced)]
  BY DEF Return, Returns
<1>2. Len(call.chain) \in Nat
  BY LenProperties DEF ChainTyped
<1>3. ChainTyped'
  <2>1. last.passes => plan.left > 0
    BY <1>1 DEF Judged, InCalls
  <2>2. plan'.left \in 0 .. Stories
    BY <1>1, <2>1, ListsAssumption DEF ChainTyped, ListsAssumption
  <2> QED BY <1>1, <2>2, IdleIs DEF ChainTyped
<1>4. OncePerCall' /\ OneCools' /\ InCalls' /\ Judged'
  BY <1>1 DEF OncePerCall, OneCools, InCalls, Judged, Idle
<1>5. SuccessIsWork'
  BY <1>1 DEF SuccessIsWork, Judged, Works
<1>6. ThrashFallsThrough'
  <2>1. call.at = Len(call.chain) + 1
    BY <1>1, <1>2 DEF ChainTyped, Working
  <2> QED BY <1>1, <1>2, <2>1 DEF ThrashFallsThrough, Judged
<1> QED BY <1>3, <1>4, <1>5, <1>6

\* Between the calls, and while one waits, only the clock and the operator act.
LEMMA AroundInv == ChainInv /\ (HourPasses \/ Finish \/ NextStart) => ChainInv'
<1> SUFFICES ASSUME ChainInv, HourPasses \/ Finish \/ NextStart PROVE ChainInv'
  OBVIOUS
<1> USE DEF ChainInv
<1>1. CASE HourPasses
  <2>1. cool' \in [Registered -> 0 .. MaxCooldown] /\ OneCools'
    BY <1>1, CooldownAssumption DEF HourPasses, Hour, ChainTyped, OneCools, CooldownAssumption
  <2> QED BY <1>1, <2>1 DEF HourPasses, ChainTyped, OncePerCall, InCalls, Judged, SuccessIsWork, ThrashFallsThrough
<1>2. CASE Finish
  BY <1>2 DEF Finish, ChainTyped, OncePerCall, OneCools, InCalls, Judged, SuccessIsWork, ThrashFallsThrough
<1>3. CASE NextStart
  <2>1. /\ call = Idle /\ call' = call /\ last' = Nobody /\ answer' = NoAnswer
        /\ cool' = [a \in Registered |-> 0]
    BY <1>3 DEF NextStart
  <2>2. plan' \in [left : 0 .. Stories, advanced : BOOLEAN, dir : BOOLEAN, over : BOOLEAN]
    <3>1. plan \in [left : 0 .. Stories, advanced : BOOLEAN, dir : BOOLEAN, over : BOOLEAN]
      BY DEF ChainTyped
    <3>2. NewPlan \in [left : 0 .. Stories, advanced : BOOLEAN, dir : BOOLEAN, over : BOOLEAN]
      BY ListsAssumption DEF NewPlan, ListsAssumption
    <3>3. plan' = NewPlan \/ plan' = [plan EXCEPT !.over = FALSE]
      BY <1>3 DEF NextStart
    <3> QED BY <3>1, <3>2, <3>3
  <2>3. cool' \in [Registered -> 0 .. MaxCooldown] /\ OneCools'
    BY <2>1, CooldownAssumption DEF OneCools, CooldownAssumption
  <2>5. ChainTyped'
    BY <2>1, <2>2, <2>3 DEF ChainTyped, NoAnswer
  <2>4. OncePerCall' /\ InCalls' /\ Judged' /\ SuccessIsWork' /\ ThrashFallsThrough'
    BY <2>1 DEF OncePerCall, InCalls, Judged, SuccessIsWork, ThrashFallsThrough, NoAnswer
  <2> QED BY <2>3, <2>4, <2>5
<1> QED BY <1>1, <1>2, <1>3

LEMMA ChainInvariance == ChainSpec => []ChainInv
<1>1. ChainInv /\ [ChainNext]_chainVars => ChainInv'
  <2>1. ChainInv /\ UNCHANGED chainVars => ChainInv'
    BY DEF ChainInv, chainVars, ChainTyped, OncePerCall, OneCools, InCalls, Judged, SuccessIsWork,
           ThrashFallsThrough
  <2> QED BY <2>1, CallInv, SkipInv, RefuseInv, DispatchInv, ReturnInv, AroundInv DEF ChainNext, InCall
<1> QED BY <1>1, ChainInitInv, PTL DEF ChainSpec

----------------------------------------------------------------------------
(* What follows from it.                                                   *)

\* Every reachable state has its type: no reset cools an agent beyond the cap.
THEOREM ChainTypeCorrect == ChainSpec => []ChainTypeOK
<1>1. ChainInv => ChainTypeOK
  BY DEF ChainInv, ChainTyped, ChainTypeOK
<1> QED BY <1>1, ChainInvariance, PTL

\* A call that succeeds rests on a tool's result, whatever else its agents said.
THEOREM SuccessIsWorkHolds == ChainSpec => []SuccessIsWork
  BY ChainInvariance, PTL DEF ChainInv

\* A run that only burned turns is the answer only when no other agent is left.
THEOREM ThrashFallsThroughHolds == ChainSpec => []ThrashFallsThrough
  BY ChainInvariance, PTL DEF ChainInv

\* Only the clock and a new start shorten a cooldown.
THEOREM CooldownIsServedHolds == ChainSpec => CooldownIsServed
<1>1. ChainInv /\ [ChainNext]_chainVars =>
        [(\E a \in Registered : cool'[a] < cool[a]) => plan.over \/ cool' = Hour(cool)]_chainVars
  <2> SUFFICES ASSUME ChainInv, ChainNext, NEW a \in Registered, cool'[a] < cool[a]
               PROVE  plan.over \/ cool' = Hour(cool)
    BY DEF chainVars
  <2>1. cool \in [Registered -> 0 .. MaxCooldown]
    BY DEF ChainInv, ChainTyped
  <2>2. CASE UNCHANGED cool
    BY <2>1, <2>2, CooldownAssumption DEF CooldownAssumption
  <2>3. CASE Dispatch
    <3>1. ~Cooling(Turn) /\ Turn \in Registered
      BY <2>3, DispatchIs DEF ChainInv
    <3>2. PICK fate : fate.hours \in 0 .. MaxCooldown /\ cool' = Cooled(Turn, fate)
      BY <2>3, DispatchIs DEF ChainInv, Dispatches
    <3>3. cool[Turn] = 0
      BY <2>1, <3>1, CooldownAssumption DEF Cooling, CooldownAssumption
    <3> QED BY <2>1, <3>1, <3>2, <3>3, CooldownAssumption DEF Cooled, CooldownAssumption
  <2>4. CASE HourPasses \/ NextStart
    BY <2>4 DEF HourPasses, NextStart
  <2> QED BY <2>2, <2>3, <2>4 DEF ChainNext, InCall, Call, Skip, Refuse, Return, Finish
<1> QED BY <1>1, ChainInvariance, PTL DEF ChainSpec, CooldownIsServed
=============================================================================

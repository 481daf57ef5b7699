----------------------------- MODULE ControlLock -----------------------------
(***************************************************************************)
(* The control-plane lock, internal/core/lock: an flock(2) on the file     *)
(* .springfield/.lock.  `springfield start` takes it (Acquire) and holds   *)
(* it until it ends; `status` and `recover` only want to know who holds it *)
(* (Inspect), and ask by taking it for a moment themselves.  Neither waits *)
(* for the other.                                                          *)
(*                                                                         *)
(* A lock is on the inode a process has opened, not on the path.  The file *)
(* can be removed and created again under a process that has opened it and *)
(* not locked it yet, and then two processes lock two files of one name.   *)
(*                                                                         *)
(* What is abstract: the content of the file is the process that wrote it  *)
(* (NoPid for an empty or torn file); the time of day in it is left out.   *)
(* Springfield never removes the file: Unlink is the operator (git clean,  *)
(* rm -r .springfield), who leaves the lock of a running start alone.      *)
(*                                                                         *)
(* Bound: MaxUnlink removals, and so MaxUnlink + 1 files.                  *)
(***************************************************************************)
EXTENDS Integers

CONSTANTS Starts,     \* processes that run springfield start
          Probes,     \* processes that only ask: status, recover
          NoPid,      \* what an empty or torn lock file says
          MaxUnlink   \* how often the operator removes the file

ASSUME LockAssumption ==
  /\ Starts \cap Probes = {} /\ NoPid \notin Starts \cup Probes
  /\ MaxUnlink \in Nat

VARIABLES
  path,    \* the inode at .springfield/.lock, 0 when there is none
  born,    \* how many inodes there have been at that path
  fd,      \* the inode a process has open, 0 when none
  locked,  \* the processes that hold the flock of the inode they have open
  pid,     \* the content of each inode
  pc,      \* where a process is in Acquire or Inspect
  told,    \* the answer of a process's last Acquire or Inspect
  \* History, read by no action:
  cause    \* who held the lock that refused a process

vars == <<path, born, fd, locked, pid, pc, told, cause>>

----------------------------------------------------------------------------
Procs == Starts \cup Probes
Inodes == 1..(MaxUnlink + 1)
Pc == {"idle", "flock", "verify", "write", "own", "read", "unlock"}

\* The answers: none yet, a process named by the file, a holder that cannot
\* be named, no holder, an I/O error.
Answers == Procs \cup {"none", "unknown", "free", "error"}

Init ==
  /\ path = 0 /\ born = 0
  /\ fd = [p \in Procs |-> 0] /\ locked = {}
  /\ pid = [i \in Inodes |-> NoPid]
  /\ pc = [p \in Procs |-> "idle"] /\ told = [p \in Procs |-> "none"]
  /\ cause = [p \in Procs |-> NoPid]

Owners == {p \in Starts : pc[p] \in {"write", "own"}}

\* The processes whose flock is in the way of p's.
Holders(p) == {q \in locked : q # p /\ fd[q] = fd[p]}

\* Close, which also drops the lock, and return an answer.
Return(p, answer) ==
  /\ fd' = [fd EXCEPT ![p] = 0] /\ locked' = locked \ {p}
  /\ pc' = [pc EXCEPT ![p] = "idle"] /\ told' = [told EXCEPT ![p] = answer]

\* A new process knows nothing of the one before it.
Forget(p) ==
  /\ told' = [told EXCEPT ![p] = "none"] /\ cause' = [cause EXCEPT ![p] = NoPid]

----------------------------------------------------------------------------
\* Bug: the pid is written as soon as the file is open, before the flock.
Open_Signs(p) ==
  /\ pc[p] = "idle" /\ p \in Starts
  /\ \/ path # 0 /\ UNCHANGED <<path, born>>
     \/ path = 0 /\ born + 1 \in Inodes /\ born' = born + 1 /\ path' = born'
  /\ fd' = [fd EXCEPT ![p] = path'] /\ pid' = [pid EXCEPT ![path'] = p]
  /\ pc' = [pc EXCEPT ![p] = "flock"] /\ Forget(p)
  /\ UNCHANGED locked

\* os.OpenFile: Acquire creates a missing file.  An Acquire that cannot open it
\* (a symlink, not a regular file) changes nothing and is left out.
Open(p) ==
  /\ pc[p] = "idle" /\ p \in Starts
  /\ \/ path # 0 /\ fd' = [fd EXCEPT ![p] = path] /\ UNCHANGED <<path, born>>
     \/ path = 0 /\ born + 1 \in Inodes
        /\ born' = born + 1 /\ path' = born' /\ fd' = [fd EXCEPT ![p] = born']
  /\ pc' = [pc EXCEPT ![p] = "flock"] /\ Forget(p)
  /\ UNCHANGED <<locked, pid>>

\* Inspect takes a missing file for no holder, and one it may not read for a
\* holder it cannot name.
ProbeOpen(p) ==
  /\ pc[p] = "idle" /\ p \in Probes
  /\ \/ path # 0 /\ fd' = [fd EXCEPT ![p] = path] /\ pc' = [pc EXCEPT ![p] = "flock"]
        /\ Forget(p) /\ UNCHANGED locked
     \/ \E answer \in {"free", "unknown"} :
          /\ answer = "free" => path = 0
          /\ Return(p, answer) /\ cause' = [cause EXCEPT ![p] = NoPid]
  /\ UNCHANGED <<path, born, pid>>

\* LOCK_EX|LOCK_NB.  A refused process closes its file and reads the path.
Flock(p) ==
  /\ pc[p] = "flock"
  /\ \/ /\ Holders(p) = {} /\ locked' = locked \cup {p}
        /\ pc' = [pc EXCEPT ![p] = IF p \in Starts THEN "verify" ELSE "unlock"]
        /\ UNCHANGED <<fd, cause>>
     \/ \E q \in Holders(p) :
          /\ cause' = [cause EXCEPT ![p] = q]
          /\ fd' = [fd EXCEPT ![p] = 0] /\ pc' = [pc EXCEPT ![p] = "read"]
          /\ UNCHANGED locked
  /\ UNCHANGED <<path, born, pid, told>>

\* Bug: the inode is not compared after the flock.
Verify_SameName(p) ==
  /\ pc[p] = "verify" /\ path # 0
  /\ pc' = [pc EXCEPT ![p] = "write"]
  /\ UNCHANGED <<path, born, pid, cause, fd, locked, told>>

\* The path must still name the file that is locked.
Verify(p) ==
  /\ pc[p] = "verify"
  /\ \/ path = fd[p] /\ pc' = [pc EXCEPT ![p] = "write"] /\ UNCHANGED <<fd, locked, told>>
     \/ path # fd[p] /\ Return(p, "unknown")
  /\ UNCHANGED <<path, born, pid, cause>>

\* WriteAt: the pid of the new owner over that of the last one.
Write(p) ==
  /\ pc[p] = "write"
  /\ \/ pid' = [pid EXCEPT ![fd[p]] = p] /\ pc' = [pc EXCEPT ![p] = "own"]
        /\ UNCHANGED <<fd, locked, told>>
     \/ Return(p, "error") /\ UNCHANGED pid
  /\ UNCHANGED <<path, born, cause>>

\* Release leaves the file, and the pid in it, where they are.
Release(p) ==
  /\ pc[p] = "own" /\ Return(p, "none")
  /\ UNCHANGED <<path, born, pid, cause>>

\* readHeld: what the file at the path says, if there is one and it is whole.
ReadHeld(p) ==
  /\ pc[p] = "read"
  /\ Return(p, IF path = 0 \/ pid[path] = NoPid THEN "unknown" ELSE pid[path])
  /\ UNCHANGED <<path, born, pid, cause>>

\* A probe that got the lock gives it back and reports that nobody has it.
ProbeUnlock(p) ==
  /\ pc[p] = "unlock" /\ Return(p, "free")
  /\ UNCHANGED <<path, born, pid, cause>>

\* The kernel closes the files of a process that dies.
Die(p) ==
  /\ pc[p] # "idle" /\ Return(p, "none") /\ cause' = [cause EXCEPT ![p] = NoPid]
  /\ UNCHANGED <<path, born, pid>>

Unlink ==
  /\ path # 0 /\ Owners = {} /\ born <= MaxUnlink
  /\ path' = 0
  /\ UNCHANGED <<born, fd, locked, pid, pc, told, cause>>

Step(p) ==
  Open(p) \/ ProbeOpen(p) \/ Flock(p) \/ Verify(p) \/ Write(p) \/ Release(p)
  \/ ReadHeld(p) \/ ProbeUnlock(p)

Next == (\E p \in Procs : Step(p) \/ Die(p)) \/ Unlink

\* A process that has begun to ask gets on with it.  Nobody has to ask, and a
\* start may hold the lock for as long as its batch runs.
Fairness == \A p \in Procs :
  WF_vars(Flock(p) \/ Verify(p) \/ Write(p) \/ ReadHeld(p) \/ ProbeUnlock(p))

Spec == Init /\ [][Next]_vars /\ Fairness

----------------------------------------------------------------------------
TypeOK ==
  /\ path \in 0..born /\ born \in 0..(MaxUnlink + 1)
  /\ fd \in [Procs -> 0..born] /\ locked \in SUBSET Procs
  /\ pid \in [Inodes -> Starts \cup {NoPid}]
  /\ pc \in [Procs -> Pc] /\ told \in [Procs -> Answers]
  /\ cause \in [Procs -> Procs \cup {NoPid}]

\* At most one start owns the control plane, also when the lock file is
\* removed and created again while one of them is between open and flock.
OneOwner == \A p, q \in Owners : p = q

\* The lock file names the start that owns it, so that a refused start and
\* status can say who is running.
OwnerIsNamed == \A p \in Starts : pc[p] = "own" => path # 0 /\ pid[path] = p

\* What recover relies on: a holder with a pid is a start that was there.
ConfirmedIsLive == \A p \in Probes :
  pc[p] = "idle" /\ told[p] \in Procs => cause[p] \in Starts

=============================================================================

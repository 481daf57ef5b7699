-------------------------- MODULE ControlLockProofs --------------------------
(***************************************************************************)
(* What the control-plane lock guarantees for any number of starts and     *)
(* probes and any number of removals of its file.                          *)
(*                                                                         *)
(* OneOwner is not inductive: two owners could have locked two inodes, or  *)
(* one of them none.  IInv adds that the lock of an inode is exclusive,    *)
(* that whoever is past the flock holds one, on a file it has open, that   *)
(* only starts come to own, and that an owner's inode is the one the path  *)
(* names; the last needs the assumption that the operator leaves the file  *)
(* of a running start alone.                                               *)
(***************************************************************************)
EXTENDS ControlLock, TLAPS

\* A process is past the flock exactly when it holds one.
LockedIsPast == \A p \in Procs :
  p \in locked <=> pc[p] \in {"verify", "write", "own", "unlock"}

\* A probe never goes where an owner goes.
StartsOnly == \A p \in Procs : pc[p] \in {"verify", "write", "own"} => p \in Starts

\* flock(2) is exclusive on an inode.
Exclusive == \A p, q \in locked : p # q => fd[p] # fd[q]

\* A lock is on a file that is open.
OpenIsThere == \A p \in Procs : pc[p] \in {"flock", "verify", "write", "own", "unlock"} => fd[p] # 0

\* An owner has locked the file that is at the path.
OwnsThePath == \A p \in Owners : path # 0 /\ fd[p] = path

IInv == TypeOK /\ LockedIsPast /\ StartsOnly /\ OpenIsThere
        /\ Exclusive /\ OwnsThePath /\ OwnerIsNamed

----------------------------------------------------------------------------
\* Two owners have one inode, the one the path names, and its lock is exclusive.
LEMMA InvGivesOneOwner == IInv => OneOwner
  BY DEF IInv, LockedIsPast, StartsOnly, OpenIsThere, Exclusive, OwnsThePath, OneOwner, Owners, Procs

\* The invariant holds before anybody has asked for the lock.
LEMMA InitInv == Init => IInv
  BY LockAssumption DEF LockAssumption, Init, IInv, TypeOK, LockedIsPast, StartsOnly, OpenIsThere, Exclusive, OwnsThePath,
     OwnerIsNamed, Owners, Procs, Inodes, Pc, Answers

\* No step of a process, no death and no removal breaks the invariant.
LEMMA StepInv == IInv /\ [Next]_vars => IInv'
<1> SUFFICES ASSUME IInv, [Next]_vars PROVE IInv'
  OBVIOUS
<1> USE LockAssumption DEF LockAssumption, IInv, TypeOK, LockedIsPast, StartsOnly, OpenIsThere, Exclusive, OwnsThePath,
     OwnerIsNamed, Owners, Procs, Inodes, Pc, Answers
<1>1. ASSUME NEW p \in Procs, Open(p) PROVE IInv'
  <2>1. path' \in 0..born' /\ born' \in 0..(MaxUnlink + 1) /\ born <= born'
        /\ path' # 0 /\ (path # 0 => path' = path /\ born' = born)
        /\ (path = 0 => path' = born + 1)
    BY <1>1 DEF Open
  <2>2. fd' = [fd EXCEPT ![p] = path'] /\ pc' = [pc EXCEPT ![p] = "flock"]
        /\ pc[p] = "idle" /\ UNCHANGED <<locked, pid>>
    BY <1>1 DEF Open
  <2>3. TypeOK'
    BY <1>1, <2>1, <2>2 DEF Open, Forget
  <2>4. LockedIsPast' /\ StartsOnly' /\ OpenIsThere' /\ Exclusive'
    BY <2>1, <2>2
  <2>5. OwnsThePath' /\ OwnerIsNamed'
    BY <2>1, <2>2
  <2> QED BY <2>3, <2>4, <2>5
<1>2. ASSUME NEW p \in Procs, ProbeOpen(p) PROVE IInv'
  <2>1. TypeOK'
    <3>1. CASE fd' = [fd EXCEPT ![p] = path] /\ pc' = [pc EXCEPT ![p] = "flock"]
               /\ Forget(p) /\ UNCHANGED locked
      BY <1>2, <3>1 DEF ProbeOpen, Forget
    <3>2. ASSUME NEW answer \in {"free", "unknown"}, Return(p, answer),
                 cause' = [cause EXCEPT ![p] = NoPid]
          PROVE  TypeOK'
      BY <1>2, <3>2 DEF ProbeOpen, Return
    <3> QED BY <1>2, <3>1, <3>2 DEF ProbeOpen
  <2>2. LockedIsPast' /\ StartsOnly' /\ OpenIsThere'
    BY <1>2 DEF ProbeOpen, Return, Forget
  <2>3. Exclusive'
    BY <1>2 DEF ProbeOpen, Return, Forget
  <2>4. OwnsThePath'
    BY <1>2 DEF ProbeOpen, Return, Forget
  <2>5. OwnerIsNamed'
    BY <1>2 DEF ProbeOpen, Return, Forget
  <2> QED BY <2>1, <2>2, <2>3, <2>4, <2>5
<1>3. ASSUME NEW p \in Procs, Flock(p) PROVE IInv'
  <2>1. TypeOK'
    <3>1. \A q \in Holders(p) : q \in Procs
      BY DEF Holders
    <3>2. pc' \in [Procs -> Pc] /\ fd' \in [Procs -> 0..born] /\ locked' \in SUBSET Procs
      BY <1>3 DEF Flock
    <3>3. cause' \in [Procs -> Procs \cup {NoPid}]
      BY <1>3, <3>1 DEF Flock
    <3> QED BY <1>3, <3>2, <3>3 DEF Flock
  <2>2. LockedIsPast' /\ StartsOnly' /\ OpenIsThere'
    BY <1>3 DEF Flock, Holders
  <2>3. Exclusive'
    <3>1. CASE Holders(p) = {} /\ locked' = locked \cup {p} /\ UNCHANGED fd
      <4>1. \A q \in locked : q # p => fd[q] # fd[p]
        BY <3>1 DEF Holders
      <4> QED BY <3>1, <4>1
    <3>2. CASE fd' = [fd EXCEPT ![p] = 0] /\ UNCHANGED locked
      BY <1>3, <3>2 DEF Flock
    <3> QED BY <1>3, <3>1, <3>2 DEF Flock
  <2>4. OwnsThePath'
    BY <1>3 DEF Flock, Holders
  <2>5. OwnerIsNamed'
    BY <1>3 DEF Flock, Holders
  <2> QED BY <2>1, <2>2, <2>3, <2>4, <2>5
<1>4. ASSUME NEW p \in Procs, Verify(p) PROVE IInv'
  <2>1. TypeOK'
    <3>1. CASE pc' = [pc EXCEPT ![p] = "write"] /\ UNCHANGED <<fd, locked, told>>
      BY <1>4, <3>1 DEF Verify
    <3>2. CASE Return(p, "unknown")
      BY <1>4, <3>2 DEF Verify, Return
    <3> QED BY <1>4, <3>1, <3>2 DEF Verify
  <2>2. LockedIsPast' /\ StartsOnly' /\ OpenIsThere'
    BY <1>4 DEF Verify, Return
  <2>3. Exclusive'
    BY <1>4 DEF Verify, Return
  <2>4. OwnsThePath'
    <3>1. CASE path = fd[p] /\ pc' = [pc EXCEPT ![p] = "write"] /\ UNCHANGED <<fd, locked, told>>
      BY <1>4, <3>1 DEF Verify
    <3>2. CASE Return(p, "unknown")
      BY <1>4, <3>2 DEF Verify, Return
    <3> QED BY <1>4, <3>1, <3>2 DEF Verify
  <2>5. OwnerIsNamed'
    BY <1>4 DEF Verify, Return
  <2> QED BY <2>1, <2>2, <2>3, <2>4, <2>5
<1>5. ASSUME NEW p \in Procs, Write(p) PROVE IInv'
  <2>1. TypeOK'
    <3>1. CASE pid' = [pid EXCEPT ![fd[p]] = p] /\ pc' = [pc EXCEPT ![p] = "own"]
               /\ UNCHANGED <<fd, locked, told>>
      <4>1. p \in Starts /\ fd[p] \in Inodes
        BY <1>5 DEF Write
      <4> QED BY <1>5, <3>1, <4>1 DEF Write
    <3>2. CASE Return(p, "error") /\ UNCHANGED pid
      BY <1>5, <3>2 DEF Write, Return
    <3> QED BY <1>5, <3>1, <3>2 DEF Write
  <2>2. LockedIsPast' /\ StartsOnly' /\ OpenIsThere'
    BY <1>5 DEF Write, Return
  <2>3. Exclusive'
    BY <1>5 DEF Write, Return
  <2>4. OwnsThePath'
    BY <1>5 DEF Write, Return
  <2>5. OwnerIsNamed'
    BY <1>5 DEF Write, Return
  <2> QED BY <2>1, <2>2, <2>3, <2>4, <2>5
<1>6. ASSUME NEW p \in Procs, Release(p) PROVE IInv'
  BY <1>6 DEF Release, Return
<1>7. ASSUME NEW p \in Procs, ReadHeld(p) PROVE IInv'
  BY <1>7 DEF ReadHeld, Return
<1>8. ASSUME NEW p \in Procs, ProbeUnlock(p) PROVE IInv'
  BY <1>8 DEF ProbeUnlock, Return
<1>9. ASSUME NEW p \in Procs, Die(p) PROVE IInv'
  BY <1>9 DEF Die, Return
<1>10. CASE Unlink
  BY <1>10 DEF Unlink
<1>11. CASE UNCHANGED vars
  BY <1>11 DEF vars
<1> QED BY <1>1, <1>2, <1>3, <1>4, <1>5, <1>6, <1>7, <1>8, <1>9, <1>10, <1>11 DEF Next, Step

\* The invariant holds in every reachable state of the lock.
LEMMA Invariance == Spec => []IInv
  BY InitInv, StepInv, PTL DEF Spec

\* Every reachable state of the lock has the declared types.
THEOREM TypeCorrect == Spec => []TypeOK
  BY Invariance, PTL DEF IInv

\* Never two starts own the control plane, however many run, die and race with
\* probes and with the removal of the lock file.
THEOREM OneOwnerHolds == Spec => []OneOwner
  BY Invariance, InvGivesOneOwner, PTL

\* The file at the path names the start that owns the lock.
THEOREM OwnerIsNamedHolds == Spec => []OwnerIsNamed
  BY Invariance, PTL DEF IInv
=============================================================================

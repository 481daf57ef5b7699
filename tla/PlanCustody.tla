---------------------------- MODULE PlanCustody ----------------------------
(***************************************************************************)
(* What the merge phase promises about a plan's commits, whatever goes     *)
(* wrong: they are on the plan branch, or the target has contained them,   *)
(* or the operator discarded them.  Module PlanMerge implements it.        *)
(***************************************************************************)

VARIABLES onBranch,  \* the plan branch holds the commits
          inTarget,  \* the target branch has contained them
          discarded  \* the operator gave the attempt up

vars == <<onBranch, inTarget, discarded>>

Init == ~onBranch /\ ~inTarget /\ ~discarded

\* A run of the plan leaves its commits on a new branch (none, if the agents
\* changed nothing: the target then contains them already).
Run == ~onBranch /\ onBranch' /\ inTarget' \in BOOLEAN /\ ~discarded'

\* The target comes to contain them.
Deliver == ~inTarget /\ inTarget' /\ UNCHANGED <<onBranch, discarded>>

\* The branch may go once the target has contained the commits ...
Retire == onBranch /\ inTarget /\ ~onBranch' /\ UNCHANGED <<inTarget, discarded>>

\* ... or when the operator says so.
Discard == ~onBranch' /\ discarded' /\ UNCHANGED inTarget

Next == Run \/ Deliver \/ Retire \/ Discard

Spec == Init /\ [][Next]_vars
=============================================================================

---------------------------- MODULE MCPlanQueue ----------------------------
(* Plans registered, or not, in any order, with IDs in alphabetical order.   *)
EXTENDS PlanQueue
CONSTANTS p1, p2

TwoPlans == {p1, p2}
Alphabet == [p \in TwoPlans |-> IF p = p1 THEN 1 ELSE 2]

\* retry-merge lets a plan count that was never merged (IntegratedMeansMerged of
\* module PlanMerge), and a plans remove that is cut short or meets a start leaves
\* an entry behind (RemovedIsForgotten).
Orderly == Commands \ {"retry-merge"}
AllButRemove == Orderly \ {"remove"}
=============================================================================

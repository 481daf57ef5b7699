---------------------------- MODULE MCPlanMerge ----------------------------
(* Constants for checking PlanMerge.  The commits: the target's head "base",  *)
(* the plan's "work" on it, the user's "drift" on base, a "revert" of work   *)
(* (the files of base again), and an unrelated "fork" that no fast-forward   *)
(* reaches.                                                                  *)
EXTENDS PlanMerge

MCCommit == {"base", "work", "drift", "revert", "fork"}
MCReach  == [c \in MCCommit |->
               CASE c = "base"   -> {"base"}
                 [] c = "work"   -> {"base", "work"}
                 [] c = "drift"  -> {"base", "drift"}
                 [] c = "revert" -> {"base", "work", "revert"}
                 [] c = "fork"   -> {"fork"}]
MCTree   == [c \in MCCommit |-> IF c = "revert" THEN "base" ELSE c]
=============================================================================

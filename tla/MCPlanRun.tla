----------------------------- MODULE MCPlanRun -----------------------------
(* A plan of two stories, the second of which depends on the first. *)
EXTENDS PlanRun, TLC

CONSTANTS s1, s2

MCStories == {s1, s2}
MCDeps == (s1 :> {}) @@ (s2 :> {s1})
MCRank == (s1 :> 2) @@ (s2 :> 1)
=============================================================================

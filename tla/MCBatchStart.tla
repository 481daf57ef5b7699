---------------------------- MODULE MCBatchStart ----------------------------
(* Two plans, the second with a base of its own; a protected branch and a    *)
(* feature branch; the auto-branch's name and one variant.                   *)
EXTENDS BatchStart
CONSTANTS p1, p2

TwoPlans == <<p1, p2>>
SecondOnFeat == [p \in Plan |-> IF p = p2 THEN "feat" ELSE None]
Names == <<"auto", "auto-2">>

Ask(perPlan, flag, conf, auto, allow, cap) ==
  [perPlan |-> perPlan, flag |-> flag, conf |-> conf, auto |-> auto, allow |-> allow, cap |-> cap]

\* Defaults; per-plan from the flag, with and without --base; no auto-branch,
\* with and without allow_protected_base; a cap at or above what was spent.
Asks == {Ask(FALSE, None, None, TRUE, FALSE, "none"),
         Ask(TRUE, "feat", None, TRUE, FALSE, "none"),
         Ask(TRUE, None, "main", TRUE, FALSE, "low"),
         Ask(FALSE, None, None, FALSE, FALSE, "high"),
         Ask(FALSE, None, None, FALSE, TRUE, "low")}
=============================================================================

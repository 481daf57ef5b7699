---------------------------- MODULE MCBatchExec ----------------------------
(* A batch of a parallel phase of two plans followed by a serial phase of  *)
(* one, with max-parallel 2: two plans side by side, each in the other's   *)
(* agent window, and a barrier behind them.                                *)
EXTENDS BatchExec

CONSTANTS p1, p2, p3

MCPlan == {p1, p2, p3}
MCPhases == <<[parallel |-> TRUE, plans |-> <<p1, p2>>],
              [parallel |-> FALSE, plans |-> <<p3>>]>>
OneStory == [p \in MCPlan |-> 1]
=============================================================================

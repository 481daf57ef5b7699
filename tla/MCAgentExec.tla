---------------------------- MODULE MCAgentExec ----------------------------
(* Values for the constants of AgentExec. *)
EXTENDS AgentExec

\* A line too long at the start of one stream and at the end of the other.
TooLong == [stdout |-> {1}, stderr |-> {3}]
=============================================================================

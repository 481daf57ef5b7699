---------------------------- MODULE MCAgentChain ----------------------------
(* Values for the constants of AgentChain. *)
EXTENDS AgentChain

\* A list that starts with claude and names it twice, one whose second agent needs
\* what its last would create, one that is empty once normalized, one with a name no
\* adapter answers to.
SomeLists == {<<"claude", "codex", "claude", "">>, <<"claude", "gemini", "opencode">>,
              <<"opencode", "gemini", "claude">>, <<"">>, <<"nova", "claude">>}
=============================================================================

---------------------------- MODULE MCAgentLoop ----------------------------
(* Small instances of AgentLoop for TLC. *)
EXTENDS AgentLoop

\* Two parallel calls that may end in any order, and sequential calls around
\* a parallel one.
SmallBatches == {<<"parallel", "parallel">>, <<"sequential", "parallel", "sequential">>}

=============================================================================

----------------------------- MODULE AgentRpcMC -----------------------------
(***************************************************************************)
(* Instances of AgentRpc for TLC.                                          *)
(***************************************************************************)
EXTENDS AgentRpc, TLC

\* Calls of one kind and connections are interchangeable.
Symmetry == Permutations(Shared) \cup Permutations(Isolated) \cup Permutations(Conns)
=============================================================================

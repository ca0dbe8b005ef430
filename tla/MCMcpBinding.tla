---------------------------- MODULE MCMcpBinding ----------------------------
(***************************************************************************)
(* McpBinding for TLC.                                                     *)
(***************************************************************************)
EXTENDS McpBinding, TLC

Symmetry == Permutations(Bindings) \cup Permutations(Conns) \cup Permutations(Tasks)
=============================================================================

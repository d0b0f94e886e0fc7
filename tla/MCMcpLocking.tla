---------------------------- MODULE MCMcpLocking ----------------------------
(* Instances of McpLocking for TLC. *)
EXTENDS McpLocking, TLC

\* Sessions and tasks are interchangeable (safety runs only).
Symmetry == Permutations(Sessions) \cup Permutations(Tasks)
=============================================================================

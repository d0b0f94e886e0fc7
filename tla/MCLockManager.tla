--------------------------- MODULE MCLockManager ---------------------------
(* Instances of LockManager for TLC. *)
EXTENDS LockManager, TLC

\* Sessions and tasks are interchangeable (safety runs only).
Symmetry == Permutations(Sessions) \cup Permutations(Tasks)
=============================================================================

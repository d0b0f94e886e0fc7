---------------------------- MODULE MCCdpClient ----------------------------
(* Instances of CdpClient for TLC. *)
EXTENDS CdpClient, TLC

\* Calls are interchangeable (safety run only).
Symmetry == Permutations(Calls)
=============================================================================

------------------------------ MODULE MCSandbox ------------------------------
(* Small instances of Sandbox for TLC. *)
EXTENDS Sandbox, TLC

Symmetry == Permutations(Pool)
=============================================================================

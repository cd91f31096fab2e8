----------------------------- MODULE MCFollowing -----------------------------
(* A small instance of Following for TLC. *)
EXTENDS Following, TLC

Symmetry == Permutations(Request) \cup Permutations(Client)
=============================================================================

-------------------------- MODULE MCBundleBuilder --------------------------
(* Small instances of BundleBuilder for TLC. *)
EXTENDS BundleBuilder, TLC

Symmetry == Permutations(Request)
=============================================================================

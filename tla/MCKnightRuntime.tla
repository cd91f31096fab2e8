--------------------------- MODULE MCKnightRuntime ---------------------------
(* Small instances of KnightRuntime for TLC. *)
EXTENDS KnightRuntime
=============================================================================

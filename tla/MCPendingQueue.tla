--------------------------- MODULE MCPendingQueue ---------------------------
(* A small instance of PendingQueue for TLC: no symmetry, for the liveness. *)
EXTENDS PendingQueue
=============================================================================

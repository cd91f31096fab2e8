-------------------------- MODULE MCPendingStream --------------------------
(* Small instances of PendingStream for TLC. *)
EXTENDS PendingStream, TLC

Symmetry == Permutations(Request) \cup Permutations(Client)

(* FairSpec while nobody takes a snapshot.  What a snapshot writes no other *)
(* step reads, so it can neither help nor prevent what the liveness         *)
(* properties promise.                                                      *)
WithoutSnapshots ==
    Init /\ [][Next /\ UNCHANGED <<snap, covered>>]_vars /\ Fairness
=============================================================================

----------------------------- MODULE BoundedFifo -----------------------------
(***************************************************************************)
(* What the users of knight's queue (common/queue.h) count on: items come   *)
(* out once, in the order they were accepted; an item is refused only when  *)
(* the queue is full or closed; a consumer is told that the queue has ended *)
(* only when it is closed and everything accepted was delivered.            *)
(***************************************************************************)
EXTENDS Integers, Sequences

CONSTANTS Consumer, Capacity, Item

VARIABLES
    accepted,               \* items accepted so far
    delivered,              \* items handed to consumers so far
    refused,                \* number of items refused
    closed,
    ended                   \* consumers that were told the end

fifoVars == <<accepted, delivered, refused, closed, ended>>

Load == Len(accepted) - Len(delivered)

Init ==
    /\ accepted = <<>> /\ delivered = <<>> /\ refused = 0
    /\ closed = FALSE /\ ended = {}

Accept(x) ==
    /\ ~closed /\ Load < Capacity
    /\ accepted' = Append(accepted, x)
    /\ UNCHANGED <<delivered, refused, closed, ended>>

Refuse ==
    /\ closed \/ Load >= Capacity
    /\ refused' = refused + 1
    /\ UNCHANGED <<accepted, delivered, closed, ended>>

Deliver ==
    /\ Load > 0
    /\ delivered' = Append(delivered, accepted[Len(delivered) + 1])
    /\ UNCHANGED <<accepted, refused, closed, ended>>

Close ==
    /\ closed' = TRUE
    /\ UNCHANGED <<accepted, delivered, refused, ended>>

TellEnd(c) ==
    /\ closed /\ Load = 0
    /\ ended' = ended \cup {c}
    /\ UNCHANGED <<accepted, delivered, refused, closed>>

Next ==
    \/ \E x \in Item : Accept(x)
    \/ Refuse \/ Deliver \/ Close
    \/ \E c \in Consumer : TellEnd(c)

Spec == Init /\ [][Next]_fifoVars
=============================================================================

---------------------------- MODULE PendingQueue ----------------------------
(***************************************************************************)
(* Queue<Capacity> of knight (common/queue.h): a deque under a mutex and a  *)
(* condition variable, between the io thread that pushes what the websocket *)
(* delivers, the main thread that pops, and the threads that may close it   *)
(* (the signal listener, the destructor of Runtime).                        *)
(*                                                                          *)
(* A critical section is one step.  Notifications are sent after the mutex  *)
(* is released, so they are steps of their own.  wait() checks its          *)
(* predicate and joins the waiters without releasing the mutex in between.  *)
(***************************************************************************)
EXTENDS Integers, Sequences, FiniteSets

CONSTANTS
    Producer, Consumer, Closer,     \* threads, by what they call
    Capacity,                       \* the template argument
    MaxOffered                      \* bound: items offered in all

ASSUME QueueAssumption ==
    /\ Capacity \in Nat \ {0}
    /\ MaxOffered \in Nat

VARIABLES
    items,                  \* m_queue
    closed,                 \* m_closed
    waiting,                \* consumers blocked in m_cv.wait
    producer,               \* where each producer is: outside, or about to notify
    consumer,               \* where each consumer is: outside, in wait_pop, told the end
    closer,                 \* where each closer is
    offered,                \* history: items offered, accepted or not; an item is
                            \* its number
    accepted, delivered,    \* history: items pushed, items popped
    refused                 \* history: number of try_push that returned false

vars == <<items, closed, waiting, producer, consumer, closer, offered, accepted,
          delivered, refused>>

Item  == 1..MaxOffered
Ended == {c \in Consumer : consumer[c] = "ended"}

TypeOK ==
    /\ items \in Seq(Item) /\ Len(items) <= Capacity /\ closed \in BOOLEAN
    /\ waiting \subseteq Consumer
    /\ producer \in [Producer -> {"out", "notify"}]
    /\ consumer \in [Consumer -> {"out", "popping", "ended"}]
    /\ closer \in [Closer -> {"out", "notify", "done"}]
    /\ offered \in 0..MaxOffered /\ refused \in Nat
    /\ accepted \in Seq(Item) /\ delivered \in Seq(Item)

Init ==
    /\ items = <<>> /\ closed = FALSE /\ waiting = {}
    /\ producer = [p \in Producer |-> "out"]
    /\ consumer = [c \in Consumer |-> "out"]
    /\ closer = [k \in Closer |-> "out"]
    /\ offered = 0 /\ accepted = <<>> /\ delivered = <<>> /\ refused = 0

-----------------------------------------------------------------------------
(* try_push *)

\* Faulty variant: nobody is notified.
PushSilently(p) ==
    /\ producer[p] = "out" /\ offered < MaxOffered
    /\ offered' = offered + 1
    /\ ~closed /\ Len(items) < Capacity
    /\ items' = Append(items, offered')
    /\ accepted' = Append(accepted, offered')
    /\ UNCHANGED <<closed, waiting, producer, consumer, closer, delivered, refused>>

Push(p) ==
    /\ producer[p] = "out" /\ offered < MaxOffered
    /\ offered' = offered + 1
    /\ ~closed /\ Len(items) < Capacity
    /\ items' = Append(items, offered')
    /\ accepted' = Append(accepted, offered')
    /\ producer' = [producer EXCEPT ![p] = "notify"]
    /\ UNCHANGED <<closed, waiting, consumer, closer, delivered, refused>>

Refuse(p) ==
    /\ producer[p] = "out" /\ offered < MaxOffered
    /\ offered' = offered + 1
    /\ closed \/ Len(items) >= Capacity
    /\ refused' = refused + 1
    /\ UNCHANGED <<items, closed, waiting, producer, consumer, closer, accepted, delivered>>

\* notify_one: any one of the waiters, if there is one.
NotifyOne(p) ==
    /\ producer[p] = "notify"
    /\ producer' = [producer EXCEPT ![p] = "out"]
    /\ IF waiting = {} THEN UNCHANGED waiting
                       ELSE \E c \in waiting : waiting' = waiting \ {c}
    /\ UNCHANGED <<items, closed, consumer, closer, offered, accepted, delivered, refused>>

-----------------------------------------------------------------------------
(* wait_pop *)

CallPop(c) ==
    /\ consumer[c] = "out"
    /\ consumer' = [consumer EXCEPT ![c] = "popping"]
    /\ UNCHANGED <<items, closed, waiting, producer, closer, offered, accepted, delivered, refused>>

Awake(c) == consumer[c] = "popping" /\ c \notin waiting

\* The predicate of wait() is false: block.
Block(c) ==
    /\ Awake(c) /\ items = <<>> /\ ~closed
    /\ waiting' = waiting \cup {c}
    /\ UNCHANGED <<items, closed, producer, consumer, closer, offered, accepted, delivered, refused>>

SpuriousWakeup(c) ==
    /\ c \in waiting
    /\ waiting' = waiting \ {c}
    /\ UNCHANGED <<items, closed, producer, consumer, closer, offered, accepted, delivered, refused>>

\* Faulty variant: an item is popped from the wrong end.
PopBack(c) ==
    /\ Awake(c) /\ items # <<>>
    /\ delivered' = Append(delivered, items[Len(items)])
    /\ items' = SubSeq(items, 1, Len(items) - 1)
    /\ consumer' = [consumer EXCEPT ![c] = "out"]
    /\ UNCHANGED <<closed, waiting, producer, closer, offered, accepted, refused>>

Pop(c) ==
    /\ Awake(c) /\ items # <<>>
    /\ delivered' = Append(delivered, Head(items))
    /\ items' = Tail(items)
    /\ consumer' = [consumer EXCEPT ![c] = "out"]
    /\ UNCHANGED <<closed, waiting, producer, closer, offered, accepted, refused>>

\* Faulty variant: a closed queue ends at once.
EndUndrained(c) ==
    /\ Awake(c) /\ closed
    /\ consumer' = [consumer EXCEPT ![c] = "ended"]
    /\ UNCHANGED <<items, closed, waiting, producer, closer, offered, accepted, delivered, refused>>

End(c) ==
    /\ Awake(c) /\ items = <<>> /\ closed
    /\ consumer' = [consumer EXCEPT ![c] = "ended"]
    /\ UNCHANGED <<items, closed, waiting, producer, closer, offered, accepted, delivered, refused>>

-----------------------------------------------------------------------------
(* close *)

Close(k) ==
    /\ closer[k] = "out"
    /\ closed' = TRUE
    /\ closer' = [closer EXCEPT ![k] = "notify"]
    /\ UNCHANGED <<items, waiting, producer, consumer, offered, accepted, delivered, refused>>

\* Faulty variant: notify_one instead of notify_all.
NotifyFirst(k) ==
    /\ closer[k] = "notify"
    /\ IF waiting = {} THEN UNCHANGED waiting
                       ELSE \E c \in waiting : waiting' = waiting \ {c}
    /\ closer' = [closer EXCEPT ![k] = "done"]
    /\ UNCHANGED <<items, closed, producer, consumer, offered, accepted, delivered, refused>>

NotifyAll(k) ==
    /\ closer[k] = "notify"
    /\ waiting' = {}
    /\ closer' = [closer EXCEPT ![k] = "done"]
    /\ UNCHANGED <<items, closed, producer, consumer, offered, accepted, delivered, refused>>

Next ==
    \/ \E p \in Producer : Push(p) \/ Refuse(p) \/ NotifyOne(p)
    \/ \E c \in Consumer : CallPop(c) \/ Block(c) \/ SpuriousWakeup(c) \/ Pop(c) \/ End(c)
    \/ \E k \in Closer : Close(k) \/ NotifyAll(k)

Spec == Init /\ [][Next]_vars

(***************************************************************************)
(* Threads that are not blocked run.  Nothing is assumed of spurious        *)
(* wakeups, nor that anybody pushes or closes.                              *)
(***************************************************************************)
Fairness ==
    /\ \A p \in Producer : WF_vars(NotifyOne(p))
    /\ \A c \in Consumer : WF_vars(CallPop(c)) /\ WF_vars(Block(c) \/ Pop(c) \/ End(c))
    /\ \A k \in Closer : WF_vars(NotifyAll(k))

FairSpec == Spec /\ Fairness
-----------------------------------------------------------------------------
(***************************************************************************)
(* The queue is a bounded FIFO, seen through its history.                   *)
(***************************************************************************)
Fifo == INSTANCE BoundedFifo WITH ended <- Ended

ImplementsFifo == Fifo!Spec

(***************************************************************************)
(* No lost wakeup, although notifications are sent outside the mutex: when  *)
(* there is an item and every consumer still interested is blocked, some    *)
(* producer or closer has not sent its notification yet; and nobody stays   *)
(* blocked on a closed queue without a closer on its way to notify all.     *)
(***************************************************************************)
ItemNotified ==
    /\ items # <<>> /\ waiting # {} /\ Consumer \ Ended \subseteq waiting
    => \/ \E p \in Producer : producer[p] = "notify"
       \/ \E k \in Closer : closer[k] = "notify"

NobodyBlockedWhenClosed ==
    closed /\ waiting # {} => \E k \in Closer : closer[k] = "notify"

NoLostWakeup == ItemNotified /\ NobodyBlockedWhenClosed

(***************************************************************************)
(* Every accepted item is delivered: to whichever consumer comes first,     *)
(* before and after the queue is closed.                                    *)
(***************************************************************************)
AcceptedIsDelivered ==
    \A n \in Item : Len(accepted) >= n ~> Len(delivered) >= n

(***************************************************************************)
(* Closing the queue ends every consumer, also those that were blocked.     *)
(***************************************************************************)
CloseEndsConsumers == closed ~> Ended = Consumer
=============================================================================

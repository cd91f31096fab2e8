------------------------- MODULE PendingQueueProofs -------------------------
(***************************************************************************)
(* Theorems about the queue, for any number of threads and any capacity: it *)
(* implements a bounded FIFO, and no wakeup is lost although notifications  *)
(* are sent outside the mutex.                                              *)
(***************************************************************************)
EXTENDS PendingQueue, TLAPS

(* What was accepted is what was delivered, then what waits in the deque.   *)
History == accepted = delivered \o items

(* Only a consumer inside wait_pop is blocked. *)
WaitersPop == \A c \in waiting : consumer[c] = "popping"

IInv == TypeOK /\ History /\ WaitersPop /\ ItemNotified /\ NobodyBlockedWhenClosed

(* The queue a process starts with satisfies the invariant.                *)
LEMMA InitHolds == Init => IInv
<1> SUFFICES ASSUME Init
             PROVE  IInv
  OBVIOUS
<1>1. TypeOK
  <2>1. <<>> \in Seq(Item) /\ Len(<<>>) = 0
    OBVIOUS
  <2>2. 0 \in 0..MaxOffered /\ Capacity >= 0
    BY QueueAssumption
  <2> HIDE DEF Item
  <2>3. QED BY <2>1, <2>2 DEF Init, TypeOK
<1>2. History /\ WaitersPop /\ ItemNotified /\ NobodyBlockedWhenClosed
  BY DEF Init, History, WaitersPop, ItemNotified, NobodyBlockedWhenClosed
<1>3. QED BY <1>1, <1>2 DEF IInv

(* Moving the first element of t to the end of s. *)
LEMMA MoveHead ==
  ASSUME NEW S, NEW s \in Seq(S), NEW t \in Seq(S), t # <<>>
  PROVE  /\ Head(t) \in S /\ Tail(t) \in Seq(S) /\ Len(Tail(t)) = Len(t) - 1
         /\ Append(s, Head(t)) \o Tail(t) = s \o t
         /\ (s \o t)[Len(s) + 1] = Head(t)
         /\ Len(s \o t) = Len(s) + Len(t)
  OBVIOUS

(* Each critical section, and each notification, keeps the invariant. *)
LEMMA StepHolds == IInv /\ [Next]_vars => IInv'
<1> SUFFICES ASSUME IInv, [Next]_vars
             PROVE  IInv'
  OBVIOUS
<1> USE QueueAssumption DEF IInv
<1>1. CASE UNCHANGED vars
  BY <1>1 DEF vars, TypeOK, History, WaitersPop, ItemNotified, NobodyBlockedWhenClosed, Ended
<1>2. ASSUME NEW p \in Producer, Push(p)
      PROVE  IInv'
  <2>1. offered' \in Item
    BY <1>2 DEF Push, TypeOK, Item
  <2>2. TypeOK'
    <3> HIDE DEF Item
    <3>1. items' \in Seq(Item) /\ Len(items') <= Capacity
      BY <1>2, <2>1 DEF Push, TypeOK
    <3>2. accepted' \in Seq(Item)
      BY <1>2, <2>1 DEF Push, TypeOK
    <3>3. offered' \in 0..MaxOffered
      BY <2>1 DEF Item
    <3>4. QED BY <1>2, <3>1, <3>2, <3>3 DEF Push, TypeOK
  <2>3. History'
    <3> HIDE DEF Item
    <3>1. PICK x \in Item : x = offered'
      BY <2>1
    <3>2. delivered \in Seq(Item) /\ items \in Seq(Item)
      BY DEF TypeOK
    <3>3. Append(delivered \o items, x) = delivered \o Append(items, x)
      BY <3>2
    <3>4. QED BY <1>2, <3>1, <3>3 DEF Push, History
  <2>4. WaitersPop' /\ NobodyBlockedWhenClosed'
    BY <1>2 DEF Push, WaitersPop, NobodyBlockedWhenClosed
  <2>5. ItemNotified'
    BY <1>2 DEF Push, TypeOK, ItemNotified
  <2>6. QED BY <2>2, <2>3, <2>4, <2>5
<1>3. ASSUME NEW p \in Producer, Refuse(p)
      PROVE  IInv'
  <2>1. TypeOK'
    BY <1>3 DEF Refuse, TypeOK
  <2>2. QED
    BY <1>3, <2>1 DEF Refuse, History, WaitersPop, NobodyBlockedWhenClosed, ItemNotified, Ended
<1>4. ASSUME NEW p \in Producer, NotifyOne(p)
      PROVE  IInv'
  <2>1. TypeOK'
    BY <1>4 DEF NotifyOne, TypeOK
  <2>2. History' /\ WaitersPop' /\ NobodyBlockedWhenClosed'
    BY <1>4 DEF NotifyOne, History, WaitersPop, NobodyBlockedWhenClosed
  <2>3. ItemNotified'
    <3>1. CASE waiting = {}
      BY <1>4, <3>1 DEF NotifyOne, ItemNotified
    <3>2. CASE waiting # {}
      <4>1. PICK c \in waiting : waiting' = waiting \ {c}
        BY <1>4, <3>2 DEF NotifyOne
      <4>2. c \in Consumer \ Ended' /\ c \notin waiting'
        BY <1>4, <4>1 DEF NotifyOne, WaitersPop, TypeOK, Ended
      <4>3. QED BY <4>2 DEF ItemNotified
    <3>3. QED BY <3>1, <3>2
  <2>4. QED BY <2>1, <2>2, <2>3
<1>5. ASSUME NEW c \in Consumer, CallPop(c)
      PROVE  IInv'
  <2>1. TypeOK'
    BY <1>5 DEF CallPop, TypeOK
  <2>2. History' /\ WaitersPop' /\ NobodyBlockedWhenClosed'
    BY <1>5 DEF CallPop, TypeOK, History, WaitersPop, NobodyBlockedWhenClosed
  <2>3. Ended' = Ended
    BY <1>5 DEF CallPop, TypeOK, Ended
  <2>4. ItemNotified'
    BY <1>5, <2>3 DEF CallPop, ItemNotified
  <2>5. QED BY <2>1, <2>2, <2>4
<1>6. ASSUME NEW c \in Consumer, Block(c)
      PROVE  IInv'
  <2>1. TypeOK'
    BY <1>6 DEF Block, Awake, TypeOK
  <2>2. History' /\ WaitersPop' /\ NobodyBlockedWhenClosed' /\ ItemNotified'
    BY <1>6 DEF Block, Awake, History, WaitersPop, NobodyBlockedWhenClosed, ItemNotified
  <2>3. QED BY <2>1, <2>2
<1>7. ASSUME NEW c \in Consumer, SpuriousWakeup(c)
      PROVE  IInv'
  <2>1. TypeOK'
    BY <1>7 DEF SpuriousWakeup, TypeOK
  <2>2. History' /\ WaitersPop' /\ NobodyBlockedWhenClosed'
    BY <1>7 DEF SpuriousWakeup, History, WaitersPop, NobodyBlockedWhenClosed
  <2>3. c \in Consumer \ Ended' /\ c \notin waiting'
    BY <1>7 DEF SpuriousWakeup, WaitersPop, Ended
  <2>4. ItemNotified'
    BY <2>3 DEF ItemNotified
  <2>5. QED BY <2>1, <2>2, <2>4
<1>8. ASSUME NEW c \in Consumer, Pop(c)
      PROVE  IInv'
  <2>1. /\ Head(items) \in Item /\ Tail(items) \in Seq(Item)
        /\ Len(Tail(items)) = Len(items) - 1 /\ Len(items) \in Nat
        /\ Append(delivered, Head(items)) \o Tail(items) = delivered \o items
    <3> HIDE DEF Item
    <3>1. QED BY <1>8, MoveHead DEF Pop, TypeOK
  <2>2. TypeOK'
    <3> HIDE DEF Item
    <3>1. delivered' \in Seq(Item)
      BY <1>8, <2>1 DEF Pop, TypeOK
    <3>2. Len(items') <= Capacity
      BY <1>8, <2>1 DEF Pop, TypeOK
    <3>3. QED BY <1>8, <2>1, <3>1, <3>2 DEF Pop, TypeOK
  <2>3. History'
    BY <1>8, <2>1 DEF Pop, History
  <2>4. WaitersPop' /\ NobodyBlockedWhenClosed'
    BY <1>8 DEF Pop, Awake, WaitersPop, NobodyBlockedWhenClosed
  <2>5. c \in Consumer \ Ended' /\ c \notin waiting'
    BY <1>8 DEF Pop, Awake, Ended, TypeOK
  <2>6. ItemNotified'
    BY <2>5 DEF ItemNotified
  <2>7. QED BY <2>2, <2>3, <2>4, <2>6
<1>9. ASSUME NEW c \in Consumer, End(c)
      PROVE  IInv'
  <2>1. TypeOK'
    BY <1>9 DEF End, TypeOK
  <2>2. History' /\ NobodyBlockedWhenClosed' /\ ItemNotified'
    BY <1>9 DEF End, Awake, History, NobodyBlockedWhenClosed, ItemNotified
  <2>3. WaitersPop'
    BY <1>9 DEF End, Awake, WaitersPop, TypeOK
  <2>4. QED BY <2>1, <2>2, <2>3
<1>10. ASSUME NEW k \in Closer, Close(k)
       PROVE  IInv'
  <2>1. TypeOK'
    BY <1>10 DEF Close, TypeOK
  <2>2. closer'[k] = "notify"
    BY <1>10 DEF Close, TypeOK
  <2>3. QED
    BY <1>10, <2>1, <2>2 DEF Close, History, WaitersPop, NobodyBlockedWhenClosed, ItemNotified
<1>11. ASSUME NEW k \in Closer, NotifyAll(k)
       PROVE  IInv'
  <2>1. TypeOK'
    BY <1>11 DEF NotifyAll, TypeOK
  <2>2. QED
    BY <1>11, <2>1 DEF NotifyAll, History, WaitersPop, NobodyBlockedWhenClosed, ItemNotified
<1>12. QED
  BY <1>1, <1>2, <1>3, <1>4, <1>5, <1>6, <1>7, <1>8, <1>9, <1>10, <1>11 DEF Next

(* The inductive invariant holds in every state of every behaviour of the  *)
(* queue, whatever the number of threads, the items and the capacity.      *)
THEOREM Invariance == Spec => []IInv
  BY InitHolds, StepHolds, PTL DEF Spec

(* The state of the queue keeps its type; it never outgrows its capacity.   *)
THEOREM TypeCorrect == Spec => []TypeOK
<1>1. IInv => TypeOK
  BY DEF IInv
<1>2. QED BY <1>1, Invariance, PTL

(* No consumer sleeps on an item, or on a closed queue, that nobody will    *)
(* tell it about.                                                           *)
THEOREM WakeupsNotLost == Spec => []NoLostWakeup
<1>1. IInv => NoLostWakeup
  BY DEF IInv, NoLostWakeup
<1>2. QED BY <1>1, Invariance, PTL
-----------------------------------------------------------------------------
(* The queue implements the bounded FIFO. *)

(* The empty, open queue is the empty, open FIFO.                          *)
LEMMA InitRefines == Init => Fifo!Init
  BY DEF Init, Fifo!Init, Ended

(* History ties the queue to what was pushed and popped: the items not yet *)
(* popped are those still in the deque, so the deque has room exactly when *)
(* the FIFO has.                                                           *)
LEMMA HistoryLength ==
  ASSUME IInv
  PROVE  /\ Len(accepted) - Len(delivered) = Len(items)
         /\ Len(items) \in Nat
         /\ items = <<>> <=> Len(items) = 0
  BY DEF IInv, TypeOK, History

(* Every critical section is an operation of the FIFO; notifying, blocking *)
(* and waking up are invisible to it.                                      *)
LEMMA StepRefines == IInv /\ [Next]_vars => [Fifo!Next]_(Fifo!fifoVars)
<1> SUFFICES ASSUME IInv, [Next]_vars
             PROVE  [Fifo!Next]_(Fifo!fifoVars)
  OBVIOUS
<1> USE DEF IInv
<1>1. CASE UNCHANGED vars
  BY <1>1 DEF vars, Fifo!fifoVars, Ended
<1>2. ASSUME NEW p \in Producer, Push(p)
      PROVE  Fifo!Next
  <2>1. offered' \in Item
    BY <1>2, QueueAssumption DEF Push, TypeOK, Item
  <2>2. Fifo!Accept(offered')
    BY <1>2, HistoryLength DEF Push, Fifo!Accept, Fifo!Load, Ended
  <2>3. QED BY <2>1, <2>2 DEF Fifo!Next
<1>3. ASSUME NEW p \in Producer, Refuse(p)
      PROVE  Fifo!Next
  <2>1. Fifo!Refuse
    BY <1>3, HistoryLength DEF Refuse, Fifo!Refuse, Fifo!Load, Ended
  <2>2. QED BY <2>1 DEF Fifo!Next
<1>4. ASSUME NEW p \in Producer, NotifyOne(p)
      PROVE  UNCHANGED Fifo!fifoVars
  BY <1>4 DEF NotifyOne, Fifo!fifoVars, Ended
<1>5. ASSUME NEW c \in Consumer, CallPop(c)
      PROVE  UNCHANGED Fifo!fifoVars
  BY <1>5 DEF CallPop, TypeOK, Fifo!fifoVars, Ended
<1>6. ASSUME NEW c \in Consumer, Block(c) \/ SpuriousWakeup(c)
      PROVE  UNCHANGED Fifo!fifoVars
  BY <1>6 DEF Block, SpuriousWakeup, Fifo!fifoVars, Ended
<1>7. ASSUME NEW c \in Consumer, Pop(c)
      PROVE  Fifo!Next
  <2>1. items # <<>> /\ delivered \in Seq(Item) /\ items \in Seq(Item)
    BY <1>7 DEF Pop, TypeOK
  <2>2. accepted[Len(delivered) + 1] = Head(items)
    <3> HIDE DEF Item
    <3>1. QED BY <2>1, MoveHead DEF History
  <2>3. Ended' = Ended
    BY <1>7 DEF Pop, Awake, TypeOK, Ended
  <2>4. Fifo!Deliver
    BY <1>7, <2>1, <2>2, <2>3, HistoryLength DEF Pop, Fifo!Deliver, Fifo!Load
  <2>5. QED BY <2>4 DEF Fifo!Next
<1>8. ASSUME NEW c \in Consumer, End(c)
      PROVE  Fifo!Next
  <2>1. Ended' = Ended \cup {c}
    BY <1>8 DEF End, TypeOK, Ended
  <2>2. Fifo!TellEnd(c)
    BY <1>8, <2>1, HistoryLength DEF End, Fifo!TellEnd, Fifo!Load
  <2>3. QED BY <2>2 DEF Fifo!Next
<1>9. ASSUME NEW k \in Closer, Close(k)
      PROVE  Fifo!Next
  <2>1. Fifo!Close
    BY <1>9 DEF Close, Fifo!Close, Ended
  <2>2. QED BY <2>1 DEF Fifo!Next
<1>10. ASSUME NEW k \in Closer, NotifyAll(k)
       PROVE  UNCHANGED Fifo!fifoVars
  BY <1>10 DEF NotifyAll, Fifo!fifoVars, Ended
<1>11. QED
  BY <1>1, <1>2, <1>3, <1>4, <1>5, <1>6, <1>7, <1>8, <1>9, <1>10 DEF Next

(* Every behaviour of the queue is one of the bounded FIFO.                 *)
THEOREM Refinement == Spec => ImplementsFifo
  BY InitRefines, StepRefines, Invariance, PTL DEF Spec, ImplementsFifo, Fifo!Spec
=============================================================================

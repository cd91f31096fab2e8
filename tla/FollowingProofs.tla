--------------------------- MODULE FollowingProofs ---------------------------
(***************************************************************************)
(* Proofs about the pending stream of the builder, and about Knight         *)
(* following it, for every set of submissions and of connections and any    *)
(* capacity of the queue.                                                   *)
(*                                                                          *)
(* First PendingStream alone.  Its safety properties are not inductive by   *)
(* themselves: that the snapshot boundary is in the past, that only dead    *)
(* connections are dropped and that a connection is in the set while its    *)
(* handler reads are what they rest on.                                     *)
(*                                                                          *)
(* Then Following: the builder's part of every step is a step of            *)
(* PendingStream, so that its theorems hold here too; the invariants of the *)
(* second part relate it to Knight's side.                                  *)
(***************************************************************************)
EXTENDS Following, TLAPS

\* Numbers given out, and boundaries answered, are not beyond the counter.
NumbersInPast ==
    /\ \A r \in Request : seqNum[r] <= lastSeqNum
    /\ \A c \in Client : snap[c].snapshotSeq <= lastSeqNum

\* The stages of a connection: nothing before accept(), closed once its
\* handler is gone, in the set and covered by a snapshot only after it was added.
ConnectionStages ==
    \A c \in Client :
        /\ handler[c] = "none" => conn[c] = "none"
        /\ handler[c] = "gone" => conn[c] = "closed"
        /\ c \in covered \cup subscribers => handler[c] \in {"reading", "gone"}

\* broadcast() lists as failed only connections that are closed.
FailedAreClosed == \A r \in Request : failed[r] \subseteq Closed

\* A record nobody submitted was sent to nobody.
UnsubmittedUnsent ==
    \A r \in Request : phase[r] = "new" => \A c \in Client : got[c][r] = 0

IInv ==
    /\ TypeOK
    /\ NumbersInPast
    /\ ConnectionStages
    /\ FailedAreClosed
    /\ UnsubmittedUnsent
    /\ SeqNumsDense
    /\ SnapshotPlusStreamComplete
    /\ StreamAtMostOnce
    /\ LiveRegistryExact

(***************************************************************************)
(* The variables keep their types under every step of every handler.        *)
(***************************************************************************)
LEMMA TypeStep == TypeOK /\ [Next]_vars => TypeOK'
<1> SUFFICES ASSUME TypeOK, [Next]_vars PROVE TypeOK'
  OBVIOUS
<1> USE OutcomeAssumption DEF TypeOK, MempoolTypeOK, Terminal, vars, mempoolVars, taskVars, clientVars, viewVars
<1>1. ASSUME NEW r \in Request, Submit(r) PROVE TypeOK'
  BY <1>1 DEF Submit, AddTransaction
<1>2. ASSUME NEW r \in Request, NEW c \in Client, StartSend(r, c) PROVE TypeOK'
  <2>1. got' \in [Client -> [Request -> Nat]]
    BY <1>2 DEF StartSend
  <2> QED BY <1>2, <2>1 DEF StartSend
<1>3. ASSUME NEW r \in Request, EndSend(r) PROVE TypeOK'
  BY <1>3 DEF EndSend
<1>4. ASSUME NEW r \in Request, FinishBroadcast(r) PROVE TypeOK'
  BY <1>4 DEF FinishBroadcast
<1>5. ASSUME NEW c \in Client, Accept(c) \/ Register(c) \/ HandlerDisconnect(c) \/ HandlerCrash(c)
      PROVE  TypeOK'
  BY <1>5 DEF Accept, Register, HandlerDisconnect, HandlerCrash
<1>6. ASSUME NEW c \in Client, Stall(c) \/ Drain(c) \/ Close(c)
      PROVE  TypeOK'
  <2>1. \E v \in {"open", "stalled", "closed"} : conn' = [conn EXCEPT ![c] = v]
    <3> HIDE DEF TypeOK, MempoolTypeOK
    <3> QED BY <1>6 DEF Stall, Drain, Close
  <2>2. UNCHANGED <<mempoolVars, taskVars, subscribers, handler, viewVars>>
    BY <1>6 DEF Stall, Drain, Close
  <2> QED BY <2>1, <2>2
<1>7. ASSUME NEW c \in Client, TakeSnapshot(c) PROVE TypeOK'
  <2>1. PendingSnapshot \in [snapshotSeq : Nat, transactions : SUBSET Request]
    BY DEF PendingSnapshot, Pending
  <2> QED BY <1>7, <2>1 DEF TakeSnapshot
<1>8. ASSUME NEW R \in SUBSET Request, NEW result \in [R -> Outcome], Mine(result) PROVE TypeOK'
  BY <1>8 DEF Mine, MarkMined
<1>9. CASE UNCHANGED vars
  BY <1>9
<1> QED BY <1>1, <1>2, <1>3, <1>4, <1>5, <1>6, <1>7, <1>8, <1>9 DEF Next

-----------------------------------------------------------------------------
(***************************************************************************)
(* A step of the mempool: what the three of its operations leave behind.    *)
(***************************************************************************)
LEMMA MempoolStep ==
    ASSUME TypeOK, [Next]_vars
    PROVE  \/ \E r \in Request : Submit(r)
           \/ /\ UNCHANGED <<lastSeqNum, seqNum>>
              /\ Pending' \subseteq Pending
              /\ Known' = Known
<1> USE OutcomeAssumption DEF TypeOK, MempoolTypeOK, Terminal, vars, mempoolVars, Pending, Known
<1>1. ASSUME NEW r \in Request, NEW c \in Client, StartSend(r, c)
      PROVE  UNCHANGED mempoolVars
  BY <1>1 DEF StartSend
<1>2. ASSUME NEW r \in Request, EndSend(r) \/ FinishBroadcast(r)
      PROVE  UNCHANGED mempoolVars
  BY <1>2 DEF EndSend, FinishBroadcast
<1>3. ASSUME NEW c \in Client, Accept(c) \/ Register(c) \/ HandlerDisconnect(c) \/ HandlerCrash(c)
      PROVE  UNCHANGED mempoolVars
  BY <1>3 DEF Accept, Register, HandlerDisconnect, HandlerCrash
<1>4. ASSUME NEW c \in Client, Stall(c) \/ Drain(c) \/ Close(c) \/ TakeSnapshot(c)
      PROVE  UNCHANGED mempoolVars
  BY <1>4 DEF Stall, Drain, Close, TakeSnapshot
<1>5. ASSUME NEW R \in SUBSET Request, NEW result \in [R -> Outcome], Mine(result)
      PROVE  /\ UNCHANGED <<lastSeqNum, seqNum>>
             /\ Pending' \subseteq Pending
             /\ Known' = Known
  <2>1. /\ UNCHANGED <<lastSeqNum, seqNum>>
        /\ DOMAIN result = R
        /\ R \subseteq Pending
        /\ \A r \in Request : status'[r] = IF r \in R THEN result[r] ELSE status[r]
    BY <1>5 DEF Mine, MarkMined
  <2>2. \A r \in R : result[r] \in {"included", "reverted", "missing"}
    OBVIOUS
  <2> QED BY <2>1, <2>2
<1>6. UNCHANGED mempoolVars => /\ UNCHANGED <<lastSeqNum, seqNum>>
                               /\ Pending' \subseteq Pending
                               /\ Known' = Known
  OBVIOUS
<1>7. UNCHANGED vars => UNCHANGED mempoolVars
  OBVIOUS
<1> HIDE DEF mempoolVars, vars, Pending, Known, TypeOK, MempoolTypeOK
<1> QED BY <1>1, <1>2, <1>3, <1>4, <1>5, <1>6, <1>7 DEF Next

(***************************************************************************)
(* The counter only grows, and only Submit moves it: numbers and snapshot   *)
(* boundaries stay in its past.                                             *)
(***************************************************************************)
LEMMA NumbersInPastStep == IInv /\ [Next]_vars => NumbersInPast'
<1> SUFFICES ASSUME IInv, [Next]_vars PROVE NumbersInPast'
  OBVIOUS
<1> USE DEF IInv, NumbersInPast, TypeOK, MempoolTypeOK
<1>1. \A r \in Request : seqNum'[r] <= lastSeqNum'
  <2>1. ASSUME NEW r \in Request, Submit(r) PROVE <1>1!:
    BY <2>1 DEF Submit, AddTransaction
  <2> QED BY <2>1, MempoolStep
<1>2. lastSeqNum <= lastSeqNum'
  <2>1. ASSUME NEW r \in Request, Submit(r) PROVE lastSeqNum <= lastSeqNum'
    BY <2>1 DEF Submit, AddTransaction
  <2> QED BY <2>1, MempoolStep
<1>3. \A c \in Client : snap'[c].snapshotSeq <= lastSeqNum'
  <2>1. ASSUME NEW c \in Client, TakeSnapshot(c) PROVE <1>3!:
    <3>1. lastSeqNum' = lastSeqNum
      BY <2>1 DEF TakeSnapshot, mempoolVars
    <3>2. ASSUME NEW d \in Client
          PROVE  snap'[d].snapshotSeq \in {lastSeqNum, snap[d].snapshotSeq}
      <4>1. snap' = [snap EXCEPT ![c] = PendingSnapshot]
        BY <2>1 DEF TakeSnapshot
      <4>3. DOMAIN snap = Client
        OBVIOUS
      <4>2. PendingSnapshot.snapshotSeq = lastSeqNum
        BY DEF PendingSnapshot
      <4> HIDE DEF IInv, NumbersInPast, TypeOK, MempoolTypeOK
      <4> QED BY <4>1, <4>2, <4>3
    <3>3. /\ lastSeqNum \in Nat
          /\ \A d \in Client : snap[d].snapshotSeq <= lastSeqNum
      OBVIOUS
    <3> HIDE DEF IInv, NumbersInPast, TypeOK, MempoolTypeOK
    <3> QED BY <3>1, <3>2, <3>3
  <2>2. CASE UNCHANGED snap
    <3>1. \A c \in Client : snap[c].snapshotSeq \in Nat
      OBVIOUS
    <3>2. lastSeqNum' \in Nat
      BY TypeStep
    <3> QED BY <2>2, <1>2, <3>1, <3>2
  <2>3. (\E c \in Client : TakeSnapshot(c)) \/ UNCHANGED snap
    BY DEF Next, vars, viewVars, Submit, StartSend, EndSend, FinishBroadcast, Accept,
           Register, HandlerDisconnect, HandlerCrash, Stall, Drain, Close, Mine
  <2> QED BY <2>1, <2>2, <2>3
<1> QED BY <1>1, <1>3

(***************************************************************************)
(* A connection only moves forward through its stages.                      *)
(***************************************************************************)
LEMMA ConnectionStagesStep == IInv /\ [Next]_vars => ConnectionStages'
<1> SUFFICES ASSUME IInv, [Next]_vars PROVE ConnectionStages'
  OBVIOUS
<1> USE DEF IInv, ConnectionStages, LiveRegistryExact, TypeOK, Live, Closed
<1>1. ASSUME NEW c \in Client, Accept(c) \/ Register(c) \/ HandlerDisconnect(c) \/ HandlerCrash(c)
      PROVE  ConnectionStages'
  BY <1>1 DEF Accept, Register, HandlerDisconnect, HandlerCrash, viewVars
<1>2. ASSUME NEW c \in Client, Stall(c) \/ Drain(c) \/ Close(c)
      PROVE  ConnectionStages'
  BY <1>2 DEF Stall, Drain, Close, viewVars
<1>3. ASSUME NEW c \in Client, TakeSnapshot(c) PROVE ConnectionStages'
  BY <1>3 DEF TakeSnapshot, clientVars
<1>4. CASE UNCHANGED <<handler, conn, covered>> /\ subscribers' \subseteq subscribers
  BY <1>4
<1>5. \/ \E c \in Client : \/ Accept(c) \/ Register(c) \/ HandlerDisconnect(c) \/ HandlerCrash(c)
                          \/ Stall(c) \/ Drain(c) \/ Close(c) \/ TakeSnapshot(c)
      \/ UNCHANGED <<handler, conn, covered>> /\ subscribers' \subseteq subscribers
  BY DEF Next, vars, viewVars, clientVars, Submit, StartSend, EndSend, FinishBroadcast, Mine
<1> QED BY <1>1, <1>2, <1>3, <1>4, <1>5

(***************************************************************************)
(* No step reopens a closed connection, and EndSend lists no other.         *)
(***************************************************************************)
LEMMA FailedAreClosedStep == IInv /\ [Next]_vars => FailedAreClosed'
<1> SUFFICES ASSUME IInv, [Next]_vars PROVE FailedAreClosed'
  OBVIOUS
<1> USE DEF IInv, FailedAreClosed, TypeOK, Closed, Live
<1>1. ASSUME NEW c \in Client, Accept(c) \/ Register(c) \/ HandlerDisconnect(c) \/ HandlerCrash(c)
      PROVE  FailedAreClosed'
  BY <1>1 DEF Accept, Register, HandlerDisconnect, HandlerCrash, taskVars, ConnectionStages
<1>2. ASSUME NEW c \in Client, Stall(c) \/ Drain(c) \/ Close(c)
      PROVE  FailedAreClosed'
  BY <1>2 DEF Stall, Drain, Close, taskVars
<1>3. ASSUME NEW r \in Request, EndSend(r) PROVE FailedAreClosed'
  BY <1>3 DEF EndSend, clientVars
<1>4. CASE UNCHANGED <<conn, failed>>
  BY <1>4
<1>5. \/ \E c \in Client : \/ Accept(c) \/ Register(c) \/ HandlerDisconnect(c) \/ HandlerCrash(c)
                          \/ Stall(c) \/ Drain(c) \/ Close(c)
      \/ \E r \in Request : EndSend(r)
      \/ UNCHANGED <<conn, failed>>
  BY DEF Next, vars, taskVars, clientVars, Submit, StartSend, FinishBroadcast, TakeSnapshot, Mine
<1> QED BY <1>1, <1>2, <1>3, <1>4, <1>5

(***************************************************************************)
(* Only StartSend writes to a client, and only for a broadcast under way.   *)
(***************************************************************************)
LEMMA UnsubmittedUnsentStep == IInv /\ [Next]_vars => UnsubmittedUnsent'
<1> SUFFICES ASSUME IInv, [Next]_vars PROVE UnsubmittedUnsent'
  OBVIOUS
<1> USE DEF IInv, UnsubmittedUnsent, TypeOK
<1>1. ASSUME NEW r \in Request, NEW c \in Client, StartSend(r, c)
      PROVE  UnsubmittedUnsent'
  BY <1>1 DEF StartSend
<1>2. ASSUME NEW r \in Request, Submit(r) \/ FinishBroadcast(r)
      PROVE  UnsubmittedUnsent'
  BY <1>2 DEF Submit, FinishBroadcast, viewVars
<1>3. CASE UNCHANGED <<phase, got>>
  BY <1>3
<1>4. \/ \E r \in Request : Submit(r) \/ FinishBroadcast(r) \/ \E c \in Client : StartSend(r, c)
      \/ UNCHANGED <<phase, got>>
  BY DEF Next, vars, taskVars, viewVars, EndSend, Accept, Register, HandlerDisconnect,
         HandlerCrash, Stall, Drain, Close, TakeSnapshot, Mine
<1> QED BY <1>1, <1>2, <1>3, <1>4

(***************************************************************************)
(* A new record takes the number after the last, the others keep theirs.    *)
(***************************************************************************)
LEMMA SeqNumsDenseStep == IInv /\ [Next]_vars => SeqNumsDense'
<1> SUFFICES ASSUME IInv, [Next]_vars PROVE SeqNumsDense'
  OBVIOUS
<1> USE DEF IInv, SeqNumsDense
<1>1. ASSUME NEW r \in Request, Submit(r) PROVE SeqNumsDense'
  <2> USE DEF TypeOK, MempoolTypeOK
  <2>1. /\ r \in Request \ Known
        /\ Known' = Known \cup {r}
        /\ lastSeqNum' = lastSeqNum + 1
        /\ seqNum'[r] = lastSeqNum + 1
        /\ \A s \in Request \ {r} : seqNum'[s] = seqNum[s]
    BY <1>1 DEF Submit, AddTransaction, Known
  <2>2. Known \subseteq Request
    BY DEF Known
  <2>3. \A s \in Known : seqNum'[s] = seqNum[s] /\ seqNum[s] \in 1..lastSeqNum
    BY <2>1, <2>2
  <2>4. {seqNum'[s] : s \in Known'} = {seqNum[s] : s \in Known} \cup {lastSeqNum + 1}
    <3>0. \A s \in Known : seqNum'[s] = seqNum[s]
      BY <2>3
    <3>1. {seqNum'[s] : s \in Known} = {seqNum[s] : s \in Known}
      <4> HIDE DEF IInv, SeqNumsDense, TypeOK, MempoolTypeOK
      <4> QED BY <3>0, Zenon
    <3>2. {seqNum'[s] : s \in Known'} = {seqNum'[s] : s \in Known} \cup {seqNum'[r]}
      BY <2>1
    <3> QED BY <2>1, <3>1, <3>2
  <2>5. 1..(lastSeqNum + 1) = 1..lastSeqNum \cup {lastSeqNum + 1}
    OBVIOUS
  <2>6. \A s, t \in Known' : seqNum'[s] = seqNum'[t] => s = t
    <3>1. lastSeqNum \in Nat /\ \A s \in Known : seqNum'[s] # lastSeqNum + 1
      BY <2>3
    <3>2. \A s, t \in Known : seqNum'[s] = seqNum'[t] => s = t
      BY <2>3
    <3> QED BY <2>1, <3>1, <3>2
  <2> QED BY <2>1, <2>4, <2>5, <2>6
<1>2. CASE Known' = Known /\ UNCHANGED <<lastSeqNum, seqNum>>
  BY <1>2
<1> QED BY <1>1, <1>2, MempoolStep

(***************************************************************************)
(* The registry follows the handlers: added on the way to reading, dropped  *)
(* by a handler or by a broadcast only when the connection is closed.       *)
(***************************************************************************)
LEMMA LiveRegistryExactStep == IInv /\ [Next]_vars => LiveRegistryExact'
<1> SUFFICES ASSUME IInv, [Next]_vars PROVE LiveRegistryExact'
  OBVIOUS
<1> USE DEF IInv, LiveRegistryExact, TypeOK, Live, Closed
<1>1. ASSUME NEW c \in Client, Accept(c) \/ Register(c) \/ HandlerDisconnect(c) \/ HandlerCrash(c)
      PROVE  LiveRegistryExact'
  <2>1. CASE Accept(c)
    BY <2>1 DEF Accept, ConnectionStages
  <2>2. CASE Register(c)
    BY <2>2 DEF Register
  <2>3. CASE HandlerDisconnect(c)
    BY <2>3 DEF HandlerDisconnect
  <2>4. CASE HandlerCrash(c)
    BY <2>4 DEF HandlerCrash
  <2> QED BY <1>1, <2>1, <2>2, <2>3, <2>4
<1>2. ASSUME NEW c \in Client, Stall(c) \/ Drain(c) \/ Close(c)
      PROVE  LiveRegistryExact'
  BY <1>2 DEF Stall, Drain, Close
<1>3. ASSUME NEW r \in Request, FinishBroadcast(r) PROVE LiveRegistryExact'
  BY <1>3 DEF FinishBroadcast, FailedAreClosed
<1>4. CASE UNCHANGED clientVars
  BY <1>4 DEF clientVars
<1>5. \/ \E c \in Client : \/ Accept(c) \/ Register(c) \/ HandlerDisconnect(c) \/ HandlerCrash(c)
                          \/ Stall(c) \/ Drain(c) \/ Close(c)
      \/ \E r \in Request : FinishBroadcast(r)
      \/ UNCHANGED clientVars
  BY DEF Next, vars, Submit, StartSend, EndSend, TakeSnapshot, Mine
<1> QED BY <1>1, <1>2, <1>3, <1>4, <1>5

(***************************************************************************)
(* A send takes the client off the list it is on, once per submission.      *)
(***************************************************************************)
LEMMA StreamAtMostOnceStep == IInv /\ [Next]_vars => StreamAtMostOnce'
<1> SUFFICES ASSUME IInv, [Next]_vars PROVE StreamAtMostOnce'
  OBVIOUS
<1> USE DEF IInv, StreamAtMostOnce, InFlight, TypeOK
<1>1. ASSUME NEW r \in Request, NEW c \in Client, StartSend(r, c)
      PROVE  StreamAtMostOnce'
  BY <1>1 DEF StartSend
<1>2. ASSUME NEW r \in Request, Submit(r) PROVE StreamAtMostOnce'
  BY <1>2 DEF Submit, UnsubmittedUnsent, viewVars
<1>3. CASE UNCHANGED <<todo, got>>
  BY <1>3
<1>4. \/ \E r \in Request : Submit(r) \/ \E c \in Client : StartSend(r, c)
      \/ UNCHANGED <<todo, got>>
  BY DEF Next, vars, taskVars, viewVars, EndSend, FinishBroadcast, Accept, Register,
         HandlerDisconnect, HandlerCrash, Stall, Drain, Close, TakeSnapshot, Mine
<1> QED BY <1>1, <1>2, <1>3, <1>4

(***************************************************************************)
(* The heart of the matter.  Submit gives a number beyond every boundary    *)
(* answered so far and lists every live covered client; a send moves a      *)
(* record from in flight to written; a snapshot contains all that is        *)
(* pending; nothing becomes pending again.                                  *)
(***************************************************************************)
LEMMA SnapshotPlusStreamCompleteStep == IInv /\ [Next]_vars => SnapshotPlusStreamComplete'
<1> SUFFICES ASSUME IInv, [Next]_vars PROVE SnapshotPlusStreamComplete'
  OBVIOUS
<1> DEFINE Follows(c, r) == IF seqNum[r] <= snap[c].snapshotSeq
                            THEN r \in snap[c].transactions
                            ELSE got[c][r] > 0 \/ c \in todo[r]
<1> SUFFICES ASSUME NEW c \in Client, c \in covered', c \in Live',
                    NEW r \in Request, r \in Pending'
             PROVE  Follows(c, r)'
  BY DEF SnapshotPlusStreamComplete, InFlight, Live, Pending
<1>0. c \in covered /\ c \in Live /\ r \in Pending => Follows(c, r)
  BY DEF IInv, SnapshotPlusStreamComplete, InFlight
<1> USE DEF IInv, TypeOK, MempoolTypeOK
<1>1. ASSUME NEW s \in Request, Submit(s) PROVE Follows(c, r)'
  <2>1. /\ c \in covered /\ c \in Live /\ snap' = snap /\ got' = got
        /\ todo' = [todo EXCEPT ![s] = subscribers]
        /\ seqNum' = [seqNum EXCEPT ![s] = lastSeqNum + 1]
        /\ status' = [status EXCEPT ![s] = "pending"]
    BY <1>1 DEF Submit, AddTransaction, viewVars, clientVars, Live
  <2>2. c \in subscribers
    BY <2>1 DEF LiveRegistryExact, ConnectionStages, Live
  <2>3. CASE r = s
    BY <2>1, <2>2, <2>3 DEF NumbersInPast
  <2>4. CASE r # s
    BY <1>0, <2>1, <2>4 DEF Pending
  <2> QED BY <2>3, <2>4
<1>2. ASSUME NEW s \in Request, NEW d \in Client, StartSend(s, d) PROVE Follows(c, r)'
  <2>1. /\ c \in covered /\ c \in Live /\ r \in Pending /\ snap' = snap /\ seqNum' = seqNum
        /\ todo' = [todo EXCEPT ![s] = @ \ {d}]
        /\ got' = IF d \in Live THEN [got EXCEPT ![d][s] = @ + 1] ELSE got
    BY <1>2 DEF StartSend, clientVars, mempoolVars, Live, Pending
  <2>2. got[c][r] \in Nat /\ got'[c][r] >= got[c][r]
    BY <2>1
  <2>3. CASE c = d /\ r = s
    BY <1>0, <2>1, <2>2, <2>3
  <2>4. CASE ~(c = d /\ r = s)
    BY <1>0, <2>1, <2>2, <2>4
  <2> QED BY <2>3, <2>4
<1>3. ASSUME NEW d \in Client, TakeSnapshot(d) PROVE Follows(c, r)'
  <2>1. /\ Live' = Live /\ Pending' = Pending
        /\ UNCHANGED <<seqNum, lastSeqNum, todo, got>>
        /\ snap' = [snap EXCEPT ![d] = PendingSnapshot]
        /\ c # d => c \in covered
    BY <1>3 DEF TakeSnapshot, clientVars, mempoolVars, taskVars, Live, Pending
  <2>2. CASE c = d
    BY <2>1, <2>2 DEF PendingSnapshot, NumbersInPast
  <2>3. CASE c # d
    BY <1>0, <2>1, <2>3
  <2> QED BY <2>2, <2>3
<1>4. ASSUME UNCHANGED <<todo, got, snap, covered>>, ~\E s \in Request : Submit(s)
      PROVE  Follows(c, r)'
  <2>1. r \in Pending /\ seqNum' = seqNum
    BY <1>4, MempoolStep
  <2>2. c \in Live
    <3>1. ASSUME NEW d \in Client, Accept(d) PROVE c \in Live
      BY <1>4, <3>1 DEF Accept, ConnectionStages, Live
    <3>2. ASSUME NEW d \in Client, \/ Register(d) \/ HandlerDisconnect(d) \/ HandlerCrash(d)
                                   \/ Stall(d) \/ Drain(d) \/ Close(d)
          PROVE  c \in Live
      BY <3>2 DEF Register, HandlerDisconnect, HandlerCrash, Stall, Drain, Close, Live
    <3>3. CASE UNCHANGED conn
      BY <3>3 DEF Live
    <3>4. \/ \E d \in Client : \/ Accept(d) \/ Register(d) \/ HandlerDisconnect(d)
                              \/ HandlerCrash(d) \/ Stall(d) \/ Drain(d) \/ Close(d)
          \/ UNCHANGED conn
      BY DEF Next, vars, clientVars, Submit, StartSend, EndSend, FinishBroadcast, TakeSnapshot, Mine
    <3> QED BY <3>1, <3>2, <3>3, <3>4
  <2> QED BY <1>0, <1>4, <2>1, <2>2
<1>5. \/ \E s \in Request : Submit(s) \/ \E d \in Client : StartSend(s, d)
      \/ \E d \in Client : TakeSnapshot(d)
      \/ UNCHANGED <<todo, got, snap, covered>>
  BY DEF Next, vars, taskVars, viewVars, EndSend, FinishBroadcast, Accept, Register,
         HandlerDisconnect, HandlerCrash, Stall, Drain, Close, Mine
<1> QED BY <1>1, <1>2, <1>3, <1>4, <1>5

-----------------------------------------------------------------------------
(***************************************************************************)
(* The inductive invariant holds at the start: nothing was submitted and    *)
(* nobody is connected.                                                     *)
(***************************************************************************)
LEMMA InitIInv == Init => IInv
<1> SUFFICES ASSUME Init PROVE IInv
  OBVIOUS
<1> USE DEF Init, MempoolInit
<1>1. TypeOK /\ NumbersInPast /\ ConnectionStages /\ FailedAreClosed /\ UnsubmittedUnsent
  BY DEF TypeOK, MempoolTypeOK, NumbersInPast, ConnectionStages, FailedAreClosed, UnsubmittedUnsent
<1>2. SeqNumsDense
  <2>1. Known = {}
    BY DEF Known
  <2>2. 1..lastSeqNum = {}
    OBVIOUS
  <2> QED BY <2>1, <2>2 DEF SeqNumsDense
<1>3. SnapshotPlusStreamComplete /\ StreamAtMostOnce /\ LiveRegistryExact
  BY DEF SnapshotPlusStreamComplete, StreamAtMostOnce, LiveRegistryExact, Live, InFlight
<1> QED BY <1>1, <1>2, <1>3 DEF IInv

(***************************************************************************)
(* The invariant holds in every behaviour: the conjunction of the lemmas.   *)
(***************************************************************************)
THEOREM Invariance == Spec => []IInv
<1>1. IInv /\ [Next]_vars => IInv'
  <2> SUFFICES ASSUME IInv, [Next]_vars PROVE IInv'
    OBVIOUS
  <2>1. TypeOK'
    BY TypeStep DEF IInv
  <2> QED BY <2>1, NumbersInPastStep, ConnectionStagesStep, FailedAreClosedStep,
             UnsubmittedUnsentStep, SeqNumsDenseStep, SnapshotPlusStreamCompleteStep,
             StreamAtMostOnceStep, LiveRegistryExactStep DEF IInv
<1> QED BY InitIInv, <1>1, PTL DEF Spec

(***************************************************************************)
(* Every variable of the public side keeps its type.                        *)
(***************************************************************************)
THEOREM TypeCorrect == Spec => []TypeOK
<1>1. IInv => TypeOK
  BY DEF IInv
<1> QED BY <1>1, Invariance, PTL

(***************************************************************************)
(* Records are numbered 1..lastSeqNum without hole or repetition.           *)
(***************************************************************************)
THEOREM SequenceNumbers == Spec => []SeqNumsDense
<1>1. IInv => SeqNumsDense
  BY DEF IInv
<1> QED BY <1>1, Invariance, PTL

(***************************************************************************)
(* A client that subscribes and then takes the snapshot misses no pending   *)
(* record, for any number of clients and of concurrent submissions.         *)
(***************************************************************************)
THEOREM NoPendingRecordMissed == Spec => []SnapshotPlusStreamComplete
<1>1. IInv => SnapshotPlusStreamComplete
  BY DEF IInv
<1> QED BY <1>1, Invariance, PTL

(***************************************************************************)
(* No record is sent twice to a client.                                     *)
(***************************************************************************)
THEOREM NoRecordSentTwice == Spec => []StreamAtMostOnce
<1>1. IInv => StreamAtMostOnce
  BY DEF IInv
<1> QED BY <1>1, Invariance, PTL

(***************************************************************************)
(* The broadcaster's set holds a working connection exactly while its       *)
(* handler reads.                                                           *)
(***************************************************************************)
THEOREM RegistryExact == Spec => []LiveRegistryExact
<1>1. IInv => LiveRegistryExact
  BY DEF IInv
<1> QED BY <1>1, Invariance, PTL
-----------------------------------------------------------------------------
(* Knight follows the builder. *)

FollowingTypeOK ==
    /\ main \in {"waiting", "requesting", "popping", "returned"}
    /\ source \in {"none", "opening", "open"}
    /\ link \subseteq Client
    /\ wire \in [Client -> Seq(Request)]
    /\ queue \in Seq(Request) /\ log \in Seq(Request)
    /\ snapshot \subseteq [snapshotSeq : Nat, transactions : SUBSET Request]
    /\ before \in [Request -> SUBSET Request]
    /\ cause \in [Request -> {"none", "dropped", "cut", "unheard"}]

\* Knight has one connection at a time, the only one that can be live; once it
\* was ready, it has had one.
OneConnection ==
    /\ \A c, d \in link : c = d
    /\ source = "none" <=> link = {}
    /\ Live \subseteq link
    /\ \A c \in link : handler[c] # "none"
    /\ main \in {"requesting", "popping"} => \E c \in Client : handler[c] # "none"
    /\ snapshot # {} => main = "popping"

\* A broadcast lists only connections that were accepted, before its answer.
Listed ==
    \A r \in Request : /\ todo[r] # {} => phase[r] = "sending"
                       /\ \A c \in todo[r] : handler[c] # "none"

\* Frames wait on Knight's connection only.
OtherWiresEmpty == \A c \in Client \ link : wire[c] = <<>>

\* A record on its way to the log was sent once, and is on no list any more.
Sent == {r \in Request : \E c \in Client : got[c][r] > 0}

SentOnce ==
    /\ ToSet(log) \cup ToSet(queue) \subseteq Sent
    /\ \A c \in link : Frames(c) \subseteq Sent
    /\ \A r \in Request : link \cap todo[r] # {} => r \notin Sent

\* The order of answers, within and between log, queue and wire.
Ordered(b, s) == \A j, k \in DOMAIN s : j < k => s[j] # s[k] /\ s[k] \notin b[s[j]]

Precedes(b, s, t) == \A x \in ToSet(s), y \in ToSet(t) : x # y /\ y \notin b[x]

InOrder ==
    /\ \A r \in Request : before[r] \subseteq Answered
    /\ Ordered(before, log) /\ Ordered(before, queue) /\ Precedes(before, log, queue)
    /\ \A c \in link : /\ Ordered(before, wire[c])
                       /\ Precedes(before, log, wire[c]) /\ Precedes(before, queue, wire[c])

FInv ==
    /\ FollowingTypeOK
    /\ OneConnection
    /\ Listed
    /\ OtherWiresEmpty
    /\ SentOnce
    /\ InOrder
    /\ MissesOnlyForCause
-----------------------------------------------------------------------------
(***************************************************************************)
(* The builder's part of a step is a step of PendingStream or none.         *)
(***************************************************************************)
LEMMA BuilderSteps == [FollowingNext]_followVars => [Next]_vars
<1> SUFFICES ASSUME [FollowingNext]_followVars PROVE [Next]_vars
  OBVIOUS
<1> USE DEF vars, builderVars
<1>1. ASSUME NEW r \in Request, Submission(r) PROVE [Next]_vars
  BY <1>1 DEF Submission, Next
<1>2. ASSUME NEW r \in Request, NEW c \in Client, Write(r, c) PROVE [Next]_vars
  BY <1>2 DEF Write, Next
<1>3. CASE BuilderMoves
  BY <1>3 DEF BuilderMoves, Next
<1>4. ASSUME NEW c \in Client, Connect(c) PROVE [Next]_vars
  BY <1>4 DEF Connect, Next
<1>5. CASE Opened \/ Disconnected \/ ReadFrame
  BY <1>5 DEF Opened, Disconnected, ReadFrame
<1>6. CASE Ready \/ WaitFails \/ SnapshotArrives \/ SnapshotFails \/ PopItem
  BY <1>6 DEF Ready, WaitFails, SnapshotArrives, SnapshotFails, PopItem, Main
<1>7. CASE UNCHANGED followVars
  BY <1>7 DEF followVars
<1> QED BY <1>1, <1>2, <1>3, <1>4, <1>5, <1>6, <1>7 DEF FollowingNext

(***************************************************************************)
(* With Knight on the other side the builder behaves as PendingStream says. *)
(***************************************************************************)
THEOREM BuilderFollowsSpec == FollowingSpec => Spec
<1>1. FollowingInit => Init
  BY DEF FollowingInit
<1> QED BY <1>1, BuilderSteps, PTL DEF FollowingSpec, Spec

(***************************************************************************)
(* What moves along the pipeline: one element more at the end, one less at  *)
(* the front.                                                               *)
(***************************************************************************)
LEMMA AppendFacts ==
    ASSUME NEW s \in Seq(Request), NEW r \in Request
    PROVE  /\ Append(s, r) \in Seq(Request)
           /\ DOMAIN Append(s, r) = DOMAIN s \cup {Len(s) + 1}
           /\ DOMAIN s = 1..Len(s) /\ Len(s) \in Nat
           /\ \A k \in DOMAIN s : Append(s, r)[k] = s[k] /\ s[k] \in Request
           /\ Append(s, r)[Len(s) + 1] = r
  OBVIOUS

(* The tail of a sequence: its length and its elements. *)
LEMMA TailFacts ==
    ASSUME NEW s \in Seq(Request), s # <<>>
    PROVE  /\ Tail(s) \in Seq(Request) /\ Head(s) \in Request
           /\ 1 \in DOMAIN s /\ Head(s) = s[1]
           /\ DOMAIN Tail(s) \subseteq Nat
           /\ \A k \in DOMAIN s : k \in Nat /\ (k = 1 \/ k - 1 \in DOMAIN Tail(s))
           /\ \A k \in DOMAIN Tail(s) : k + 1 \in DOMAIN s /\ Tail(s)[k] = s[k + 1] /\ k + 1 > 1
  OBVIOUS

(* What is in a sequence after an element is appended. *)
LEMMA ToSetOfAppend ==
    ASSUME NEW s \in Seq(Request), NEW r \in Request
    PROVE  ToSet(Append(s, r)) = ToSet(s) \cup {r}
<1>1. ToSet(Append(s, r)) \subseteq ToSet(s) \cup {r}
  BY AppendFacts DEF ToSet
<1>2. \A x \in ToSet(s) : x \in ToSet(Append(s, r))
  BY AppendFacts DEF ToSet
<1>3. r \in ToSet(Append(s, r))
  BY AppendFacts DEF ToSet
<1> QED BY <1>1, <1>2, <1>3

(* What is in a sequence that is not empty: its head and its tail. *)
LEMMA ToSetOfTail ==
    ASSUME NEW s \in Seq(Request), s # <<>>
    PROVE  ToSet(s) = ToSet(Tail(s)) \cup {Head(s)}
<1>1. ASSUME NEW x \in ToSet(s) PROVE x \in ToSet(Tail(s)) \cup {Head(s)}
  <2>1. PICK k \in DOMAIN s : x = s[k]
    BY <1>1 DEF ToSet
  <2>2. CASE k = 1
    BY <2>1, <2>2, TailFacts
  <2>3. CASE k # 1
    <3>1. k - 1 \in DOMAIN Tail(s) /\ k \in Nat
      BY <2>1, <2>3, TailFacts
    <3>2. Tail(s)[k - 1] = s[(k - 1) + 1]
      BY <3>1, TailFacts
    <3>3. (k - 1) + 1 = k
      BY <3>1
    <3> QED BY <2>1, <3>1, <3>2, <3>3 DEF ToSet
  <2> QED BY <2>2, <2>3
<1>2. ToSet(Tail(s)) \cup {Head(s)} \subseteq ToSet(s)
  BY TailFacts DEF ToSet
<1> QED BY <1>1, <1>2
-----------------------------------------------------------------------------
(***************************************************************************)
(* The types of Knight's side.                                              *)
(***************************************************************************)
LEMMA BlameType ==
    ASSUME NEW R, NEW why \in {"dropped", "cut", "unheard"}, Blame(R, why),
           cause \in [Request -> {"none", "dropped", "cut", "unheard"}]
    PROVE  cause' \in [Request -> {"none", "dropped", "cut", "unheard"}]
  BY DEF Blame

(* Every step keeps the types. *)
LEMMA FollowingTypeStep ==
    TypeOK /\ FollowingTypeOK /\ [FollowingNext]_followVars => FollowingTypeOK'
<1> SUFFICES ASSUME TypeOK, FollowingTypeOK, [FollowingNext]_followVars PROVE FollowingTypeOK'
  OBVIOUS
<1> USE DEF FollowingTypeOK
<1>1. ASSUME NEW r \in Request, Submission(r) PROVE FollowingTypeOK'
  <2>1. cause' \in [Request -> {"none", "dropped", "cut", "unheard"}]
    BY <1>1, BlameType DEF Submission
  <2>2. before' \in [Request -> SUBSET Request]
    BY <1>1 DEF Submission, Answered
  <2> QED BY <1>1, <2>1, <2>2 DEF Submission, knightVars
<1>2. ASSUME NEW r \in Request, NEW c \in Client, Write(r, c) PROVE FollowingTypeOK'
  <2>1. cause' \in [Request -> {"none", "dropped", "cut", "unheard"}]
    BY <1>2, BlameType DEF Write
  <2>2. wire' \in [Client -> Seq(Request)]
    BY <1>2, AppendFacts DEF Write
  <2> QED BY <1>2, <2>1, <2>2 DEF Write, knightVars
<1>3. CASE BuilderMoves
  BY <1>3 DEF BuilderMoves, knightVars
<1>4. ASSUME NEW c \in Client, Connect(c) PROVE FollowingTypeOK'
  BY <1>4 DEF Connect
<1>5. CASE Opened
  BY <1>5 DEF Opened
<1>6. CASE Disconnected
  <2>1. PICK c \in link \cap Closed :
            /\ source' = "none" /\ link' = {}
            /\ wire' = [wire EXCEPT ![c] = <<>>]
            /\ Blame(Frames(c) \cup {r \in Request : c \in todo[r]}, "cut")
            /\ UNCHANGED <<builderVars, main, queue, snapshot, log, before>>
    BY <1>6 DEF Disconnected
  <2>2. cause' \in [Request -> {"none", "dropped", "cut", "unheard"}]
    BY <2>1, BlameType
  <2>3. wire' \in [Client -> Seq(Request)]
    BY <2>1
  <2> QED BY <2>1, <2>2, <2>3
<1>7. CASE ReadFrame
  <2>1. PICK c \in link :
            /\ source = "open" /\ wire[c] # <<>>
            /\ wire' = [wire EXCEPT ![c] = Tail(@)]
            /\ IF Len(queue) < Capacity
               THEN queue' = Append(queue, Head(wire[c])) /\ UNCHANGED cause
               ELSE Blame({Head(wire[c])}, "dropped") /\ UNCHANGED queue
            /\ UNCHANGED <<builderVars, main, source, link, snapshot, log, before>>
    BY <1>7 DEF ReadFrame
  <2>2. wire[c] \in Seq(Request) /\ Tail(wire[c]) \in Seq(Request) /\ Head(wire[c]) \in Request
    BY <2>1, TailFacts
  <2>3. cause' \in [Request -> {"none", "dropped", "cut", "unheard"}]
    BY <2>1, BlameType
  <2>4. queue' = Append(queue, Head(wire[c])) \/ queue' = queue
    BY <2>1
  <2>6. queue' \in Seq(Request)
    <3>1. Append(queue, Head(wire[c])) \in Seq(Request)
      BY <2>2, AppendFacts
    <3> QED BY <2>4, <3>1
  <2>5. wire' \in [Client -> Seq(Request)]
    BY <2>1, <2>2
  <2> QED BY <2>1, <2>3, <2>5, <2>6
<1>8. CASE Ready \/ WaitFails \/ SnapshotFails
  BY <1>8 DEF Ready, WaitFails, SnapshotFails, Main
<1>9. CASE SnapshotArrives
  <2>1. PendingSnapshot \in [snapshotSeq : Nat, transactions : SUBSET Request]
    BY DEF PendingSnapshot, Pending, TypeOK, MempoolTypeOK
  <2> QED BY <1>9, <2>1 DEF SnapshotArrives, Main
<1>10. CASE PopItem
  <2>1. Head(queue) \in Request /\ Tail(queue) \in Seq(Request)
    BY <1>10, TailFacts DEF PopItem
  <2> QED BY <1>10, <2>1 DEF PopItem, Main
<1>11. CASE UNCHANGED followVars
  BY <1>11 DEF followVars, knightVars
<1> QED BY <1>1, <1>2, <1>3, <1>4, <1>5, <1>6, <1>7, <1>8, <1>9, <1>10, <1>11 DEF FollowingNext

(***************************************************************************)
(* Knight's side of a step leaves the connections and the broadcasts alone. *)
(***************************************************************************)
LEMMA KnightMoves ==
    ASSUME Opened \/ Ready \/ WaitFails \/ SnapshotArrives \/ SnapshotFails \/ PopItem
              \/ ReadFrame \/ Disconnected \/ UNCHANGED followVars
    PROVE  UNCHANGED <<status, subscribers, handler, conn, phase, todo, got>>
  BY DEF Opened, Ready, WaitFails, SnapshotArrives, SnapshotFails, PopItem, Main, ReadFrame,
         Disconnected, followVars, builderVars, mempoolVars, taskVars, clientVars, viewVars

(***************************************************************************)
(* The builder's other steps leave Knight, the lists of the broadcasts and  *)
(* what was written alone; no record becomes pending.                       *)
(***************************************************************************)
LEMMA BuilderMovesFacts ==
    ASSUME TypeOK, BuilderMoves
    PROVE  /\ UNCHANGED <<wire, main, source, link, queue, snapshot, log, before, cause>>
           /\ UNCHANGED <<todo, got>>
           /\ \A r \in Request : phase[r] # "new" <=> phase'[r] # "new"
           /\ \A r \in Request : phase[r] = "done" => phase'[r] = "done"
           /\ \A r \in Request : todo[r] # {} => phase'[r] = phase[r]
           /\ \A c \in Client : handler[c] = "none" <=> handler'[c] = "none"
           /\ Live' \subseteq Live
           /\ Pending' \subseteq Pending
<1> USE DEF TypeOK, MempoolTypeOK, Live, Pending, mempoolVars, taskVars, clientVars, viewVars, knightVars
<1>1. UNCHANGED <<wire, main, source, link, queue, snapshot, log, before, cause>>
  BY DEF BuilderMoves
<1>2. ASSUME NEW r \in Request, EndSend(r) \/ FinishBroadcast(r)
      PROVE  /\ UNCHANGED <<todo, got, handler, conn, status>>
             /\ \A q \in Request : phase[q] # "new" <=> phase'[q] # "new"
             /\ \A q \in Request : phase[q] = "done" => phase'[q] = "done"
             /\ \A q \in Request : todo[q] # {} => phase'[q] = phase[q]
  BY <1>2 DEF EndSend, FinishBroadcast
<1>3. ASSUME NEW c \in Client, Register(c) \/ HandlerDisconnect(c) \/ Close(c)
      PROVE  /\ UNCHANGED <<todo, got, phase, status>>
             /\ \A d \in Client : handler[d] = "none" <=> handler'[d] = "none"
             /\ \A d \in Client : conn'[d] \in {"open", "stalled"} => conn[d] \in {"open", "stalled"}
  BY <1>3 DEF Register, HandlerDisconnect, Close
<1>4. ASSUME NEW R \in SUBSET Request, NEW result \in [R -> Outcome], Mine(result)
      PROVE  UNCHANGED <<todo, got, phase, handler, conn>> /\ Pending' \subseteq Pending
  <2>1. "pending" \notin Outcome
    BY OutcomeAssumption DEF Terminal
  <2>2. UNCHANGED <<todo, got, phase, handler, conn>> /\ MarkMined(result)
    BY <1>4 DEF Mine
  <2>3. \A q \in Request : status'[q] = "pending" => status[q] = "pending"
    BY <2>1, <2>2 DEF MarkMined
  <2> QED BY <2>2, <2>3
<1> QED BY <1>1, <1>2, <1>3, <1>4 DEF BuilderMoves

(***************************************************************************)
(* A record that is submitted was in no list and becomes pending.           *)
(***************************************************************************)
LEMMA SubmissionFacts ==
    ASSUME TypeOK, NEW r \in Request, Submission(r)
    PROVE  /\ UNCHANGED <<wire, main, source, link, queue, snapshot, log, got>>
           /\ UNCHANGED <<handler, conn, subscribers>>
           /\ phase[r] = "new" /\ phase'[r] # "new"
           /\ todo' = [todo EXCEPT ![r] = subscribers]
           /\ subscribers # {} => phase'[r] = "sending"
           /\ \A q \in Request \ {r} : phase'[q] = phase[q] /\ before'[q] = before[q]
           /\ Pending' = Pending \cup {r}
           /\ Live' = Live
<1> USE DEF TypeOK, MempoolTypeOK, Submission, Submit, knightVars, clientVars, viewVars
<1>1. before' = [before EXCEPT ![r] = Answered]
  OBVIOUS
<1>2. \A q \in Request \ {r} : before'[q] = before[q]
  BY <1>1
<1>3. Pending' = Pending \cup {r}
  BY DEF AddTransaction, Pending
<1>4. phase' = [phase EXCEPT ![r] = IF subscribers = {} THEN "done" ELSE "sending"]
  OBVIOUS
<1>5. Live' = Live
  BY DEF Live
<1> QED BY <1>2, <1>3, <1>4, <1>5
-----------------------------------------------------------------------------
(***************************************************************************)
(* Knight has one connection at a time, and no other is live.               *)
(***************************************************************************)
LEMMA OneConnectionStep ==
    IInv /\ FInv /\ [FollowingNext]_followVars => OneConnection'
<1> SUFFICES ASSUME IInv, FInv, [FollowingNext]_followVars PROVE OneConnection'
  OBVIOUS
<1>0. TypeOK /\ ConnectionStages /\ OneConnection /\ link \subseteq Client
  BY DEF IInv, FInv, FollowingTypeOK
<1> USE <1>0 DEF OneConnection
<1>1. ASSUME NEW r \in Request, Submission(r) PROVE OneConnection'
  BY <1>1, SubmissionFacts
<1>2. ASSUME NEW r \in Request, NEW c \in Client, Write(r, c) PROVE OneConnection'
  BY <1>2 DEF Write, StartSend, knightVars, clientVars, Live
<1>3. CASE BuilderMoves
  BY <1>3, BuilderMovesFacts
<1>4. ASSUME NEW c \in Client, Connect(c) PROVE OneConnection'
  <2>1. source = "none" /\ source' = "opening" /\ link = {} /\ link' = {c}
    BY <1>4 DEF Connect
  <2>2. handler' = [handler EXCEPT ![c] = "accepting"] /\ conn' = [conn EXCEPT ![c] = "open"]
    BY <1>4 DEF Connect, Accept
  <2>3. Live = {}
    BY <2>1
  <2>4. Live' \subseteq {c}
    BY <2>2, <2>3 DEF Live, TypeOK
  <2>5. handler'[c] # "none" /\ \A d \in Client : handler[d] # "none" => handler'[d] # "none"
    BY <2>2 DEF TypeOK
  <2>6. UNCHANGED <<main, snapshot>>
    BY <1>4 DEF Connect
  <2> QED BY <2>1, <2>4, <2>5, <2>6
<1>5. CASE Disconnected
  <2>1. PICK c \in link \cap Closed : source' = "none" /\ link' = {} /\ UNCHANGED <<main, snapshot>>
    BY <1>5 DEF Disconnected
  <2>2. Live = {}
    BY <2>1 DEF Live, Closed
  <2>3. UNCHANGED <<handler, conn>>
    BY <1>5, KnightMoves
  <2> QED BY <2>1, <2>2, <2>3 DEF Live
<1>6. ASSUME UNCHANGED <<handler, conn, source, link>>,
             main' \in {"requesting", "popping"} =>
                 main \in {"requesting", "popping"} \/ link # {},
             snapshot' # {} => main' = "popping"
      PROVE  OneConnection'
  BY <1>6 DEF Live
<1>7. CASE Opened
  <2>1. UNCHANGED <<handler, conn, link, main, snapshot>> /\ source = "opening" /\ source' = "open"
    BY <1>7, KnightMoves DEF Opened
  <2> QED BY <2>1 DEF Live
<1>8. CASE ReadFrame \/ UNCHANGED followVars
  <2>1. UNCHANGED <<handler, conn, source, link, main, snapshot>>
    BY <1>8, KnightMoves DEF ReadFrame, followVars, knightVars
  <2> QED BY <1>6, <2>1
<1>9. CASE Ready \/ WaitFails \/ SnapshotArrives \/ SnapshotFails \/ PopItem
  <2>1. UNCHANGED <<handler, conn, source, link>>
    BY <1>9, KnightMoves DEF Ready, WaitFails, SnapshotArrives, SnapshotFails, PopItem, Main
  <2>2. main' \in {"requesting", "popping"} => main \in {"requesting", "popping"} \/ link # {}
    BY <1>9 DEF Ready, WaitFails, SnapshotArrives, SnapshotFails, PopItem, Main
  <2>3. snapshot' # {} => main' = "popping"
    BY <1>9 DEF Ready, WaitFails, SnapshotArrives, SnapshotFails, PopItem, Main
  <2> QED BY <1>6, <2>1, <2>2, <2>3
<1> QED BY <1>1, <1>2, <1>3, <1>4, <1>5, <1>7, <1>8, <1>9 DEF FollowingNext

(***************************************************************************)
(* Broadcasts list connections that were accepted, before they are over.    *)
(***************************************************************************)
LEMMA ListedStep == IInv /\ FInv /\ [FollowingNext]_followVars => Listed'
<1> SUFFICES ASSUME IInv, FInv, [FollowingNext]_followVars PROVE Listed'
  OBVIOUS
<1>0. TypeOK /\ ConnectionStages /\ Listed
  BY DEF IInv, FInv
<1> USE <1>0 DEF Listed
<1>1. ASSUME NEW r \in Request, Submission(r) PROVE Listed'
  <2>1. \A c \in subscribers : handler[c] # "none"
    BY DEF ConnectionStages, TypeOK
  <2>2. UNCHANGED handler /\ todo' = [todo EXCEPT ![r] = subscribers]
        /\ (subscribers # {} => phase'[r] = "sending")
        /\ \A q \in Request \ {r} : phase'[q] = phase[q]
    BY <1>1, SubmissionFacts
  <2> QED BY <2>1, <2>2 DEF TypeOK
<1>2. ASSUME NEW r \in Request, NEW c \in Client, Write(r, c) PROVE Listed'
  <2>1. todo' = [todo EXCEPT ![r] = @ \ {c}] /\ UNCHANGED <<handler, phase>>
    BY <1>2 DEF Write, StartSend, clientVars
  <2>2. \A q \in Request : todo'[q] \subseteq todo[q]
    BY <2>1 DEF TypeOK
  <2> QED BY <2>1, <2>2 DEF TypeOK
<1>3. CASE BuilderMoves
  BY <1>3, BuilderMovesFacts DEF TypeOK
<1>4. ASSUME NEW c \in Client, Connect(c) PROVE Listed'
  <2>1. UNCHANGED <<phase, todo>> /\ handler' = [handler EXCEPT ![c] = "accepting"]
    BY <1>4 DEF Connect, Accept, taskVars
  <2> QED BY <2>1 DEF TypeOK
<1>5. CASE UNCHANGED <<handler, phase, todo>>
  BY <1>5
<1> QED BY <1>1, <1>2, <1>3, <1>4, <1>5, KnightMoves DEF FollowingNext

(***************************************************************************)
(* Frames wait on Knight's connection only.                                 *)
(***************************************************************************)
LEMMA OtherWiresEmptyStep == IInv /\ FInv /\ [FollowingNext]_followVars => OtherWiresEmpty'
<1> SUFFICES ASSUME IInv, FInv, [FollowingNext]_followVars PROVE OtherWiresEmpty'
  OBVIOUS
<1>0. FollowingTypeOK /\ TypeOK /\ OneConnection /\ OtherWiresEmpty
  BY DEF IInv, FInv
<1> USE <1>0 DEF OtherWiresEmpty
<1>1. ASSUME UNCHANGED <<wire, link>> PROVE OtherWiresEmpty'
  BY <1>1
<1>2. ASSUME NEW r \in Request, NEW c \in Client, Write(r, c) PROVE OtherWiresEmpty'
  <2>1. c \notin link => wire' = wire
    BY <1>2 DEF Write, OneConnection
  <2>2. \A d \in Client \ {c} : wire'[d] = wire[d]
    BY <1>2 DEF Write, FollowingTypeOK
  <2>3. UNCHANGED link
    BY <1>2 DEF Write, knightVars
  <2> QED BY <2>1, <2>2, <2>3
<1>3. ASSUME NEW c \in Client, Connect(c) PROVE OtherWiresEmpty'
  BY <1>3 DEF Connect, OneConnection
<1>4. CASE Disconnected
  <2>1. PICK c \in link \cap Closed : link' = {} /\ wire' = [wire EXCEPT ![c] = <<>>]
    BY <1>4 DEF Disconnected
  <2>2. \A d \in link : d = c
    BY <2>1 DEF OneConnection
  <2> QED BY <2>1, <2>2 DEF FollowingTypeOK
<1>5. CASE ReadFrame
  <2>1. PICK c \in link : UNCHANGED link /\ wire' = [wire EXCEPT ![c] = Tail(@)]
    BY <1>5 DEF ReadFrame
  <2> QED BY <2>1 DEF FollowingTypeOK
<1>6. CASE Opened \/ Ready \/ WaitFails \/ SnapshotArrives \/ SnapshotFails \/ PopItem
  BY <1>1, <1>6 DEF Opened, Ready, WaitFails, SnapshotArrives, SnapshotFails, PopItem, Main
<1>7. CASE BuilderMoves \/ UNCHANGED followVars
  BY <1>1, <1>7, BuilderMovesFacts DEF followVars, knightVars
<1>8. ASSUME NEW r \in Request, Submission(r) PROVE OtherWiresEmpty'
  BY <1>1, <1>8, SubmissionFacts
<1> QED BY <1>2, <1>3, <1>4, <1>5, <1>6, <1>7, <1>8 DEF FollowingNext
-----------------------------------------------------------------------------
(***************************************************************************)
(* A blame stays, and reaches all it is for.                                *)
(***************************************************************************)
LEMMA BlameFacts ==
    ASSUME NEW R, NEW why \in {"dropped", "cut", "unheard"}, Blame(R, why), NEW q \in Request
    PROVE  /\ cause[q] # "none" => cause'[q] # "none"
           /\ q \in R /\ snapshot # {} => cause'[q] # "none"
  BY DEF Blame

(***************************************************************************)
(* What is in view stays in view, or its loss has a cause.                  *)
(***************************************************************************)
LEMMA MissesStep == IInv /\ FInv /\ [FollowingNext]_followVars => MissesOnlyForCause'
<1> SUFFICES ASSUME IInv, FInv, [FollowingNext]_followVars, snapshot' # {},
                    NEW q \in Request, q \in Pending'
             PROVE  InView(q)' \/ cause'[q] # "none"
  BY DEF MissesOnlyForCause, Pending
<1>0. /\ TypeOK /\ FollowingTypeOK /\ OneConnection
      /\ snapshot # {} /\ q \in Pending => InView(q) \/ cause[q] # "none"
  BY DEF IInv, FInv, MissesOnlyForCause
<1> USE <1>0
<1>1. ASSUME UNCHANGED <<snapshot, log, queue>>, q \in Pending,
             cause[q] # "none" => cause'[q] # "none",
             OnItsWay(q) => OnItsWay(q)' \/ cause'[q] # "none"
      PROVE  InView(q)' \/ cause'[q] # "none"
  BY <1>1 DEF InView
<1>2. ASSUME NEW r \in Request, Submission(r) PROVE InView(q)' \/ cause'[q] # "none"
  <2>1. UNCHANGED <<wire, main, link, snapshot, log, queue>>
        /\ todo' = [todo EXCEPT ![r] = subscribers] /\ Pending' = Pending \cup {r}
    BY <1>2, SubmissionFacts
  <2>2. Blame(IF Reconnecting THEN {r} ELSE {}, "unheard")
    BY <1>2 DEF Submission
  <2>3. CASE q = r
    <3>1. CASE link \cap subscribers # {}
      <4>1. OnItsWay(q)'
        BY <2>1, <2>3, <3>1 DEF OnItsWay, TypeOK
      <4> QED BY <4>1 DEF InView
    <3>2. CASE link \cap subscribers = {}
      <4>1. Reconnecting
        BY <2>1, <3>2 DEF Reconnecting, OneConnection
      <4> QED BY <2>1, <2>2, <2>3, <4>1, BlameFacts
    <3> QED BY <3>1, <3>2
  <2>4. CASE q # r
    <3>1. q \in Pending /\ todo'[q] = todo[q]
      BY <2>1, <2>4 DEF TypeOK
    <3>2. OnItsWay(q) => OnItsWay(q)'
      BY <2>1, <3>1 DEF OnItsWay, Frames
    <3>3. cause[q] # "none" => cause'[q] # "none"
      BY <2>2, BlameFacts
    <3> QED BY <1>1, <2>1, <3>1, <3>2, <3>3
  <2> QED BY <2>3, <2>4
<1>3. ASSUME NEW r \in Request, NEW c \in Client, Write(r, c)
      PROVE  InView(q)' \/ cause'[q] # "none"
  <2>1. /\ UNCHANGED <<status, snapshot, log, queue, link>>
        /\ todo' = [todo EXCEPT ![r] = @ \ {c}]
        /\ wire' = IF c \in Live THEN [wire EXCEPT ![c] = Append(@, r)] ELSE wire
        /\ Blame(IF c \in link \ Live THEN {r} ELSE {}, "cut")
    BY <1>3 DEF Write, StartSend, knightVars, mempoolVars
  <2>2. cause[q] # "none" => cause'[q] # "none"
    BY <2>1, BlameFacts
  <2>3. \A d \in Client : q \in Frames(d) => q \in Frames(d)'
    <3>1. ToSet(Append(wire[c], r)) = ToSet(wire[c]) \cup {r}
      BY ToSetOfAppend DEF FollowingTypeOK
    <3> QED BY <2>1, <3>1 DEF Frames, FollowingTypeOK
  <2>4. ASSUME NEW d \in link, d \in todo[q] PROVE OnItsWay(q)' \/ cause'[q] # "none"
    <3>1. CASE d = c /\ q = r /\ c \in Live
      <4>1. q \in ToSet(Append(wire[c], r))
        BY <3>1, ToSetOfAppend DEF FollowingTypeOK
      <4>2. wire'[c] = Append(wire[c], r)
        BY <2>1, <3>1 DEF FollowingTypeOK
      <4> QED BY <2>1, <2>4, <3>1, <4>1, <4>2 DEF OnItsWay, Frames
    <3>2. CASE d = c /\ q = r /\ c \notin Live
      BY <2>1, <2>4, <3>2, BlameFacts DEF OneConnection
    <3>3. CASE d # c \/ q # r
      <4>1. d \in todo'[q]
        BY <2>1, <2>4, <3>3 DEF TypeOK
      <4> QED BY <2>1, <2>4, <4>1 DEF OnItsWay
    <3> QED BY <3>1, <3>2, <3>3
  <2>5. OnItsWay(q) => OnItsWay(q)' \/ cause'[q] # "none"
    BY <2>1, <2>3, <2>4 DEF OnItsWay, FollowingTypeOK
  <2>6. q \in Pending
    BY <2>1 DEF Pending
  <2> QED BY <1>1, <2>1, <2>2, <2>5, <2>6
<1>4. CASE BuilderMoves
  <2>1. q \in Pending /\ UNCHANGED <<wire, link, snapshot, log, queue, cause, todo>>
    BY <1>4, BuilderMovesFacts
  <2>2. OnItsWay(q)' <=> OnItsWay(q)
    BY <2>1 DEF OnItsWay, Frames
  <2> QED BY <1>1, <2>1, <2>2
<1>5. ASSUME NEW c \in Client, Connect(c) PROVE InView(q)' \/ cause'[q] # "none"
  <2>1. UNCHANGED <<snapshot, log, queue, cause, status>> /\ link = {}
    BY <1>5 DEF Connect, Accept, OneConnection, mempoolVars
  <2> QED BY <1>1, <2>1 DEF Pending, OnItsWay
<1>6. CASE Disconnected
  <2>1. PICK c \in link \cap Closed :
            /\ link' = {}
            /\ Blame(Frames(c) \cup {r \in Request : c \in todo[r]}, "cut")
            /\ UNCHANGED <<snapshot, log, queue>>
    BY <1>6 DEF Disconnected
  <2>2. \A d \in link : d = c
    BY <2>1 DEF OneConnection
  <2>3. cause[q] # "none" => cause'[q] # "none"
    BY <2>1, BlameFacts
  <2>4. OnItsWay(q) => cause'[q] # "none"
    BY <2>1, <2>2, BlameFacts DEF OnItsWay
  <2>5. q \in Pending
    BY <1>6, KnightMoves DEF Pending
  <2> QED BY <1>1, <2>1, <2>3, <2>4, <2>5
<1>7. CASE ReadFrame
  <2>1. PICK c \in link :
            /\ wire[c] # <<>>
            /\ wire' = [wire EXCEPT ![c] = Tail(@)]
            /\ IF Len(queue) < Capacity
               THEN queue' = Append(queue, Head(wire[c])) /\ UNCHANGED cause
               ELSE Blame({Head(wire[c])}, "dropped") /\ UNCHANGED queue
            /\ UNCHANGED <<link, snapshot, log>>
    BY <1>7 DEF ReadFrame
  <2>2. q \in Pending /\ UNCHANGED todo
    BY <1>7, KnightMoves DEF Pending
  <2>3. wire[c] \in Seq(Request) /\ Head(wire[c]) \in Request
    BY <2>1, TailFacts DEF FollowingTypeOK
  <2>4. ToSet(wire[c]) = ToSet(Tail(wire[c])) \cup {Head(wire[c])}
    BY <2>1, <2>3, ToSetOfTail
  <2>5. wire'[c] = Tail(wire[c]) /\ \A d \in link : d = c
    BY <2>1 DEF FollowingTypeOK, OneConnection
  <2>6. OnItsWay(q) => OnItsWay(q)' \/ q = Head(wire[c])
    BY <2>1, <2>2, <2>4, <2>5 DEF OnItsWay, Frames
  <2>7. CASE Len(queue) < Capacity
    <3>1. ToSet(queue') = ToSet(queue) \cup {Head(wire[c])} /\ UNCHANGED cause
      BY <2>1, <2>3, <2>7, ToSetOfAppend DEF FollowingTypeOK
    <3> QED BY <2>1, <2>2, <2>6, <3>1 DEF InView
  <2>8. CASE ~(Len(queue) < Capacity)
    <3>1. Blame({Head(wire[c])}, "dropped") /\ UNCHANGED queue
      BY <2>1, <2>8
    <3> QED BY <1>1, <2>1, <2>2, <2>6, <3>1, BlameFacts
  <2> QED BY <2>7, <2>8
<1>8. CASE SnapshotArrives
  <2>1. snapshot' = {PendingSnapshot} /\ q \in Pending
    BY <1>8, KnightMoves DEF SnapshotArrives, Pending
  <2>2. \E s \in snapshot' : q \in s.transactions
    BY <2>1 DEF PendingSnapshot
  <2> QED BY <2>2 DEF InView
<1>9. CASE PopItem
  <2>1. queue # <<>> /\ log' = Append(log, Head(queue)) /\ queue' = Tail(queue)
        /\ UNCHANGED <<wire, link, snapshot, cause>>
    BY <1>9 DEF PopItem, Main
  <2>2. q \in Pending /\ UNCHANGED todo
    BY <1>9, KnightMoves DEF Pending
  <2>3. Head(queue) \in Request
    BY <2>1, TailFacts DEF FollowingTypeOK
  <2>4. ToSet(log') \cup ToSet(queue') = ToSet(log) \cup ToSet(queue)
    BY <2>1, <2>3, ToSetOfAppend, ToSetOfTail DEF FollowingTypeOK
  <2>5. OnItsWay(q)' <=> OnItsWay(q)
    BY <2>1, <2>2 DEF OnItsWay, Frames
  <2> QED BY <2>1, <2>2, <2>4, <2>5 DEF InView
<1>10. CASE Opened \/ Ready \/ WaitFails \/ SnapshotFails \/ UNCHANGED followVars
  <2>1. UNCHANGED <<wire, link, snapshot, log, queue, cause>>
    BY <1>10 DEF Opened, Ready, WaitFails, SnapshotFails, Main, followVars, knightVars
  <2>2. q \in Pending /\ UNCHANGED todo
    BY <1>10, KnightMoves DEF Pending
  <2>3. OnItsWay(q)' <=> OnItsWay(q)
    BY <2>1, <2>2 DEF OnItsWay, Frames
  <2> QED BY <1>1, <2>1, <2>2, <2>3
<1> QED BY <1>2, <1>3, <1>4, <1>5, <1>6, <1>7, <1>8, <1>9, <1>10 DEF FollowingNext
-----------------------------------------------------------------------------
(***************************************************************************)
(* What waits anywhere on the way to the log was written once.              *)
(***************************************************************************)
LEMMA SentOnceStep == IInv /\ FInv /\ [FollowingNext]_followVars => SentOnce'
<1> SUFFICES ASSUME IInv, FInv, [FollowingNext]_followVars PROVE SentOnce'
  OBVIOUS
<1>0. /\ TypeOK /\ FollowingTypeOK /\ OneConnection /\ Listed /\ OtherWiresEmpty
      /\ UnsubmittedUnsent /\ SentOnce
  BY DEF IInv, FInv
<1> USE <1>0 DEF SentOnce
<1>1. ASSUME UNCHANGED <<got, todo>>, link' \subseteq link,
             ToSet(log') \cup ToSet(queue') \subseteq Sent,
             \A c \in link' : ToSet(wire'[c]) \subseteq Sent
      PROVE  SentOnce'
  BY <1>1 DEF Sent, Frames
<1>2. ASSUME NEW r \in Request, Submission(r) PROVE SentOnce'
  <2>1. UNCHANGED <<wire, link, log, queue, got>> /\ phase[r] = "new"
        /\ todo' = [todo EXCEPT ![r] = subscribers]
    BY <1>2, SubmissionFacts
  <2>2. r \notin Sent
    BY <2>1 DEF UnsubmittedUnsent, Sent
  <2>3. \A q \in Request \ {r} : todo'[q] = todo[q]
    BY <2>1 DEF TypeOK
  <2>4. Sent' = Sent
    BY <2>1 DEF Sent
  <2> QED BY <2>1, <2>2, <2>3, <2>4 DEF Frames
<1>3. ASSUME NEW r \in Request, NEW c \in Client, Write(r, c) PROVE SentOnce'
  <2>1. /\ UNCHANGED <<log, queue, link>> /\ c \in todo[r]
        /\ todo' = [todo EXCEPT ![r] = @ \ {c}]
        /\ got' = IF c \in Live THEN [got EXCEPT ![c][r] = @ + 1] ELSE got
        /\ wire' = IF c \in Live THEN [wire EXCEPT ![c] = Append(@, r)] ELSE wire
    BY <1>3 DEF Write, StartSend, knightVars
  <2>2. \A q \in Request : todo'[q] \subseteq todo[q]
    BY <2>1 DEF TypeOK
  <2>3. CASE c \notin Live
    <3>1. Sent' = Sent /\ UNCHANGED wire
      BY <2>1, <2>3 DEF Sent
    <3> QED BY <2>1, <2>2, <3>1 DEF Frames
  <2>4. CASE c \in Live
    <3>1. c \in link /\ \A d \in link : d = c
      BY <2>4 DEF OneConnection
    <3>2. got'[c][r] = got[c][r] + 1 /\ got[c][r] \in Nat
      BY <2>1, <2>4 DEF TypeOK
    <3>3. \A d \in Client, q \in Request : d # c \/ q # r => got'[d][q] = got[d][q]
      BY <2>1, <2>4 DEF TypeOK
    <3>4. Sent' = Sent \cup {r}
      BY <3>2, <3>3 DEF Sent
    <3>5. ToSet(wire'[c]) = ToSet(wire[c]) \cup {r}
      BY <2>1, <2>4, ToSetOfAppend DEF FollowingTypeOK
    <3>6. c \notin todo'[r]
      BY <2>1 DEF TypeOK
    <3> QED BY <2>1, <2>2, <3>1, <3>4, <3>5, <3>6 DEF Frames
  <2> QED BY <2>3, <2>4
<1>4. CASE BuilderMoves
  <2>1. UNCHANGED <<wire, link, log, queue, got, todo>>
    BY <1>4, BuilderMovesFacts
  <2> QED BY <1>1, <2>1 DEF Frames
<1>5. ASSUME NEW c \in Client, Connect(c) PROVE SentOnce'
  <2>1. UNCHANGED <<wire, log, queue, got, todo>> /\ link = {} /\ link' = {c}
        /\ handler[c] = "none"
    BY <1>5 DEF Connect, Accept, OneConnection, taskVars, viewVars
  <2>2. ToSet(wire'[c]) = {}
    BY <2>1 DEF OtherWiresEmpty, ToSet
  <2>3. \A r \in Request : c \notin todo[r]
    BY <2>1 DEF Listed
  <2> QED BY <2>1, <2>2, <2>3 DEF Frames, Sent
<1>6. CASE Disconnected
  <2>1. link' = {} /\ UNCHANGED <<log, queue>>
    BY <1>6 DEF Disconnected
  <2> QED BY <1>1, <1>6, <2>1, KnightMoves
<1>7. CASE ReadFrame
  <2>1. PICK c \in link :
            /\ wire[c] # <<>>
            /\ wire' = [wire EXCEPT ![c] = Tail(@)]
            /\ queue' = Append(queue, Head(wire[c])) \/ queue' = queue
            /\ UNCHANGED <<link, log>>
    BY <1>7 DEF ReadFrame
  <2>2. wire[c] \in Seq(Request) /\ Head(wire[c]) \in Request
    BY <2>1, TailFacts DEF FollowingTypeOK
  <2>3. ToSet(wire[c]) = ToSet(Tail(wire[c])) \cup {Head(wire[c])}
    BY <2>1, <2>2, ToSetOfTail
  <2>4. ToSet(queue') \subseteq ToSet(queue) \cup {Head(wire[c])}
    BY <2>1, <2>2, ToSetOfAppend DEF FollowingTypeOK
  <2>5. wire'[c] = Tail(wire[c]) /\ \A d \in link : d = c
    BY <2>1 DEF FollowingTypeOK, OneConnection
  <2>6. UNCHANGED <<got, todo>>
    BY <1>7, KnightMoves
  <2> QED BY <1>1, <2>1, <2>3, <2>4, <2>5, <2>6 DEF Frames
<1>8. CASE PopItem
  <2>1. queue # <<>> /\ log' = Append(log, Head(queue)) /\ queue' = Tail(queue)
        /\ UNCHANGED <<wire, link>>
    BY <1>8 DEF PopItem, Main
  <2>2. Head(queue) \in Request
    BY <2>1, TailFacts DEF FollowingTypeOK
  <2>3. ToSet(log') \cup ToSet(queue') = ToSet(log) \cup ToSet(queue)
    BY <2>1, <2>2, ToSetOfAppend, ToSetOfTail DEF FollowingTypeOK
  <2> QED BY <1>1, <1>8, <2>1, <2>3, KnightMoves DEF Frames
<1>9. CASE Opened \/ Ready \/ WaitFails \/ SnapshotArrives \/ SnapshotFails \/ UNCHANGED followVars
  <2>1. UNCHANGED <<wire, link, log, queue>>
    BY <1>9 DEF Opened, Ready, WaitFails, SnapshotArrives, SnapshotFails, Main, followVars, knightVars
  <2> QED BY <1>1, <1>9, <2>1, KnightMoves DEF Frames
<1> QED BY <1>2, <1>3, <1>4, <1>5, <1>6, <1>7, <1>8, <1>9 DEF FollowingNext
-----------------------------------------------------------------------------
(***************************************************************************)
(* An ordered sequence stays so when it loses its head, and when it gains   *)
(* an element that may follow all of it; its order is about its elements.   *)
(***************************************************************************)
LEMMA OrderedAppend ==
    ASSUME NEW b, NEW s \in Seq(Request), NEW r \in Request, Ordered(b, s),
           \A x \in ToSet(s) : x # r /\ r \notin b[x]
    PROVE  Ordered(b, Append(s, r))
<1> SUFFICES ASSUME NEW j \in DOMAIN Append(s, r), NEW k \in DOMAIN Append(s, r), j < k
             PROVE  /\ Append(s, r)[j] # Append(s, r)[k]
                    /\ Append(s, r)[k] \notin b[Append(s, r)[j]]
  BY DEF Ordered
<1>1. j \in DOMAIN s /\ Append(s, r)[j] = s[j]
  BY AppendFacts
<1>2. CASE k \in DOMAIN s
  <2>1. Append(s, r)[k] = s[k]
    BY <1>2, AppendFacts
  <2> QED BY <1>1, <1>2, <2>1 DEF Ordered
<1>3. CASE k = Len(s) + 1
  <2>1. Append(s, r)[k] = r
    BY <1>3, AppendFacts
  <2>2. s[j] \in ToSet(s)
    BY <1>1 DEF ToSet
  <2> QED BY <1>1, <2>1, <2>2
<1> QED BY <1>2, <1>3, AppendFacts

(* A sequence in order: its tail is too, and its head precedes what is in it. *)
LEMMA OrderedTail ==
    ASSUME NEW b, NEW s \in Seq(Request), s # <<>>, Ordered(b, s)
    PROVE  /\ Ordered(b, Tail(s))
           /\ \A y \in ToSet(Tail(s)) : Head(s) # y /\ y \notin b[Head(s)]
<1>1. \A k \in DOMAIN Tail(s) : /\ k \in Nat /\ k + 1 \in DOMAIN s
                                /\ Tail(s)[k] = s[k + 1] /\ 1 < k + 1
  BY TailFacts
<1>2. Ordered(b, Tail(s))
  <2> SUFFICES ASSUME NEW j \in DOMAIN Tail(s), NEW k \in DOMAIN Tail(s), j < k
               PROVE  Tail(s)[j] # Tail(s)[k] /\ Tail(s)[k] \notin b[Tail(s)[j]]
    BY DEF Ordered
  <2>1. j + 1 < k + 1
    BY <1>1
  <2>2. s[j + 1] # s[k + 1] /\ s[k + 1] \notin b[s[j + 1]]
    BY <1>1, <2>1 DEF Ordered
  <2> QED BY <1>1, <2>2
<1>3. ASSUME NEW y \in ToSet(Tail(s)) PROVE Head(s) # y /\ y \notin b[Head(s)]
  <2>1. PICK k \in DOMAIN Tail(s) : y = Tail(s)[k]
    BY <1>3 DEF ToSet
  <2>2. s[1] # s[k + 1] /\ s[k + 1] \notin b[s[1]]
    BY <1>1, TailFacts DEF Ordered
  <2> QED BY <1>1, <2>1, <2>2, TailFacts
<1> QED BY <1>2, <1>3

(* Whether a sequence is in order depends on the order of its elements      *)
(* only.                                                                    *)
LEMMA OrderedAgree ==
    ASSUME NEW b, NEW d, NEW s, Ordered(b, s), \A x \in ToSet(s) : d[x] = b[x]
    PROVE  Ordered(d, s)
<1>1. \A j \in DOMAIN s : d[s[j]] = b[s[j]]
  BY DEF ToSet
<1> QED BY <1>1 DEF Ordered

(***************************************************************************)
(* A record enters the wire after all it must follow: its submission is not *)
(* answered yet, and only answered submissions come before another.         *)
(***************************************************************************)
LEMMA InOrderStep == IInv /\ FInv /\ [FollowingNext]_followVars => InOrder'
<1> SUFFICES ASSUME IInv, FInv, [FollowingNext]_followVars PROVE InOrder'
  OBVIOUS
<1>0. /\ TypeOK /\ FollowingTypeOK /\ OneConnection /\ Listed /\ OtherWiresEmpty
      /\ UnsubmittedUnsent /\ SentOnce /\ InOrder
  BY DEF IInv, FInv
<1> USE <1>0
<1>1. ASSUME UNCHANGED <<log, queue, wire, before>>, link' \subseteq link,
             \A r \in Request : phase[r] = "done" => phase'[r] = "done"
      PROVE  InOrder'
  BY <1>1 DEF InOrder, Answered
<1>2. ASSUME NEW r \in Request, Submission(r) PROVE InOrder'
  <2>1. /\ UNCHANGED <<wire, link, log, queue>> /\ phase[r] = "new"
        /\ \A q \in Request \ {r} : phase'[q] = phase[q] /\ before'[q] = before[q]
    BY <1>2, SubmissionFacts
  <2>2. before'[r] = Answered
    BY <1>2 DEF Submission, FollowingTypeOK
  <2>3. r \notin Sent
    BY <2>1 DEF UnsubmittedUnsent, Sent
  <2>4. /\ \A x \in ToSet(log) : before'[x] = before[x]
        /\ \A x \in ToSet(queue) : before'[x] = before[x]
        /\ \A c \in link : \A x \in ToSet(wire[c]) : before'[x] = before[x]
    BY <2>1, <2>3 DEF SentOnce, Sent, Frames
  <2>5. Answered \subseteq Answered'
    BY <2>1 DEF Answered
  <2>6. \A q \in Request : before'[q] \subseteq Answered'
    BY <2>1, <2>2, <2>5 DEF InOrder
  <2>7. /\ Ordered(before', log) /\ Ordered(before', queue)
        /\ \A c \in link : Ordered(before', wire[c])
    BY <2>4, OrderedAgree DEF InOrder
  <2>8. /\ Precedes(before', log, queue)
        /\ \A c \in link : Precedes(before', log, wire[c]) /\ Precedes(before', queue, wire[c])
    BY <2>4 DEF InOrder, Precedes
  <2> QED BY <2>1, <2>6, <2>7, <2>8 DEF InOrder
<1>3. ASSUME NEW r \in Request, NEW c \in Client, Write(r, c) PROVE InOrder'
  <2>1. /\ UNCHANGED <<log, queue, link, before, phase>> /\ c \in todo[r] /\ phase[r] = "sending"
        /\ wire' = IF c \in Live THEN [wire EXCEPT ![c] = Append(@, r)] ELSE wire
    BY <1>3 DEF Write, StartSend, knightVars
  <2>2. CASE c \notin Live
    BY <1>1, <2>1, <2>2
  <2>3. CASE c \in Live
    <3>1. c \in link /\ \A d \in link : d = c
      BY <2>3 DEF OneConnection
    <3>2. wire'[c] = Append(wire[c], r) /\ wire[c] \in Seq(Request)
      BY <2>1, <2>3 DEF FollowingTypeOK
    <3>3. r \notin Sent
      BY <2>1, <3>1 DEF SentOnce
    <3>4. r \notin Answered
      BY <2>1 DEF Answered
    <3>5. /\ \A x \in ToSet(log) : x # r /\ r \notin before[x]
          /\ \A x \in ToSet(queue) : x # r /\ r \notin before[x]
          /\ \A x \in ToSet(wire[c]) : x # r /\ r \notin before[x]
      BY <3>1, <3>3, <3>4 DEF SentOnce, InOrder, Sent, Frames
    <3>6. Ordered(before, wire'[c])
      BY <3>1, <3>2, <3>5, OrderedAppend DEF InOrder
    <3>7. ToSet(wire'[c]) = ToSet(wire[c]) \cup {r}
      BY <3>2, ToSetOfAppend
    <3>8. Precedes(before, log, wire'[c]) /\ Precedes(before, queue, wire'[c])
      BY <3>1, <3>5, <3>7 DEF InOrder, Precedes
    <3> QED BY <2>1, <3>1, <3>6, <3>8 DEF InOrder, Answered
  <2> QED BY <2>2, <2>3
<1>4. CASE BuilderMoves
  BY <1>1, <1>4, BuilderMovesFacts
<1>5. ASSUME NEW c \in Client, Connect(c) PROVE InOrder'
  <2>1. UNCHANGED <<wire, log, queue, before, phase>> /\ link = {} /\ link' = {c}
    BY <1>5 DEF Connect, Accept, OneConnection, taskVars
  <2>2. wire[c] = <<>>
    BY <2>1 DEF OtherWiresEmpty
  <2>3. ToSet(wire[c]) = {} /\ DOMAIN wire[c] = {}
    BY <2>2 DEF ToSet
  <2>4. \A d \in link' : Ordered(before, wire[d]) /\ Precedes(before, log, wire[d])
                         /\ Precedes(before, queue, wire[d])
    BY <2>1, <2>3 DEF Ordered, Precedes
  <2> QED BY <2>1, <2>4 DEF InOrder, Answered
<1>6. CASE Disconnected
  <2>1. link' = {} /\ UNCHANGED <<log, queue, before>>
    BY <1>6 DEF Disconnected
  <2> QED BY <1>6, <2>1, KnightMoves DEF InOrder, Answered
<1>7. CASE ReadFrame
  <2>1. PICK c \in link :
            /\ wire[c] # <<>>
            /\ wire' = [wire EXCEPT ![c] = Tail(@)]
            /\ queue' = Append(queue, Head(wire[c])) \/ queue' = queue
            /\ UNCHANGED <<link, log, before>>
    BY <1>7 DEF ReadFrame
  <2> DEFINE r == Head(wire[c])
  <2>2. wire[c] \in Seq(Request) /\ r \in Request /\ queue \in Seq(Request)
    BY <2>1, TailFacts DEF FollowingTypeOK
  <2>3. ToSet(wire[c]) = ToSet(Tail(wire[c])) \cup {r}
    BY <2>1, <2>2, ToSetOfTail
  <2>4. Ordered(before, Tail(wire[c])) /\ \A y \in ToSet(Tail(wire[c])) : r # y /\ y \notin before[r]
    BY <2>1, <2>2, OrderedTail DEF InOrder
  <2>5. wire'[c] = Tail(wire[c]) /\ \A d \in link : d = c
    BY <2>1 DEF FollowingTypeOK, OneConnection
  <2>6. /\ \A x \in ToSet(log) : x # r /\ r \notin before[x]
        /\ \A x \in ToSet(queue) : x # r /\ r \notin before[x]
    BY <2>3 DEF InOrder, Precedes
  <2> HIDE DEF r
  <2>7. Ordered(before, queue') /\ ToSet(queue') \subseteq ToSet(queue) \cup {r}
    <3>1. queue' = Append(queue, r) \/ queue' = queue
      BY <2>1 DEF r
    <3>2. Ordered(before, Append(queue, r)) /\ Ordered(before, queue)
      BY <2>2, <2>6, OrderedAppend DEF InOrder
    <3>3. ToSet(Append(queue, r)) = ToSet(queue) \cup {r}
      BY <2>2, ToSetOfAppend
    <3> QED BY <3>1, <3>2, <3>3
  <2>8. Precedes(before, log, queue')
    BY <2>6, <2>7 DEF InOrder, Precedes
  <2>9. Precedes(before, log, wire'[c]) /\ Precedes(before, queue', wire'[c])
    BY <2>3, <2>4, <2>5, <2>7 DEF InOrder, Precedes
  <2>10. UNCHANGED phase
    BY <1>7, KnightMoves
  <2> QED BY <2>1, <2>4, <2>5, <2>7, <2>8, <2>9, <2>10 DEF InOrder, Answered
<1>8. CASE PopItem
  <2>1. queue # <<>> /\ log' = Append(log, Head(queue)) /\ queue' = Tail(queue)
        /\ UNCHANGED <<wire, link, before>>
    BY <1>8 DEF PopItem, Main
  <2> DEFINE r == Head(queue)
  <2>2. log \in Seq(Request) /\ queue \in Seq(Request) /\ r \in Request
    BY <2>1, TailFacts DEF FollowingTypeOK
  <2>3. ToSet(queue) = ToSet(queue') \cup {r}
    BY <2>1, <2>2, ToSetOfTail
  <2>4. Ordered(before, queue') /\ \A y \in ToSet(queue') : r # y /\ y \notin before[r]
    BY <2>1, <2>2, OrderedTail DEF InOrder
  <2>5. \A x \in ToSet(log) : x # r /\ r \notin before[x]
    BY <2>3 DEF InOrder, Precedes
  <2> HIDE DEF r
  <2>6. Ordered(before, log') /\ ToSet(log') = ToSet(log) \cup {r}
    <3>1. log' = Append(log, r)
      BY <2>1 DEF r
    <3>2. Ordered(before, Append(log, r)) /\ ToSet(Append(log, r)) = ToSet(log) \cup {r}
      BY <2>2, <2>5, OrderedAppend, ToSetOfAppend DEF InOrder
    <3> QED BY <3>1, <3>2
  <2>7. Precedes(before, log', queue')
    BY <2>3, <2>4, <2>6 DEF InOrder, Precedes
  <2>8. \A c \in link : Precedes(before, log', wire[c]) /\ Precedes(before, queue', wire[c])
    BY <2>3, <2>6 DEF InOrder, Precedes
  <2>9. UNCHANGED phase
    BY <1>8, KnightMoves
  <2> QED BY <2>1, <2>4, <2>6, <2>7, <2>8, <2>9 DEF InOrder, Answered
<1>9. CASE Opened \/ Ready \/ WaitFails \/ SnapshotArrives \/ SnapshotFails \/ UNCHANGED followVars
  <2>1. UNCHANGED <<wire, link, log, queue, before>>
    BY <1>9 DEF Opened, Ready, WaitFails, SnapshotArrives, SnapshotFails, Main, followVars, knightVars
  <2> QED BY <1>1, <1>9, <2>1, KnightMoves
<1> QED BY <1>2, <1>3, <1>4, <1>5, <1>6, <1>7, <1>8, <1>9 DEF FollowingNext
-----------------------------------------------------------------------------
(* The invariant holds to begin with. *)
LEMMA InitFInv == FollowingInit => FInv
<1> SUFFICES ASSUME FollowingInit PROVE FInv
  OBVIOUS
<1> USE DEF FollowingInit, Init
<1>1. FollowingTypeOK /\ OneConnection /\ Listed /\ OtherWiresEmpty
  BY DEF FollowingTypeOK, OneConnection, Listed, OtherWiresEmpty, Live
<1>2. ToSet(log) = {} /\ ToSet(queue) = {}
  BY DEF ToSet
<1>3. SentOnce
  BY <1>2 DEF SentOnce
<1>4. InOrder
  BY <1>2 DEF InOrder, Ordered, Precedes
<1>5. MissesOnlyForCause
  BY DEF MissesOnlyForCause
<1> QED BY <1>1, <1>3, <1>4, <1>5 DEF FInv

(***************************************************************************)
(* Both invariants hold of Knight and the builder together.                 *)
(***************************************************************************)
THEOREM FollowingInvariance == FollowingSpec => []FInv
<1>1. IInv /\ FInv /\ [FollowingNext]_followVars => FInv'
  <2> SUFFICES ASSUME IInv, FInv, [FollowingNext]_followVars PROVE FInv'
    OBVIOUS
  <2>1. FollowingTypeOK'
    BY FollowingTypeStep DEF IInv, FInv
  <2> QED BY <2>1, OneConnectionStep, ListedStep, OtherWiresEmptyStep, SentOnceStep,
             InOrderStep, MissesStep DEF FInv
<1> QED BY <1>1, InitFInv, BuilderFollowsSpec, Invariance, PTL DEF FollowingSpec

(***************************************************************************)
(* Once Knight has its snapshot it misses a pending record only for a       *)
(* cause that came later: a full queue, a lost connection, or a submission  *)
(* while it was not among the subscribers.                                  *)
(***************************************************************************)
THEOREM MissesCaused == FollowingSpec => []MissesOnlyForCause
<1>1. FInv => MissesOnlyForCause
  BY DEF FInv
<1> QED BY <1>1, FollowingInvariance, PTL

(***************************************************************************)
(* Knight logs no record twice, and none before one whose submission was    *)
(* answered before it was submitted.                                        *)
(***************************************************************************)
THEOREM LogInOrder == FollowingSpec => []LogFollowsAnswers
<1>1. FInv => LogFollowsAnswers
  BY DEF FInv, InOrder, Ordered, LogFollowsAnswers
<1> QED BY <1>1, FollowingInvariance, PTL
=============================================================================

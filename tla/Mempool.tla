------------------------------- MODULE Mempool -------------------------------
(***************************************************************************)
(* The public mempool of the block builder (block_builder/mempool.py).      *)
(* A record is named by the submission that created it: mempoolTxId is a    *)
(* fresh uuid4, so two submissions never share a record.  What a record     *)
(* carries besides its sequence number and its status (the transaction, the *)
(* timestamps, the receipt) no property tells apart.                        *)
(*                                                                          *)
(* The lock of the class is held for the whole of each method, so each      *)
(* method is one step; the modules that extend this one say which handler   *)
(* takes it.                                                                *)
(***************************************************************************)
EXTENDS Integers, FiniteSets

CONSTANT Request            \* submissions of POST /public/tx, one record each

VARIABLES
    lastSeqNum,             \* Mempool._lastSeqNum
    seqNum,                 \* record.seqNum, 0 while there is no record
    status                  \* record.status, "absent" while there is no record

mempoolVars == <<lastSeqNum, seqNum, status>>

Terminal == {"included", "reverted", "missing"}

MempoolTypeOK ==
    /\ lastSeqNum \in Nat
    /\ seqNum \in [Request -> Nat]
    /\ status \in [Request -> {"absent", "pending"} \cup Terminal]

MempoolInit ==
    /\ lastSeqNum = 0
    /\ seqNum = [r \in Request |-> 0]
    /\ status = [r \in Request |-> "absent"]

Pending == {r \in Request : status[r] = "pending"}
Known   == {r \in Request : status[r] # "absent"}

\* Faulty variant: the number is read before the counter moves.
AddTransactionReusesNumber(r) ==
    /\ r \notin Known
    /\ lastSeqNum' = lastSeqNum + 1
    /\ seqNum' = [seqNum EXCEPT ![r] = lastSeqNum]
    /\ status' = [status EXCEPT ![r] = "pending"]

AddTransaction(r) ==
    /\ r \notin Known
    /\ lastSeqNum' = lastSeqNum + 1
    /\ seqNum' = [seqNum EXCEPT ![r] = lastSeqNum + 1]
    /\ status' = [status EXCEPT ![r] = "pending"]

\* One markMined per record of DOMAIN result, in one step: the callers run
\* them back to back on the event loop.  The previous status is not looked at.
MarkMined(result) ==
    /\ DOMAIN result \subseteq Known
    /\ status' = [r \in Request |-> IF r \in DOMAIN result THEN result[r]
                                                           ELSE status[r]]
    /\ UNCHANGED <<lastSeqNum, seqNum>>

\* Faulty variant: the boundary is off by one.
PendingSnapshotAhead == [snapshotSeq |-> lastSeqNum + 1, transactions |-> Pending]

PendingSnapshot == [snapshotSeq |-> lastSeqNum, transactions |-> Pending]

(***************************************************************************)
(* The records are numbered 1..lastSeqNum without a hole and without a      *)
(* repetition, whatever the statuses have become since: a reader of         *)
(* snapshotSeq may count on every number up to it having been given out     *)
(* (scenarios/mempool-sequence asserts it for the first two).               *)
(***************************************************************************)
SeqNumsDense ==
    /\ {seqNum[r] : r \in Known} = 1..lastSeqNum
    /\ \A r, s \in Known : seqNum[r] = seqNum[s] => r = s
=============================================================================

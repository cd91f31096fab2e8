---------------------------- MODULE BundleBuilder ----------------------------
(***************************************************************************)
(* The private side of the block builder: POST /private/bundle and POST     *)
(* /private/bundle/simulate (app.py, bundle.py) over the mempool and Anvil  *)
(* (anvil.py).                                                              *)
(*                                                                          *)
(* A bundle handler has no await: from Bundle.fromJson to its reply no      *)
(* other coroutine of the builder runs, so one handler at a time is between *)
(* idle and idle.  What does happen in between is outside the builder: each *)
(* JSON-RPC call may fail with or without having been performed, another    *)
(* client of Anvil may mine, and the process may be restarted               *)
(* (scenario_support.restart_block_builder).                                *)
(*                                                                          *)
(* Anvil is external.  Modelled of it: a pool of unmined transactions, the  *)
(* chain, snapshots of the chain.  A transaction stands for its sender and  *)
(* nonce too: Anvil takes it once.  Of the block numbers only the order     *)
(* matters, so empty blocks are not counted.                                *)
(***************************************************************************)
EXTENDS Mempool, Sequences

CONSTANTS
    Private,                \* direct transactions, never in the mempool
    MaxBundle,              \* bound: items of a bundle
    ExternalMiner           \* whether another client of Anvil mines blocks

ASSUME BundleAssumption ==
    /\ Request \cap Private = {}
    /\ MaxBundle \in Nat
    /\ ExternalMiner \in BOOLEAN

Tx == Request \cup Private

VARIABLES
    pc,                     \* where the handler is
    mode,                   \* which of the two endpoints it serves
    bundle,                 \* Bundle.items, a record named by its submission
    sent,                   \* items whose sendTransaction was performed
    polled,                 \* items whose waitForReceipt returned
    receipt,                \* what it returned, by transaction hash
    place,                  \* transactionIndex of the receipts, 0 for none
    alone,                  \* history: nobody else mined an item of this bundle
    reply,                  \* the last answer of POST /private/bundle
    pool, chain, saved,     \* Anvil: transaction pool, chain, snapshot
    committed,              \* history: items of the bundles answered by mineBundle
    strayed                 \* history: transactions left in Anvil by a run that
                            \* failed, was cut short or only simulated

handlerVars == <<pc, mode, bundle, sent, polled, receipt, place, alone>>
anvilVars   == <<pool, chain, saved>>
ghostVars   == <<committed, strayed>>
vars        == <<mempoolVars, handlerVars, reply, anvilVars, ghostVars>>

Chain  == [height : Nat, block : [Tx -> Nat], ok : SUBSET Tx]
Bundle == {b \in Seq(Tx) : Len(b) \in 1..MaxBundle}
Reply  == [items : Seq(Tx), status : {"included", "failed", "error"},
           alone : BOOLEAN]

IsMined(ch, t) == ch.block[t] > 0
OnChain        == {t \in Tx : IsMined(chain, t)}
SentUpTo(n)    == {bundle[k] : k \in 1..n}
SentTx         == SentUpTo(sent)

TypeOK ==
    /\ MempoolTypeOK
    /\ pc \in {"idle", "snapshot", "send", "mine", "receipts", "mark", "revert"}
    /\ mode \in {"bundle", "simulate"}
    /\ bundle \in Seq(Tx) /\ sent \in 0..Len(bundle) /\ polled \in 0..Len(bundle)
    /\ receipt \in [Tx -> Terminal] /\ place \in [Tx -> Nat] /\ alone \in BOOLEAN
    /\ reply \in Reply
    /\ pool \subseteq Tx /\ chain \in Chain /\ saved \in Chain
    /\ committed \subseteq Tx /\ strayed \subseteq Tx

EmptyChain == [height |-> 0, block |-> [t \in Tx |-> 0], ok |-> {}]

NoPlace  == [t \in Tx |-> 0]
NoResult == [items |-> <<>>, status |-> "error", alone |-> TRUE]     \* 400, 502, or no answer yet

Init ==
    /\ MempoolInit
    /\ pc = "idle" /\ mode = "bundle" /\ bundle = <<>> /\ sent = 0 /\ polled = 0
    /\ receipt = [t \in Tx |-> "missing"] /\ place = NoPlace /\ alone = TRUE
    /\ reply = NoResult
    /\ pool = {}
    /\ chain = EmptyChain /\ saved = EmptyChain
    /\ committed = {} /\ strayed = {}

-----------------------------------------------------------------------------
(* Anvil.  A block takes whichever pooled transactions are ready (nonces    *)
(* without a gap, gas), in an order Anvil chooses (by fee, since            *)
(* deploy-local.zsh passes no --order), and each succeeds or reverts.       *)

BlockOrders(S) == {f \in [S -> 1..Cardinality(S)] : \A s, t \in S : f[s] = f[t] => s = t}

AnvilMines(S, good) ==
    /\ pool' = pool \ S
    /\ chain' = [height |-> IF S = {} THEN chain.height ELSE chain.height + 1,
                 block  |-> [t \in Tx |-> IF t \in S THEN chain.height + 1 ELSE chain.block[t]],
                 ok     |-> chain.ok \cup good]
    /\ UNCHANGED saved

AnvilMinesSome ==
    \E S \in SUBSET pool : \E good \in SUBSET S : AnvilMines(S, good)

\* evm_revert brings the chain back and uses the snapshot up.  The pool is not
\* part of the snapshot: what was mined since does not return to it, what is
\* in it may be kept.
AnvilReverts ==
    /\ chain' = saved
    /\ pool' \in {pool, {}}
    /\ saved' = EmptyChain

AnvilAccepts(t) == t \notin pool /\ t \notin OnChain

\* Another client of Anvil, at any moment (not a handler of the builder): it
\* mines, or has switched automine on, as the scenarios do to fund accounts.
ExternalMine ==
    /\ ExternalMiner /\ pool # {}
    /\ AnvilMinesSome
    /\ alone' = (alone /\ (pool \ pool') \cap SentTx = {})
    /\ UNCHANGED <<mempoolVars, pc, mode, bundle, sent, polled, receipt, place, reply, ghostVars>>

-----------------------------------------------------------------------------
(* The handlers.                                                            *)

\* POST /public/tx (module PendingStream has the broadcast).
Submit(r) ==
    /\ pc = "idle"
    /\ AddTransaction(r)
    /\ UNCHANGED <<handlerVars, reply, anvilVars, ghostVars>>

\* Faulty variant: the status of a referenced record is not looked at.
ReceiveAnyKnown(m, b) ==
    /\ pc = "idle"
    /\ \A k \in DOMAIN b : b[k] \in Known \cup Private
    /\ pc' = IF m = "simulate" THEN "snapshot" ELSE "send"
    /\ mode' = m /\ bundle' = b /\ sent' = 0 /\ polled' = 0
    /\ receipt' = [t \in Tx |-> "missing"] /\ place' = NoPlace /\ alone' = TRUE
    /\ UNCHANGED <<mempoolVars, reply, anvilVars, ghostVars>>

\* Bundle.fromJson: every referenced record exists and is pending, or 400.
\* A record may be referenced twice.
ReceiveBundle(m, b) ==
    /\ pc = "idle"
    /\ \A k \in DOMAIN b : b[k] \in Pending \cup Private
    /\ pc' = IF m = "simulate" THEN "snapshot" ELSE "send"
    /\ mode' = m /\ bundle' = b /\ sent' = 0 /\ polled' = 0
    /\ receipt' = [t \in Tx |-> "missing"] /\ place' = NoPlace /\ alone' = TRUE
    /\ UNCHANGED <<mempoolVars, reply, anvilVars, ghostVars>>

\* A bundle with a reference that is unknown or no longer pending is refused
\* with 400 before any call to Anvil.
RefuseBundle(m, b) ==
    /\ pc = "idle"
    /\ \E k \in DOMAIN b : b[k] \in Request \ Pending
    /\ reply' = IF m = "bundle" THEN NoResult ELSE reply
    /\ UNCHANGED <<mempoolVars, handlerVars, anvilVars, ghostVars>>

\* The handler is over, its local variables are gone.
HandlerEnds ==
    /\ pc' = "idle" /\ mode' = "bundle" /\ bundle' = <<>>
    /\ sent' = 0 /\ polled' = 0
    /\ receipt' = [t \in Tx |-> "missing"] /\ place' = NoPlace /\ alone' = TRUE

\* An exception in _executeBundle, after n items were given to Anvil:
\* mineBundle lets it through with nothing undone, simulateBundle goes through
\* its finally clause.
Raise(n) ==
    IF mode = "simulate"
    THEN /\ pc' = "revert" /\ sent' = n
         /\ UNCHANGED <<mode, bundle, polled, receipt, place, alone, reply, ghostVars>>
    ELSE /\ HandlerEnds /\ reply' = NoResult
         /\ strayed' = strayed \cup SentUpTo(n)
         /\ UNCHANGED committed

TakeSnapshot ==
    /\ pc = "snapshot"
    /\ saved' = chain /\ pc' = "send"
    /\ UNCHANGED <<mempoolVars, mode, bundle, sent, polled, receipt, place, alone,
                   reply, pool, chain, ghostVars>>

SnapshotFails ==            \* before the try: no finally clause
    /\ pc = "snapshot"
    /\ HandlerEnds
    /\ UNCHANGED <<mempoolVars, reply, anvilVars, ghostVars>>

\* Faulty variant: each item is mined as soon as it is sent.
SendTransactionMines ==
    /\ pc = "send"
    /\ AnvilAccepts(bundle[sent + 1])
    /\ chain' = [chain EXCEPT !.height = @ + 1, !.block[bundle[sent + 1]] = chain.height + 1,
                              !.ok = @ \cup {bundle[sent + 1]}]
    /\ sent' = sent + 1
    /\ pc' = IF sent' = Len(bundle) THEN "mine" ELSE "send"
    /\ UNCHANGED <<mempoolVars, mode, bundle, polled, receipt, place, alone, reply, pool,
                   saved, ghostVars>>

SendTransaction ==
    /\ pc = "send"
    /\ AnvilAccepts(bundle[sent + 1])
    /\ pool' = pool \cup {bundle[sent + 1]}
    /\ sent' = sent + 1
    /\ pc' = IF sent' = Len(bundle) THEN "mine" ELSE "send"
    /\ UNCHANGED <<mempoolVars, mode, bundle, polled, receipt, place, alone,
                   reply, chain, saved, ghostVars>>

\* The call is refused, or fails on the way to Anvil.
SendFails ==
    /\ pc = "send"
    /\ Raise(sent)
    /\ UNCHANGED <<mempoolVars, anvilVars>>

\* The call is performed and its response is lost.
SendResponseLost ==
    /\ pc = "send"
    /\ AnvilAccepts(bundle[sent + 1])
    /\ pool' = pool \cup {bundle[sent + 1]}
    /\ Raise(sent + 1)
    /\ UNCHANGED <<mempoolVars, chain, saved>>

MineBlock ==
    /\ pc = "mine"
    /\ AnvilMinesSome
    /\ \E order \in BlockOrders(pool \ pool') :
          place' = [t \in Tx |-> IF t \in pool \ pool' THEN order[t] ELSE 0]
    /\ pc' = "receipts"
    /\ UNCHANGED <<mempoolVars, mode, bundle, sent, polled, receipt, alone, reply, ghostVars>>

MineBlockFails ==
    /\ pc = "mine"
    /\ \/ AnvilMinesSome
       \/ UNCHANGED anvilVars
    /\ Raise(sent)
    /\ UNCHANGED mempoolVars

\* Faulty variant: any receipt counts as success.
StatusOfAnyReceipt(t) == IF t \notin OnChain THEN "missing" ELSE "included"

\* _statusFromReceipt, for a receipt that is None after the last attempt too.
StatusFromReceipt(t) ==
    IF t \notin OnChain THEN "missing" ELSE IF t \in chain.ok THEN "included" ELSE "reverted"

WaitForReceipt ==
    /\ pc = "receipts"
    /\ receipt' = [receipt EXCEPT ![bundle[polled + 1]] = StatusFromReceipt(bundle[polled + 1])]
    /\ polled' = polled + 1
    /\ pc' = IF polled' < Len(bundle) THEN "receipts"
             ELSE IF mode = "simulate" THEN "revert" ELSE "mark"
    /\ UNCHANGED <<mempoolVars, mode, bundle, sent, place, alone, reply, anvilVars, ghostVars>>

WaitForReceiptFails ==
    /\ pc = "receipts"
    /\ Raise(sent)
    /\ UNCHANGED <<mempoolVars, anvilVars>>

\* Faulty variant: any() instead of all().
ResultStatusOfAny ==
    IF \E k \in DOMAIN bundle : receipt[bundle[k]] = "included" THEN "included" ELSE "failed"

ResultStatus ==
    IF \A k \in DOMAIN bundle : receipt[bundle[k]] = "included" THEN "included" ELSE "failed"

\* The answer of mineBundle.  What it says of the items is told apart only when
\* it says "included".
Result ==
    IF ResultStatus = "included"
    THEN [items |-> bundle, status |-> "included", alone |-> alone]
    ELSE [items |-> <<>>, status |-> "failed", alone |-> TRUE]

\* Faulty variant: the records of a bundle that failed as a whole stay pending.
MarkBundleIfIncluded ==
    /\ pc = "mark"
    /\ IF ResultStatus = "included"
       THEN MarkMined([r \in SentTx \cap Request |-> receipt[r]])
       ELSE UNCHANGED mempoolVars
    /\ HandlerEnds /\ reply' = Result
    /\ committed' = committed \cup SentTx
    /\ UNCHANGED <<anvilVars, strayed>>

MarkBundle ==
    /\ pc = "mark"
    /\ MarkMined([r \in SentTx \cap Request |-> receipt[r]])
    /\ HandlerEnds /\ reply' = Result
    /\ committed' = committed \cup SentTx
    /\ UNCHANGED <<anvilVars, strayed>>

\* Faulty variant: no finally clause.
RevertSkipped ==
    /\ pc = "revert"
    /\ HandlerEnds
    /\ strayed' = strayed \cup (SentTx \cap pool)
    /\ UNCHANGED <<mempoolVars, reply, anvilVars, committed>>

\* The finally clause of simulateBundle, whose result goes to its client only;
\* evm_revert may also be performed and its response be lost.
RevertSnapshot ==
    /\ pc = "revert"
    /\ AnvilReverts
    /\ HandlerEnds
    /\ strayed' = strayed \cup (SentTx \cap pool')
    /\ UNCHANGED <<mempoolVars, reply, committed>>

RevertFails ==
    /\ pc = "revert"
    /\ HandlerEnds
    /\ strayed' = strayed \cup SentTx
    /\ UNCHANGED <<mempoolVars, reply, anvilVars, committed>>

\* The process is killed and started again, in whatever it is doing: the
\* mempool is in memory, Anvil lives on.
Restart ==
    /\ lastSeqNum' = 0
    /\ seqNum' = [r \in Request |-> 0]
    /\ status' = [r \in Request |-> "absent"]
    /\ HandlerEnds
    /\ strayed' = strayed \cup committed \cup SentTx
    /\ committed' = {} /\ reply' = NoResult
    /\ UNCHANGED anvilVars

Next ==
    \/ \E r \in Request : Submit(r)
    \/ \E m \in {"bundle", "simulate"}, n \in 1..MaxBundle : \E b \in [1..n -> Tx] :
          ReceiveBundle(m, b) \/ RefuseBundle(m, b)
    \/ TakeSnapshot \/ SnapshotFails
    \/ SendTransaction \/ SendFails \/ SendResponseLost
    \/ MineBlock \/ MineBlockFails
    \/ WaitForReceipt \/ WaitForReceiptFails
    \/ MarkBundle \/ RevertSnapshot \/ RevertFails
    \/ ExternalMine
    \/ Restart

Spec == Init /\ [][Next]_vars
-----------------------------------------------------------------------------
(***************************************************************************)
(* What the mempool says of a mined record is what the chain says, now and  *)
(* for as long as the builder runs: "included" records are on the chain and *)
(* succeeded, "reverted" ones are on the chain and did not.  A simulation   *)
(* that mines and reverts never takes a marked record's block with it.      *)
(***************************************************************************)
MarkedAsOnChain ==
    \A r \in Request :
        /\ status[r] = "included" => r \in OnChain /\ r \in chain.ok
        /\ status[r] = "reverted" => r \in OnChain /\ r \notin chain.ok

(***************************************************************************)
(* A record that is still listed as pending although its transaction is     *)
(* mined was left in Anvil by a run that failed half way, was killed, or    *)
(* only simulated it; a bundle that is answered leaves none of its own.     *)
(***************************************************************************)
PendingMinedOnlyIfStrayed ==
    \A r \in Pending \cap OnChain : r \in strayed \/ (pc # "idle" /\ r \in SentTx)

(***************************************************************************)
(* A simulation changes the chain only if its evm_revert failed or the      *)
(* builder was killed: between bundles every transaction on the chain is    *)
(* one of an answered bundle or one that strayed.                           *)
(***************************************************************************)
SimulationLeavesNoTrace ==
    pc = "idle" => OnChain \subseteq committed \cup strayed

(***************************************************************************)
(* The answer "included" means it: when mineBundle said so, every item of   *)
(* the bundle, public or private, is on the chain and succeeded.            *)
(***************************************************************************)
IncludedReplyTruthful ==
    reply.status = "included"
        => \A k \in DOMAIN reply.items : reply.items[k] \in OnChain \cap chain.ok

(***************************************************************************)
(* When nobody else mined an item of it meanwhile, a bundle that was        *)
(* answered "included" is one block: nothing of it was mined before all of  *)
(* it was sent, whatever earlier runs left in Anvil's pool.                 *)
(***************************************************************************)
BundleInOneBlock ==
    reply.status = "included" /\ reply.alone
        => \A j, k \in DOMAIN reply.items :
               chain.block[reply.items[j]] = chain.block[reply.items[k]]

(***************************************************************************)
(* A simulation whose result is "included" executed the items in the order  *)
(* of the bundle (docs/endpoints.md, 234: "executes the ordered transaction *)
(* sequence on an Anvil snapshot").                                         *)
(***************************************************************************)
BundleExecutedInOrder ==
    pc = "revert" /\ polled > 0 /\ polled = Len(bundle) /\ ResultStatus = "included"
        => \A j, k \in DOMAIN bundle :
               j < k => place[bundle[j]] < place[bundle[k]]

(***************************************************************************)
(* A final status is final: only a restart, which forgets the record, takes *)
(* it away.  markMined itself overwrites whatever it finds.                 *)
(***************************************************************************)
StatusKept ==
    \A r \in Request : status[r] \in Terminal => status'[r] \in {status[r], "absent"}
FinalStatusKept == [][StatusKept]_vars
=============================================================================

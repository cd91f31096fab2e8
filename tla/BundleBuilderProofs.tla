------------------------- MODULE BundleBuilderProofs -------------------------
(***************************************************************************)
(* Proofs about BundleBuilder, for every set of records and of direct       *)
(* transactions, every bundle size and every choice Anvil makes.            *)
(*                                                                          *)
(* MarkedAsOnChain and IncludedReplyTruthful survive a simulation because   *)
(* the snapshot it goes back to already has what they speak of: records are *)
(* marked and bundles answered only when no snapshot is pending.            *)
(***************************************************************************)
EXTENDS BundleBuilder, TLAPS

\* What the mempool and the last answer say holds of a chain ch.
AgreesWith(ch) ==
    /\ \A r \in Request :
          /\ status[r] = "included" => IsMined(ch, r) /\ r \in ch.ok
          /\ status[r] = "reverted" => IsMined(ch, r) /\ r \notin ch.ok
    /\ reply.status = "included" =>
          \A k \in DOMAIN reply.items : IsMined(ch, reply.items[k]) /\ reply.items[k] \in ch.ok

\* What is mined in the chain c is mined in d, with the same outcome.
Extends(c, d) ==
    \A t \in Tx : IsMined(c, t) => IsMined(d, t) /\ (t \in d.ok <=> t \in c.ok)

\* Between evm_snapshot and evm_revert.
Simulating == mode = "simulate" /\ pc \notin {"idle", "snapshot"}

\* The chain of now extends the chain the simulation goes back to.
SnapshotBehind ==
    Simulating => /\ AgreesWith(saved)
                  /\ \A t \in Tx : IsMined(saved, t) => IsMined(chain, t)

\* A transaction is in the pool or mined, not both.
PoolUnmined == \A t \in pool : ~IsMined(chain, t)

\* The receipts collected so far are those of the chain.
ReceiptsTrue ==
    pc # "revert" => \A t \in Tx :
        /\ receipt[t] = "included" => IsMined(chain, t) /\ t \in chain.ok
        /\ receipt[t] = "reverted" => IsMined(chain, t) /\ t \notin chain.ok

\* Where the handler is, in its bundle.
HandlerPosition ==
    /\ pc \in {"snapshot", "send"} => sent < Len(bundle)
    /\ pc \in {"snapshot", "send", "mine", "receipts"} => polled < Len(bundle)
    /\ pc = "mark" => mode = "bundle"
    /\ pc = "revert" => mode = "simulate"

IInv ==
    /\ TypeOK
    /\ HandlerPosition
    /\ AgreesWith(chain)
    /\ SnapshotBehind
    /\ PoolUnmined
    /\ ReceiptsTrue

-----------------------------------------------------------------------------
(***************************************************************************)
(* A block adds to the chain: what was mined stays as it was.               *)
(***************************************************************************)
LEMMA MiningExtends ==
    ASSUME TypeOK, PoolUnmined, AnvilMinesSome
    PROVE  /\ pool' \subseteq pool /\ chain' \in Chain /\ saved' = saved
           /\ Extends(chain, chain')
           /\ \A t \in pool' : ~IsMined(chain', t)
<1>0. PICK S \in SUBSET pool : \E good \in SUBSET S : AnvilMines(S, good)
  BY DEF AnvilMinesSome
<1>1. PICK good \in SUBSET S : AnvilMines(S, good)
  BY <1>0
<1> USE DEF TypeOK, Chain, IsMined
<1>2. /\ pool' = pool \ S /\ saved' = saved
      /\ \A t \in Tx : chain'.block[t] = IF t \in S THEN chain.height + 1 ELSE chain.block[t]
      /\ chain'.ok = chain.ok \cup good
  BY <1>1 DEF AnvilMines
<1>3. chain' \in Chain
  <2>2. (IF S = {} THEN chain.height ELSE chain.height + 1) \in Nat
    OBVIOUS
  <2>3. [t \in Tx |-> IF t \in S THEN chain.height + 1 ELSE chain.block[t]] \in [Tx -> Nat]
    OBVIOUS
  <2>5. chain.ok \cup good \in SUBSET Tx
    OBVIOUS
  <2> QED BY <1>1, <2>2, <2>3, <2>5 DEF AnvilMines
<1>4. \A t \in Tx : IsMined(chain, t) => t \notin S
  BY DEF PoolUnmined
<1>5. ASSUME NEW t \in Tx, IsMined(chain, t)
      PROVE  IsMined(chain', t) /\ (t \in chain'.ok <=> t \in chain.ok)
  BY <1>1, <1>2, <1>4, <1>5
<1>6. ASSUME NEW t \in pool' PROVE ~IsMined(chain', t)
  BY <1>2, <1>6 DEF PoolUnmined
<1> QED BY <1>2, <1>3, <1>5, <1>6 DEF Extends

(***************************************************************************)
(* What agrees with a chain agrees with a longer one.                       *)
(***************************************************************************)
LEMMA AgreementExtends ==
    ASSUME NEW c, NEW d, TypeOK, AgreesWith(c),
           Extends(c, d)
    PROVE  AgreesWith(d)
<1>1. Request \subseteq Tx /\ \A k \in DOMAIN reply.items : reply.items[k] \in Tx
  BY DEF Tx, TypeOK, Reply
<1> QED BY <1>1 DEF AgreesWith, Extends

-----------------------------------------------------------------------------
(***************************************************************************)
(* A handler that ends, however it ends, leaves the invariant in place if   *)
(* the chain and the pool it leaves do.                                     *)
(***************************************************************************)
LEMMA HandlerEndsStep ==
    ASSUME HandlerEnds, AgreesWith(chain)', PoolUnmined',
           MempoolTypeOK', reply' \in Reply, pool' \subseteq Tx, chain' \in Chain,
           saved' \in Chain, committed' \subseteq Tx, strayed' \subseteq Tx
    PROVE  IInv'
<1>1. <<>> \in Seq(Tx) /\ Len(<<>>) = 0
  OBVIOUS
<1>2. TypeOK'
  BY <1>1 DEF HandlerEnds, TypeOK, Terminal, NoPlace
<1>3. HandlerPosition' /\ SnapshotBehind' /\ ReceiptsTrue'
  BY DEF HandlerEnds, HandlerPosition, SnapshotBehind, Simulating, ReceiptsTrue
<1> QED BY <1>2, <1>3 DEF IInv

(***************************************************************************)
(* An exception keeps the invariant, whatever Anvil did with the call: the  *)
(* chain grew or stayed, the pool holds nothing that is mined.              *)
(***************************************************************************)
LEMMA RaiseStep ==
    ASSUME IInv, NEW n \in 0..Len(bundle), Raise(n), pc \in {"send", "mine", "receipts"},
           UNCHANGED mempoolVars, saved' = saved,
           pool' \subseteq Tx, chain' \in Chain, PoolUnmined',
           Extends(chain, chain')
    PROVE  IInv'
<1>0. TypeOK /\ AgreesWith(chain)
  BY DEF IInv
<1>1. AgreesWith(chain')
  BY <1>0, AgreementExtends
<1>2. CASE mode = "simulate"
  <2>1. /\ pc' = "revert" /\ sent' = n
        /\ UNCHANGED <<mode, bundle, polled, receipt, place, alone, reply, committed, strayed,
                        status, saved>>
        /\ UNCHANGED mempoolVars
    BY <1>2 DEF Raise, ghostVars, mempoolVars
  <2>2. TypeOK'
    BY <2>1 DEF IInv, TypeOK, mempoolVars, MempoolTypeOK
  <2>3. HandlerPosition' /\ ReceiptsTrue'
    BY <1>2, <2>1 DEF HandlerPosition, ReceiptsTrue
  <2>4. AgreesWith(chain)'
    BY <1>1, <2>1 DEF AgreesWith, IsMined
  <2>5. SnapshotBehind'
    <3>1. AgreesWith(saved) /\ \A t \in Tx : IsMined(saved, t) => IsMined(chain, t)
      BY <1>2 DEF IInv, SnapshotBehind, Simulating
    <3>2. AgreesWith(saved)'
      BY <3>1, <2>1 DEF AgreesWith, IsMined
    <3>3. \A t \in Tx : IsMined(saved', t) => IsMined(chain', t)
      <4>1. \A t \in Tx : IsMined(saved', t) => IsMined(saved, t)
        BY <2>1
      <4> QED BY <3>1, <4>1 DEF Extends
    <3> QED BY <3>2, <3>3 DEF SnapshotBehind, IsMined
  <2> QED BY <2>2, <2>3, <2>4, <2>5 DEF IInv
<1>3. CASE mode # "simulate"
  <2>1. /\ HandlerEnds /\ reply' = NoResult
        /\ strayed' = strayed \cup SentUpTo(n) /\ committed' = committed
    BY <1>3 DEF Raise
  <2>2. SentUpTo(n) \subseteq Tx
    BY DEF IInv, TypeOK, SentUpTo
  <2>3. AgreesWith(chain)'
    BY <1>1, <2>1 DEF AgreesWith, IsMined, NoResult, mempoolVars
  <2>4. MempoolTypeOK' /\ reply' \in Reply
    BY <2>1 DEF IInv, TypeOK, mempoolVars, MempoolTypeOK, NoResult, Reply
  <2>5. saved' \in Chain /\ committed' \subseteq Tx /\ strayed' \subseteq Tx
    BY <2>1, <2>2 DEF IInv, TypeOK
  <2> QED BY <2>1, <2>3, <2>4, <2>5, HandlerEndsStep
<1> QED BY <1>2, <1>3

(***************************************************************************)
(* A new record is pending: nothing is claimed of it.                       *)
(***************************************************************************)
LEMMA SubmitStep == ASSUME IInv, NEW r \in Request, Submit(r) PROVE IInv'
<1> USE DEF Submit, AddTransaction, handlerVars, anvilVars, ghostVars
<1>1. TypeOK'
  BY DEF IInv, TypeOK, MempoolTypeOK
<1>2. HandlerPosition' /\ ReceiptsTrue' /\ PoolUnmined' /\ SnapshotBehind'
  BY DEF IInv, HandlerPosition, ReceiptsTrue, PoolUnmined, SnapshotBehind, Simulating, IsMined
<1>3. AgreesWith(chain)'
  BY DEF IInv, TypeOK, MempoolTypeOK, AgreesWith, IsMined
<1> QED BY <1>1, <1>2, <1>3 DEF IInv

(***************************************************************************)
(* A handler starts with no receipt, and a simulation with no snapshot yet. *)
(***************************************************************************)
LEMMA ReceiveBundleStep ==
    ASSUME IInv, NEW m \in {"bundle", "simulate"}, NEW n \in 1..MaxBundle,
           NEW b \in [1..n -> Tx], ReceiveBundle(m, b)
    PROVE  IInv'
<1> USE DEF ReceiveBundle, mempoolVars, anvilVars, ghostVars
<1>1. b \in Seq(Tx) /\ Len(b) = n /\ n \in Nat /\ n > 0
  BY BundleAssumption
<1>2. TypeOK'
  BY <1>1 DEF IInv, TypeOK, MempoolTypeOK, Terminal, NoPlace
<1>3. HandlerPosition' /\ ReceiptsTrue' /\ PoolUnmined' /\ SnapshotBehind'
  BY <1>1 DEF IInv, HandlerPosition, ReceiptsTrue, PoolUnmined, SnapshotBehind, Simulating, IsMined
<1>4. AgreesWith(chain)'
  BY DEF IInv, AgreesWith, IsMined
<1> QED BY <1>2, <1>3, <1>4 DEF IInv

(***************************************************************************)
(* A refused bundle leaves only its answer.                                 *)
(***************************************************************************)
LEMMA RefuseBundleStep ==
    ASSUME IInv, NEW m \in {"bundle", "simulate"}, NEW n \in 1..MaxBundle,
           NEW b \in [1..n -> Tx], RefuseBundle(m, b)
    PROVE  IInv'
<1> USE DEF RefuseBundle, mempoolVars, handlerVars, anvilVars, ghostVars
<1>1. TypeOK' /\ HandlerPosition'
  BY DEF IInv, TypeOK, MempoolTypeOK, HandlerPosition, NoResult, Reply
<1>2. ReceiptsTrue' /\ PoolUnmined' /\ SnapshotBehind'
  BY DEF IInv, ReceiptsTrue, PoolUnmined, SnapshotBehind, Simulating, IsMined
<1>3. AgreesWith(chain)'
  BY DEF IInv, AgreesWith, IsMined, NoResult
<1> QED BY <1>1, <1>2, <1>3 DEF IInv

(***************************************************************************)
(* evm_snapshot: the chain to go back to is the chain of now.               *)
(***************************************************************************)
LEMMA TakeSnapshotStep == ASSUME IInv, TakeSnapshot PROVE IInv'
<1> USE DEF TakeSnapshot, mempoolVars, ghostVars, IInv
<1>1. TypeOK'
  BY DEF TypeOK, MempoolTypeOK
<1>2. HandlerPosition'
  BY DEF HandlerPosition
<1>3. ReceiptsTrue' /\ PoolUnmined' /\ SnapshotBehind'
  BY DEF ReceiptsTrue, PoolUnmined, SnapshotBehind, AgreesWith, IsMined
<1>4. AgreesWith(chain)'
  BY DEF AgreesWith, IsMined
<1> QED BY <1>1, <1>2, <1>3, <1>4

(***************************************************************************)
(* eth_sendTransaction: an accepted transaction is not mined yet.           *)
(***************************************************************************)
LEMMA SendTransactionStep == ASSUME IInv, SendTransaction PROVE IInv'
<1> USE DEF SendTransaction, mempoolVars, ghostVars, IInv
<1>0. bundle[sent + 1] \in Tx /\ sent + 1 \in 0..Len(bundle) /\ sent < Len(bundle)
  BY DEF HandlerPosition, TypeOK
<1>1. TypeOK'
  BY <1>0 DEF TypeOK, MempoolTypeOK
<1>2. HandlerPosition'
  BY <1>0 DEF HandlerPosition, TypeOK
<1>3. PoolUnmined'
  BY <1>0 DEF PoolUnmined, AnvilAccepts, OnChain, IsMined
<1>4. ReceiptsTrue' /\ SnapshotBehind'
  BY DEF ReceiptsTrue, SnapshotBehind, Simulating, AgreesWith, IsMined
<1>5. AgreesWith(chain)'
  BY DEF AgreesWith, IsMined
<1> QED BY <1>1, <1>2, <1>3, <1>4, <1>5

(***************************************************************************)
(* A block, mined for the handler or for anybody else, keeps the invariant. *)
(***************************************************************************)
LEMMA MiningStep ==
    ASSUME IInv, AnvilMinesSome, UNCHANGED <<mempoolVars, reply, ghostVars>>,
           UNCHANGED <<mode, bundle, sent, polled, receipt>>,
           place' \in [Tx -> Nat], alone' \in BOOLEAN,
           \/ pc' = pc
           \/ pc = "mine" /\ pc' = "receipts" /\ polled < Len(bundle)
    PROVE  IInv'
<1> USE DEF mempoolVars, ghostVars
<1>0. TypeOK /\ PoolUnmined /\ AgreesWith(chain)
  BY DEF IInv
<1>1. /\ pool' \subseteq pool /\ chain' \in Chain /\ saved' = saved
      /\ Extends(chain, chain')
      /\ \A t \in pool' : ~IsMined(chain', t)
  BY <1>0, MiningExtends
<1>2. AgreesWith(chain')
  BY <1>0, <1>1, AgreementExtends
<1>3. AgreesWith(chain)'
  BY <1>2 DEF AgreesWith, IsMined
<1>4. TypeOK'
  BY <1>0, <1>1 DEF TypeOK, MempoolTypeOK
<1>5. HandlerPosition'
  BY DEF IInv, HandlerPosition
<1>6. PoolUnmined'
  BY <1>1 DEF PoolUnmined, IsMined
<1>7. ReceiptsTrue'
  <2>1. pc # "revert" \/ pc' = "revert"
    OBVIOUS
  <2> QED BY <1>1, <2>1 DEF IInv, ReceiptsTrue, Extends, IsMined
<1>8. SnapshotBehind'
  <2>1. Simulating' => Simulating
    BY DEF Simulating
  <2>2. Simulating => AgreesWith(saved) /\ \A t \in Tx : IsMined(saved, t) => IsMined(chain, t)
    BY DEF IInv, SnapshotBehind
  <2>3. AgreesWith(saved) => AgreesWith(saved)'
    BY <1>1 DEF AgreesWith, IsMined
  <2> QED BY <1>1, <2>1, <2>2, <2>3 DEF SnapshotBehind, Extends, IsMined
<1> QED BY <1>3, <1>4, <1>5, <1>6, <1>7, <1>8 DEF IInv

(***************************************************************************)
(* A receipt reports what the chain has.                                    *)
(***************************************************************************)
LEMMA WaitForReceiptStep == ASSUME IInv, WaitForReceipt PROVE IInv'
<1> USE DEF WaitForReceipt, mempoolVars, anvilVars, ghostVars, IInv
<1>0. bundle[polled + 1] \in Tx /\ polled + 1 \in 0..Len(bundle)
  BY DEF HandlerPosition, TypeOK
<1>1. StatusFromReceipt(bundle[polled + 1]) \in Terminal
  BY DEF StatusFromReceipt, Terminal
<1>2. TypeOK'
  BY <1>0, <1>1 DEF TypeOK, MempoolTypeOK
<1>3. HandlerPosition'
  BY <1>0 DEF HandlerPosition, TypeOK
<1>4. ReceiptsTrue'
  <2>1. ASSUME NEW t \in Tx
        PROVE  receipt'[t] = IF t = bundle[polled + 1] THEN StatusFromReceipt(t) ELSE receipt[t]
    BY <1>0 DEF TypeOK
  <2> QED BY <2>1 DEF ReceiptsTrue, StatusFromReceipt, OnChain, IsMined
<1>5. PoolUnmined' /\ SnapshotBehind' /\ AgreesWith(chain)'
  BY DEF PoolUnmined, SnapshotBehind, Simulating, AgreesWith, IsMined
<1> QED BY <1>2, <1>3, <1>4, <1>5

(***************************************************************************)
(* mineBundle marks the records and answers from receipts of the chain.     *)
(***************************************************************************)
LEMMA MarkBundleStep == ASSUME IInv, MarkBundle PROVE IInv'
<1> USE DEF MarkBundle, anvilVars
<1>1. /\ SentTx \subseteq Tx /\ receipt \in [Tx -> Terminal]
      /\ \A k \in DOMAIN bundle : bundle[k] \in Tx
  BY DEF IInv, TypeOK, SentTx, SentUpTo
<1>2. /\ UNCHANGED <<lastSeqNum, seqNum>>
      /\ \A r \in Request : status'[r] = IF r \in SentTx THEN receipt[r] ELSE status[r]
      /\ status' \in [Request -> {"absent", "pending"} \cup Terminal]
  BY <1>1 DEF MarkMined, IInv, TypeOK, MempoolTypeOK, Tx
<1>3. \A t \in Tx : /\ receipt[t] = "included" => IsMined(chain, t) /\ t \in chain.ok
                    /\ receipt[t] = "reverted" => IsMined(chain, t) /\ t \notin chain.ok
  BY DEF IInv, ReceiptsTrue
<1>4. AgreesWith(chain)'
  <2>0. /\ Request \subseteq Tx /\ chain' = chain
        /\ reply'.status = "included" => reply'.items = bundle /\ ResultStatus = "included"
    BY DEF Tx, Result
  <2>1. \A r \in Request : /\ status[r] = "included" => IsMined(chain, r) /\ r \in chain.ok
                           /\ status[r] = "reverted" => IsMined(chain, r) /\ r \notin chain.ok
    BY DEF IInv, AgreesWith
  <2> HIDE DEF MarkBundle
  <2>2. \A r \in Request : /\ status'[r] = "included" => IsMined(chain, r) /\ r \in chain.ok
                           /\ status'[r] = "reverted" => IsMined(chain, r) /\ r \notin chain.ok
    BY <1>2, <1>3, <2>0, <2>1
  <2>3. ResultStatus = "included" =>
          \A k \in DOMAIN bundle : IsMined(chain, bundle[k]) /\ bundle[k] \in chain.ok
    <3> SUFFICES ASSUME ResultStatus = "included", NEW k \in DOMAIN bundle
                 PROVE  IsMined(chain, bundle[k]) /\ bundle[k] \in chain.ok
      OBVIOUS
    <3>1. receipt[bundle[k]] = "included"
      BY DEF ResultStatus
    <3>2. bundle[k] \in Tx
      BY <1>1
    <3> QED BY <1>3, <3>1, <3>2
  <2>4. \A r \in Request : /\ status'[r] = "included" => IsMined(chain', r) /\ r \in chain'.ok
                           /\ status'[r] = "reverted" => IsMined(chain', r) /\ r \notin chain'.ok
    BY <2>0, <2>2
  <2>5. reply'.status = "included" =>
          \A k \in DOMAIN reply'.items : IsMined(chain', reply'.items[k]) /\ reply'.items[k] \in chain'.ok
    BY <2>0, <2>3
  <2>6. AgreesWith(chain)' <=>
          /\ \A r \in Request :
                /\ status'[r] = "included" => IsMined(chain', r) /\ r \in chain'.ok
                /\ status'[r] = "reverted" => IsMined(chain', r) /\ r \notin chain'.ok
          /\ reply'.status = "included" =>
                \A k \in DOMAIN reply'.items : IsMined(chain', reply'.items[k]) /\ reply'.items[k] \in chain'.ok
    BY DEF AgreesWith, IsMined
  <2> QED BY <2>4, <2>5, <2>6
<1>5. PoolUnmined'
  BY DEF IInv, PoolUnmined, IsMined
<1>6. MempoolTypeOK' /\ reply' \in Reply
  BY <1>2 DEF IInv, TypeOK, MempoolTypeOK, Reply, Result
<1>7. pool' \subseteq Tx /\ chain' \in Chain /\ saved' \in Chain
      /\ committed' \subseteq Tx /\ strayed' \subseteq Tx
  BY <1>1 DEF IInv, TypeOK
<1> QED BY <1>4, <1>5, <1>6, <1>7, HandlerEndsStep

(***************************************************************************)
(* The end of a simulation: with or without evm_revert, the chain agrees    *)
(* with what was marked and answered before.                                *)
(***************************************************************************)
LEMMA SimulationEnds ==
    ASSUME IInv, RevertSnapshot \/ RevertFails \/ SnapshotFails
    PROVE  IInv'
<1>0. EmptyChain \in Chain
  BY DEF EmptyChain, Chain
<1>1. SentTx \subseteq Tx
  BY DEF IInv, TypeOK, SentTx, SentUpTo
<1>2. CASE RevertSnapshot
  <2> USE <1>2 DEF RevertSnapshot, AnvilReverts, mempoolVars
  <2>1. AgreesWith(saved) /\ \A t \in Tx : IsMined(saved, t) => IsMined(chain, t)
    BY DEF IInv, HandlerPosition, SnapshotBehind, Simulating
  <2>2. AgreesWith(chain)'
    BY <2>1 DEF AgreesWith, IsMined
  <2>3. PoolUnmined'
    BY <2>1 DEF IInv, TypeOK, PoolUnmined, IsMined
  <2>4. MempoolTypeOK' /\ reply' \in Reply
    BY DEF IInv, TypeOK, MempoolTypeOK
  <2>5. /\ pool' \subseteq Tx /\ chain' \in Chain /\ saved' \in Chain
        /\ committed' \subseteq Tx /\ strayed' \subseteq Tx
    BY <1>0, <1>1 DEF IInv, TypeOK
  <2> QED BY <2>2, <2>3, <2>4, <2>5, HandlerEndsStep
<1>3. CASE RevertFails \/ SnapshotFails
  <2>0. /\ HandlerEnds
        /\ UNCHANGED <<mempoolVars, reply, anvilVars, committed>>
        /\ strayed' \subseteq strayed \cup SentTx
    BY <1>3 DEF RevertFails, SnapshotFails, ghostVars
  <2> USE <2>0 DEF mempoolVars, anvilVars
  <2>1. AgreesWith(chain)' /\ PoolUnmined'
    BY DEF IInv, AgreesWith, PoolUnmined, IsMined
  <2>2. MempoolTypeOK' /\ reply' \in Reply
    BY DEF IInv, TypeOK, MempoolTypeOK
  <2>3. /\ pool' \subseteq Tx /\ chain' \in Chain /\ saved' \in Chain
        /\ committed' \subseteq Tx /\ strayed' \subseteq Tx
    BY <1>1 DEF IInv, TypeOK
  <2> QED BY <2>0, <2>1, <2>2, <2>3, HandlerEndsStep
<1> QED BY <1>2, <1>3

(***************************************************************************)
(* A restart forgets every record and every answer.                         *)
(***************************************************************************)
LEMMA RestartStep == ASSUME IInv, Restart PROVE IInv'
<1> USE DEF Restart, anvilVars
<1>1. AgreesWith(chain)'
  BY DEF AgreesWith, NoResult
<1>2. PoolUnmined'
  BY DEF IInv, PoolUnmined, IsMined
<1>3. MempoolTypeOK' /\ reply' \in Reply
  BY DEF MempoolTypeOK, NoResult, Reply
<1>4. SentTx \subseteq Tx
  BY DEF IInv, TypeOK, SentTx, SentUpTo
<1>5. /\ pool' \subseteq Tx /\ chain' \in Chain /\ saved' \in Chain
      /\ committed' \subseteq Tx /\ strayed' \subseteq Tx
  BY <1>4 DEF IInv, TypeOK
<1> QED BY <1>1, <1>2, <1>3, <1>5, HandlerEndsStep

-----------------------------------------------------------------------------
(***************************************************************************)
(* The inductive invariant holds at the start, on an empty chain.           *)
(***************************************************************************)
LEMMA InitIInv == Init => IInv
<1> SUFFICES ASSUME Init PROVE IInv
  OBVIOUS
<1> USE DEF Init, MempoolInit
<1>1. EmptyChain \in Chain /\ NoResult \in Reply
  BY DEF EmptyChain, Chain, NoResult, Reply
<1>2. TypeOK
  BY <1>1 DEF TypeOK, MempoolTypeOK, Terminal, NoPlace
<1>3. HandlerPosition /\ SnapshotBehind /\ PoolUnmined /\ ReceiptsTrue
  BY DEF HandlerPosition, SnapshotBehind, Simulating, PoolUnmined, ReceiptsTrue
<1>4. AgreesWith(chain)
  BY DEF AgreesWith, NoResult
<1> QED BY <1>2, <1>3, <1>4 DEF IInv

(***************************************************************************)
(* A call to Anvil that raises, at each of the three places it can.         *)
(***************************************************************************)
LEMMA FailureStep ==
    ASSUME IInv, SendFails \/ SendResponseLost \/ MineBlockFails \/ WaitForReceiptFails
    PROVE  IInv'
<1>0. /\ TypeOK /\ PoolUnmined /\ HandlerPosition
      /\ sent \in 0..Len(bundle) /\ pool \subseteq Tx /\ chain \in Chain
  BY DEF IInv, TypeOK
<1>1. CASE UNCHANGED <<mempoolVars, anvilVars>> /\ Raise(sent) /\ pc \in {"send", "mine", "receipts"}
  <2>1. PoolUnmined' /\ Extends(chain, chain')
    BY <1>0, <1>1 DEF PoolUnmined, Extends, IsMined, anvilVars
  <2> QED BY <1>0, <1>1, <2>1, RaiseStep DEF anvilVars
<1>2. CASE SendResponseLost
  <2>1. bundle[sent + 1] \in Tx /\ sent + 1 \in 0..Len(bundle)
    BY <1>0, <1>2 DEF SendResponseLost, HandlerPosition, TypeOK
  <2>2. PoolUnmined' /\ Extends(chain, chain') /\ pool' \subseteq Tx
    BY <1>0, <1>2, <2>1 DEF SendResponseLost, PoolUnmined, Extends, IsMined, AnvilAccepts, OnChain
  <2> QED BY <1>0, <1>2, <2>1, <2>2, RaiseStep DEF SendResponseLost
<1>3. CASE MineBlockFails /\ AnvilMinesSome
  <2>1. /\ pool' \subseteq pool /\ chain' \in Chain /\ saved' = saved
        /\ Extends(chain, chain')
        /\ \A t \in pool' : ~IsMined(chain', t)
    BY <1>0, <1>3, MiningExtends
  <2>2. PoolUnmined' /\ pool' \subseteq Tx
    BY <1>0, <2>1 DEF PoolUnmined, IsMined
  <2> QED BY <1>0, <1>3, <2>1, <2>2, RaiseStep DEF MineBlockFails
<1>4. \/ UNCHANGED <<mempoolVars, anvilVars>> /\ Raise(sent) /\ pc \in {"send", "mine", "receipts"}
      \/ SendResponseLost
      \/ MineBlockFails /\ AnvilMinesSome
  BY DEF SendFails, MineBlockFails, WaitForReceiptFails
<1> QED BY <1>1, <1>2, <1>3, <1>4

(***************************************************************************)
(* Every step keeps the inductive invariant: one lemma per kind of step.    *)
(***************************************************************************)
THEOREM Invariance == Spec => []IInv
<1>1. IInv /\ [Next]_vars => IInv'
  <2> SUFFICES ASSUME IInv, [Next]_vars PROVE IInv'
    OBVIOUS
  <2>1. ASSUME NEW r \in Request, Submit(r) PROVE IInv'
    BY <2>1, SubmitStep
  <2>2. ASSUME NEW m \in {"bundle", "simulate"}, NEW n \in 1..MaxBundle,
               NEW b \in [1..n -> Tx], ReceiveBundle(m, b)
        PROVE  IInv'
    BY <2>2, ReceiveBundleStep
  <2>3. CASE MineBlock
    <3>1. pc = "mine" /\ polled < Len(bundle)
      BY <2>3 DEF IInv, HandlerPosition, MineBlock
    <3>2. PICK order \in BlockOrders(pool \ pool') :
              place' = [t \in Tx |-> IF t \in pool \ pool' THEN order[t] ELSE 0]
      BY <2>3 DEF MineBlock
    <3>3. place' \in [Tx -> Nat]
      BY <3>2 DEF BlockOrders
    <3>4. alone' \in BOOLEAN
      BY <2>3 DEF MineBlock, IInv, TypeOK
    <3> QED BY <2>3, <3>1, <3>3, <3>4, MiningStep DEF MineBlock
  <2>4. CASE ExternalMine
    <3>1. place' \in [Tx -> Nat] /\ alone' \in BOOLEAN
      BY <2>4 DEF ExternalMine, IInv, TypeOK
    <3> QED BY <2>4, <3>1, MiningStep DEF ExternalMine
  <2>5. CASE UNCHANGED vars
    <3> USE <2>5 DEF vars, mempoolVars, handlerVars, anvilVars, ghostVars
    <3>1. TypeOK' /\ HandlerPosition'
      BY DEF IInv, TypeOK, MempoolTypeOK, HandlerPosition
    <3>2. AgreesWith(chain)' /\ SnapshotBehind' /\ PoolUnmined' /\ ReceiptsTrue'
      BY DEF IInv, AgreesWith, SnapshotBehind, Simulating, PoolUnmined, ReceiptsTrue, IsMined
    <3> QED BY <3>1, <3>2 DEF IInv
  <2>6. ASSUME NEW m \in {"bundle", "simulate"}, NEW n \in 1..MaxBundle,
               NEW b \in [1..n -> Tx], RefuseBundle(m, b)
        PROVE  IInv'
    BY <2>6, RefuseBundleStep
  <2> QED BY <2>1, <2>2, <2>3, <2>4, <2>5, <2>6, TakeSnapshotStep, SendTransactionStep,
             WaitForReceiptStep, MarkBundleStep, SimulationEnds, FailureStep, RestartStep
          DEF Next
<1> QED BY InitIInv, <1>1, PTL DEF Spec

(***************************************************************************)
(* Every variable of the private side keeps its type.                       *)
(***************************************************************************)
THEOREM TypeCorrect == Spec => []TypeOK
<1>1. IInv => TypeOK
  BY DEF IInv
<1> QED BY <1>1, Invariance, PTL

(***************************************************************************)
(* A record marked included or reverted is on the chain with that outcome,  *)
(* whatever simulations, failures and foreign blocks come after.            *)
(***************************************************************************)
THEOREM MarksMatchChain == Spec => []MarkedAsOnChain
<1>1. IInv => MarkedAsOnChain
  BY DEF IInv, AgreesWith, MarkedAsOnChain, OnChain, Tx
<1> QED BY <1>1, Invariance, PTL

(***************************************************************************)
(* An answer "included" of mineBundle is true of every item, and stays so.  *)
(***************************************************************************)
THEOREM IncludedMeansMined == Spec => []IncludedReplyTruthful
<1>1. IInv => IncludedReplyTruthful
  BY DEF IInv, TypeOK, Reply, AgreesWith, IncludedReplyTruthful, OnChain
<1> QED BY <1>1, Invariance, PTL
-----------------------------------------------------------------------------
(***************************************************************************)
(* What runs of the builder leave behind: in Anvil's pool, on the chain,    *)
(* among the statuses of the mempool, and the block of a bundle.            *)
(***************************************************************************)

\* How much of the bundle was sent, by where the handler is.
SentSoFar ==
    /\ pc \in {"idle", "snapshot"} => sent = 0
    /\ pc \in {"mine", "receipts", "mark"} => sent = Len(bundle)

\* What is in Anvil was brought there by an answered bundle, by a run that
\* strayed, or by the run of now; what a simulation goes back to was not
\* brought by it.
Accounted ==
    /\ \A t \in Tx : IsMined(chain, t) \/ t \in pool => t \in committed \cup strayed \cup SentTx
    /\ Simulating => \A t \in Tx : IsMined(saved, t) => t \in committed \cup strayed

\* The records of an answered bundle have a final status, or belong to a run
\* that strayed.
CommittedFinal == \A r \in Request : r \in committed => status[r] \in Terminal \/ r \in strayed

\* The records of the bundle being run are pending.
ReferencedPending ==
    pc # "idle" => \A k \in DOMAIN bundle : bundle[k] \in Request => status[bundle[k]] = "pending"

Traces == SentSoFar /\ Accounted /\ CommittedFinal /\ ReferencedPending

\* As long as nobody else mined of it, the bundle waits in the pool until its
\* own block, and what that block took of it has one number.
RunInOneBlock ==
    alone => /\ pc \in {"send", "mine"} => SentTx \subseteq pool
             /\ pc \in {"receipts", "mark"} =>
                   \A s, t \in SentTx \ pool : chain.block[s] = chain.block[t]

OneBlock(ch) ==
    reply.status = "included" /\ reply.alone =>
        \A j, k \in DOMAIN reply.items : ch.block[reply.items[j]] = ch.block[reply.items[k]]

Blocks == RunInOneBlock /\ OneBlock(chain) /\ (Simulating => OneBlock(saved))
-----------------------------------------------------------------------------
(***************************************************************************)
(* What was sent is of the bundle; one more item is one more in the set.    *)
(***************************************************************************)
LEMMA SentFacts ==
    ASSUME TypeOK
    PROVE  /\ SentTx \subseteq Tx
           /\ \A k \in DOMAIN bundle : bundle[k] \in Tx
           /\ \A n \in 0..Len(bundle) : \A t \in SentUpTo(n) : \E k \in DOMAIN bundle : t = bundle[k]
           /\ sent < Len(bundle) => SentUpTo(sent + 1) = SentTx \cup {bundle[sent + 1]}
           /\ sent = Len(bundle) => \A k \in DOMAIN bundle : bundle[k] \in SentTx
           /\ sent = 0 => SentTx = {}
<1>1. DOMAIN bundle = 1..Len(bundle) /\ Len(bundle) \in Nat /\ sent \in 0..Len(bundle)
  BY DEF TypeOK
<1>2. \A k \in DOMAIN bundle : bundle[k] \in Tx
  BY DEF TypeOK
<1>3. ASSUME sent < Len(bundle)
      PROVE  SentUpTo(sent + 1) = SentTx \cup {bundle[sent + 1]}
  <2>1. 1..(sent + 1) = (1..sent) \cup {sent + 1}
    BY <1>1
  <2> QED BY <2>1 DEF SentTx, SentUpTo
<1>4. SentTx \subseteq Tx /\ (sent = 0 => SentTx = {})
  BY <1>1, <1>2 DEF SentTx, SentUpTo
<1>5. \A n \in 0..Len(bundle) : \A t \in SentUpTo(n) : \E k \in DOMAIN bundle : t = bundle[k]
  BY <1>1 DEF SentUpTo
<1>6. sent = Len(bundle) => \A k \in DOMAIN bundle : bundle[k] \in SentTx
  BY <1>1 DEF SentTx, SentUpTo
<1> QED BY <1>2, <1>3, <1>4, <1>5, <1>6

(***************************************************************************)
(* A block takes transactions out of the pool and gives them one number;    *)
(* nothing else changes its block.                                          *)
(***************************************************************************)
LEMMA MiningMoves ==
    ASSUME TypeOK, PoolUnmined, AnvilMinesSome
    PROVE  /\ pool' \subseteq pool /\ saved' = saved
           /\ \A t \in Tx : IsMined(chain', t) => IsMined(chain, t) \/ t \in pool
           /\ \A t \in Tx : t \notin pool => chain'.block[t] = chain.block[t]
           /\ \A s, t \in pool \ pool' : chain'.block[s] = chain'.block[t]
<1>0. PICK S \in SUBSET pool : \E good \in SUBSET S : AnvilMines(S, good)
  BY DEF AnvilMinesSome
<1>1. /\ pool' = pool \ S /\ saved' = saved
      /\ \A t \in Tx : chain'.block[t] = IF t \in S THEN chain.height + 1 ELSE chain.block[t]
  BY <1>0 DEF AnvilMines
<1>2. pool \ pool' = S /\ S \subseteq Tx
  BY <1>1 DEF TypeOK
<1> QED BY <1>1, <1>2 DEF IsMined

(***************************************************************************)
(* The end of a handler forgets the bundle.                                 *)
(***************************************************************************)
LEMMA EndsFacts ==
    ASSUME HandlerEnds
    PROVE  /\ SentSoFar' /\ ReferencedPending' /\ RunInOneBlock'
           /\ ~Simulating' /\ SentTx' = {}
<1>1. sent' = 0 /\ pc' = "idle"
  BY DEF HandlerEnds
<1> QED BY <1>1 DEF SentSoFar, ReferencedPending, RunInOneBlock, Simulating, SentTx, SentUpTo

-----------------------------------------------------------------------------
(* Traces, one lemma per kind of step. *)

(***************************************************************************)
(* Between bundles: records are submitted, bundles received or refused.     *)
(***************************************************************************)
LEMMA TracesIdle ==
    ASSUME IInv, Traces,
           \/ \E r \in Request : Submit(r)
           \/ \E m \in {"bundle", "simulate"}, n \in 1..MaxBundle : \E b \in [1..n -> Tx] :
                 ReceiveBundle(m, b) \/ RefuseBundle(m, b)
    PROVE  Traces'
<1> USE DEF Traces, anvilVars, ghostVars, mempoolVars, handlerVars
<1>0. TypeOK /\ pc = "idle" /\ sent = 0 /\ SentTx = {}
  BY SentFacts DEF IInv, SentSoFar, Submit, ReceiveBundle, RefuseBundle
<1>1. ASSUME NEW r \in Request, Submit(r) PROVE Traces'
  <2>1. /\ status[r] = "absent" /\ status' = [status EXCEPT ![r] = "pending"]
        /\ UNCHANGED <<handlerVars, anvilVars, ghostVars>>
    BY <1>1 DEF Submit, AddTransaction, Known
  <2>2. SentSoFar' /\ Accounted' /\ ReferencedPending'
    BY <1>0, <2>1 DEF SentSoFar, Accounted, Simulating, SentTx, SentUpTo, ReferencedPending
  <2>3. CommittedFinal'
    BY <1>0, <2>1 DEF CommittedFinal, TypeOK, MempoolTypeOK, Terminal
  <2> QED BY <2>2, <2>3
<1>2. ASSUME NEW m \in {"bundle", "simulate"}, NEW n \in 1..MaxBundle,
             NEW b \in [1..n -> Tx], ReceiveBundle(m, b)
      PROVE  Traces'
  <2>1. /\ pc' \in {"snapshot", "send"} /\ mode' = m /\ bundle' = b /\ sent' = 0
        /\ m = "simulate" => pc' = "snapshot"
        /\ \A k \in DOMAIN b : b[k] \in Pending \cup Private
        /\ UNCHANGED <<mempoolVars, anvilVars, ghostVars>>
    BY <1>2 DEF ReceiveBundle
  <2>2. SentTx' = {}
    BY <2>1 DEF SentTx, SentUpTo
  <2>3. SentSoFar' /\ Accounted' /\ CommittedFinal'
    BY <1>0, <2>1, <2>2 DEF SentSoFar, Accounted, Simulating, CommittedFinal, IsMined
  <2>4. ReferencedPending'
    BY <2>1, BundleAssumption DEF ReferencedPending, Pending
  <2> QED BY <2>3, <2>4
<1>3. ASSUME NEW m \in {"bundle", "simulate"}, NEW n \in 1..MaxBundle,
             NEW b \in [1..n -> Tx], RefuseBundle(m, b)
      PROVE  Traces'
  <2>1. UNCHANGED <<mempoolVars, handlerVars, anvilVars, ghostVars>>
    BY <1>3 DEF RefuseBundle
  <2> QED BY <2>1 DEF SentSoFar, Accounted, Simulating, SentTx, SentUpTo, CommittedFinal,
                      ReferencedPending
<1> QED BY <1>1, <1>2, <1>3

(***************************************************************************)
(* Calls that succeed and leave the handler running.                        *)
(***************************************************************************)
LEMMA TracesRunning ==
    ASSUME IInv, Traces, TakeSnapshot \/ SendTransaction \/ WaitForReceipt
    PROVE  Traces'
<1> USE DEF Traces, anvilVars, ghostVars, mempoolVars
<1>0. TypeOK /\ HandlerPosition
  BY DEF IInv
<1>1. CASE TakeSnapshot
  <2>1. /\ pc = "snapshot" /\ pc' = "send" /\ saved' = chain
        /\ UNCHANGED <<mempoolVars, mode, bundle, sent, pool, chain, ghostVars>>
    BY <1>1 DEF TakeSnapshot
  <2>2. SentTx = {} /\ SentTx' = {}
    BY <1>0, <2>1, SentFacts DEF SentSoFar, SentTx, SentUpTo
  <2> QED BY <2>1, <2>2 DEF SentSoFar, Accounted, CommittedFinal, ReferencedPending, IsMined
<1>2. CASE SendTransaction
  <2>1. /\ pc = "send" /\ sent < Len(bundle) /\ sent' = sent + 1
        /\ pc' = IF sent' = Len(bundle) THEN "mine" ELSE "send"
        /\ pool' = pool \cup {bundle[sent + 1]}
        /\ UNCHANGED <<mempoolVars, mode, bundle, chain, saved, ghostVars>>
    BY <1>0, <1>2 DEF SendTransaction, HandlerPosition
  <2>2. SentTx' = SentTx \cup {bundle[sent + 1]}
    BY <1>0, <2>1, SentFacts DEF SentTx, SentUpTo
  <2>3. Accounted'
    BY <2>1, <2>2 DEF Accounted, Simulating, IsMined
  <2>4. SentSoFar' /\ CommittedFinal' /\ ReferencedPending'
    BY <1>0, <2>1 DEF SentSoFar, CommittedFinal, ReferencedPending, TypeOK
  <2> QED BY <2>3, <2>4
<1>3. CASE WaitForReceipt
  <2>1. /\ pc = "receipts" /\ pc' \in {"receipts", "revert", "mark"}
        /\ UNCHANGED <<mempoolVars, mode, bundle, sent, anvilVars, ghostVars>>
    BY <1>3 DEF WaitForReceipt
  <2> QED BY <2>1 DEF SentSoFar, Accounted, Simulating, SentTx, SentUpTo, CommittedFinal,
                      ReferencedPending, IsMined
<1> QED BY <1>1, <1>2, <1>3

(***************************************************************************)
(* A block only moves transactions from the pool to the chain.              *)
(***************************************************************************)
LEMMA TracesMining ==
    ASSUME IInv, Traces, MineBlock \/ ExternalMine
    PROVE  Traces'
<1> USE DEF Traces, ghostVars, mempoolVars
<1>0. TypeOK /\ PoolUnmined /\ AnvilMinesSome
  BY DEF IInv, MineBlock, ExternalMine
<1>1. /\ pool' \subseteq pool /\ saved' = saved
      /\ \A t \in Tx : IsMined(chain', t) => IsMined(chain, t) \/ t \in pool
  BY <1>0, MiningMoves
<1>2. /\ pc' = pc \/ (pc = "mine" /\ pc' = "receipts")
      /\ UNCHANGED <<mempoolVars, mode, bundle, sent, ghostVars>>
  BY DEF MineBlock, ExternalMine
<1>3. Accounted'
  BY <1>1, <1>2 DEF Accounted, Simulating, SentTx, SentUpTo, IsMined
<1>4. SentSoFar' /\ CommittedFinal' /\ ReferencedPending'
  BY <1>2 DEF SentSoFar, CommittedFinal, ReferencedPending
<1> QED BY <1>3, <1>4

(***************************************************************************)
(* An exception, wherever it is raised: what the call brought to Anvil is   *)
(* among the first n items, which stray unless a finally clause comes.      *)
(***************************************************************************)
LEMMA TracesRaise ==
    ASSUME IInv, Traces, NEW n \in 0..Len(bundle), Raise(n),
           UNCHANGED mempoolVars, saved' = saved, SentTx \subseteq SentUpTo(n),
           pc \in {"send", "mine", "receipts"},
           \A t \in Tx : IsMined(chain', t) \/ t \in pool'
                         => IsMined(chain, t) \/ t \in pool \/ t \in SentUpTo(n)
    PROVE  Traces'
<1> USE DEF Traces, ghostVars, mempoolVars
<1>1. CASE mode = "simulate"
  <2>1. /\ pc' = "revert" /\ sent' = n /\ UNCHANGED <<mode, bundle, ghostVars>>
    BY <1>1 DEF Raise
  <2>2. SentTx' = SentUpTo(n)
    BY <2>1 DEF SentTx, SentUpTo
  <2>3. Accounted'
    BY <1>1, <2>1, <2>2 DEF Accounted, Simulating, IsMined
  <2>4. SentSoFar' /\ CommittedFinal' /\ ReferencedPending'
    BY <2>1 DEF SentSoFar, CommittedFinal, ReferencedPending
  <2> QED BY <2>3, <2>4
<1>2. CASE mode # "simulate"
  <2>1. HandlerEnds /\ strayed' = strayed \cup SentUpTo(n) /\ committed' = committed
    BY <1>2 DEF Raise
  <2>2. SentSoFar' /\ ReferencedPending' /\ ~Simulating'
    BY <2>1, EndsFacts
  <2>3. Accounted'
    BY <2>1, <2>2 DEF Accounted, IsMined
  <2>4. CommittedFinal'
    BY <2>1 DEF CommittedFinal
  <2> QED BY <2>2, <2>3, <2>4
<1> QED BY <1>1, <1>2

(***************************************************************************)
(* The calls that raise: what each may have done to Anvil.                  *)
(***************************************************************************)
LEMMA TracesFailure ==
    ASSUME IInv, Traces,
           SendFails \/ SendResponseLost \/ MineBlockFails \/ WaitForReceiptFails
    PROVE  Traces'
<1>0. TypeOK /\ PoolUnmined /\ HandlerPosition /\ sent \in 0..Len(bundle) /\ SentTx = SentUpTo(sent)
  BY DEF IInv, TypeOK, SentTx
<1>1. CASE UNCHANGED <<mempoolVars, anvilVars>> /\ Raise(sent) /\ pc \in {"send", "mine", "receipts"}
  BY <1>0, <1>1, TracesRaise DEF anvilVars, IsMined
<1>2. CASE SendResponseLost
  <2>1. /\ sent + 1 \in 0..Len(bundle) /\ SentUpTo(sent + 1) = SentTx \cup {bundle[sent + 1]}
    BY <1>0, <1>2, SentFacts DEF SendResponseLost, HandlerPosition, TypeOK
  <2>2. \A t \in Tx : IsMined(chain', t) \/ t \in pool'
                         => IsMined(chain, t) \/ t \in pool \/ t \in SentUpTo(sent + 1)
    BY <1>2, <2>1 DEF SendResponseLost, IsMined
  <2> QED BY <1>2, <2>1, <2>2, TracesRaise DEF SendResponseLost
<1>3. CASE MineBlockFails /\ AnvilMinesSome
  <2>1. /\ pool' \subseteq pool /\ saved' = saved
        /\ \A t \in Tx : IsMined(chain', t) => IsMined(chain, t) \/ t \in pool
    BY <1>0, <1>3, MiningMoves
  <2> QED BY <1>0, <1>3, <2>1, TracesRaise DEF MineBlockFails
<1>4. \/ UNCHANGED <<mempoolVars, anvilVars>> /\ Raise(sent) /\ pc \in {"send", "mine", "receipts"}
      \/ SendResponseLost
      \/ MineBlockFails /\ AnvilMinesSome
  BY DEF SendFails, MineBlockFails, WaitForReceiptFails
<1> QED BY <1>1, <1>2, <1>3, <1>4

(***************************************************************************)
(* mineBundle answers: the records get their final statuses, and all that   *)
(* was sent is accounted for as committed.                                  *)
(***************************************************************************)
LEMMA TracesMark == ASSUME IInv, Traces, MarkBundle PROVE Traces'
<1>1. /\ HandlerEnds /\ committed' = committed \cup SentTx
      /\ UNCHANGED <<pool, chain, saved, strayed>>
  BY DEF MarkBundle, anvilVars
<1>2. SentSoFar' /\ ReferencedPending' /\ ~Simulating'
  BY <1>1, EndsFacts
<1>3. \A r \in Request : status'[r] = IF r \in SentTx THEN receipt[r] ELSE status[r]
  BY DEF MarkBundle, MarkMined
<1>4. \A r \in Request : receipt[r] \in Terminal
  BY DEF IInv, TypeOK, Tx
<1>5. CommittedFinal'
  BY <1>1, <1>3, <1>4 DEF Traces, CommittedFinal
<1>6. Accounted'
  BY <1>1, <1>2 DEF Traces, Accounted, IsMined
<1> QED BY <1>2, <1>5, <1>6 DEF Traces

(***************************************************************************)
(* The other ends of a handler: what it leaves in Anvil strays.             *)
(***************************************************************************)
LEMMA TracesEnd ==
    ASSUME IInv, Traces, SnapshotFails \/ RevertSnapshot \/ RevertFails \/ Restart
    PROVE  Traces'
<1> USE DEF anvilVars, ghostVars, mempoolVars
<1>0. HandlerEnds
  BY DEF SnapshotFails, RevertSnapshot, RevertFails, Restart
<1>1. SentSoFar' /\ ReferencedPending' /\ ~Simulating'
  BY <1>0, EndsFacts
<1>2. CommittedFinal'
  BY DEF Traces, CommittedFinal, SnapshotFails, RevertSnapshot, RevertFails, Restart
<1>3. Accounted'
  <2>1. CASE SnapshotFails
    <3>1. SentTx = {}
      BY <2>1, SentFacts DEF SnapshotFails, IInv, Traces, SentSoFar
    <3> QED BY <1>1, <2>1, <3>1 DEF SnapshotFails, Traces, Accounted, IsMined
  <2>2. CASE RevertSnapshot
    <3>1. Simulating
      BY <2>2 DEF RevertSnapshot, IInv, HandlerPosition, Simulating
    <3>2. chain' = saved /\ pool' \subseteq pool
          /\ strayed' = strayed \cup (SentTx \cap pool') /\ committed' = committed
      BY <2>2 DEF RevertSnapshot, AnvilReverts
    <3> QED BY <1>1, <3>1, <3>2 DEF Traces, Accounted, IsMined
  <2>3. CASE RevertFails \/ Restart
    <3>1. /\ UNCHANGED <<chain, pool>>
          /\ committed \cup strayed \cup SentTx \subseteq committed' \cup strayed'
      BY <2>3 DEF RevertFails, Restart
    <3> QED BY <1>1, <3>1 DEF Traces, Accounted, IsMined
  <2> QED BY <2>1, <2>2, <2>3
<1> QED BY <1>1, <1>2, <1>3 DEF Traces

(***************************************************************************)
(* What runs leave behind is accounted for, in every reachable state.       *)
(***************************************************************************)
THEOREM TracesInvariance == Spec => []Traces
<1>1. Init => Traces
  BY DEF Init, MempoolInit, EmptyChain, IsMined, Traces, SentSoFar, Accounted, Simulating,
         SentTx, SentUpTo, CommittedFinal, ReferencedPending
<1>2. IInv /\ Traces /\ [Next]_vars => Traces'
  <2> SUFFICES ASSUME IInv, Traces, [Next]_vars PROVE Traces'
    OBVIOUS
  <2>1. CASE UNCHANGED vars
    BY <2>1 DEF vars, mempoolVars, handlerVars, anvilVars, ghostVars, Traces, SentSoFar,
                Accounted, Simulating, SentTx, SentUpTo, CommittedFinal, ReferencedPending,
                IsMined
  <2> QED BY <2>1, TracesIdle, TracesRunning, TracesMining, TracesFailure, TracesMark, TracesEnd
          DEF Next
<1> QED BY <1>1, <1>2, Invariance, PTL DEF Spec

(***************************************************************************)
(* A record that is pending although mined was left behind by a run that    *)
(* failed, was killed or only simulated it.                                 *)
(***************************************************************************)
THEOREM MinedIsMarked == Spec => []PendingMinedOnlyIfStrayed
<1>1. IInv /\ Traces => PendingMinedOnlyIfStrayed
  <2> SUFFICES ASSUME IInv, Traces, NEW r \in Pending \cap OnChain
               PROVE  r \in strayed \/ (pc # "idle" /\ r \in SentTx)
    BY DEF PendingMinedOnlyIfStrayed
  <2>1. r \in Request /\ status[r] = "pending" /\ r \in Tx /\ IsMined(chain, r)
    BY DEF Pending, OnChain
  <2>2. r \in committed \cup strayed \cup SentTx
    BY <2>1 DEF Traces, Accounted
  <2>3. r \in committed => r \in strayed
    BY <2>1 DEF Traces, CommittedFinal, Terminal
  <2>4. r \in SentTx => pc # "idle"
    BY SentFacts DEF IInv, Traces, SentSoFar
  <2> QED BY <2>2, <2>3, <2>4
<1> QED BY <1>1, Invariance, TracesInvariance, PTL

(***************************************************************************)
(* Between bundles the chain has only transactions of answered bundles and  *)
(* of runs that strayed: a simulation whose evm_revert succeeded left none. *)
(***************************************************************************)
THEOREM SimulationsVanish == Spec => []SimulationLeavesNoTrace
<1>1. IInv /\ Traces => SimulationLeavesNoTrace
  BY SentFacts DEF IInv, Traces, SentSoFar, Accounted, SimulationLeavesNoTrace, OnChain
<1> QED BY <1>1, Invariance, TracesInvariance, PTL

(***************************************************************************)
(* A record with a final status keeps it until the builder is restarted,    *)
(* because the bundle that is being run refers to pending records only.     *)
(***************************************************************************)
THEOREM FinalStatus == Spec => FinalStatusKept
<1>1. IInv /\ Traces /\ [Next]_vars => [StatusKept]_vars
  <2> SUFFICES ASSUME IInv, Traces, [Next]_vars PROVE StatusKept
    OBVIOUS
  <2> USE DEF StatusKept
  <2>1. CASE UNCHANGED status
    BY <2>1
  <2>2. ASSUME NEW r \in Request, Submit(r) PROVE StatusKept
    BY <2>2 DEF Submit, AddTransaction, Known, Terminal
  <2>3. CASE MarkBundle
    <3>1. \A r \in Request : status'[r] = IF r \in SentTx THEN receipt[r] ELSE status[r]
      BY <2>3 DEF MarkBundle, MarkMined
    <3>2. pc = "mark" /\ sent \in 0..Len(bundle) /\ SentTx = SentUpTo(sent) /\ TypeOK
      BY <2>3 DEF MarkBundle, IInv, TypeOK, SentTx
    <3>3. \A r \in Request : r \in SentTx => status[r] = "pending"
      BY <3>2, SentFacts DEF Traces, ReferencedPending
    <3> QED BY <3>1, <3>3 DEF Terminal
  <2>4. CASE Restart
    BY <2>4 DEF Restart
  <2>5. \/ UNCHANGED status \/ (\E r \in Request : Submit(r)) \/ MarkBundle \/ Restart
    BY DEF Next, vars, mempoolVars, ReceiveBundle, RefuseBundle, TakeSnapshot, SnapshotFails,
           SendTransaction, SendFails, SendResponseLost, MineBlock, MineBlockFails,
           WaitForReceipt, WaitForReceiptFails, RevertSnapshot, RevertFails, ExternalMine
  <2> QED BY <2>1, <2>2, <2>3, <2>4, <2>5
<1> QED BY <1>1, Invariance, TracesInvariance, PTL DEF Spec, FinalStatusKept

-----------------------------------------------------------------------------
(* The block of a bundle. *)

(***************************************************************************)
(* What is answered stays in its block as long as the blocks of its items   *)
(* do: every step but the one that answers keeps that.                      *)
(***************************************************************************)
LEMMA BlockKept ==
    ASSUME NEW c, NEW d, TypeOK, AgreesWith(c), OneBlock(c),
           \A t \in Tx : IsMined(c, t) => d.block[t] = c.block[t]
    PROVE  OneBlock(d)
<1>1. \A k \in DOMAIN reply.items : reply.items[k] \in Tx
  BY DEF TypeOK, Reply
<1> QED BY <1>1 DEF OneBlock, AgreesWith

(***************************************************************************)
(* Steps that neither mine nor answer nor go back.                          *)
(***************************************************************************)
LEMMA BlocksUnmined ==
    ASSUME IInv, Traces, Blocks, UNCHANGED <<chain, reply>>,
           \/ UNCHANGED <<pc, mode, bundle, sent, alone, pool, saved>>
           \/ HandlerEnds
           \/ SendTransaction \/ TakeSnapshot \/ WaitForReceipt
           \/ \E m \in {"bundle", "simulate"}, n \in 1..MaxBundle : \E b \in [1..n -> Tx] :
                 ReceiveBundle(m, b)
    PROVE  Blocks'
<1> USE DEF Blocks, ghostVars, anvilVars
<1>0. TypeOK /\ HandlerPosition
  BY DEF IInv
<1>1. OneBlock(chain)'
  BY DEF OneBlock
<1>2. CASE UNCHANGED <<pc, mode, bundle, sent, alone, pool, saved>>
  BY <1>1, <1>2 DEF RunInOneBlock, OneBlock, Simulating, SentTx, SentUpTo
<1>3. CASE HandlerEnds
  BY <1>1, <1>3, EndsFacts
<1>5. CASE SendTransaction
  <2>1. /\ pc = "send" /\ sent < Len(bundle) /\ sent' = sent + 1
        /\ pc' \in {"send", "mine"} /\ pool' = pool \cup {bundle[sent + 1]}
        /\ UNCHANGED <<mode, bundle, alone, saved>>
    BY <1>0, <1>5 DEF SendTransaction, HandlerPosition
  <2>2. SentTx' = SentTx \cup {bundle[sent + 1]}
    BY <1>0, <2>1, SentFacts DEF SentTx, SentUpTo
  <2>3. RunInOneBlock'
    BY <2>1, <2>2 DEF RunInOneBlock
  <2>4. Simulating' => OneBlock(saved)'
    BY <2>1 DEF Simulating, OneBlock
  <2> QED BY <1>1, <2>3, <2>4
<1>6. CASE TakeSnapshot
  <2>1. pc = "snapshot" /\ pc' = "send" /\ saved' = chain /\ sent' = sent
    BY <1>6 DEF TakeSnapshot
  <2>2. SentTx' = {}
    BY <2>1 DEF Traces, SentSoFar, SentTx, SentUpTo
  <2> QED BY <1>1, <2>1, <2>2 DEF RunInOneBlock, OneBlock
<1>7. CASE WaitForReceipt
  <2>1. /\ pc = "receipts" /\ pc' \in {"receipts", "revert", "mark"}
        /\ UNCHANGED <<mode, bundle, sent, alone, pool, saved>>
    BY <1>7 DEF WaitForReceipt
  <2> QED BY <1>1, <2>1 DEF RunInOneBlock, OneBlock, Simulating, SentTx, SentUpTo
<1>8. ASSUME NEW m \in {"bundle", "simulate"}, NEW n \in 1..MaxBundle,
             NEW b \in [1..n -> Tx], ReceiveBundle(m, b)
      PROVE  Blocks'
  <2>1. /\ pc' \in {"snapshot", "send"} /\ mode' = m /\ sent' = 0
        /\ m = "simulate" => pc' = "snapshot"
    BY <1>8 DEF ReceiveBundle
  <2>2. SentTx' = {} /\ ~Simulating'
    BY <2>1 DEF SentTx, SentUpTo, Simulating
  <2> QED BY <1>1, <2>1, <2>2 DEF RunInOneBlock
<1> QED BY <1>2, <1>3, <1>5, <1>6, <1>7, <1>8

(***************************************************************************)
(* An answer that is not "included" says nothing of blocks.                 *)
(***************************************************************************)
LEMMA BlocksForgotten ==
    ASSUME Blocks, reply' = NoResult, HandlerEnds
    PROVE  Blocks'
<1>1. OneBlock(chain)'
  BY DEF OneBlock, NoResult
<1> QED BY <1>1, EndsFacts DEF Blocks

(***************************************************************************)
(* A block, mined for the handler or for anybody else.                      *)
(***************************************************************************)
LEMMA BlocksMined ==
    ASSUME IInv, Traces, Blocks, MineBlock \/ ExternalMine
    PROVE  Blocks'
<1> USE DEF Blocks, ghostVars, mempoolVars
<1>0. TypeOK /\ PoolUnmined /\ AnvilMinesSome /\ AgreesWith(chain) /\ SentTx \subseteq Tx
  BY SentFacts DEF IInv, MineBlock, ExternalMine
<1>1. /\ pool' \subseteq pool /\ saved' = saved
      /\ \A t \in Tx : t \notin pool => chain'.block[t] = chain.block[t]
      /\ \A s, t \in pool \ pool' : chain'.block[s] = chain'.block[t]
  BY <1>0, MiningMoves
<1>2. reply' = reply /\ bundle' = bundle /\ sent' = sent /\ mode' = mode /\ SentTx' = SentTx
  BY DEF MineBlock, ExternalMine, SentTx, SentUpTo
<1>3. OneBlock(chain)'
  <2>1. \A t \in Tx : IsMined(chain, t) => chain'.block[t] = chain.block[t]
    BY <1>0, <1>1 DEF PoolUnmined
  <2>2. OneBlock(chain')
    BY <1>0, <2>1, BlockKept
  <2> QED BY <1>2, <2>2 DEF OneBlock
<1>4. RunInOneBlock'
  <2>1. CASE MineBlock
    <3>1. pc = "mine" /\ pc' = "receipts" /\ alone' = alone
      BY <2>1 DEF MineBlock
    <3>2. alone => SentTx \subseteq pool
      BY <3>1 DEF RunInOneBlock
    <3> QED BY <1>1, <1>2, <3>1, <3>2 DEF RunInOneBlock
  <2>2. CASE ExternalMine
    <3>1. pc' = pc /\ (alone' => alone /\ (pool \ pool') \cap SentTx = {})
      BY <2>2 DEF ExternalMine
    <3>2. alone' => SentTx \cap pool' = SentTx \cap pool
      BY <1>1, <3>1
    <3>3. ASSUME alone', pc \in {"receipts", "mark"}, NEW s \in SentTx \ pool', NEW t \in SentTx \ pool'
          PROVE  chain'.block[s] = chain'.block[t]
      <4>1. s \notin pool /\ t \notin pool /\ s \in Tx /\ t \in Tx
        BY <1>0, <3>2, <3>3
      <4>2. chain.block[s] = chain.block[t]
        BY <3>1, <3>3, <4>1 DEF RunInOneBlock
      <4> QED BY <1>1, <4>1, <4>2
    <3>4. alone' /\ pc \in {"send", "mine"} => SentTx \subseteq pool'
      BY <3>1, <3>2 DEF RunInOneBlock
    <3> QED BY <1>2, <3>1, <3>3, <3>4 DEF RunInOneBlock
  <2> QED BY <2>1, <2>2
<1>5. Simulating' => OneBlock(saved)'
  <2>1. Simulating' => Simulating
    BY <1>2 DEF MineBlock, ExternalMine, Simulating
  <2> QED BY <1>1, <1>2, <2>1 DEF OneBlock
<1> QED BY <1>3, <1>4, <1>5

(***************************************************************************)
(* The answer of mineBundle: all of the bundle was sent; what is included   *)
(* is mined and so no longer in the pool.                                   *)
(***************************************************************************)
LEMMA BlocksAnswered == ASSUME IInv, Traces, Blocks, MarkBundle PROVE Blocks'
<1>1. TypeOK /\ PoolUnmined /\ pc = "mark" /\ sent = Len(bundle) /\ ReceiptsTrue
  BY DEF IInv, MarkBundle, Traces, SentSoFar
<1>2. OneBlock(chain)'
  <2>1. chain' = chain /\ reply' = Result
    BY DEF MarkBundle, anvilVars
  <2>2. ASSUME ResultStatus = "included", alone, NEW j \in DOMAIN bundle, NEW k \in DOMAIN bundle
        PROVE  chain.block[bundle[j]] = chain.block[bundle[k]]
    <3>1. /\ bundle[j] \in SentTx /\ bundle[j] \in Tx
          /\ bundle[k] \in SentTx /\ bundle[k] \in Tx
      BY <1>1, SentFacts
    <3>2. receipt[bundle[j]] = "included" /\ receipt[bundle[k]] = "included"
      BY <2>2 DEF ResultStatus
    <3>3. bundle[j] \notin pool /\ bundle[k] \notin pool
      BY <1>1, <3>1, <3>2 DEF ReceiptsTrue, PoolUnmined
    <3> QED BY <1>1, <2>2, <3>1, <3>3 DEF Blocks, RunInOneBlock
  <2>3. reply'.status = "included" /\ reply'.alone
           => reply'.items = bundle /\ alone /\ ResultStatus = "included"
    BY <2>1 DEF Result
  <2>4. reply'.status = "included" /\ reply'.alone =>
           \A j, k \in DOMAIN reply'.items :
               chain'.block[reply'.items[j]] = chain'.block[reply'.items[k]]
    BY <2>1, <2>2, <2>3
  <2> QED BY <2>4 DEF OneBlock
<1>3. HandlerEnds
  BY DEF MarkBundle
<1> QED BY <1>2, <1>3, EndsFacts DEF Blocks

(***************************************************************************)
(* Going back to the snapshot of a simulation.                              *)
(***************************************************************************)
LEMMA BlocksReverted == ASSUME IInv, Blocks, RevertSnapshot PROVE Blocks'
<1>1. HandlerEnds /\ chain' = saved /\ reply' = reply
  BY DEF RevertSnapshot, AnvilReverts
<1>2. Simulating
  BY DEF RevertSnapshot, IInv, HandlerPosition, Simulating
<1>3. OneBlock(chain)'
  BY <1>1, <1>2 DEF Blocks, OneBlock
<1> QED BY <1>1, <1>3, EndsFacts DEF Blocks

(***************************************************************************)
(* A call that raises does not spoil the blocks of earlier answers.         *)
(***************************************************************************)
LEMMA BlocksFailure ==
    ASSUME IInv, Traces, Blocks,
           SendFails \/ SendResponseLost \/ MineBlockFails \/ WaitForReceiptFails
    PROVE  Blocks'
<1>1. PICK n \in Nat : Raise(n)
  BY DEF SendFails, SendResponseLost, MineBlockFails, WaitForReceiptFails, IInv, TypeOK
<1>2. CASE mode # "simulate"
  BY <1>1, <1>2, BlocksForgotten DEF Raise
<1>3. CASE mode = "simulate"
  <2>1. pc' = "revert" /\ mode' = mode /\ reply' = reply
    BY <1>1, <1>3 DEF Raise
  <2>2. pc \in {"send", "mine", "receipts"} /\ saved' = saved
    BY DEF SendFails, SendResponseLost, MineBlockFails, WaitForReceiptFails, anvilVars,
           AnvilMinesSome, AnvilMines
  <2>3. TypeOK /\ PoolUnmined /\ AgreesWith(chain) /\ Simulating
    BY <1>3, <2>2 DEF IInv, Simulating
  <2>4. \A t \in Tx : IsMined(chain, t) => chain'.block[t] = chain.block[t]
    <3>1. CASE AnvilMinesSome
      BY <2>3, <3>1, MiningMoves DEF PoolUnmined
    <3>2. CASE chain' = chain
      BY <3>2
    <3> QED BY <3>1, <3>2 DEF SendFails, SendResponseLost, MineBlockFails, WaitForReceiptFails,
                              anvilVars
  <2>5. OneBlock(chain')
    BY <2>3, <2>4, BlockKept DEF Blocks
  <2>6. OneBlock(chain)' /\ OneBlock(saved)'
    BY <2>1, <2>2, <2>3, <2>5 DEF Blocks, OneBlock
  <2>7. RunInOneBlock'
    BY <2>1 DEF RunInOneBlock
  <2> QED BY <2>6, <2>7 DEF Blocks
<1> QED BY <1>2, <1>3

(***************************************************************************)
(* A bundle that is answered "included" is one block, unless somebody else  *)
(* mined of it while it was run.                                            *)
(***************************************************************************)
THEOREM OneBlockPerBundle == Spec => []BundleInOneBlock
<1>1. Init => Blocks
  BY DEF Init, NoResult, Blocks, RunInOneBlock, OneBlock, Simulating
<1>2. IInv /\ Traces /\ Blocks /\ [Next]_vars => Blocks'
  <2> SUFFICES ASSUME IInv, Traces, Blocks, [Next]_vars PROVE Blocks'
    OBVIOUS
  <2> USE DEF handlerVars, anvilVars
  <2>1. CASE UNCHANGED vars \/ \E r \in Request : Submit(r)
    BY <2>1, BlocksUnmined DEF vars, Submit
  <2>2. ASSUME NEW m \in {"bundle", "simulate"}, NEW n \in 1..MaxBundle,
               NEW b \in [1..n -> Tx], ReceiveBundle(m, b)
        PROVE  Blocks'
    BY <2>2, BlocksUnmined DEF ReceiveBundle
  <2>3. ASSUME NEW m \in {"bundle", "simulate"}, NEW b, RefuseBundle(m, b)
        PROVE  Blocks'
    <3>1. reply' = reply \/ reply' = NoResult
      BY <2>3 DEF RefuseBundle
    <3>2. UNCHANGED <<pc, mode, bundle, sent, alone, pool, chain, saved>>
      BY <2>3 DEF RefuseBundle
    <3> QED BY <3>1, <3>2 DEF Blocks, RunInOneBlock, OneBlock, Simulating, SentTx, SentUpTo, NoResult
  <2>4. CASE TakeSnapshot \/ SendTransaction \/ WaitForReceipt
    BY <2>4, BlocksUnmined DEF TakeSnapshot, SendTransaction, WaitForReceipt
  <2>5. CASE SnapshotFails \/ RevertFails
    BY <2>5, BlocksUnmined DEF SnapshotFails, RevertFails
  <2>6. CASE Restart
    BY <2>6, BlocksForgotten DEF Restart
  <2> QED BY <2>1, <2>2, <2>3, <2>4, <2>5, <2>6, BlocksMined, BlocksAnswered, BlocksReverted,
             BlocksFailure DEF Next
<1>3. Blocks => BundleInOneBlock
  BY DEF Blocks, OneBlock, BundleInOneBlock
<1> QED BY <1>1, <1>2, <1>3, Invariance, TracesInvariance, PTL DEF Spec
=============================================================================

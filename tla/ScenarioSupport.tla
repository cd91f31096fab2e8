--------------------------- MODULE ScenarioSupport ---------------------------
(***************************************************************************)
(* What the scenarios are made of (scenarios/scenario_support.py): one      *)
(* sequential process that drives Anvil directly (cast, JSON-RPC) and the   *)
(* block builder over HTTP, one call after the other.                       *)
(*                                                                          *)
(* A scenario is a sequence of statements.  A statement is one call with    *)
(* its arguments, which may refer to what earlier calls returned (seen); a  *)
(* row of calls that only read is one statement.  The functions of          *)
(* scenario_support that make several calls are the operators that build    *)
(* such sequences, and try ... finally is the field try of the statements   *)
(* inside, the finally clause being the next evm_setAutomine false.         *)
(*                                                                          *)
(* Anvil is external: the contracts (module SandboxDex), nonces, automine,  *)
(* and a pool that holds only what failed bundles left in it.  A block      *)
(* takes the whole pool.                                                    *)
(***************************************************************************)
EXTENDS Mempool, SandboxDex, SequencesExt

CONSTANTS
    Pool1, Pool2,           \* deployment["contracts"]
    Deployer, Victim, Bot   \* deployment["roles"]

ASSUME DeploymentAssumption ==
    /\ Pool = {Pool1, Pool2} /\ Pool1 # Pool2
    /\ {Deployer, Victim, Bot} \subseteq User
    /\ Request \subseteq Nat \ {0}

VARIABLES
    anvil,                  \* the chain and its node
    builder,                \* whether the block builder runs
    payload,                \* record.transaction of the mempool's records
    seen                    \* what the calls of this run returned

worldVars == <<mempoolVars, anvil, builder, payload>>

NoTx == [from |-> Deployer, nonce |-> 0, call |-> <<>>]

EmptyStorage ==
    [supply    |-> [t \in Token |-> 0],
     balance   |-> [t \in Token |-> [a \in Account |-> 0]],
     allowance |-> [t \in Token |-> [a \in Account |-> [b \in Account |-> 0]]],
     reserve   |-> [p \in Pool |-> [t \in Token |-> 0]],
     ok        |-> TRUE]

\* deploy-local.zsh leaves the node in builder-controlled mining mode.
Deployed ==
    [up |-> TRUE, automine |-> FALSE, storage |-> EmptyStorage, head |-> 0,
     nonce |-> [u \in User |-> 0], pool |-> <<>>, receipts |-> <<>>]

\* A builder that starts has no records.
ForgetMempool ==
    /\ lastSeqNum' = 0
    /\ seqNum' = [r \in Request |-> 0]
    /\ status' = [r \in Request |-> "absent"]
    /\ payload' = [r \in Request |-> NoTx]
-----------------------------------------------------------------------------
(* Anvil. *)

Apply(s, from, call) ==
    IF call = <<>> THEN s                       \* NoTx calls no contract
    ELSE CASE call[1] = "mint"      -> MintTo(s, call[2], call[3], call[4])
           [] call[1] = "approve"   -> Approve(s, call[2], from, call[3], call[4])
           [] call[1] = "transfer"  -> Transfer(s, call[2], from, call[3], call[4])
           [] call[1] = "seed"      -> SeedLiquidity(s, from, call[2], call[3], call[3])
           [] call[1] = "swapAForB" -> Swap(s, from, call[2], TokenA, TokenB, call[3], call[4])
           [] call[1] = "backrun"   -> ExecuteBackrun(s, call[2], call[3], call[4],
                                                      call[5], call[6], call[7])

\* Faulty variant: what a reverted call wrote stays.
ExecuteCommits(a, tx) ==
    LET after == Apply(a.storage, tx.from, tx.call)
    IN  [a EXCEPT !.storage = after,
                  !.nonce[tx.from] = @ + 1,
                  !.receipts = Append(@, IF after.ok THEN "included" ELSE "reverted")]

Execute(a, tx) ==
    LET after == Apply(a.storage, tx.from, tx.call)
    IN  [a EXCEPT !.storage = IF after.ok THEN after ELSE @,
                  !.nonce[tx.from] = @ + 1,
                  !.receipts = Append(@, IF after.ok THEN "included" ELSE "reverted")]

\* One block with the whole pool.
Mined(a) == FoldLeft(Execute, [a EXCEPT !.pool = <<>>, !.head = @ + 1], a.pool)

\* eth_sendTransaction of a payload.  All payloads offer the same fees: the
\* pool keeps their order, and no one of them replaces another.
Accepts(a, tx) ==
    /\ tx.nonce >= a.nonce[tx.from]
    /\ \A k \in DOMAIN a.pool : <<a.pool[k].from, a.pool[k].nonce>> # <<tx.from, tx.nonce>>

\* cast offers fees of its own choice: its transaction may go before those
\* that wait, and take the place of one with the same sender and nonce.
CastOrders(tx) ==
    LET same   == {k \in DOMAIN anvil.pool :
                      <<anvil.pool[k].from, anvil.pool[k].nonce>> = <<tx.from, tx.nonce>>}
        others == IF same = {} THEN {anvil.pool} ELSE {RemoveAt(anvil.pool, k) : k \in same}
    IN  {Append(o, tx) : o \in others} \cup {<<tx>> \o o : o \in others}

\* cast estimates the gas of a call before it sends it: one that would revert
\* is not sent.
Estimated(tx) == Apply(anvil.storage, tx.from, tx.call).ok

\* A transaction that somebody else sends with Deployer's key and next nonce.
Arrives(a, call) ==
    LET waiting == {k \in DOMAIN a.pool : a.pool[k].from = Deployer}
        tx      == [from  |-> Deployer, nonce |-> a.nonce[Deployer] + Cardinality(waiting),
                    call  |-> call]
        pooled  == [a EXCEPT !.pool = Append(@, tx)]
    IN  IF a.automine THEN Mined(pooled) ELSE pooled
-----------------------------------------------------------------------------
(* The statements. *)

Statement(op, needs, arg) == [op |-> op, needs |-> needs, arg |-> arg, try |-> FALSE]

EnsureDeployment    == Statement("ensure deployment", {}, {})
StartBlockBuilder   == Statement("start builder", {}, {})
RestartBlockBuilder == Statement("restart builder", {}, {})
SetAutomine(on)     == Statement("set automine", {"chain"}, on)
SendContractTransaction(from, call) ==
    Statement("cast send", {"chain"}, [from |-> from, nonce |-> anvil.nonce[from], call |-> call])
Read(services, readings) == Statement("read", services, readings)
SubmitPublic(tx)         == Statement("submit", {"builder"}, tx)
MineBundle(items)        == Statement("bundle", {"builder", "chain"}, items)
SimulateBundle(items)    == Statement("simulate", {"builder", "chain"}, items)
Check(condition)         == Statement("check", {}, condition)

\* contract_transaction_payload, with the nonce that cast nonce has read.
TransactionPayload(from, call) == [from |-> from, nonce |-> seen.nonce[from], call |-> call]

\* The items of a bundle.
Reference(r) == [id |-> r, tx |-> IF r \in Request THEN payload[r] ELSE NoTx]
Direct(tx)   == [id |-> 0, tx |-> tx]

\* manage_automine = True around the body of a try.
Managed(body) ==
    <<SetAutomine(TRUE)>>
        \o [k \in DOMAIN body |-> [body[k] EXCEPT !.try = TRUE]]
        \o <<SetAutomine(FALSE)>>

MintToken(t, to, x) == <<SendContractTransaction(Deployer, <<"mint", t, to, x>>)>>

MintAndApprove(owner, t, spender, x) ==
    MintToken(t, owner, x) \o <<SendContractTransaction(owner, <<"approve", t, spender, x>>)>>

\* Faulty variant: the inner calls manage automine too.
AddPoolLiquidityNested(p, x) ==
    Managed(MintAndApprove(Deployer, TokenA, p, x))
        \o Managed(MintAndApprove(Deployer, TokenB, p, x))
        \o <<SendContractTransaction(Deployer, <<"seed", p, x>>)>>

AddPoolLiquidity(p, x) ==
    MintAndApprove(Deployer, TokenA, p, x)
        \o MintAndApprove(Deployer, TokenB, p, x)
        \o <<SendContractTransaction(Deployer, <<"seed", p, x>>)>>

PoolReserves(p) == <<anvil.storage.reserve[p][TokenA], anvil.storage.reserve[p][TokenB]>>
RecordStatus(r) == IF r \in Request THEN status[r] ELSE "absent"

\* cast call of a quote that getAmountOut refuses.
Reverted == -1

QuoteAForB(p, x) ==
    LET reserve == anvil.storage.reserve[p]
    IN  IF Priced(x, reserve[TokenA], reserve[TokenB])
        THEN AmountOut(x, reserve[TokenA], reserve[TokenB])
        ELSE Reverted

ReadReserves(P) ==
    Read({"chain"}, [reserves |-> [p \in Pool |-> IF p \in P THEN PoolReserves(p) ELSE seen.reserves[p]]])
ReadReservesAgain(P) ==
    Read({"chain"}, [seeded |-> [p \in Pool |-> IF p \in P THEN PoolReserves(p) ELSE seen.seeded[p]]])

EnsurePoolLiquidity(p, x) ==
    <<ReadReserves({p})>>
        \o IF seen.reserves[p][1] > 0 /\ seen.reserves[p][2] > 0
           THEN <<>>
           ELSE Managed(AddPoolLiquidity(p, x))

\* Its inner ensure_pool_liquidity reads the same reserves a second time.
EnsureExactPoolLiquidity(p, x) ==
    <<ReadReserves({p})>>
        \o IF seen.reserves[p] = <<0, 0>>
           THEN Managed(AddPoolLiquidity(p, x))
                    \o <<ReadReservesAgain({p}), Check(seen.seeded[p] = <<x, x>>)>>
           ELSE <<Check(seen.reserves[p] = <<x, x>>)>>

\* Faulty variant: the fee is forgotten.
SandboxAmountOutNoFee(x, reserveIn, reserveOut) ==
    IF x <= 0 \/ reserveIn <= 0 \/ reserveOut <= 0 THEN 0
    ELSE (x * reserveOut) \div (reserveIn + x)

\* sandbox_amount_out, the scenarios' own copy of the pools' formula; 0 stands
\* for the ScenarioError.
SandboxAmountOut(x, reserveIn, reserveOut) ==
    IF x <= 0 \/ reserveIn <= 0 \/ reserveOut <= 0 THEN 0
    ELSE (x * 997 * reserveOut) \div (reserveIn * 1000 + x * 997)
-----------------------------------------------------------------------------
(* What a call does, whether its response arrives or not. *)

EnsureDeploymentEffect ==
    /\ anvil' = IF anvil.up THEN anvil ELSE Deployed
    /\ UNCHANGED <<mempoolVars, builder, payload>>

\* A builder that runs is kept with all its records.
StartEffect ==
    /\ builder' = TRUE
    /\ IF builder THEN UNCHANGED <<mempoolVars, payload>> ELSE ForgetMempool
    /\ UNCHANGED anvil

RestartEffect == builder' = TRUE /\ ForgetMempool /\ UNCHANGED anvil

SetAutomineEffect(on) ==
    /\ anvil' = [anvil EXCEPT !.automine = on]
    /\ UNCHANGED <<mempoolVars, builder, payload>>

\* cast send waits for its receipt without a timeout: nothing mines it unless
\* automine is on.
CastBlock(txs) == Mined([anvil EXCEPT !.pool = txs])

CastSendEffect(txs) ==
    /\ anvil.automine
    /\ anvil' = [CastBlock(txs) EXCEPT !.receipts = <<>>]
    /\ UNCHANGED <<mempoolVars, builder, payload>>

\* What became of tx in that block.
CastReceipt(txs, tx) == CastBlock(txs).receipts[CHOOSE k \in DOMAIN txs : txs[k] = tx]

\* Records are named in the order of their submission, and a builder that was
\* restarted does not give the name that the run remembers to another record.
SubmitEffect(r, tx) ==
    /\ r # seen.id
    /\ \A q \in Request : q < r => q \in Known \cup {seen.id}
    /\ AddTransaction(r)
    /\ payload' = [payload EXCEPT ![r] = tx]
    /\ UNCHANGED <<anvil, builder>>

\* The bundle handlers of the builder (module BundleBuilder), while automine is
\* off.  Bundle.fromJson finds every record pending.
BundleFound(items) == \A k \in DOMAIN items : items[k].id = 0 \/ items[k].id \in Pending

\* Anvil after the first n calls of eth_sendTransaction.
SentUpTo(items, n) == [anvil EXCEPT !.pool = @ \o [k \in 1..n |-> items[k].tx]]

\* How many items Anvil takes before it refuses one.
Taken(items) ==
    Max({n \in 0..Len(items) :
            \A k \in 1..n : Accepts(SentUpTo(items, k - 1), items[k].tx)})

BundleBlock(items) == Mined(SentUpTo(items, Len(items)))

BundleReply(items, block) ==
    LET last(n) == SubSeq(block.receipts, Len(block.receipts) - n + 1, Len(block.receipts))
        txs     == last(Len(items))
    IN  [status |-> IF \A k \in DOMAIN txs : txs[k] = "included" THEN "included" ELSE "failed",
         txs    |-> txs]

MineBundleEffect(items, block) ==
    /\ anvil' = [block EXCEPT !.receipts = <<>>]
    /\ MarkMined([r \in {items[k].id : k \in DOMAIN items} \ {0} |->
                    BundleReply(items, block).txs[CHOOSE k \in DOMAIN items : items[k].id = r]])
    /\ UNCHANGED <<builder, payload>>

\* The pool is not part of the snapshot: what the simulated block took of it
\* does not come back.
SimulateEffect ==
    /\ anvil' = [anvil EXCEPT !.pool = <<>>]
    /\ UNCHANGED <<mempoolVars, builder, payload>>

\* A bundle that ends in an error leaves the items sent before it in Anvil's
\* pool, or its block on the chain and nothing marked: the reply to evm_mine
\* was lost, or evm_revert failed.
Leave(after) ==
    /\ anvil' = [after EXCEPT !.receipts = <<>>]
    /\ UNCHANGED <<mempoolVars, builder, payload>>
=============================================================================

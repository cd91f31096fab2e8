------------------------------ MODULE Scenarios ------------------------------
(***************************************************************************)
(* The seven scenarios (scenarios/*/run.py), run one after the other by      *)
(* hand against the same chain and the same builder, which live on between  *)
(* runs.  Each main() is a sequence of the statements of ScenarioSupport;   *)
(* `at' is the statement it is at, 0 between runs.                          *)
(*                                                                          *)
(* Any call may fail, or be performed and its response be lost; the run may *)
(* be killed, the builder or the chain may stop, somebody else may submit a *)
(* transaction, restart the builder or use the chain, which is open to all. *)
(* None of the statements prints.                                           *)
(***************************************************************************)
EXTENDS ScenarioSupport

CONSTANTS
    Scenario,               \* the scenarios that are run
    PoolSeedAmount,         \* POOL_SEED_AMOUNT, POOL_TOKEN_AMOUNT
    ExactSeedAmount,        \* POOL_SEED_AMOUNT of backrun
    SwapAmount,             \* SWAP_AMOUNT_A, VICTIM_SWAP_AMOUNT_A
    BackrunAmount,          \* BACKRUN_AMOUNT_B
    MinProfit,              \* MIN_PROFIT_B
    TransferAmount,         \* TRANSFER_AMOUNT, REAL_ and SIMULATED_TRANSFER_AMOUNT
    MintAmount,             \* MINT_AMOUNT
    OtherAmount,            \* bound: what somebody else trades, adds or gives
    MaxRuns,                \* bound: runs
    MaxFaults               \* bound: failures over all runs

Amount == {PoolSeedAmount, ExactSeedAmount, SwapAmount, BackrunAmount, TransferAmount, MintAmount}

ASSUME ScenariosAssumption ==
    /\ Scenario \subseteq {"seed-pools", "token-transfer", "bundle-simulation", "victim-swap",
                            "victim-swap-revert", "backrun", "mempool-sequence"}
    /\ Amount \subseteq Uint /\ MinProfit \in Uint /\ OtherAmount \in Uint
    /\ MaxRuns \in Nat /\ MaxFaults \in Nat

VARIABLES
    scenario,               \* which one runs
    at,                     \* its next statement
    raised,                 \* an exception waits for the finally clause
    verdict,                \* how the last run ended
    runs, faults,           \* counted against the bounds
    disturbed, fit,         \* history: a failure met this run; what it presupposes held
    interfered,             \* history: somebody else moved tokens during this run
    lapsed                  \* history: automine was left on by a failure

runVars  == <<scenario, at, raised, verdict, seen>>
pastVars == <<runs, faults, disturbed, fit, interfered, lapsed>>
vars     == <<worldVars, runVars, pastVars>>

NoReply == [status |-> "none", txs |-> <<"none", "none">>]

NothingSeen ==
    [reserves |-> [p \in Pool |-> <<0, 0>>],    seeded |-> [p \in Pool |-> <<0, 0>>],
     before   |-> EmptyStorage.balance,         after  |-> EmptyStorage.balance,
     headBefore |-> 0, headAfter |-> 0,         nonce  |-> [u \in User |-> 0],
     quote |-> 0, id |-> 0, seqNum |-> 0,       record |-> "absent",
     reply |-> NoReply,                         snapshot |-> [seq |-> 0, numbers |-> {}]]

Init ==
    /\ MempoolInit /\ payload = [r \in Request |-> NoTx] /\ builder = FALSE
    /\ anvil = [Deployed EXCEPT !.up = FALSE]
    /\ seen = NothingSeen
    /\ scenario = "none" /\ at = 0 /\ raised = FALSE
    /\ verdict = [scenario |-> "none", outcome |-> "none", disturbed |-> FALSE, fit |-> TRUE]
    /\ runs = 0 /\ faults = 0 /\ disturbed = FALSE /\ fit = TRUE /\ interfered = FALSE
    /\ lapsed = FALSE
-----------------------------------------------------------------------------
(* The programs.  Receipts are read as BundleReply; the printed ones too.   *)

Gained(t, a) == seen.after[t][a] - seen.before[t][a]

BeforeReadings == [before |-> anvil.storage.balance, nonce |-> anvil.nonce]
AfterReadings  == [after |-> anvil.storage.balance]
RecordReadings == [record |-> RecordStatus(seen.id)]
NonceReadings  == [nonce |-> anvil.nonce]

SeedPools ==
    <<EnsureDeployment, ReadReserves(Pool)>>
        \o Managed(AddPoolLiquidity(Pool1, PoolSeedAmount)
                       \o AddPoolLiquidity(Pool2, PoolSeedAmount))
        \o <<ReadReservesAgain(Pool),
             Check(\A p \in Pool, side \in 1..2 :
                       seen.seeded[p][side] = seen.reserves[p][side] + PoolSeedAmount)>>

TransferPayload == TransactionPayload(Deployer, <<"transfer", TokenA, Victim, TransferAmount>>)

TokenTransfer ==
    <<EnsureDeployment, StartBlockBuilder>>
        \o Managed(MintToken(TokenA, Deployer, MintAmount))
        \o <<Read({"chain"}, BeforeReadings),
             SubmitPublic(TransferPayload),
             MineBundle(<<Reference(seen.id)>>),
             Read({"builder"}, RecordReadings),
             Read({"chain"}, AfterReadings),
             Check(/\ seen.reply.status = "included"
                   /\ seen.record = "included"
                   /\ Gained(TokenA, Victim) = TransferAmount)>>

BundleSimulation ==
    <<EnsureDeployment, StartBlockBuilder>>
        \o Managed(MintToken(TokenA, Deployer, MintAmount))
        \o <<Read({"builder", "chain"}, [headBefore |-> anvil.head, nonce |-> anvil.nonce]),
             MineBundle(<<Direct(TransferPayload)>>),
             Read({"builder", "chain"}, [headAfter |-> anvil.head]),
             Check(/\ seen.reply.status = "included"
                   /\ seen.reply.txs[1] = "included"
                   /\ seen.headAfter > seen.headBefore),
             Read({"builder", "chain"},
                  [headBefore |-> anvil.head, nonce |-> anvil.nonce, before |-> anvil.storage.balance]),
             SimulateBundle(<<Direct(TransferPayload)>>),
             Read({"builder", "chain"}, [headAfter |-> anvil.head, after |-> anvil.storage.balance]),
             Check(/\ seen.reply.status = "included"
                   /\ seen.reply.txs[1] = "included"
                   /\ seen.headAfter = seen.headBefore
                   /\ Gained(TokenA, Deployer) = 0 /\ Gained(TokenA, Victim) = 0)>>

\* What victim-swap and victim-swap-revert share.
SwapWith(min, final) ==
    <<EnsureDeployment, StartBlockBuilder>>
        \o EnsurePoolLiquidity(Pool1, PoolSeedAmount)
        \o Managed(MintAndApprove(Victim, TokenA, Pool1, SwapAmount))
        \o <<Read({"chain"}, [quote |-> QuoteAForB(Pool1, SwapAmount),
                              nonce |-> anvil.nonce, before |-> anvil.storage.balance]),
             SubmitPublic(TransactionPayload(Victim, <<"swapAForB", Pool1, SwapAmount, min>>)),
             MineBundle(<<Reference(seen.id)>>),
             Read({"builder"}, RecordReadings),
             Read({"chain"}, AfterReadings),
             Check(final)>>

VictimMinimum == (seen.quote * 99) \div 100

VictimSwap ==
    SwapWith(VictimMinimum,
             /\ seen.reply.status = "included"
             /\ seen.reply.txs[1] = "included"
             /\ seen.record = "included"
             /\ Gained(TokenA, Victim) = -SwapAmount
             /\ Gained(TokenB, Victim) >= VictimMinimum)

ImpossibleMinimum == seen.quote + 1

VictimSwapRevert ==
    SwapWith(ImpossibleMinimum,
             /\ seen.reply.status = "failed"
             /\ seen.reply.txs[1] = "reverted"
             /\ seen.record = "reverted"
             /\ Gained(TokenA, Victim) = 0 /\ Gained(TokenB, Victim) = 0)

Worst(x) == (x * 9900) \div 10000               \* MIN_OUTPUT_BPS

\* The route of backrun, computed from the reserves it has read.
Route ==
    LET one     == IF seen.reserves[Pool1] = <<0, 0>> THEN seen.seeded[Pool1] ELSE seen.reserves[Pool1]
        two     == IF seen.reserves[Pool2] = <<0, 0>> THEN seen.seeded[Pool2] ELSE seen.reserves[Pool2]
        victimB == SandboxAmountOut(SwapAmount, one[1], one[2])
        outA    == SandboxAmountOut(BackrunAmount, one[2] - victimB, one[1] + SwapAmount)
        outB    == SandboxAmountOut(outA, two[1], two[2])
    IN  [victimB |-> victimB, outA |-> outA, outB |-> outB, profit |-> outB - BackrunAmount]

BackrunPayload ==
    TransactionPayload(Bot, <<"backrun", Pool1, Pool2, BackrunAmount,
                              Worst(Route.outA), Worst(Route.outB), MinProfit>>)

\* Faulty variant: the bot goes first.
BackrunBundleReversed == <<Direct(BackrunPayload), Reference(seen.id)>>

BackrunBundle == <<Reference(seen.id), Direct(BackrunPayload)>>

\* seen.before is read after the mint; the balances of the executor that were
\* read before it, in seen.after.
BackrunScenario ==
    LET bot == Len(BackrunBundle)
    IN  <<EnsureDeployment, StartBlockBuilder>>
        \o EnsureExactPoolLiquidity(Pool1, ExactSeedAmount)
        \o EnsureExactPoolLiquidity(Pool2, ExactSeedAmount)
        \o <<Read({"chain"}, AfterReadings),
             Check(\A t \in Token : seen.after[t][Backrun] = 0)>>
        \o Managed(MintAndApprove(Victim, TokenA, Pool1, SwapAmount))
        \o Managed(MintToken(TokenB, Backrun, BackrunAmount))
        \o <<Read({"chain"}, BeforeReadings),
             Check(seen.before[TokenB][Backrun] = BackrunAmount),
             Check(Route.profit >= MinProfit),
             SubmitPublic(TransactionPayload(Victim,
                              <<"swapAForB", Pool1, SwapAmount, Worst(Route.victimB)>>)),
             Read({"chain"}, NonceReadings),
             MineBundle(BackrunBundle),
             Read({"builder"}, RecordReadings),
             Read({"chain"}, AfterReadings),
             Check(/\ seen.reply.status = "included"
                   /\ seen.reply.txs[1] = "included" /\ seen.reply.txs[bot] = "included"
                   /\ seen.record = "included"
                   /\ Gained(TokenA, Victim) = -SwapAmount
                   /\ Gained(TokenB, Victim) >= Worst(Route.victimB)
                   /\ seen.after[TokenA][Backrun] = 0
                   /\ Gained(TokenB, Backrun) >= MinProfit)>>

ReadSnapshot ==
    Read({"builder"}, [snapshot |-> [seq     |-> PendingSnapshot.snapshotSeq,
                                     numbers |-> {seqNum[r] : r \in Pending}]])

CheckSnapshot(n) == Check(seen.snapshot = [seq |-> n, numbers |-> 1..n])

SubmitAndCheck(n) ==
    <<SubmitPublic(NoTx), Check(seen.seqNum = n), ReadSnapshot, CheckSnapshot(n)>>

MempoolSequence ==
    <<RestartBlockBuilder, ReadSnapshot, CheckSnapshot(0)>> \o SubmitAndCheck(1) \o SubmitAndCheck(2)

Main ==
    CASE scenario = "seed-pools"         -> SeedPools
      [] scenario = "token-transfer"     -> TokenTransfer
      [] scenario = "bundle-simulation"  -> BundleSimulation
      [] scenario = "victim-swap"        -> VictimSwap
      [] scenario = "victim-swap-revert" -> VictimSwapRevert
      [] scenario = "backrun"            -> BackrunScenario
      [] scenario = "mempool-sequence"   -> MempoolSequence
-----------------------------------------------------------------------------
(* How a run proceeds. *)

Services ==
    (IF anvil.up THEN {"chain"} ELSE {}) \cup (IF builder THEN {"builder"} ELSE {})

\* The statement that is executed next, whether it is the last one, and the
\* finally clause it is under.
Running ==
    IF at = 0 THEN {}
    ELSE LET main    == Main
             clauses == {k \in at + 1..Len(main) : main[k].op = "set automine" /\ ~main[k].arg}
         IN  {[op |-> main[at].op, needs |-> main[at].needs, arg |-> main[at].arg,
               try |-> main[at].try, last |-> at = Len(main),
               finally |-> IF main[at].try THEN Min(clauses) ELSE 0]}

\* ensure_exact_pool_liquidity and the check of the executor: backrun wants a
\* chain on which it has not run yet.  ensure_pool_liquidity is content with any
\* liquidity: victim-swap wants as much as pays something for its swap.  Nothing
\* may wait in Anvil's pool.
Fit(name) ==
    anvil.up /\ name # "mempool-sequence"
        => /\ anvil.pool = <<>>
           /\ name = "victim-swap" /\ (\A t \in Token : anvil.storage.reserve[Pool1][t] > 0)
                => QuoteAForB(Pool1, SwapAmount) > 0
           /\ name = "backrun"
                => /\ \A p \in Pool : PoolReserves(p) \in {<<0, 0>>, <<ExactSeedAmount, ExactSeedAmount>>}
                   /\ \A t \in Token : anvil.storage.balance[t][Backrun] = 0

Begin(name) ==
    /\ at = 0 /\ runs < MaxRuns
    /\ scenario' = name /\ at' = 1 /\ seen' = NothingSeen
    /\ runs' = runs + 1 /\ disturbed' = FALSE /\ fit' = Fit(name) /\ interfered' = FALSE
    /\ UNCHANGED <<worldVars, raised, verdict, faults, lapsed>>

Ends(outcome, hit) ==
    /\ verdict' = [scenario |-> scenario, outcome |-> outcome, disturbed |-> hit, fit |-> fit]
    /\ scenario' = "none" /\ at' = 0 /\ raised' = FALSE

\* The statement returned; after a finally clause the exception goes on.
Proceed(st, readings) ==
    /\ seen' = [x \in DOMAIN seen |-> IF x \in DOMAIN readings THEN readings[x] ELSE seen[x]]
    /\ CASE raised             -> Ends("failed", disturbed)
         [] ~raised /\ st.last -> Ends("complete", disturbed)
         [] OTHER              -> at' = at + 1 /\ UNCHANGED <<scenario, raised, verdict>>

Returns(st) == Proceed(st, [x \in {} |-> x])

\* Faulty variant: no finally clause.
RaiseThrough(st, hit) ==
    /\ seen' = NothingSeen
    /\ Ends("failed", hit)

\* ScenarioError: to the finally clause of the try it is raised in, or out of main().
Raise(st, hit) ==
    IF st.try
    THEN /\ at' = st.finally /\ raised' = TRUE
         /\ UNCHANGED <<scenario, verdict, seen>>
    ELSE /\ seen' = NothingSeen
         /\ Ends("failed", hit)

Prepares(st) ==
    /\ \/ st.op = "ensure deployment" /\ EnsureDeploymentEffect
       \/ st.op = "start builder" /\ StartEffect
       \/ st.op = "restart builder" /\ RestartEffect
    /\ lapsed' = (lapsed /\ anvil.up)
    /\ Returns(st)
    /\ UNCHANGED <<runs, faults, disturbed, fit, interfered>>

SetsAutomine(st) ==
    /\ st.op = "set automine" /\ st.needs \subseteq Services
    /\ SetAutomineEffect(st.arg)
    /\ lapsed' = (lapsed /\ st.arg)
    /\ Returns(st)
    /\ UNCHANGED <<runs, faults, disturbed, fit, interfered>>

CastSends(st) ==
    /\ st.op = "cast send" /\ st.needs \subseteq Services
    /\ Estimated(st.arg)
    /\ \E txs \in CastOrders(st.arg) :
          /\ CastSendEffect(txs)
          /\ IF CastReceipt(txs, st.arg) = "included" THEN Returns(st) ELSE Raise(st, disturbed)
    /\ UNCHANGED pastVars

\* The call would revert, or cast's fees do not beat those of the transaction
\* in its place.
CastRefused(st) ==
    /\ st.op = "cast send" /\ st.needs \subseteq Services
    /\ ~Estimated(st.arg) \/ ~Accepts(anvil, st.arg)
    /\ Raise(st, disturbed)
    /\ UNCHANGED <<worldVars, pastVars>>

Reads(st) ==
    /\ st.op = "read" /\ st.needs \subseteq Services
    /\ IF "quote" \in DOMAIN st.arg /\ st.arg.quote = Reverted
       THEN Raise(st, disturbed)
       ELSE Proceed(st, st.arg)
    /\ UNCHANGED <<worldVars, pastVars>>

Submits(st) ==
    /\ st.op = "submit" /\ st.needs \subseteq Services
    /\ \E r \in Request :
          SubmitEffect(r, st.arg) /\ Proceed(st, [id |-> r, seqNum |-> lastSeqNum'])
    /\ UNCHANGED pastVars

\* The items of a bundle that Bundle.fromJson and Anvil accept.
Accepted(st, op) ==
    /\ st.op = op /\ st.needs \subseteq Services
    /\ BundleFound(st.arg) /\ Taken(st.arg) = Len(st.arg)

Bundles(st) ==
    /\ Accepted(st, "bundle")
    /\ \E block \in {BundleBlock(st.arg)} :
          /\ MineBundleEffect(st.arg, block)
          /\ Proceed(st, [reply |-> BundleReply(st.arg, block)])
    /\ UNCHANGED pastVars

Simulates(st) ==
    /\ Accepted(st, "simulate")
    /\ SimulateEffect
    /\ Proceed(st, [reply |-> BundleReply(st.arg, BundleBlock(st.arg))])
    /\ UNCHANGED pastVars

\* 400: Bundle.fromJson does not find a record pending.  502: Anvil refuses an item.
BundleRefused(st) ==
    /\ st.op \in {"bundle", "simulate"} /\ st.needs \subseteq Services
    /\ \/ ~BundleFound(st.arg) /\ UNCHANGED worldVars
       \/ /\ BundleFound(st.arg) /\ Taken(st.arg) < Len(st.arg)
          /\ Leave(SentUpTo(st.arg, Taken(st.arg)))
    /\ Raise(st, disturbed)
    /\ UNCHANGED pastVars

Checks(st) ==
    /\ st.op = "check"
    /\ IF st.arg THEN Returns(st) ELSE Raise(st, disturbed)
    /\ UNCHANGED <<worldVars, pastVars>>

Unreachable(st) ==
    /\ ~ (st.needs \subseteq Services)
    /\ Raise(st, disturbed)
    /\ UNCHANGED <<worldVars, pastVars>>
-----------------------------------------------------------------------------
(* What goes wrong. *)

Incident(hit) ==
    /\ faults < MaxFaults /\ faults' = faults + 1
    /\ disturbed' = (disturbed \/ hit)
    /\ UNCHANGED <<runs, fit>>

Fault(hit) == Incident(hit) /\ UNCHANGED interfered

\* The call is not performed.
CallFails(st) ==
    /\ st.op # "check"
    /\ Raise(st, TRUE) /\ Fault(TRUE)
    /\ lapsed' = (lapsed \/ (st.op = "set automine" /\ anvil.automine))
    /\ UNCHANGED worldVars

\* The call is performed and its response lost.
ResponseLost(st) ==
    /\ st.needs \subseteq Services
    /\ \/ st.op = "set automine" /\ SetAutomineEffect(st.arg)
       \/ /\ st.op = "cast send" /\ Estimated(st.arg)
          /\ \E txs \in CastOrders(st.arg) : CastSendEffect(txs)
       \/ st.op = "submit" /\ \E r \in Request : SubmitEffect(r, st.arg)
       \/ /\ Accepted(st, "bundle")
          /\ \E block \in {BundleBlock(st.arg)} : MineBundleEffect(st.arg, block)
    /\ Raise(st, TRUE) /\ Fault(TRUE)
    /\ lapsed' = (lapsed \/ (st.op = "set automine" /\ st.arg))

\* A bundle is cut short after some calls of eth_sendTransaction, or after evm_mine.
BundlePartly(st) ==
    /\ Accepted(st, "bundle") \/ Accepted(st, "simulate")
    /\ \/ \E n \in DOMAIN st.arg : Leave(SentUpTo(st.arg, n))
       \/ Leave(BundleBlock(st.arg))
    /\ Raise(st, TRUE) /\ Fault(TRUE)
    /\ UNCHANGED lapsed

Kill ==                         \* no finally clause runs
    /\ at > 0
    /\ Ends("killed", TRUE) /\ seen' = NothingSeen /\ Fault(TRUE)
    /\ lapsed' = anvil.automine
    /\ UNCHANGED worldVars

BuilderStops ==
    /\ builder /\ builder' = FALSE
    /\ Fault(at > 0)
    /\ UNCHANGED <<mempoolVars, anvil, payload, runVars, lapsed>>

AnvilStops ==
    /\ anvil.up /\ anvil' = [anvil EXCEPT !.up = FALSE]
    /\ Fault(at > 0)
    /\ UNCHANGED <<mempoolVars, builder, payload, runVars, lapsed>>

OtherSubmits ==
    /\ builder
    /\ \E r \in Request : SubmitEffect(r, NoTx)
    /\ Fault(at > 0)
    /\ UNCHANGED <<runVars, lapsed>>

\* Somebody else restarts the builder, or sends Anvil a transaction of one of
\* the roles that only takes a nonce.
OtherRestarts ==
    /\ builder /\ RestartEffect
    /\ Fault(at > 0)
    /\ UNCHANGED <<runVars, lapsed>>

OtherSends ==
    /\ anvil.up
    /\ \E u \in User :
          LET tx     == [from |-> u, nonce |-> anvil.nonce[u], call |-> <<"transfer", TokenA, u, 0>>]
              pooled == [anvil EXCEPT !.pool = Append(@, tx)]
          IN  /\ Accepts(anvil, tx)
              /\ Leave(IF anvil.automine THEN Mined(pooled) ELSE pooled)
    /\ Fault(at > 0)
    /\ UNCHANGED <<runVars, lapsed>>

\* Deployer has tokens that p may pull.
Funded(a, t, p) ==
    Arrives(Arrives(a, <<"mint", t, Deployer, OtherAmount>>), <<"approve", t, p, OtherAmount>>)

\* Somebody else trades in a pool, adds liquidity to it, or gives the victim or
\* the executor tokens.
OtherInterferes ==
    /\ anvil.up
    /\ \/ \E p \in Pool :
             Leave(Arrives(Funded(anvil, TokenA, p), <<"swapAForB", p, OtherAmount, 0>>))
       \/ \E p \in Pool :
             Leave(Arrives(Funded(Funded(anvil, TokenA, p), TokenB, p), <<"seed", p, OtherAmount>>))
       \/ \E t \in Token, to \in {Victim, Backrun} :
             Leave(Arrives(anvil, <<"mint", t, to, OtherAmount>>))
    /\ Incident(at > 0) /\ interfered' = (interfered \/ at > 0)
    /\ UNCHANGED <<runVars, lapsed>>

\* Nobody runs another scenario.
Rest ==
    /\ at = 0 /\ runs = MaxRuns
    /\ UNCHANGED vars

Next ==
    \/ \E name \in Scenario : Begin(name)
    \/ \E st \in Running :
          \/ Prepares(st) \/ SetsAutomine(st) \/ CastSends(st) \/ CastRefused(st)
          \/ Reads(st) \/ Submits(st) \/ Bundles(st) \/ Simulates(st) \/ BundleRefused(st)
          \/ Checks(st) \/ Unreachable(st)
          \/ CallFails(st) \/ ResponseLost(st) \/ BundlePartly(st)
    \/ Kill \/ BuilderStops \/ AnvilStops
    \/ OtherSubmits \/ OtherRestarts \/ OtherSends \/ OtherInterferes
    \/ Rest

Spec == Init /\ [][Next]_vars
-----------------------------------------------------------------------------
TypeOK ==
    /\ MempoolTypeOK
    /\ anvil.storage \in Storage /\ anvil.storage.ok
    /\ anvil.head \in Nat /\ anvil.nonce \in [User -> Nat] /\ anvil.receipts = <<>>
    /\ anvil.up \in BOOLEAN /\ anvil.automine \in BOOLEAN /\ builder \in BOOLEAN
    /\ scenario \in Scenario \cup {"none"}
    /\ at \in Nat /\ (at = 0 <=> scenario = "none")
    /\ raised \in BOOLEAN /\ lapsed \in BOOLEAN /\ interfered \in BOOLEAN
    /\ runs \in 0..MaxRuns /\ faults \in 0..MaxFaults

(***************************************************************************)
(* A scenario fails for a reason outside of it: a failure met it, or the    *)
(* chain was not in the state it presupposes when it began.  In particular  *)
(* every scenario but backrun can be run again, whatever ran before, as     *)
(* long as no earlier bundle left a transaction in Anvil's pool and, for    *)
(* victim-swap, nobody gave the empty pool too little liquidity.            *)
(***************************************************************************)
FailsOnlyForCause ==
    verdict.outcome = "failed" => verdict.disturbed \/ ~verdict.fit

(***************************************************************************)
(* cast send waits without a timeout for a receipt, so it is called only    *)
(* while automine is on: with the builder in control of mining it would     *)
(* hang and its finally clause never run (mint_and_approve and mint_token   *)
(* inside add_pool_liquidity must not switch automine off).                 *)
(***************************************************************************)
SendsUnderAutomine ==
    \A st \in Running : st.op = "cast send" /\ anvil.up => anvil.automine

(***************************************************************************)
(* A bundle is given to the builder only while automine is off, or its      *)
(* items would be mined one by one; and automine stays on after a run only  *)
(* if the very call that switches it met a failure or the run was killed.   *)
(***************************************************************************)
AutomineConfined ==
    /\ \A st \in Running : st.op \in {"bundle", "simulate"} /\ anvil.up => ~anvil.automine
    /\ at = 0 /\ anvil.up /\ anvil.automine => lapsed

(***************************************************************************)
(* The scenarios' own copy of the pricing formula (sandbox_amount_out) and  *)
(* the contracts agree: a run that completes was paid exactly what it had   *)
(* computed or was quoted, through the victim's swap and both legs of the   *)
(* backrun, unless somebody else moved tokens while it ran, in a pool or to *)
(* the accounts it reads: the swap then asks for 99% of the quote only, and *)
(* the run completes with what it gets.  Of a backrun that began with a     *)
(* transaction left in Anvil's pool nothing is said: cast mines it, and it  *)
(* may be a swap.                                                           *)
(***************************************************************************)
QuotedIsPaid ==
    verdict.outcome = "complete" /\ at = 0 /\ ~interfered
        => /\ verdict.scenario = "backrun" /\ verdict.fit
                => /\ Gained(TokenB, Victim) = Route.victimB
                   /\ Gained(TokenB, Backrun) = Route.profit
           /\ verdict.scenario = "victim-swap" => Gained(TokenB, Victim) = seen.quote
=============================================================================

# DEX Knight in TLA+

A verification project for the programs of this repository: the local block
builder (*Forest Gate*, `services/block-builder`), the bot (*Knight*,
`knight`), and the contracts of the sandbox chain (*Dark Forest*,
`blockchain`).  TLA+ modules model their components, TLC checks the models on
small instances, and the TLA+ proof system (TLAPS) checks theorems about them
for every value of the constants.

## The system

    scenarios, users --POST /public/tx--------> +---------------+
    searchers --POST /private/bundle(/simulate)>| block builder |--JSON-RPC--> Anvil
    Knight <--WS /ws/pending, GET /public/pending| (one process) |             (contracts)
                                                +---------------+

| Component | State | Operations | Hard behaviour | What makes it correct |
|---|---|---|---|---|
| public mempool (`mempool.py`) | records by id, `_lastSeqNum` | addTransaction, getTransaction, markMined, pendingSnapshot | the snapshot and the sequence numbers must describe one moment | numbers without holes; a snapshot whose boundary is exact; a final status is final |
| pending stream (`app.py`, `ws.py`) | set of subscribers, suspended broadcasts | submit, connect, disconnect, broadcast | coroutines interleave at awaits; subscribers stall, close, crash | no pending record missed, none sent twice; submitters are answered; dead subscribers go |
| bundle builder (`bundle.py`, `anvil.py`) | none of its own: the mempool and Anvil | simulateBundle, mineBundle | any RPC call may fail, performed or not; Anvil outlives the builder; others mine | mempool, reply and chain agree; a simulation leaves no trace |
| pending queue (`common/queue.h`) | deque, closed flag, waiters | try_push, wait_pop, close | three threads, notification outside the mutex | a bounded FIFO without lost wakeups |
| websocket source and feed (`network/ws_source.cpp`, `builder/pending_feed.cpp`) | connection state, attempts, restart flag, stream, timer | start, stop, restart, completion handlers | stale handlers, stop() from another thread, retries | never stuck; bounded retries; one connection at a time; stops |
| runtime and signal listener (`runtime/`, `main.cpp`) | m_running, threads, signal mask | run, stop, signal handler, destructor | a signal at any moment; two threads may stop | ends when asked; joins its threads; no use after destruction |
| snapshot client (`builder/rest_client.cpp`, `network/rest_client.cpp`) | the attempt | request_snapshot | errors, answers that never come | retries end |
| Knight following the builder (`runtime.cpp` over feed, queue and snapshot client) | the snapshot, the log | run, run_core_loop, reconnection | the stream is open before the snapshot is asked for; reconnection takes no new snapshot; the queue may be full | every pending record is in view unless it was lost for a known cause; what was answered first is logged first |
| scenarios (`scenarios/*/run.py`, `scenario_support.py`) | none of their own: chain, mempool, the mode of mining | seven drivers of some ten to forty calls each | each call may fail or lose its answer; a run may be killed; they share one chain, and switch automine on and off under `try ... finally` | a run fails only for a cause outside of it; nobody waits for a block that nobody mines; computed amounts are paid |
| tokens, pools, executor (`blockchain/src`) | balances, allowances, reserves | ERC-20 calls, seedLiquidity, swaps, executeBackrun, withdrawToken | rounding, overflow, slippage, self transfers | solvent pools; no liquidity lost; no losing backrun |

### Not modelled

* The chain gateway: `GET /health`, `/ping`, `/chain/head`,
  `/public/tx/{id}` and `POST /chain/call` read and change no state, so there
  is no action to model; what the scenarios read through them or through
  `cast` is in the `Read` statements of ScenarioSupport.  The validation of
  request fields (`transaction.py`, `_chainCallFromJson`) is the parsing of
  one value: a payload that does not pass is one that was never submitted.
* Knight's configuration and logging: sequential, nothing shared.
* The shell scripts start and stop processes.  What they leave behind
  (contracts without liquidity, builder-controlled mining) is an initial
  state: `Deployed` in ScenarioSupport, `Init` in Sandbox.
* The steps inside one synchronous GET of the snapshot client: they are one
  outcome, as its caller sees them.

## The modules

* **Mempool** is the state and the methods of class `Mempool`.  A record is
  named by its submission, because `mempoolTxId` is a fresh uuid.  The class
  holds its lock for the whole of each method, so each is one step.
  * **PendingStream** extends it with the public endpoints.  The actions are
    the stretches of the coroutines between awaits: `Submit` is everything
    from the request to the first `send_json` because nothing there suspends.
    `StartSend`/`EndSend` are the two sides of `await send_json`; `Accept`/
    `Register` the two sides of `await accept`.  The transport (`Stall`,
    `Drain`, `Close`) is external.
  * **BundleBuilder** extends it with the private endpoints.  A bundle handler
    never awaits, so there is one at a time; between its JSON-RPC calls the
    rest of the world moves.  Each call has an action for its success, one for
    its failure, and where it matters one for being performed with its
    response lost.  `Raise` is the exception path: `mineBundle` undoes
    nothing, `simulateBundle` goes through its finally clause.  Anvil is
    external: a pool of unmined transactions, a chain, one snapshot.
* **BoundedFifo** is what the users of the queue count on; **PendingQueue** is
  the queue: a critical section is a step, and so is every notification.
  `ImplementsFifo` is the refinement, over the history variables `accepted`,
  `delivered` and `refused`.
* **WsSource** has the methods of the class as operators from one state of the
  object to the next, so that `Fail(w) == ScheduleReconnect(ResetStream(
  PublishState(w, "FAILED")))` reads like the function it models.  Pending
  operations are counted by kind; `reset_stream` turns those of the old stream
  into stale ones, which still complete.  `stop()` is three steps because it is
  called from another thread.
* **KnightRuntime** instantiates WsSource and composes it with the main
  thread, the listener and the io thread.  `main`, `listener`, `at` are
  program counters.  The queue is only its length here.
* **SandboxDex** has the contract functions as operators on their storage; a
  call that reverts clears `ok`.  **Sandbox** is the chain: any user sends
  any call of the contracts, `transferFrom` and approvals of any account of
  `Spender` included, tokens are minted to any account, a pool too, and only
  storages that are `ok` are committed.  The width of uint256 is the constant
  `MaxUint`.

* **Following** extends PendingStream with Knight: `Runtime::run`, the core
  loop, and of the source only its connection.  A connection of Knight's is a
  `Client`; frames travel in order on it (`wire`) and are lost with it.
  `Ready`, `WaitFails`, `SnapshotArrives`, `SnapshotFails` and `PopItem` are
  the main thread; `Connect`, `Opened`, `Disconnected`, `ReadFrame` the
  handlers of the source; `Submission`, `Write` and `BuilderMoves` the
  actions of PendingStream with what they write.  `before` and `cause` are
  histories: what was answered when a record was submitted, and why Knight
  may not have heard of one since its snapshot.
* **ScenarioSupport** has the functions of `scenario_support.py`.  A scenario
  is a sequence of statements, each one call to the builder, to Anvil or to
  `cast`, or a check; a function that makes several calls, such as
  `AddPoolLiquidity`, is an operator that builds a sequence, and the statements
  inside a `try` carry a mark that leads to their `finally` clause.  The
  effects of the calls use Mempool and SandboxDex, so a swap is priced by the
  contract's own formula.  **Scenarios** has the seven `main()` as such
  sequences and runs them one after the other: one action per kind of call
  that succeeds, is refused, or fails (`CallFails`: not performed;
  `ResponseLost`: performed; `BundlePartly`: cut short inside the builder),
  and `Kill`, `BuilderStops`, `AnvilStops` and what others do, who have the
  same builder and the same open chain: a submission, a restart, a transaction
  that only takes a nonce (`OtherSends`), and one that moves what a scenario
  computes with: a trade in a pool, liquidity added to it, or tokens given to
  the victim or to the executor (`OtherInterferes`).  A `cast send` raises when its gas estimate
  fails (`CastRefused`) and when its transaction reverts in the block
  (`CastSends`), and a quote raises when `getAmountOut` reverts (`Reads`).

Anvil and cast are external.  In BundleBuilder a block takes any part of the
pool in any order, which is the most Anvil may do.  In Scenarios, where
amounts depend on the order, it is more definite: a block takes the whole
pool; the payloads all offer the same fees, so Anvil keeps their order and
refuses a second one with the same sender and nonce; `cast` chooses its fees,
so its transaction goes first or last and may replace one.

`MC*` modules add the symmetry sets for TLC; the `*Proofs` modules hold the
theorems.  Some modules also define faulty variants of their actions, each
directly above the definition it spoils and marked as such in a comment; no
`Next` uses them.  Put in place of the right definition they make the property
they belong to fail, which shows that the property depends on the code.

## The runs

| Run | Configuration | What it shows |
|---|---|---|
| `pending_stream` | 2 submissions, 2 connections | `SnapshotPlusStreamComplete`: who subscribes and then takes the snapshot misses no pending record; `StreamAtMostOnce`; `LiveRegistryExact`; `SeqNumsDense` |
| `pending_stream_live` | 2 submissions, 2 connections | submitters are answered, records delivered, dead subscribers dropped, also those behind a stalled one |
| `following` | 2 submissions, 2 connections of Knight, a queue of 1 | `MissesOnlyForCause`: once it has its snapshot, Knight has every pending record in view, or the queue was full, or the connection was lost; `LogFollowsAnswers`: no record is logged twice, nor before one that was answered before it was submitted |
| `bundle_builder` | 2 submissions, 1 private transaction, bundles of up to 2, foreign blocks | marks and replies agree with the chain; what can be left behind, and by what only; an included bundle is one block |
| `bundle_order` | the same without foreign blocks | **violated**: see below |
| `pending_queue` | 2 producers, 2 consumers, 2 closers, capacity 2, 5 items | FIFO refinement, no lost wakeup, delivery, and the end of every consumer |
| `ws_source` | TLS, 3 attempts, 2 stops, 2 restarts | `NeverStuck`, `RetriesBounded`, `OneThingAtATime` |
| `ws_source_live` | no TLS, 2 attempts, 1 stop, 1 restart | connecting, stopping and restarting end |
| `knight_runtime` | TLS, 2 attempts, capacity 2, 2 signals, 3 snapshot attempts | how the process ends |
| `scenarios` | the 7 scenarios, 3 runs in a row, 1 failure or interference | `FailsOnlyForCause`: which failure a run may inherit; `SendsUnderAutomine`: nobody waits for a block that nobody mines; `AutomineConfined`: who has control of mining; `QuotedIsPaid`: a run that completes was paid what it computed, unless somebody interfered with it |
| `sandbox` | 1 pool, 1 trader, who may approve the pool or himself, supply up to 4 | solvency, supply, liquidity |
| `sandbox_backrun` | 2 pools, 1 trader, the executor | backruns |

The type invariants of PendingStream, BundleBuilder, PendingQueue, WsSource
and Sandbox are proved and not run again; those of KnightRuntime and Scenarios
are proved and run.

*Bounds.*  Two submissions are enough for two broadcasts to overtake each
other and for a number on either side of a snapshot; two connections for one
to be dropped while the other is being sent to.  Bundles of two are enough for
order and for failing half way; two submissions and a private item give a
stray transaction that a later bundle meets.  The queue has both a full and an
empty state between which all threads move; five items overflow it with both
consumers late.  Three attempts, two stops and two restarts let a stale
handler, a queued timer and a second call meet in one connection.  Two signals
are the least that can reach both `sigwait` and the mask being restored.  Following
needs two connections to lose one, and a queue of one to overflow with two
records.  Three runs of scenarios with one failure let a run fail, a second
one inherit what it left, and a third one find it repaired or not; their
amounts are scaled down so that products stay within TLC's 32 bits, and are
such that the backrun gains more than its minimum, and that `OtherAmount`,
what somebody else trades, moves the price by less than the tolerance: runs of
victim-swap and of backrun complete although somebody interfered with them.  At these amounts a `cast send` whose estimate fails is
reached; one that reverts only in its block, and a quote that reverts, are not:
of those branches the proofs speak, TLC does not.  The
amounts of the sandbox are such that rounding, slippage, an exhausted and an
unlimited allowance, and overflow of `MaxUint` occur; the proofs are about
every amount.

`CHECK_DEADLOCK FALSE` stands where the system may really stop: all bounded
submissions answered, a closed queue, a stopped source, an ended process, a
chain on which nothing can be afforded.  In `scenarios` deadlock is checked: a
driver that could not go on would be one.

*Fairness.*  PendingStream: the event loop runs every ready coroutine; a stall
ends by reading or by the server's ping timeout.  Nothing else is assumed of
a connection: one that is not stalled may stay open for ever.  The live run
leaves out the snapshots (`WithoutSnapshots`): no other step reads what they
write, so they neither help nor hinder what it checks.  A send that is ready stays
ready in the event loop even if the transport fills again, hence strong
fairness of `EndSend`.  PendingQueue: threads that are not blocked run;
nothing is assumed of spurious wakeups or of anybody pushing or closing.
WsSource: handlers run when their operation ends; resolver, connect, websocket
handshake and close end (the last two by beast's suggested timeouts), but
nothing is assumed of a read, nor of a TLS handshake, which has no timeout:
therefore `ConnectsOrGivesUp` is checked without TLS.  Following has no liveness of
its own: that frames are delivered is `RecordDelivered` and
`AcceptedIsDelivered` of its parts.  Scenarios is sequential: a run ends
because its statements do, and the one that could hang is excluded by
`SendsUnderAutomine` and the absence of deadlocks.  KnightRuntime: threads
run; nothing is assumed of the peer.  The GET of the snapshot has no timeout
either, so `ShutdownEnds` says "provided that main is not left waiting for one
GET for ever" in so many words (`GetsReturn`).

### What the code does and its documentation does not say

`bundle_order` is a disagreement: `docs/endpoints.md` (lines 234-235) says that
the builder "executes the ordered transaction sequence on an Anvil snapshot".
The code sends the items in that order and mines once (`bundle.py` 83-88); the
order inside the block is Anvil's, by fee unless told otherwise.

Properties that hold only with their conditions tell as much: a record may stay
pending although mined after a run that failed, was killed, or whose simulation
left its items in Anvil's pool (`PendingMinedOnlyIfStrayed`); a simulation
stays on the chain when `evm_revert` fails (`SimulationLeavesNoTrace`);
Knight ends by `std::terminate` when a signal falls between `m_running = true`
and the start of the io thread (`TerminatesOnlyInWindow`), and a signal before
that is consumed without effect (`ShutdownEnds` is about signals that found
the runtime running); a second signal may kill it when the mask is restored
(`OneSignalDoesNotKill`); an owner's stop or restart may leave a second retry
on its way (`RetriesBounded`, `OneThingAtATime`).  Knight asks for the snapshot
once: what is submitted while it reconnects, or dropped by the full queue,
stays out of its view (`MissesOnlyForCause`).  A bundle that fails half way
leaves transactions in Anvil's pool that make a later scenario fail; the
backrun scenario wants pools that no earlier run has traded in; and
`ensure_pool_liquidity` is content with any liquidity, so a pool that somebody
else gave a little of it first, and that victim-swap then empties, makes a
later victim-swap fail (`Fit`, in `FailsOnlyForCause`).  A run whose `evm_setAutomine false` is lost, or that is
killed inside, leaves automine on (`AutomineConfined`).

## The proofs

All theorems are of the form `Spec => []Inv`, `Spec => [][A]_vars` or, for the
queue, `Spec => ImplementsFifo`; they rest on the named `ASSUME`s of the
modules only, which the runs evaluate.

* **FollowingProofs**, first of PendingStream.  The invariant adds to the
  properties: the numbers
  seen by snapshots lie in the past; which stage a connection can be in; that
  failed subscribers are closed ones; that nothing is sent of what was not
  submitted.  The completeness of snapshot plus stream needs all of them: a
  covered, live client is in the set of subscribers, so a new submission has
  it in its list, and only a broadcast that found it closed takes it off.
  Then of Following.  Every step is, for the builder, a step of PendingStream
  or none, so its theorems hold with Knight attached.  The invariant relates
  the two sides: Knight has one connection and no other is live; frames wait on
  that one only; a broadcast lists connections that were accepted, before it is
  answered; whatever is on the wire, in the queue or in the log was sent, and
  what is still listed was not; log, queue and wire are ordered each and one
  after the other.  A record enters the wire before its submission is answered,
  and only answered ones come before another: `LogFollowsAnswers`.
* **BundleBuilderProofs**.  `MarkedAsOnChain` is inductive only together with
  what the handler holds while it runs: a receipt it has read agrees with the
  chain until the handler ends, and the saved snapshot of a simulation already
  contains every marked record, so that reverting to it takes no mark's block
  away.
  Its second half rests on that.  `Traces` says what is accounted for at
  each point of a run: whatever is in Anvil was brought there by an answered
  bundle, by a run that strayed or by the run of now, and what a simulation
  goes back to was not brought by it; the records of the bundle being run are
  pending, since only `markMined` changes a status and there is one handler.
  From it follow `PendingMinedOnlyIfStrayed`, `SimulationLeavesNoTrace` and
  `FinalStatusKept`.  `Blocks` says that as long as nobody else mined an item,
  what was sent waits in the pool until the bundle's own block, and that a
  simulation's revert keeps the blocks of the last answer together:
  `BundleInOneBlock`.
* **PendingQueueProofs**.  `History` (accepted is delivered followed by the
  queue) gives the refinement; only consumers inside `wait_pop` wait.
* **WsSourceProofs**.  `NeverStuck` is inductive by itself with the types.
  The argument: every method leaves an object that is *alive* (something
  pending leads on), whatever object it started from; a handler of a stale
  operation leaves the pending ones of the new stream alone or ends in `Fail`.
  `Accounted` carries the other two: the operations under way and the waits of
  the timer never outnumber the owner's calls (a `stop()` that is still on its
  way to `do_close` counts as one), and neither do the connections begun, about
  to begin or asked for, beyond the attempts counted.  A handler uses up what
  it is of before it adds at most one; a call is paid for by itself.  So
  `RetriesBounded` holds, and with `open()` as the only call there is one thing
  under way at most, `OneThingAtATime`.
* **KnightRuntimeProofs**.  `SourceFollowsSpec` says that the source of a Knight
  is a behaviour of WsSource, and so obeys its theorems for one call of `stop()`.
  Of the threads: the listener is joined before main goes on to destroy; when a
  signal was not asked for, or came before `run()`, `m_running` is still set
  until main itself takes it; and a `Runtime::stop` that is over has joined the
  io thread, unless it was called in the window.  For the signals: of the first
  one nothing is pending once the handler has it.  `TypeCorrect` and
  `SourceKeepsPromises` carry the theorems about WsSource over to the process;
  they assume that `UseTls` is a Boolean and `MaxReconnectAttempts` a number.
* **SandboxDexProofs** has one lemma per contract function that says what a call
  that does not revert did; from those, that it keeps pools solvent
  (the `...Keeps` lemmas), does not lose liquidity (`PriceKeepsProduct`, the rounding
  argument), and touches the executor's tokens and allowances only by its own
  calls.  **SandboxProofs** has the theorems of the chain.
  `TokensConserved` is about the sum of the balances, a fold over the accounts.
  The fold is shown to be what it should be by an induction over the sets of
  accounts, with the property as a set of numbers (`SetInduction`) in place of
  the operator that the library's theorems want; it assumes that pools and
  users are finitely many.
* **ScenariosProofs**.  A program is abstracted to its *shape*, the sequence of
  what its statements do to automine and to the decisions of the program:
  `open`, `send`, `close` for a block of managed automine, `bundle`, readings
  of reserves on which the program decides (`one`, `two`, `both`), and `calm`
  for the rest.  The argument has four parts.  (1) The shapes of all seven
  scenarios enter and leave their blocks properly and mine bundles after one
  only (`ShapeFacts`).  (2) The program that runs always has the shape of its
  scenario, whatever it has read (`MainFits`, one lemma per function of
  `scenario_support.py` and per scenario).  (3) A program is not fixed: it
  decides by what it reads; but a reading changes only what comes after it
  (`ShapeContinues`).  (4) Along a shape automine is where it should be
  (`Confined`): on inside of a block, off outside, or left on by a failure and
  not yet switched off by a later block; every statement, its success and its
  failures keep that.  Besides, the invariant says that what the calls hold is
  well formed and that the chain is sound: a block is a fold over the pool,
  and the fold is followed transaction by transaction (`MinedFacts`), with the
  contract lemmas for each call.  So `SendsUnderAutomine`, `AutomineConfined`
  and `TypeOK` hold for any amounts, any roles, any number of runs and of
  failures, and the tokens on the chain add up under all of it (`ChainIsSound`).
  The amounts are assumed to be unsigned words, nothing else.

* **ScenariosProofs, what is paid** (`QuotesArePaid`).  `QuotedIsPaid` compares
  what a run computed at one time with what the chain paid at another, so its
  invariant, `Core`, says at each statement of victim-swap and of backrun what
  the run still relies on.  It counts the statements that are `Left`, since the
  front of a program depends on what it reads, and says: (1) from the point on
  where a block has been mined, or from the start of a backrun that was fit,
  Anvil's pool holds nothing but the idle transfers of others (`Still`);
  (2) the reserves that the backrun believes in, read or computed from what it
  seeded, are those of the chain; (3) the balances and the quote remembered are
  the current ones until the bundle is submitted, and the record remembered is
  the victim's swap; (4) after a bundle reported as included the balances
  differ from the remembered ones by exactly what was computed.  The lemmas it
  rests on: the drivers' formula is the contract's (`FormulasAgree`); a bundle
  executes its items in order behind idle transactions that change no balance
  and no reserve (`IncludedBundle`, a fold followed item by item), so the
  victim and the executor are paid the route (`SwapBundlePays`,
  `BackBundlePays`, over `BackrunPays` of SandboxDexProofs); every statement of
  a program is at the row where it should be, whatever was read before
  (`BackrunRows`, `SwapRows`); what a statement may do to the chain (`Did`).
  `CoreReturns`, `CoreRaises`, `CoreBegins`, `CoreOutside` put them together,
  and `CoreInterfered`, one for each way a step can go.  It holds for any
  amounts, any reserves that victim-swap meets, any number of runs and
  failures, and whatever others do to the chain between runs.

  It says nothing of a run during which somebody else trades in a pool, adds
  liquidity to it or gives the victim or the executor tokens (`interfered`),
  and cannot: victim-swap asks for 99% of its quote, the backrun for 99% of
  what it computed, so each completes with another amount when the price has
  moved by less, and TLC finds such a run when the condition is left out.
  While a run lasts, the transactions of others that leave the property
  standing are those that move no tokens (`OtherSends`).

  `QuotedIsPaid` speaks of a backrun that was `fit` when it began: nothing left
  in Anvil's pool, and the reserves and the executor's balance such as the
  backrun's own checks ask for, without which it does not complete anyway.
  Without the empty pool it is false for some amounts,
  which the proof attempt showed: a swap that an earlier failure left in the
  pool is mined when backrun mints its tokens, after the reserves were read; if
  it moves the price by less than the tolerance of one per cent, the backrun
  goes through and is paid something else than it computed.

Model-checked only: every liveness property (`SubmissionAnswered`,
`RecordDelivered`, `DeadSubscriberDropped`, `AcceptedIsDelivered`,
`CloseEndsConsumers`, `ConnectsOrGivesUp`, `StopSettles`, `RestartHonoured`,
`ShutdownEnds`: TLAPS does not reach fairness and ENABLED), and
`FailsOnlyForCause` of Scenarios.  The latter says that the checks at the end of
the scenarios succeed when nothing disturbs them, which is a matter of the
amounts chosen and not true of all: with a larger minimum profit a backrun
always fails, a swap too small for the fee and the rounding pays nothing, and a
mint beyond `MaxUint` reverts.

## What the models leave out

Data: payloads, timestamps, receipts beyond their outcome, hashes, HTTP and
JSON, logs, delays (a timeout is a choice).  Field validation.  Below the
statement, the data races between `stop()` and the handlers.  Two submissions
of one signed transaction under two ids.  Gas, block timestamps, events and
the zero address of the contracts; the pools are the deployed ones, so the
token mismatch checks of the executor hold.  Signals before the listener
blocks them.  What the scenarios print, and the errors of the builder that
reach them as one or another HTTP status: to a driver each is a
`ScenarioError`.

## Plan

Done: the modules, runs and theorems above, in this order of importance:
pending stream, bundle builder, queue, source, runtime, contracts, scenarios,
Knight following the builder.

Next: an abstract constant-product pool that SandboxDex refines, to state the
bound of a trader's gain independently of the implementation.

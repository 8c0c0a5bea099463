# zk-perp in TLA+

A model of zk-perp, a perpetual-futures exchange whose sequencer matches orders,
batches transactions into a data-availability (DA) log and proves batches with a
zkVM. The modules are translated from the Rust sources; TLC checks small
instances and TLAPS proves the main results for every instance.

## Inventory of the system

| Part | State it keeps | Operations | What makes it correct |
|---|---|---|---|
| Order book, matching engine (`crates/orderbook`, `core/types/order.rs`) | per side a map price -> level (queue, cached total), an index id -> location | `match_order`, `add_order`, `cancel_order`, best prices, depth | price-time priority; index, queues and map agree; never crossed; totals never underflow; a match returns |
| Sequencer (`sequencer/src/lib.rs`, `api.rs`) | state, mempool, account keys, DA log, statistics, oracle, each behind its own `RwLock` | `register_account`, `submit_transaction`, `process_batch`, batch timer, `trigger_batch`, `update_oracle_prices`, reading handlers | no executed transaction duplicated or lost; each checked transaction executed once; the roots in the log are the state's; no handler waits for ever |
| DA log (`crates/da`) | batch files, proof files, `index.json`, a cache | `new`, `append_batch`, `append_proof`, `get_batch`, `get_all_transactions` | contiguous ids, continuous roots, append only, survives a crash |
| Exchange state (`crates/state`, `core/types/{account,position,market}.rs`, `core/transactions`) | accounts with free and locked balances and a nonce, order books, positions, prices, the hypertree | one `process_*` per transaction | balances conserved; locked margin covers the open orders; a failed transaction changes nothing; positions and sides agree |
| Merkle tree and hypertree (`core/merkle`) | nodes by level and path, cached hashes | `insert`, `remove`, `prove`, `verify` | the root commits to one leaf of each path and to nothing else; a proof that verifies says what leaf is there |
| Verifier (`verifier`) | verified root, last verified batch, the log's index as loaded once | `verify_batch`, `verify_next`, `verify_all_pending` | advances only over proven, continuous batches |
| Prover host (`host`) | none | `prove`, `prove_mock`, `verify` | a proof fits its batch |
| Guest (`methods/guest`) | none | asserts of each transaction that has an account witness what the exchange did | the guest's rules are the exchange's; true witnesses pass |
| Oracle (`crates/oracle`) | prices and timestamps by source, a history, the aggregator's sources | `MockOracle`, `SimulatedOracle`, `PriceAggregator` | a minority of wrong or late sources does not decide; the history is the latest |

Interaction. HTTP handlers call `submit_transaction`, which executes on the
exchange state (and so on the order book) under the state's write lock, then
pushes to the mempool, then may itself run `process_batch`. The batch timer and
the `trigger_batch` endpoint run `process_batch` too, which drains the mempool,
reads roots from the state and the log, appends to the log, proves, and stores
the proof. The verifier reads the log from disk in a process of its own.

What is hard: tasks interleave at every `await` between six locks, and some keep
one guard while they queue for another; values read under one lock are used under
another; a drained batch can fail to be appended, and a client that goes away takes
its request with it at any `await`; a restart keeps only the log;
two processes use the log's files without a lock; the match loop updates three
structures by hand; exchange and guest implement the same rules twice.
`PROJECT.json` lists the hazards at their lines.

## Modules

| Module | Models |
|---|---|
| `OrderBook` | one market's book and the matching engine, one step per fill |
| `PriorityBook` | what a market promises: a set of orders served by price, then id |
| `Exchange` | accounts, margin, fees, positions and leaves around the actions of `OrderBook` |
| `Guest` | what the zkVM guest asserts of the exchange's transactions |
| `Sequencer` | what requests and batchers do to mempool, state and DA log, one step per lock |
| `Server` | the six locks: every handler, the timer and oracle updates queueing for them |
| `AppendLog` | the DA log as files, one step per file operation, with crashes |
| `BatchChain` | what the log promises its readers |
| `Verifier` | the verifier process beside `AppendLog`, sharing its files |
| `SparseMerkle` | the tree behind the state root: leaves, root, proofs |
| `Oracle` | price sources and their aggregation, with a clock |
| `OrderBook_proofs` | proofs about levels, index and queues of the book, and that `OrderBook` implements `PriorityBook` |
| `Exchange_proofs` | proofs about balances, positions and leaves, and about `Guest` |
| `Verifier_proofs` | proofs about `AppendLog`, and about `Verifier` beside it |
| `Sequencer_proofs`, `Server_proofs`, `SparseMerkle_proofs`, `Oracle_proofs` | proofs about these four |
| `Sums_proofs` | lemmas about sums over finite sets and sequences |
| `MCOrderBook`, `MCExchange`, `MCSequencer`, `MCServer`, `MCVerifier`, `MCSparseMerkle`, `MCOracle` | instances for TLC |

`Exchange` composes with `OrderBook` by instance over the same variables, `Guest`
extends `Exchange`, and `Verifier` extends `AppendLog`. Each proof module extends the
module it is about; `Exchange_proofs` extends `Guest` and has an instance of
`OrderBook_proofs` over the exchange's own variables. `OrderBook` refines
`PriorityBook`; `Sequencer`, where `append_batch` is one step, and `AppendLog`, where
it is many, both refine `BatchChain`.

### OrderBook

`book[side]` is the `BTreeMap` of levels, `order_locations` the index,
`next_order_id` the counter of `SystemState`, `incoming` the order a running
`match_order` works on (`NoOrder` when none runs), `fills` and `result` what the
call returns. `match_order` holds `&mut OrderBook`, so nothing interleaves with
it, but its loops are unrolled: `Submit` is the entry, `FillMaker` one turn of
the inner loop (fill, pop, index, emptied level), `RejectPostOnly` the early
return, `FinishMatch` the code after the loops. The invariants therefore hold in
the middle of a match too. `Cancel` is `MatchingEngine::cancel_order`, with its
ownership check and its two errors.

`PriorityBook` has no levels, queues or index. `OrderBook` implements it with
`resting` mapped to the set of orders in all levels.

Abstracted: timestamps and time-in-force (stored, never read), fees and average
price (functions of the fills), `filled_qty` (original less remaining), market
id. `Stop` stands for both stop-loss and take-profit, which the engine never
rests.

### Exchange

One action per `process_*` function. They hold `&mut GlobalState`, so they are
single steps, except `process_place_order`: `PlaceOrder` locks the margin and
enters the match, `MatchFill`, `MatchDone` and `MatchRefused` are the book's own
steps, `SettleFill` is one `process_fill`, `FinishPlace` the nonce and the leaves
of the tree. `placing` and `settled` say how far it is, and keep everything else
out. A transaction that is refused before it changes anything is no step; one
refused afterwards is (`MatchRefused`, and an order of quantity zero in
`PlaceOrder`). Balance operations that report failure and leave the balance alone
(`Unlock`, `Debit`, `DeductLocked`) do so here too, since their callers do not
look at the answer.

`tree_accounts` and `tree_positions` are the leaves of the hypertree, as they were
last written. `net_taken` is a history variable. Fixed-point numbers are integers, and
the divisors (10 000, 10^18, 10^26) the constants `BpsUnit`, `QtyUnit`, `PnlUnit`,
so that a small instance rounds as often as the real numbers do.

Left out: a second market or asset (only USDC is ever used); the profit that
`decrease` returns and every caller drops; leverage, funding and liquidation
price, which are stored and not read; the price and lot checks of `Market`, which
nobody calls.

### Sequencer

Each request (`Handlers`) and each batching task (`Timer`, `Triggers`) has a
program counter that stops at every `await`; the local variables of
`process_batch` are `batch[t]`. `StateWritable` is the state's write lock: it is
free while no task is between `ReadPostRoot` and the return of `process_batch`,
which is how long the code keeps its read guard.

The state and its root are the sequence of changes made so far: the hash is
taken as injective, and every change the model makes writes to the hypertree.
`log`, `current_state_root` and `proven` are the DA index and its batches;
`append_batch` is one step, its continuity check included. Transactions come in
three kinds: those whose nonce is checked; liquidations, which only increment it;
and the `UpdateOracle` that a client posts, which goes through mempool and log like
any other, changes neither root nor nonces and is never refused: where
`verify_signatures` is off nothing looks for the key of its signer, account 0.
`RejectTx` may happen to the others, for the reasons a small model leaves out
(balance, position, order). `executed` counts the executions of each transaction in
the life of the process, and `dropped` has those that no task, mempool or batch has
any more; both are history variables.

`Disconnect` is a client that goes away: the server drops the future of its request
at the `await` it has reached. After `execute_transaction` and before the push
(`lib.rs:187-191`) that loses the transaction, after the drain (`337-365`) all that
was drained, and after the append the proof. The timer is a task of its own and is
not dropped. `Restart` is the end of the process and `Sequencer::new`: the log
stays, the rest is new.

Left out: statistics; `update_oracle_prices`, which touches neither root nor mempool
and is in `Server`; batch hashes; errors of the file system, which `AppendLog` has.

### Server

A task, a client's request or the batch timer, is the list of critical sections
it has still to enter (`todo`). It stands in the queue of the first section's lock
(`waiting`), enters when nobody is in its way (`MayEnter`: tokio's `RwLock` is
first come, first served, so a reader waits behind a queued writer), does what
the section does and queues for the next lock in the same step. Guards that
outlive their section are in `held`: `health` keeps the state's over the length
of the mempool, `process_batch` keeps it over the append and the proof. Every
route of `api.rs` and `update_oracle_prices` is such a list; handlers of one
shape differ only in the lock.

`Check` may refuse, `AppendBatch` and `AppendProof` may return their error, the prover may
fail; `Sequencer` and `AppendLog` have the reasons. A transaction is the client that sent
it. `SubmitUpdateOracle` is `POST /tx` with an `UpdateOracle`, which sets a price under
the state's write lock (`Reprice`) and then goes on as any transaction does; the price is
the client's choice. The prices of a market are numbered in the order in which they were
set, so that newer is greater; `since` is a history variable.

Left out: requests that are dropped because their client goes away. That frees the
guards and the places in the queues that a request has, so nobody waits for longer;
what it loses is in `Sequencer`.

### AppendLog

`batches`, `proofs` and `index_file` are the files; `index` and `batch_cache` the handle
in memory; `pc` the file operation that comes next. `File::create` cuts a file to `Torn`
and the content comes with a later step, so `append_batch` is `AppendBatch` (checks,
file created), `WriteBatch` (content, index in memory), `TruncateIndex`, `WriteIndex`;
`append_proof` likewise. `Crash` may happen between any two of them, and `Open`,
`OpenMissing`, `CreateIndex`, `WriteNewIndex` are `AppendLog::new` afterwards. `Fail` is
an I/O error returned by any file operation. `env`, which is chosen from `Environments`
at the start and never changes, says whether there are such errors (`"io_errors"`) and
whether the directory starts without an index file (`"fresh_dir"`), in which case the
verifier may create one too. A further constant, `FlushMayFail`, lets the flush of a
dropped `BufWriter` fail, whose error the code never sees; it is `FALSE` in every run.
`saved` is the last index written completely, `acked` the batches whose append returned
`Ok`: both are history variables.

What the process has written before it is killed is taken to reach the disk;
a power failure is not modelled. Several handles of one log in the sequencer's
process do not occur; the verifier's is in `Verifier`.

### Verifier

A process of its own, which opens the directory with `AppendLog::new`, keeps the
index as it was then, and reads files when a request comes. It creates the index
when there is none, as any opener does. `VerifyNext` is one request: `Answer`
gives the code's checks in their order, with `"undecodable"` for a stored proof whose
bytes are not a `ProofReceipt`. `StoredForms` has the two forms of those bytes: `"seal"`
is what the sequencer stores (`sequencer/src/lib.rs:423`), and the only one that any
program of the repository writes; `"receipt"` is the one that the verifier can read, and
that a caller of `append_proof` could store. The request is one step although it
reads two files, because both were complete before an index counted them, and are
not written again while they are counted. `/verify/all` repeats `VerifyNext`. The
prover accepts every receipt, as the mock and a build without `risc0` do, so what
is left to check is the journal against the batch.

### SparseMerkle

Hashes are terms, `HashPair(l, r) == <<l, r>>`: equal only when their parts are.
`Levels` is the loop that `recompute_root` and `get_siblings` share, from the leaves up,
over the subtrees that have a leaf; `ZeroHashes` stands in for the rest. (The recursion
of `compute_subtree_hash` is never reached: every subtree with a leaf is in the level's
map.) `Siblings` and `Verify` keep what the code does at an empty sibling and with the
order of the bits. `FullTree`, against which the root is checked, is the textbook
definition. `proof` is the last proof drawn, which the tree may since have outgrown, as
a witness does. The hypertree's combination of six roots is in `Guest`.

`key_to_path` cuts a key of 256 bits to the 32 of its path, so keys may share one.
`LeafHashes` then has one leaf for the path: `recompute_root` goes through a `HashMap`,
and each leaf overwrites the one before it (`tree.rs:303-307`). `tree` is the part of
the leaves that comes out of that, any of the `Survivors` of the leaves: the order of a
`HashMap` is arbitrary. It stays as it is until the map may grow with a new key, or the
surviving leaf is removed.

### Guest

`VerifyTransaction` is the guest's `match` with the check of each kind of
transaction, `GuestAccepts` its loop, in which a transaction without an account
witness is accepted unseen; a panic refuses the batch. An account is a record of
what the checks look at. Hashes are terms: `StateRoot` is the hypertree's, over
the account and the position tree of `Exchange` and four trees that stay empty,
and a proof is the root that its siblings lead to. `ProveAccount` is what
`prove_account` draws. The module's properties compare the checks with the steps
of `Exchange`: on the true accounts, orders and positions before and after
(`ExecutedPasses`), the other way round (`AcceptedIsExecutable`), and with the
proof (`ProperWitnessesAccepted`).

### Oracle

`quote` is what each source's `get_price` answers, for one market. A source moves
into the aggregator when it is added, so the mock and the simulated oracle change
only before; feeds (implementations of `PriceSource` outside the repository, and
marked so by being any answer at any time) go on. The clock may be set back, and
timestamps may lie ahead of it. A tick of the random walk chooses any price and
clamps it to the band; `Low` and `High` stand for the computation of the band.
`FreshSources`, `Ascending` and `AggregatedPrice` are `get_aggregated_price`, which
sorts the fresh prices and takes the one in the middle.

## Runs

| Run | Bounds | Shows |
|---|---|---|
| `book` | 2 accounts, 2 prices, quantities 0..2, 3 orders | levels, queues and index agree in the middle of a match; never crossed; no fill jumps the queue; refinement of `PriorityBook`; every match returns |
| `exchange` | 2 accounts, prices 1 and 3, quantities 0..3, 3 orders, 4 transactions per account, margin 1/2, rebate 1/4, fee 1/2 | no balance underflows; locked funds cover open orders; positions are the net of what was taken; the trees have totals and positions; exchange and guest agree |
| `sequencer` | 3 requests, timer and one trigger, batch size 2, 4 transactions (two nonces of one account, one liquidation, one oracle update), 1 restart, 1 disconnect | conservation, at-most-once execution, roots in step, a batch refused only if overtaken, refinement of `BatchChain` |
| `server` | 3 clients with two or three kinds of requests each, as often as they like, one transaction per sender, timer, batch size 2, 1 market whose price is set once; fairness | every request returns, the mempool drains, an update beside which nothing else sets prices leaves no older one |
| `verifier_beside` | 2 batches, 2 crashes, cache of 1, 1 restart of the verifier; with an index and no I/O errors, with an index and any, without an index and any; both forms of proof | what the index counts can be replayed; proofs and cache fit; only a proven prefix of the log is verified; what an old index counts stays whole; where there was an index, acknowledged batches stay, and without errors the files refine `BatchChain` |
| `merkle` | depth 2, four keys, two of them on one path, two values, a proof of any earlier tree | the root is that of the full tree of one leaf for each path and of no other tree; a proof that verifies says what leaf its key has now |
| `oracle` | mock, simulated and two feeds, 3 prices, clock 0 and 1, history of 2, 2 ticks | an honest majority of the fresh sources bounds the price; the history is the latest and within the band |
| `sequencer_dropped`, `sequencer_post_root`, `merkle_proofs`, `guest_witnesses`, `da_two_openers` | smaller instances of the same models | *violations*, see below |

Why the bounds are enough. *Book*: three orders on two prices give a maker partly filled
by one taker and finished by another, a taker that sweeps two levels and rests, and a
cancel out of the middle of a queue. *Exchange*: three orders and odd quantities at a
margin of one half make an order that is filled in parts, each rounded down, and an
account whose position opens, grows, shrinks, closes and flips; a price that moves after
that makes it liquidatable or not. *Sequencer*: a race needs two batchers and a
transaction executed before and pushed after the first one's drain; three requests and
batch size two reach it with handlers, timer and trigger in every role, and one disconnect
beside two requests that go on. *Server*: a circle of waiting tasks needs a holder of each
of two locks and a writer queued between two readers; three clients and the timer fill
every one of these places, with `/health` and a batch, which take the mempool and the
state in opposite orders, among them. *Log and verifier*: a second crash meets the files a
first one has torn, and a second batch is the one whose id is given out again after a
failed append; a cache of one evicts; the verifier opens before, between and after two
batches, and once more. *Tree*: depth two has empty siblings at both heights, and paths
that read the same from either end and paths that do not; two keys on one path overwrite
each other in either order, beside one on the sibling's path and one on the other side.
*Oracle*: up to four fresh quotes are an even and an odd number, with one liar among three
and four; ages are zero, too much, and negative; the third price of the walk pushes the
first out of the history.

`MaxOrders` bounds the ids given out, `MaxNonce` the transactions of an account,
`MaxBatches`, `MaxCrashes`, `MaxRestarts`, `MaxDisconnects`, `MaxVRestarts`, `MaxPrices`,
`MaxTicks` and `MaxTime` what they say; in `Sequencer` a request carries one transaction,
so `Handlers` bounds the work. All runs but `book` and the two about the tree switch
deadlock checking off, since the bounded work may end: all requests answered and the
mempool empty, all nonces used, all batches written. That a circle of locks would stop
some tasks while others go on is what `EveryRequestReturns` is for.

### Fairness

`OrderBook`: a running match goes on (`WF_vars(Match)`), it is one function call.
`Server`: every task that may enter its section does, as the runtime polls whom it
has woken, and the timer ticks; it is weak fairness, because a task at the head of
a first-come-first-served queue stays able to enter. `start_batch_timer` spawns
that timer, but no program in the repository calls it, so `MempoolDrains` is about
a deployment that does. Nobody is assumed to send a request, to call
`trigger_batch` or to feed the oracle.

### What the violation runs show

- `sequencer_dropped`: two batchers read the same pre-root, the later append is
  refused, and the transactions it drained are executed but in no batch
  (`da/src/lib.rs:7`, "Complete audit trail of all transactions").
- `sequencer_post_root`: the post root is read after the drain, so it may contain
  transactions of a later batch; replaying the log does not meet the roots
  (`ARCHITECTURE.md:799`).
- `merkle_proofs`: `prove` puts at an empty sibling the zero hash of the height above
  its own (`tree.rs:277`), and siblings go from the leaf up while the bits of the path
  go from the root down. The proof of the only leaf of a tree does not verify against
  that tree's root, which `tree.rs:430` asserts it does; the test (`tree.rs:419`) is
  ignored, with a note that the verification is to be fixed.
- `guest_witnesses`: the guest verifies an account's proof against the root of all
  six trees, while `prove_account` draws it in the account tree; a deposit with its
  true witness is refused, where `main.rs:43-44` says that proper witnesses enable
  full verification. No test runs the guest with a witness: the sequencer always
  passes empty ones.
- `da_two_openers`: sequencer and verifier both find no `index.json`; the verifier
  creates its empty one over the sequencer's, which has counted a batch by then; a
  restarted sequencer does not know the batch it had acknowledged
  (`da/src/lib.rs:3`, "append-only log", and line 7).

### Other behaviour the models show

Met while modelling, and part of the models although no run is about it:

- `match_order` fills resting orders in place, so `total_quantity` and
  `quantity_at_price` may overstate what rests. `LevelTotalCovers` says they never
  understate it.
- Transactions can enter the mempool in another order than they were executed in.
- Nonces do not survive a restart and the log does, so `ExecutedOnce` is about one
  process, not about the log.
- A post-only order that is refused leaves its margin locked and the account's
  leaf stale (`TreeHasTotals` therefore speaks of totals).
- A fill gives the taker a position and the maker none, though the comment at
  `state/src/lib.rs:384` speaks of positions for both; longs and shorts need not
  balance (`PositionIsNetTaken` is about what an account took).
- A taker whose free balance is below the fee does not pay it.
- Positions are opened with margin zero, so one that has lost nothing can be
  liquidated at the price it was opened at (`README.md:441` speaks of positions
  that are underwater).
- `process_liquidate` computes margin and bonus after closing, when both are zero.
- Of two accounts whose keys share a path the root has one leaf, and which of them may
  change when the `HashMap` of leaves grows. Neither the insert nor `prove` notices;
  `RootDeterminesSurvivors` says what the root does commit to. With 32 bits, some tens
  of thousands of accounts make such a pair likely.
- No order is ever inserted into the hypertree's order book tree
  (`insert_order` has no caller), so the state root says nothing of the book.
- A crash between the truncation of `index.json` and its writing leaves a log that
  no longer opens, though every batch is there.
- With `FlushMayFail`, an acknowledged batch can be lost. All runs and theorems are
  about flushes that succeed.
- A verifier keeps the index it opened with: it never sees later batches, and
  stays without a log if the index was torn at that moment.
- In the program no stored proof is ever verified. The sequencer stores a receipt's
  seal (`sequencer/src/lib.rs:423`), the verifier reads the whole `ProofReceipt`
  (`verifier/src/lib.rs:189`) and answers every request for a proven batch with an
  error, where `README.md:177` says that anyone can now verify the batch. `Answer` has
  this as `"undecodable"`. `VerifiedAreCommitted` is not about whether a batch is
  verified but about which may be: it meets both forms, and with the seals alone it
  would hold because nothing is ever verified.
- The sequencer's batches come with default witnesses, for which the guest skips
  every check. So it does for liquidations, whose witness has no account.
- The guest divides a notional by 10^8 where the exchange divides by 10^18, so it
  demands far more margin; a market bid, whose price is zero there, never passes its
  price check, and `ExecutedPasses` leaves market orders out.
- The guest's withdrawal looks at neither account's id nor at the nonce after it,
  and none of its checks compares the account with the leaf that the proof is for.
- Two updates of the oracle's prices at the same time, or one beside an
  `UpdateOracle` that a client has sent to `POST /tx`, can put an older price over a
  newer one; `process_oracle_update` compares no timestamps. Such a transaction is
  always valid (`lib.rs:274-276`) and sets any price its sender chooses.
- `order.rs:31-35` describes stop-loss and take-profit orders that a price triggers.
  Nothing in the code triggers any: `match_order` matches them at once, at their limit
  price, and drops what is left.
- `refresh_timestamps` of the mock oracle makes old prices new, a timestamp ahead of
  the clock counts as fresh, and of an even number of prices the upper one is taken.

## Proofs

Every safety invariant and every action property of the runs that pass is also a
theorem, for every value of the constants that satisfies the assumptions of its module
(the log's and the verifier's under one more condition, see below), and so are the
three refinements. `PROJECT.json` lists the theorems beside the properties they state.

Sums and recursion. Three properties count or add up data (`LevelTotalCovers`,
`LockedCoversOrders`, `TxsConserved`), and the tree is a recursive function of the
height. The induction theorems of the library cannot be used for that, since they are
about an operator that none of the provers can instantiate; but where one formula is
at stake, a counterexample of least size does as well. `Sums_proofs` has that twice,
for a least number (`LeastNat`) and a smallest finite set (`SmallestSubset`), and from
it that a sum over a finite set can be taken apart at one element, that the order of
the summands does not matter, and that a sum grows with its summands.

### OrderBook_proofs

From the assumptions that prices are naturals below a maximum and quantities naturals.

`TypeOK`, `LevelsWellFormed`, `NoCrossedBook`. The inductive invariant `BookInv` joins
them with `IncomingIsNewest`. `NoCrossedBook` alone is not inductive: that nothing
crosses when the loop stops follows from the *best* price not crossing, which needs
that a non-empty map of levels has a best price (`BestExists`), and the loop's access
to the front order needs that no level is empty.

`LevelTotalCovers`. What rests in a level is a sum over the positions of its queue. A
fill takes from the order and leaves the total; a pop or a cancel takes the same from
both. So the total never falls below the sum, and the subtraction in `remove_order`
never underflows.

`IndexMatchesBook`, `PriceTimePriority`. `IndexInv` adds to `BookInv` that every queue
stands in the order of ids with each order where the index says (`QueuesIndexed`), and
that the index leads nowhere else (`IndexFound`). Three lemmas are shared by all steps:
an order leaves its level (`OrderLeaves`), the orders of a level stay (`OrdersStay`), an
order is added (`OrderRests`), for which a new id must be above all that rest. A fill is
with the front of the best level, which `IsBest` and the order of the queue make the
first in priority.

`ImplementsPriorityBook`. Every step of the engine is a step of `PriorityBook` on the set
of resting orders, or changes nothing of it. A fill replaces one order of the set
(`RestingReplaced`), which needs ids to be distinct; the set has an order to trade
with exactly when the loop goes on (`MatchableCrosses`, `NothingTradable`).

### Exchange_proofs

For any accounts, requests and rates, from the assumptions of the book, positive units
and natural rates.

`ExchangeRunsOrderBook`: whatever the exchange does, its book takes a step of
`OrderBook` or none. So the theorems about the book hold in the exchange too, and its
invariants are available to the proofs here.

`TypeOK`, `PositionIsNetTaken`, `PositionsWellFormed`, `TreeHasTotals`. `ExchangeInv` has
three parts. `MatchInv` is `BookInv` with what ties the order being placed to the book:
each fill is of a positive quantity, its taker is the account that is placing and its
maker has a balance, because every order in the book has an owner that has one
(`OwnedIn`). `LedgerInv` says which leaves may lag behind: none until the first fill
is settled, after that only those that the end of the transaction writes.
`PositionsInv` is about each position alone; an increase keeps the entry price within
the range of the prices because a weighted average, rounded down, lies between its
two (`WeightedAverage`). It also has that no position carries any margin, without
which `decrease` would have to be shown not to underflow.

`LockedCoversOrders`. It is a statement about every account at once and about two sums:
the margins of the account's live orders, and those of the fills in which it was the
maker and which `process_fill` has still to settle. `FundsInv` adds to `ExchangeInv` the
index of the book, by which one id is one order, and that finitely many orders rest.
A fill moves margin from the first sum to the second: what an order owes falls by at
least the margin of the fill, because two parts, each rounded down, come to no more than
the whole (`MarginOfParts`, `FilledOwesLess`). `process_fill` then releases the maker's
part, which is there, and a cancel that of what is left of the order.

`AcceptedIsExecutable` and `ExecutedPasses`. The first needs the relation of the two
margins: the guest's notional, divided by 10^8 and then by 10, is at least the
exchange's, taken in basis points and divided by 10^18 (`GuestAssumption` has this of
the rates; that it survives the roundings is proved). The second needs the invariant
that the fills of the running match are in order, at prices the taker agreed to and
oldest first at each price, which is proved in `OrderBook_proofs`; and, for
liquidations, that a position without a size counts as wholly margined and is therefore
not liquidated, for which the maintenance rate must not be above the whole.

### Sequencer_proofs

For any sets of accounts and transactions, finitely many tasks and any bounds.

Types, `ChainContinuous`, `PostRootCurrent`, `ExecutedOnce`, `RootsAdvance`,
`RefusedIfOvertaken`, and that the log implements `BatchChain`. The invariant `SeqInv`
adds what the local variables of a batch hold at each await (`LocalsOK`: a drained batch
is not empty; a pre-root read from an empty log is the zero root; the id of an appended
batch is in the log) and that a nonce covers all checked transactions executed before
(`NoncesCover`). `RootsAdvance` follows with `AdvanceInv` from `PostRootCurrent`: at the
append, the post root is the whole history. `RefusedIfOvertaken` is inductive relative
to `SeqInv`: a pre-root is the end of the log when it is read, and the append that moves
the end away from it is of a batch that starts there.

`TxsConserved` is inductive relative to `SeqInv`. It is an equation between the number
of times a transaction was executed and the sum of those in which it is in a handler,
the mempool, a batch in hand, the log, or dropped, with its batch or with its request.
Every step moves occurrences from one
summand to the next; that the count of a concatenation is the sum of the counts, and
that changing one task changes the sum over tasks by what changes there, are the lemmas.

### Server_proofs

For any clients, menus of requests, markets and batch sizes: `UpdateAloneIsFresh`, about
an update beside which nothing else sets prices, neither another update nor a posted
`UpdateOracle`. The invariant `FreshInv` says what `since` stands for while it is set: no
other task has a section ahead that sets a price; the oracle's prices have only grown
since the request; and the update has either not read the oracle yet, or has read prices
that are new enough and set the first `j` of some order of the markets (`FreshSoFar`).
That every other handler, and whatever `process_batch` puts before the rest of one or
takes from it, brings in no such section is `QuietSteps`; that after the last section
every market has had its turn is that an injective list as long as the finite set of
markets misses none (`NumberOfMarkets`).

### Verifier_proofs

`AppendLog`, for any number of batches, crashes and I/O errors: types, `Replayable`,
`AckedDurable`, `ProvenHaveProofs`, `CacheHonest`, and that the files implement
`BatchChain`, from the condition `FlushMayFail = FALSE`. The refinement is about `env =
{}`: with I/O errors, or without an index, `ImplementsBatchChain` maps the log to the empty
chain and says nothing. None of them is inductive alone, because the truth is spread over file,
memory and the call in progress. `LogInv` says which of the three is ahead: the index
file, when whole, is the last one saved (`FileIsSaved`); the files hold what both the
saved index and the one in memory count (`IndexesHold`), under their names
(`FilesNamed`); a call in progress works on the next id, or on a batch that is counted
and not proven (`CallOK`); what was acknowledged is in the saved index (`AckedOK`); the
cache agrees with the files of counted batches (`CacheOK`). The refinement adds
`AheadByOne`: without errors the index in memory is the saved one outside a call, and one
batch or one proof ahead within.

`Verifier`, for any number of batches, crashes, restarts and I/O errors, from the same
condition and for a directory that has an index at the start (`HadIndex`):
`VerifiedAreCommitted`, `CountedIsWhole` and `AckedDurableBeside`; and
`ImplementsBatchChain` again. The invariant `VerInv` joins the sequencer's `LogInv` with what
ties the two processes together: the verifier's index is an earlier saved one
(`VIndexOK`), and its cache agrees with the files that this index counts
(`VCacheOK`). That both survive the sequencer's steps is `SavedGrows`: what the
saved index counts is never taken back, and its files are not written again. In a fresh
directory this is false (`da_two_openers`); the run `verifier_beside` checks there that
`VerifiedAreCommitted` and `CountedIsWhole` hold all the same.

### SparseMerkle_proofs

For any depth, keys, values and paths, shared or not, from one assumption about hashes
besides their being terms, that no node of a tree hashes to the zero hash
(`HashAssumption`).

`RootDeterminesSurvivors`. By `LeavesInv` the tree is one of the survivors of the leaves,
in which no two keys share a path, and the root is computed from it. The rest has two
halves. The root that `recompute_root` builds level by level, over the subtrees that have
a leaf, is the root of the full tree: the level at each height holds the full tree's
nodes, exactly where a leaf is below, and an empty subtree hashes to the zero hash of its
height. And full trees with one root have the same leaves: the pairs of two equal nodes
are equal, so equality goes down from the root to every leaf.

`ProofsNeverLie`. A proof was drawn from some tree, perhaps another one (`ProofInv`). If
`verify` ends in today's root, what it computes at each height is the node of today's
tree there (`VerifiedGoesDown`), on the key's path read from its other end. A leaf's hash
names its key, so a proof with a value starts at the leaf of its own key and has the
tree's value. A proof of nothing starts at an empty leaf, and then each sibling stands where
its own leaves are, so the path reads the same from either end (`EmptyProofTurnsRound`).
An empty sibling has the zero hash of a height above its own, which no node has
(`NodeNotHigherZero`).

Keys that share a path do not spoil this: while any of them has a leaf, one of them has
it in the tree, so that the path does not end at an empty leaf and no proof of nothing
verifies for any of them. The theorem is about proofs that `prove` drew, not about
crafted ones.

### Oracle_proofs

For any sources, prices, band and limits. `HistoryIsRecent`: by `HistInv` the history is
the last `MaxHistory` prices of the walk; a push keeps that (`PushedFacts`), and
`get_history` reads it backwards. `MedianIsHonest` is about the operator and needs
only the types: a finite set can be listed in ascending order; the sources up to the middle
are at least half of the fresh ones, and so are those from the middle on; each of these
two sets therefore meets any majority (`MiddleIsBetween`).

### Only model-checked

- Liveness, which the prover does not reach: `MatchTerminates`, `EveryRequestReturns`,
  `MempoolDrains`.
- `VerifiedAreCommitted`, `CountedIsWhole` and the log's invariants when both processes
  find a directory without an index, so that the saved index may shrink: `verifier_beside`
  has this, the theorems are about the log on its own, and about the two in a directory
  that has an index.
- The violations, each of which is one behaviour.

### Assumptions of the theorems

Besides types and distinctness of constants: the exchange's units are positive and its
rates natural (`UnitsAssumption`, `RatesAssumption`); the guest's rates are no lower
than the market's and the maintenance margin not above the whole (`GuestAssumption`,
with 1 %, 2 % and 10 % in the code); requests and batchers are finitely many
(`TasksAssumption`); markets are finitely many (`MarketsAssumption`); a menu has only
the requests that there are (`MenuAssumption`); no hash of a pair is the zero hash
(`HashAssumption`); of paths only that each has `Depth` bits (`PathAssumption`), and of
`Environments` what may be in one (`EnvsAssumption`). TLC evaluates all of them in the runs.

## Plan

The matching engine, the exchange's accounts, the sequencer and its locks, the log, the
verifier, the tree, the guest and the oracle are modelled, and the safety properties
proved. What is left:

1. The log's and the verifier's properties proved for a directory without an index, where
   the saved index may shrink and the argument must be about what was proven.
2. `Disconnect` in `Server`.
3. That the locks of `Server` exclude each other and every task stands in one queue,
   which is the safety half of the argument for `EveryRequestReturns`.

Not modelled, and why: hash functions and signatures (assumed perfect), the zkVM
(external), HTTP parsing and formatting, statistics (counted and never read), more
than one market or asset in `Exchange` (no operation joins two), the journal's batch
hash (it is compared with nothing), `flip` and the other functions of `Position` and
`Market` that nobody calls.

------------------------------- MODULE Server -------------------------------
(***************************************************************************)
(* The locks of the sequencer process: the HTTP handlers of                *)
(* sequencer/src/api.rs, the batch timer and update_oracle_prices, all     *)
(* over the six tokio RwLocks of struct Sequencer.                         *)
(*                                                                         *)
(* A task is the list of critical sections it has still to enter.  It      *)
(* awaits the lock of the first one, does what the section does, and       *)
(* queues for the next lock in the same step: between two awaits nobody    *)
(* can tell when a guard was dropped.  Guards kept over an await are in    *)
(* `held`.                                                                 *)
(*                                                                         *)
(* Module Sequencer has what these tasks do to the state and the log; here *)
(* a transaction is the client that sent it, a batch may fail to be        *)
(* appended, and prices are numbered in the order they were set.           *)
(***************************************************************************)
EXTENDS Integers, FiniteSets, SequencesExt

CONSTANTS
    Clients,
    Timer,         \* the task of start_batch_timer
    Menu,          \* client -> the requests it makes
    MaxBatchSize,  \* config.max_batch_size
    Markets,
    MaxPrices      \* bound on how often the price of a market is set

Tasks == Clients \cup {Timer}

Locks == {"state", "pending_txs", "account_keys", "da", "stats", "oracle"}

\* What a critical section does, other than to set the price of a market.
Deeds == {"look", "check", "reprice", "push", "size", "tick", "drain", "append", "prove",
          "count", "quote"}

\* POST /tx has two kinds of transactions: UpdateOracle, and all others.
TxRequests == {"/tx", "/tx UpdateOracle"}
Requests   == {"/health", "/status", "/accounts", "/account", "/positions", "/orderbook",
               "/price", "/batch", "update"} \cup TxRequests

ASSUME MenuAssumption    == Menu \in [Clients -> SUBSET Requests]
ASSUME TimerAssumption   == Timer \notin Clients
ASSUME MarketsAssumption == IsFiniteSet(Markets) /\ Markets \cap Deeds = {}
ASSUME BoundsAssumption  == MaxBatchSize \in Nat /\ MaxPrices \in Nat

VARIABLES
    todo,         \* task -> the critical sections it has still to enter
    held,         \* task -> the guards it holds, <<lock, mode>>
    waiting,      \* lock -> the tasks in its queue
    submitted,    \* the clients that have sent their transaction
    pending_txs,
    in_hand,      \* task -> the transactions it has drained
    oracle,       \* market -> price in the MockOracle
    quotes,       \* task -> the prices update_oracle_prices has read
    state_price,  \* market -> price in the exchange's state
    since         \* history: task -> the oracle's prices when its update was
                  \* requested, if nothing else that sets prices has run beside it

txVars    == <<submitted, pending_txs, in_hand>>
priceVars == <<oracle, quotes, state_price, since>>
lockVars  == <<todo, held, waiting>>
vars      == <<lockVars, txVars, priceVars>>

-----------------------------------------------------------------------------
(* The critical sections of the handlers.  `keeps` are the locks whose      *)
(* guards outlive the section.                                              *)

Section(lock, mode, does, keeps) ==
    [lock |-> lock, mode |-> mode, does |-> does, keeps |-> keeps]

Read(lock)  == Section(lock, "read", "look", {})
Write(lock) == Section(lock, "write", "look", {})

\* health reads the length of the mempool under its guard of the state.
Health == <<Section("state", "read", "look", {"state"}), Read("pending_txs")>>

Status == <<Read("stats"), Read("da"), Read("oracle")>>

RegisterAccount == <<Write("state"), Write("account_keys")>>

GetAccount   == <<Read("state")>>
GetPositions == <<Read("state")>>
GetOrderbook == <<Read("state")>>
GetPrice     == <<Read("oracle")>>

\* process_batch drops the mempool's guard and then keeps the state's, over
\* the append and the proof, until it returns.
ProcessBatchKeepingPending == <<   \* mutant
    Section("pending_txs", "write", "drain", {"pending_txs"}),
    Section("state", "read", "look", {"state"}),
    Section("da", "read", "look", {"state"}),
    Section("da", "write", "append", {"state"}),
    Section("da", "write", "prove", {"state"}),
    Section("stats", "write", "count", {})>>
ProcessBatch == <<
    Section("pending_txs", "write", "drain", {}),
    Section("state", "read", "look", {"state"}),
    Section("da", "read", "look", {"state"}),
    Section("da", "write", "append", {"state"}),
    Section("da", "write", "prove", {"state"}),
    Section("stats", "write", "count", {})>>

\* verify_signature, validate_transaction and execute_transaction may refuse.
SubmitTransaction == <<
    Section("account_keys", "read", "check", {}),
    Section("state", "read", "check", {}),
    Section("state", "write", "check", {}),
    Section("pending_txs", "write", "push", {}),
    Section("pending_txs", "read", "size", {}),
    Write("stats")>>

\* Account 0 signs it; when signatures are not checked, nothing refuses it.  The
\* price is the client's.
SubmitUpdateOracle == <<
    Section("account_keys", "read", "check", {}),
    Section("state", "read", "look", {}),
    Section("state", "write", "reprice", {}),
    Section("pending_txs", "write", "push", {}),
    Section("pending_txs", "read", "size", {}),
    Write("stats")>>

TriggerBatch == ProcessBatch

BatchTimer == <<Section("pending_txs", "read", "tick", {})>>

\* One transaction per price, in the order of a HashMap.
UpdateOraclePrices(order) ==
    <<Section("oracle", "read", "quote", {})>>
    \o [i \in DOMAIN order |-> Section("state", "write", order[i], {})]

MarketOrders == {s \in [1 .. Cardinality(Markets) -> Markets] : IsInjective(s)}

Jobs(request) ==
    CASE request = "/health"    -> {Health}
      [] request = "/status"    -> {Status}
      [] request = "/accounts"  -> {RegisterAccount}
      [] request = "/account"   -> {GetAccount}
      [] request = "/positions" -> {GetPositions}
      [] request = "/orderbook" -> {GetOrderbook}
      [] request = "/price"     -> {GetPrice}
      [] request = "/tx"        -> {SubmitTransaction}
      [] request = "/tx UpdateOracle" -> {SubmitUpdateOracle}
      [] request = "/batch"     -> {TriggerBatch}
      [] request = "update"     -> {UpdateOraclePrices(order) : order \in MarketOrders}

-----------------------------------------------------------------------------
(* tokio::sync::RwLock: first come, first served.  A task may enter when    *)
(* neither a holder nor anyone ahead of it in the queue is in its way.      *)

ModeOf(t) == Head(todo[t]).mode

MayEnter(t) ==
    LET lock == Head(todo[t]).lock
        q    == waiting[lock]
        i    == CHOOSE j \in DOMAIN q : q[j] = t
    IN  /\ \A j \in 1 .. i - 1 : "write" \notin {ModeOf(q[j]), ModeOf(t)}
        /\ \A u \in Tasks : \A mode \in {"read", "write"} :
              <<lock, mode>> \in held[u] => "write" \notin {mode, ModeOf(t)}

At(t, does) == todo[t] # <<>> /\ Head(todo[t]).does = does /\ MayEnter(t)

\* A task stands in one queue: that of the first section it has to enter.
Join(t, q, todos) ==
    IF todos = <<>> THEN q ELSE [q EXCEPT ![Head(todos).lock] = Append(@, t)]

Quit(t, q) == [q EXCEPT ![Head(todo[t]).lock] = SelectSeq(@, LAMBDA u : u # t)]

\* The section is over: t goes on with `rest`, or returns and drops all guards.
Leave(t, rest) ==
    LET s == Head(todo[t])
    IN  /\ todo' = [todo EXCEPT ![t] = rest]
        /\ held' = [held EXCEPT ![t] =
                       IF rest = <<>> THEN {}
                       ELSE {g \in @ \cup {<<s.lock, s.mode>>} : g[1] \in s.keeps}]
        /\ waiting' = Join(t, Quit(t, waiting), rest)

Rest(t) == Tail(todo[t])

-----------------------------------------------------------------------------
(* Requests come in *)

Start(t, job) ==
    /\ todo[t] = <<>>
    /\ todo' = [todo EXCEPT ![t] = job]
    /\ waiting' = Join(t, waiting, job)
    /\ UNCHANGED held

\* The tasks that have still to set a price of the state: updates, and UpdateOracle
\* transactions that are not executed yet.
Pricing == {t \in Tasks :
               \E i \in DOMAIN todo[t] : todo[t][i].does \in Markets \cup {"reprice"}}

\* A client sends one transaction, and anything else as often as it likes.
Request(c, request) ==
    /\ request \in TxRequests => c \notin submitted
    /\ \E job \in Jobs(request) : Start(c, job)
    /\ submitted' = IF request \in TxRequests THEN submitted \cup {c} ELSE submitted
    /\ since' = IF request \notin {"update", "/tx UpdateOracle"} THEN since
                ELSE IF Pricing # {} THEN [t \in Tasks |-> <<>>]
                ELSE IF request = "update" THEN [since EXCEPT ![c] = oracle] ELSE since
    /\ UNCHANGED <<pending_txs, in_hand, oracle, quotes, state_price>>

Tick ==
    /\ Start(Timer, BatchTimer)
    /\ UNCHANGED <<txVars, priceVars>>

\* MockOracle::set_price, by whoever feeds the oracle.
SetPrice(m) ==
    /\ oracle[m] < MaxPrices
    /\ waiting["oracle"] = <<>>
    /\ oracle' = [oracle EXCEPT ![m] = @ + 1]
    /\ UNCHANGED <<lockVars, txVars, quotes, state_price, since>>

-----------------------------------------------------------------------------
(* Critical sections *)

Look(t) ==
    /\ \E does \in {"look", "count"} : At(t, does)
    /\ Leave(t, Rest(t))
    /\ UNCHANGED <<txVars, priceVars>>

\* The transaction passes, or the handler returns its error.
Check(t) ==
    /\ At(t, "check")
    /\ \E rest \in {Rest(t), <<>>} : Leave(t, rest)
    /\ UNCHANGED <<txVars, priceVars>>

\* process_oracle_update of an UpdateOracle transaction: any market, any price.
Reprice(t) ==
    /\ At(t, "reprice")
    /\ \E m \in Markets, price \in 0 .. MaxPrices :
          state_price' = [state_price EXCEPT ![m] = price]
    /\ Leave(t, Rest(t))
    /\ UNCHANGED <<txVars, oracle, quotes, since>>

Push(t) ==
    /\ At(t, "push")
    /\ pending_txs' = pending_txs \cup {t}
    /\ Leave(t, Rest(t))
    /\ UNCHANGED <<submitted, in_hand, priceVars>>

\* maybe_trigger_batch
Size(t) ==
    /\ At(t, "size")
    /\ Leave(t, IF Cardinality(pending_txs) >= MaxBatchSize
                THEN ProcessBatch \o Rest(t) ELSE Rest(t))
    /\ UNCHANGED <<txVars, priceVars>>

DueWhenFull == Cardinality(pending_txs) >= MaxBatchSize  \* mutant
Due == pending_txs # {}

\* The timer's look at the mempool.
CheckDue ==
    /\ At(Timer, "tick")
    /\ Leave(Timer, IF Due THEN ProcessBatch ELSE <<>>)
    /\ UNCHANGED <<txVars, priceVars>>

\* What is left to do when process_batch returns from its first section.
AfterBatch(rest) == SubSeq(rest, Len(ProcessBatch), Len(rest))

Drain(t) ==
    /\ At(t, "drain")
    /\ Leave(t, IF pending_txs = {} THEN AfterBatch(Rest(t)) ELSE Rest(t))
    /\ in_hand' = [in_hand EXCEPT ![t] = pending_txs]
    /\ pending_txs' = {}
    /\ UNCHANGED <<submitted, priceVars>>

\* append_batch stores the batch, or its error ends the whole request and the
\* drained transactions are lost.  When the prover then fails, the batch is done
\* without a proof to append.
AppendBatch(t) ==
    /\ At(t, "append")
    /\ in_hand' = [in_hand EXCEPT ![t] = {}]
    /\ \E rest \in {Rest(t), Tail(Rest(t)), <<>>} : Leave(t, rest)
    /\ UNCHANGED <<submitted, pending_txs, priceVars>>

\* append_proof stores the proof, or its error ends the request.
AppendProof(t) ==
    /\ At(t, "prove")
    /\ \E rest \in {Rest(t), <<>>} : Leave(t, rest)
    /\ UNCHANGED <<txVars, priceVars>>

QuotesStale(t) == [m \in Markets |-> IF oracle[m] > 0 THEN oracle[m] - 1 ELSE 0]  \* mutant
Quotes(t) == oracle

\* get_all_prices
Quote(t) ==
    /\ At(t, "quote")
    /\ quotes' = [quotes EXCEPT ![t] = Quotes(t)]
    /\ Leave(t, Rest(t))
    /\ UNCHANGED <<txVars, oracle, state_price, since>>

\* process_oracle_update, of one price; it compares no timestamps.
ApplyPrice(t, m) ==
    /\ At(t, m)
    /\ state_price' = [state_price EXCEPT ![m] = quotes[t][m]]
    /\ quotes' = IF Rest(t) = <<>> THEN [quotes EXCEPT ![t] = <<>>] ELSE quotes
    /\ since' = IF Rest(t) = <<>> THEN [since EXCEPT ![t] = <<>>] ELSE since
    /\ Leave(t, Rest(t))
    /\ UNCHANGED <<txVars, oracle>>

-----------------------------------------------------------------------------

Init ==
    /\ todo = [t \in Tasks |-> <<>>]
    /\ held = [t \in Tasks |-> {}]
    /\ waiting = [l \in Locks |-> <<>>]
    /\ submitted = {}
    /\ pending_txs = {}
    /\ in_hand = [t \in Tasks |-> {}]
    /\ oracle = [m \in Markets |-> 0]
    /\ quotes = [t \in Tasks |-> <<>>]
    /\ state_price = [m \in Markets |-> 0]
    /\ since = [t \in Tasks |-> <<>>]

Step(t) ==
    \/ Look(t) \/ Check(t) \/ Reprice(t) \/ Push(t) \/ Size(t)
    \/ Drain(t) \/ AppendBatch(t) \/ AppendProof(t)
    \/ Quote(t) \/ \E m \in Markets : ApplyPrice(t, m)

Next ==
    \/ \E c \in Clients : (\E request \in Menu[c] : Request(c, request)) \/ Step(c)
    \/ Tick \/ CheckDue \/ Step(Timer)
    \/ \E m \in Markets : SetPrice(m)

\* The runtime polls every task that has been woken, and the timer ticks.
\* Nobody has to send a request or to feed the oracle.
Spec ==
    /\ Init
    /\ [][Next]_vars
    /\ \A c \in Clients : WF_vars(Step(c))
    /\ WF_vars(Tick \/ CheckDue \/ Step(Timer))

-----------------------------------------------------------------------------
(* What holds *)

\* Every request returns: whatever guards the handlers keep while they queue
\* for other locks, and whoever waits between two readers, there is no circle
\* of tasks that wait for each other, and nobody is overtaken for ever.
EveryRequestReturns == \A c \in Clients : todo[c] # <<>> ~> todo[c] = <<>>

\* What is in the mempool is drained, also when the mempool never fills, and
\* what was drained does not stay in a batch that never ends: again and again
\* there is nothing left on the way to the log.
MempoolDrains == []<>(pending_txs = {} /\ \A t \in Tasks : in_hand[t] = {})

\* An update leaves every price at least as new as the oracle's when it was
\* requested, unless another task that sets prices has run beside it: another
\* update, or an UpdateOracle transaction that a client has posted.  Whatever else
\* runs, and however the oracle's own prices move meanwhile, is in nobody's way.
UpdateAloneIsFresh ==
    [][\A t \in Clients :
          since[t] # <<>> /\ since'[t] = <<>> /\ todo'[t] = <<>> =>
              \A m \in Markets : state_price'[m] >= since[t][m]]_vars
=============================================================================

----------------------------- MODULE Sequencer -----------------------------
(***************************************************************************)
(* The sequencer (sequencer/src/lib.rs): HTTP handlers that run            *)
(* `submit_transaction` and tasks that run `process_batch` - the batch     *)
(* timer, the trigger_batch endpoint, and any handler that fills a batch - *)
(* interleaved at their awaits, over the state, the mempool, the account   *)
(* keys and the data-availability log, each behind its own RwLock.         *)
(*                                                                         *)
(* The exchange state is abstracted to the sequence of changes that led to *)
(* it, and so is its Merkle root (the hash is taken to be injective): two  *)
(* roots are equal when the same changes were made in the same order.      *)
(* AppendLog (da/src/lib.rs) is atomic here and survives a restart; what a *)
(* crash does inside one of its calls is not part of this module.          *)
(* Left out: statistics, which nothing reads; update_oracle_prices, which  *)
(* touches neither root nor mempool; batch hashes and seals.               *)
(***************************************************************************)
EXTENDS Integers, Sequences, FiniteSets, SequencesExt

CONSTANTS
    Accounts,      \* account ids
    Txs,           \* the signed transactions clients hold
    Handlers,      \* requests to submit_transaction, one transaction each
    Timer,         \* the task of start_batch_timer
    Triggers,      \* the callers of the trigger_batch endpoint
    MaxBatchSize,  \* config.max_batch_size
    MaxRestarts,   \* bound on the restarts of the process
    MaxDisconnects,  \* bound on the requests whose client goes away
    ZeroRoot,      \* [0u8; 32]
    NoTx           \* a handler that holds no transaction

\* "Checked" stands for Deposit, Withdraw, PlaceOrder and CancelOrder, which
\* verify the nonce; Liquidate only increments it; UpdateOracle has none.
TxKinds == {"Checked", "Liquidate", "UpdateOracle"}

Registration(a) == [kind |-> "Register", signer |-> a, nonce |-> 0]

Changes == Txs \cup {Registration(a) : a \in Accounts}

Roots == Seq(Changes) \cup {ZeroRoot}

ASSUME TxsAssumption ==
    Txs \subseteq [kind : TxKinds, signer : Accounts, nonce : Nat]
ASSUME TasksAssumption    ==
    /\ Handlers \cap (Triggers \cup {Timer}) = {}
    /\ IsFiniteSet(Handlers \cup Triggers)
ASSUME BoundsAssumption   ==
    MaxBatchSize \in Nat /\ MaxRestarts \in Nat /\ MaxDisconnects \in Nat
ASSUME ZeroRootAssumption == ZeroRoot \notin Seq(Changes)
ASSUME NoTxAssumption     == NoTx \notin Txs

Tasks == Handlers \cup Triggers \cup {Timer}

\* The awaits a task can be at.  "idle" to "check" belong to
\* submit_transaction, "drain" to "store" to process_batch.
PCs == {"idle", "accepted", "executed", "check", "drain", "drained", "rooted",
        "based", "prove", "store", "done"}

\* Between these two points process_batch holds the read lock of the state.
\* HoldingNothing is a mutant of it.
HoldingNothing == {}
Holding == {"rooted", "based", "prove", "store"}

Batch == [txs : Seq(Txs), pre : Roots, post : Roots]

VARIABLES
    root,                \* the state: the changes made to it, in order
    nonces,              \* the nonce of every account, part of the state
    accounts,            \* the accounts that exist in the state
    account_keys,        \* the accounts whose public key is known
    pending,             \* pending_txs, the mempool
    log,                 \* the batches of the DA log, by batch id
    current_state_root,  \* the root in the DA index
    proven,              \* the ids in proven_batches
    pc,                  \* where every task is
    tx,                  \* the transaction every handler holds, or NoTx
    batch,               \* the local variables of process_batch, per task
    executed,            \* history: how often every transaction was executed
    dropped,             \* history: executed transactions that no task holds any
                         \* more and that are in no mempool and no batch
    restarts,            \* how often the process has been restarted
    disconnects          \* how many requests were dropped

vars == <<root, nonces, accounts, executed, account_keys, pending, log,
          current_state_root, proven, pc, tx, batch, dropped, restarts, disconnects>>

stateVars == <<root, nonces, accounts, executed>>
daVars    == <<log, current_state_root, proven>>

NoBatch == [txs |-> <<>>, pre |-> ZeroRoot, post |-> ZeroRoot, id |-> 0]

\* state.write() is granted only while no process_batch holds state.read().
StateWritable == \A t \in Tasks : pc[t] \notin Holding

Init ==
    /\ root = <<>>
    /\ nonces = [a \in Accounts |-> 0]
    /\ accounts = {}
    /\ executed = [t \in Txs |-> 0]
    /\ account_keys = {}
    /\ pending = <<>>
    /\ log = <<>>
    /\ current_state_root = ZeroRoot
    /\ proven = {}
    /\ pc = [t \in Tasks |-> "idle"]
    /\ tx = [h \in Handlers |-> NoTx]
    /\ batch = [t \in Tasks |-> NoBatch]
    /\ dropped = <<>>
    /\ restarts = 0
    /\ disconnects = 0

-----------------------------------------------------------------------------
(* register_account: two locks, one after the other *)

CreateAccount(a) ==
    /\ a \notin accounts
    /\ StateWritable
    /\ accounts' = accounts \cup {a}
    /\ root' = Append(root, Registration(a))
    /\ UNCHANGED <<nonces, executed, account_keys, pending, daVars, pc, tx, batch,
                   dropped, restarts, disconnects>>

StoreKey(a) ==
    /\ a \in accounts \ account_keys
    /\ account_keys' = account_keys \cup {a}
    /\ UNCHANGED <<stateVars, pending, daVars, pc, tx, batch, dropped, restarts,
                   disconnects>>

-----------------------------------------------------------------------------
(* submit_transaction *)

\* verify_nonce, for the transactions whose processing calls it.
NonceOkLoose(t) == t.kind = "Checked" => t.nonce > nonces[t.signer]  \* mutant
NonceOk(t) == t.kind = "Checked" => t.nonce = nonces[t.signer] + 1

\* verify_signature and validate_transaction: both look the account up.  Nothing
\* looks up that of an UpdateOracle, whose signer is account 0, where
\* verify_signatures is off; where it is on, account 0 has to be registered.
Accept(h, t) ==
    /\ pc[h] = "idle"
    /\ t.kind # "UpdateOracle" => t.signer \in account_keys \cap accounts
    /\ tx' = [tx EXCEPT ![h] = t]
    /\ pc' = [pc EXCEPT ![h] = "accepted"]
    /\ UNCHANGED <<stateVars, account_keys, pending, daVars, batch, dropped,
                   restarts, disconnects>>

\* execute_transaction succeeds, under the write lock of the state.  A price is
\* in no tree: process_oracle_update changes neither root nor nonces.
Execute(h) ==
    /\ pc[h] = "accepted"
    /\ StateWritable
    /\ NonceOk(tx[h])
    /\ IF tx[h].kind = "UpdateOracle"
       THEN UNCHANGED <<root, nonces>>
       ELSE /\ root' = Append(root, tx[h])
            /\ nonces' = [nonces EXCEPT ![tx[h].signer] = @ + 1]
    /\ executed' = [executed EXCEPT ![tx[h]] = @ + 1]
    /\ pc' = [pc EXCEPT ![h] = "executed"]
    /\ UNCHANGED <<accounts, account_keys, pending, daVars, tx, batch, dropped,
                   restarts, disconnects>>

\* It fails, for the nonce or for a balance, order or position.
RejectTx(h) ==
    /\ pc[h] = "accepted"
    /\ tx[h].kind # "UpdateOracle"
    /\ StateWritable
    /\ tx' = [tx EXCEPT ![h] = NoTx]
    /\ pc' = [pc EXCEPT ![h] = "done"]
    /\ UNCHANGED <<stateVars, account_keys, pending, daVars, batch, dropped,
                   restarts, disconnects>>

\* Only now, with the state's lock released, does it reach the mempool.
Push(h) ==
    /\ pc[h] = "executed"
    /\ pending' = Append(pending, tx[h])
    /\ tx' = [tx EXCEPT ![h] = NoTx]
    /\ pc' = [pc EXCEPT ![h] = "check"]
    /\ UNCHANGED <<stateVars, account_keys, daVars, batch, dropped, restarts,
                   disconnects>>

\* maybe_trigger_batch: read the length, release the lock, then decide.
CheckSize(h) ==
    /\ pc[h] = "check"
    /\ pc' = [pc EXCEPT ![h] = IF Len(pending) >= MaxBatchSize THEN "drain" ELSE "done"]
    /\ UNCHANGED <<stateVars, account_keys, pending, daVars, tx, batch, dropped,
                   restarts, disconnects>>

-----------------------------------------------------------------------------
(* process_batch *)

\* A handler at "drain", the timer or trigger_batch takes the whole mempool.
CanDrain(t) == pc[t] = IF t \in Handlers THEN "drain" ELSE "idle"

\* What becomes of a task when its process_batch returns.
AfterBatch(t) == IF t \in Handlers THEN "done" ELSE "idle"

HasPendingAlways == TRUE                           \* mutant
HasPending == pending # <<>>

\* The batch takes all of the mempool, more than max_batch_size too.
DrainedTxsCapped ==                                \* mutant
    SubSeq(pending, 1, IF Len(pending) < MaxBatchSize THEN Len(pending) ELSE MaxBatchSize)
DrainedTxs == pending

Drain(t) ==
    /\ CanDrain(t)
    /\ HasPending
    /\ batch' = [batch EXCEPT ![t] = [NoBatch EXCEPT !.txs = DrainedTxs]]
    /\ pending' = <<>>
    /\ pc' = [pc EXCEPT ![t] = "drained"]
    /\ UNCHANGED <<stateVars, account_keys, daVars, tx, dropped, restarts, disconnects>>

\* The mempool was drained by another task after CheckSize: Ok(None).
NothingToDrain(h) ==
    /\ pc[h] = "drain"
    /\ ~HasPending
    /\ pc' = [pc EXCEPT ![h] = "done"]
    /\ UNCHANGED <<stateVars, account_keys, pending, daVars, tx, batch, dropped,
                   restarts, disconnects>>

\* state.read() is taken, and kept until process_batch returns.
PostRoot == root

ReadPostRoot(t) ==
    /\ pc[t] = "drained"
    /\ batch' = [batch EXCEPT ![t].post = PostRoot]
    /\ pc' = [pc EXCEPT ![t] = "rooted"]
    /\ UNCHANGED <<stateVars, account_keys, pending, daVars, tx, dropped, restarts,
                   disconnects>>

\* The root the batch is to start from.
PreRootOfState == IF log = <<>> THEN ZeroRoot ELSE root    \* mutant
PreRoot == IF log = <<>> THEN ZeroRoot ELSE current_state_root

ReadPreRoot(t) ==
    /\ pc[t] = "rooted"
    /\ batch' = [batch EXCEPT ![t].pre = PreRoot]
    /\ pc' = [pc EXCEPT ![t] = "based"]
    /\ UNCHANGED <<stateVars, account_keys, pending, daVars, tx, dropped, restarts,
                   disconnects>>

\* The continuity check of append_batch.
ContinuesAlways(pre) == TRUE                       \* mutant
Continues(pre) == log # <<>> => pre = current_state_root

\* The batches are numbered from 1.
NextBatchIdFromZero == Len(log)                    \* mutant
NextBatchId == Len(log) + 1

AppendBatch(t) ==
    /\ pc[t] = "based"
    /\ Continues(batch[t].pre)
    /\ log' = Append(log, [txs |-> batch[t].txs, pre |-> batch[t].pre, post |-> batch[t].post])
    /\ current_state_root' = batch[t].post
    /\ batch' = [batch EXCEPT ![t].id = NextBatchId]
    /\ pc' = [pc EXCEPT ![t] = "prove"]
    /\ UNCHANGED <<stateVars, account_keys, pending, proven, tx, dropped, restarts,
                   disconnects>>

\* StateRootMismatch: process_batch returns Err and drops what it drained.
FailBatch(t) ==
    /\ pc[t] = "based"
    /\ ~Continues(batch[t].pre)
    /\ dropped' = dropped \o batch[t].txs
    /\ batch' = [batch EXCEPT ![t] = NoBatch]
    /\ pc' = [pc EXCEPT ![t] = AfterBatch(t)]
    /\ UNCHANGED <<stateVars, account_keys, pending, daVars, tx, restarts, disconnects>>

\* generate_batch_proof: the prover succeeds, or fails for good.
Prove(t) ==
    /\ pc[t] = "prove"
    /\ \/ /\ pc' = [pc EXCEPT ![t] = "store"]
          /\ UNCHANGED batch
       \/ /\ pc' = [pc EXCEPT ![t] = AfterBatch(t)]
          /\ batch' = [batch EXCEPT ![t] = NoBatch]
    /\ UNCHANGED <<stateVars, account_keys, pending, daVars, tx, dropped, restarts,
                   disconnects>>

StoreProof(t) ==
    /\ pc[t] = "store"
    /\ batch[t].id <= Len(log)
    /\ proven' = proven \cup {batch[t].id}
    /\ batch' = [batch EXCEPT ![t] = NoBatch]
    /\ pc' = [pc EXCEPT ![t] = AfterBatch(t)]
    /\ UNCHANGED <<stateVars, account_keys, pending, log, current_state_root, tx,
                   dropped, restarts, disconnects>>

-----------------------------------------------------------------------------
(* The client of a request goes away, and with the connection the server drops
   the handler's future at the await it has reached, with all it holds. *)

\* The tasks that hold drained transactions which are not in the log yet.
InHand(t) == pc[t] \in {"drained", "rooted", "based"}

Lost(t) ==
    IF t \in Handlers /\ pc[t] = "executed" THEN <<tx[t]>>
    ELSE IF InHand(t) THEN batch[t].txs ELSE <<>>

Disconnect(t) ==
    /\ disconnects < MaxDisconnects
    /\ disconnects' = disconnects + 1
    /\ t # Timer
    /\ pc[t] \notin {"idle", "prove", "done"}
    /\ dropped' = dropped \o Lost(t)
    /\ tx' = [h \in Handlers |-> IF h = t THEN NoTx ELSE tx[h]]
    /\ batch' = [batch EXCEPT ![t] = NoBatch]
    /\ pc' = [pc EXCEPT ![t] = AfterBatch(t)]
    /\ UNCHANGED <<stateVars, account_keys, pending, daVars, restarts>>

-----------------------------------------------------------------------------
(* The process stops and Sequencer::new starts it again: the log is loaded,
   everything else is new. *)
Restart ==
    /\ restarts < MaxRestarts
    /\ restarts' = restarts + 1
    /\ root' = <<>>
    /\ nonces' = [a \in Accounts |-> 0]
    /\ accounts' = {}
    /\ executed' = [t \in Txs |-> 0]
    /\ account_keys' = {}
    /\ pending' = <<>>
    /\ pc' = [t \in Tasks |-> IF pc[t] # "idle" /\ t \in Handlers THEN "done" ELSE "idle"]
    /\ batch' = [t \in Tasks |-> NoBatch]
    /\ tx' = [h \in Handlers |-> NoTx]
    /\ UNCHANGED <<daVars, dropped, disconnects>>

SubmitStep(h) == Execute(h) \/ RejectTx(h) \/ Push(h) \/ CheckSize(h)

BatchStep(t) ==
    \/ ReadPostRoot(t) \/ ReadPreRoot(t) \/ AppendBatch(t)
    \/ FailBatch(t) \/ Prove(t) \/ StoreProof(t)

Next ==
    \/ \E a \in Accounts : CreateAccount(a) \/ StoreKey(a)
    \/ \E h \in Handlers : (\E t \in Txs : Accept(h, t)) \/ SubmitStep(h) \/ NothingToDrain(h)
    \/ \E t \in Tasks : Drain(t) \/ BatchStep(t) \/ Disconnect(t)
    \/ Restart

Spec == Init /\ [][Next]_vars

-----------------------------------------------------------------------------
(* Properties *)

\* Every variable has the shape of the Rust value it stands for.
TypeOK ==
    /\ root \in Seq(Changes)
    /\ nonces \in [Accounts -> Nat]
    /\ executed \in [Txs -> Nat]
    /\ accounts \in SUBSET Accounts
    /\ account_keys \in SUBSET accounts
    /\ pending \in Seq(Txs)
    /\ log \in Seq(Batch)
    /\ current_state_root \in Roots
    /\ proven \in SUBSET (1 .. Len(log))
    /\ pc \in [Tasks -> PCs]
    /\ tx \in [Handlers -> Txs \cup {NoTx}]
    /\ \A h \in Handlers : pc[h] \in {"accepted", "executed"} <=> tx[h] \in Txs
    /\ batch \in [Tasks -> [txs : Seq(Txs), pre : Roots, post : Roots, id : Nat]]
    /\ dropped \in Seq(Txs)
    /\ restarts \in 0 .. MaxRestarts
    /\ disconnects \in 0 .. MaxDisconnects

Occurrences(s, t) == Cardinality({i \in DOMAIN s : s[i] = t})

\* Where transaction t is, and how often: with handlers that have executed it and
\* not pushed it, with batchers, in the batches of the log.
InHandlers(t) == Cardinality({h \in Handlers : pc[h] = "executed" /\ tx[h] = t})
InBatchers(t) ==
    SumFunction([b \in Tasks |-> IF InHand(b) THEN Occurrences(batch[b].txs, t) ELSE 0])
InLog(t)      == SumFunction([i \in DOMAIN log |-> Occurrences(log[i].txs, t)])

\* No executed transaction is duplicated or lost track of on its way from the
\* state through the mempool into a batch, however the tasks interleave: it is
\* in one place for every time it was executed, and the only ways out are a
\* failed append_batch, a dropped request and the end of the process.
TxsConserved ==
    restarts = 0 =>
        \A t \in Txs :
            executed[t] =
                InHandlers(t) + Occurrences(pending, t) + InBatchers(t) + InLog(t)
              + Occurrences(dropped, t)

\* A transaction with a checked nonce is executed at most once in the life of a
\* process, though several requests may carry it and all pass validation
\* before one of them executes it.
ExecutedOnce ==
    \A i, j \in DOMAIN root :
        root[i] = root[j] /\ root[i] \in Txs /\ root[i].kind = "Checked" => i = j

\* The log and its index chain: every batch starts at the root where the one
\* before it ended, the index is at the last one's, whichever batchers race and
\* whatever a restart forgets.
ChainContinuous ==
    /\ \A i \in DOMAIN log :
         log[i].pre = IF i = 1 THEN ZeroRoot ELSE log[i - 1].post
    /\ current_state_root = IF log = <<>> THEN ZeroRoot ELSE log[Len(log)].post

\* The post root of a task that has read it is still the root of the state: no
\* transaction slips in between reading the root and appending the batch.
PostRootCurrent ==
    \A t \in Tasks : pc[t] \in {"rooted", "based"} => batch[t].post = root

\* A batch is refused only because another one overtook it: when the root that
\* a task read for it is not the end of the log any more, a batch that starts
\* from that very root is in the log.
RefusedIfOvertaken ==
    \A t \in Tasks :
        pc[t] = "based" /\ ~Continues(batch[t].pre) =>
            \E i \in DOMAIN log : log[i].pre = batch[t].pre

\* In the life of one process the log only moves forward through the history
\* of the state, also when batchers overtake each other.
RootsAdvance ==
    restarts = 0 =>
        /\ \A i \in DOMAIN log : IsPrefix(log[i].post, root)
        /\ \A i, j \in DOMAIN log : i < j => IsPrefix(log[i].post, log[j].post)

\* The log and its proofs are an append-only chain of non-empty batches.
Chain == INSTANCE BatchChain
ImplementsBatchChain == Chain!ChainSpec

\* da/src/lib.rs promises a "Complete audit trail of all transactions": no
\* executed transaction is left out of the log for good.
NothingDropped == dropped = <<>>

\* The root stored with a batch is documented as the "State root after batch
\* execution": every transaction in it is in this batch or an earlier one.
PostRootIsOfBatches ==
    \A i \in DOMAIN log :
        (ToSet(log[i].post) \cap Txs) \subseteq UNION {ToSet(log[j].txs) : j \in 1 .. i}
=============================================================================

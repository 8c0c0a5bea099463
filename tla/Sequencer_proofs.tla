-------------------------- MODULE Sequencer_proofs --------------------------
(***************************************************************************)
(* Proofs about Sequencer, for any number of requests, batchers, accounts, *)
(* transactions, restarts and disconnects and any batch size.              *)
(***************************************************************************)
EXTENDS Sequencer, Sums_proofs, TLAPS, SequenceTheorems

-----------------------------------------------------------------------------
(* The inductive invariant *)

\* What process_batch holds in its local variables at each of its awaits.
LocalsOK ==
    \A t \in Tasks :
        /\ pc[t] \in {"drained", "rooted", "based"} => batch[t].txs # <<>>
        /\ pc[t] = "based" /\ log = <<>> => batch[t].pre = ZeroRoot
        /\ pc[t] \in {"prove", "store"} => batch[t].id \in 1 .. Len(log)

\* The nonce of an account is at least that of any checked transaction made.
NoncesCover ==
    \A i \in DOMAIN root :
        root[i] \in Txs /\ root[i].kind = "Checked" => root[i].nonce <= nonces[root[i].signer]

SeqInv ==
    /\ TypeOK
    /\ LocalsOK
    /\ ChainContinuous
    /\ PostRootCurrent
    /\ NoncesCover
    /\ ExecutedOnce

\* The types of the task-local variables, which every action changes.
LEMMA BatchType ==
    ASSUME TypeOK, NEW t \in Tasks
    PROVE  /\ batch[t] \in [txs : Seq(Txs), pre : Roots, post : Roots, id : Nat]
           /\ batch[t].txs \in Seq(Txs) /\ batch[t].pre \in Roots
           /\ batch[t].post \in Roots /\ batch[t].id \in Nat
<1>1. batch[t] \in [txs : Seq(Txs), pre : Roots, post : Roots, id : Nat]
  BY DEF TypeOK
<1>2. QED
  BY <1>1

\* The initial states satisfy the invariant.
LEMMA InitSeqInv == Init => SeqInv
<1> SUFFICES ASSUME Init PROVE SeqInv
  OBVIOUS
<1>1. NoBatch \in [txs : Seq(Txs), pre : Roots, post : Roots, id : Nat]
  <2>1. <<>> \in Seq(Txs) /\ ZeroRoot \in Roots
    BY DEF Roots
  <2>2. QED
    BY <2>1 DEF NoBatch
<1>2. TypeOK
  <2>1. <<>> \in Seq(Changes) /\ <<>> \in Seq(Txs) /\ <<>> \in Seq(Batch) /\ ZeroRoot \in Roots
    BY DEF Roots
  <2>2. \A t \in Tasks : pc[t] = "idle" /\ "idle" \in PCs
    BY DEF Init, PCs
  <2>3. Handlers \subseteq Tasks
    BY DEF Tasks
  <2>4. restarts \in 0 .. MaxRestarts /\ disconnects \in 0 .. MaxDisconnects
    BY BoundsAssumption DEF Init
  <2>5. QED
    BY <1>1, <2>1, <2>2, <2>3, <2>4, NoTxAssumption DEF Init, TypeOK
<1>3. QED
  BY <1>2 DEF Init, SeqInv, LocalsOK, ChainContinuous, PostRootCurrent, NoncesCover, ExecutedOnce

\* A step of register_account.
LEMMA RegisterSteps ==
    ASSUME SeqInv, NEW a \in Accounts, CreateAccount(a) \/ StoreKey(a)
    PROVE  SeqInv'
<1>1. CASE CreateAccount(a)
  <2>0. TypeOK
    BY DEF SeqInv
  <2>1. /\ root' = Append(root, Registration(a)) /\ accounts' = accounts \cup {a}
        /\ UNCHANGED <<nonces, executed, account_keys, pending, log, current_state_root,
                       proven, pc, tx, batch, dropped, restarts, disconnects>>
        /\ \A t \in Tasks : pc[t] \notin Holding
    BY <1>1 DEF CreateAccount, daVars, StateWritable
  <2>2. Registration(a) \in Changes /\ Registration(a) \notin Txs
    BY TxsAssumption DEF Changes, Registration, TxKinds
  <2>3. root' \in Seq(Changes)
    BY <2>0, <2>1, <2>2 DEF TypeOK
  <2>4. TypeOK'
    BY <2>0, <2>1, <2>3 DEF TypeOK
  <2>5. LocalsOK' /\ ChainContinuous'
    BY <2>1 DEF SeqInv, LocalsOK, ChainContinuous
  <2>6. PostRootCurrent'
    BY <2>1 DEF PostRootCurrent, Holding
  <2>7. NoncesCover' /\ ExecutedOnce'
    <3>1. DOMAIN root' = 1 .. Len(root) + 1 /\ DOMAIN root = 1 .. Len(root)
          /\ \A i \in DOMAIN root : root'[i] = root[i]
      BY <2>0, <2>1, <2>2 DEF TypeOK
    <3>2. root'[Len(root) + 1] = Registration(a) /\ Len(root) \in Nat
      BY <2>0, <2>1, <2>2 DEF TypeOK
    <3>3. QED
      BY <2>1, <2>2, <3>1, <3>2 DEF SeqInv, NoncesCover, ExecutedOnce
  <2>8. QED
    BY <2>4, <2>5, <2>6, <2>7 DEF SeqInv
<1>2. CASE StoreKey(a)
  BY <1>2 DEF StoreKey, SeqInv, TypeOK, LocalsOK, ChainContinuous, PostRootCurrent,
              NoncesCover, ExecutedOnce, stateVars, daVars
<1>3. QED
  BY <1>1, <1>2

\* Steps of submit_transaction that leave the state alone.
LEMMA RequestSteps ==
    ASSUME SeqInv, NEW h \in Handlers,
           (\E t \in Txs : Accept(h, t)) \/ RejectTx(h) \/ Push(h) \/ CheckSize(h)
             \/ NothingToDrain(h)
    PROVE  SeqInv'
<1>0. h \in Tasks /\ Handlers \subseteq Tasks /\ TypeOK
  BY DEF Tasks, SeqInv
<1>1. /\ UNCHANGED <<root, nonces, accounts, executed, account_keys, log,
                     current_state_root, proven, batch, dropped, restarts, disconnects>>
      /\ \/ pending' = pending
         \/ pending' = Append(pending, tx[h]) /\ tx[h] \in Txs
      /\ \E p \in {"accepted", "done", "check", "drain"} : pc' = [pc EXCEPT ![h] = p]
  BY <1>0 DEF Accept, RejectTx, Push, CheckSize, NothingToDrain, stateVars, daVars, TypeOK
<1>2. PICK p \in {"accepted", "done", "check", "drain"} : pc' = [pc EXCEPT ![h] = p]
  BY <1>1
<1>3. /\ \A t \in Tasks : t # h => pc'[t] = pc[t]
      /\ pc'[h] = p
      /\ pc' \in [Tasks -> PCs]
  BY <1>0, <1>2 DEF TypeOK, PCs
<1>4. TypeOK'
  <2>1. pending' \in Seq(Txs)
    <3>1. pending \in Seq(Txs)
      BY <1>0 DEF TypeOK
    <3>2. ASSUME NEW u \in Txs
          PROVE  Append(pending, u) \in Seq(Txs)
      BY <3>1
    <3>3. QED
      BY <1>1, <3>1, <3>2
  <2>2. /\ tx' \in [Handlers -> Txs \cup {NoTx}]
        /\ \A g \in Handlers : pc'[g] \in {"accepted", "executed"} <=> tx'[g] \in Txs
    <3>1. /\ tx \in [Handlers -> Txs \cup {NoTx}] /\ pc \in [Tasks -> PCs]
          /\ \A g \in Handlers : pc[g] \in {"accepted", "executed"} <=> tx[g] \in Txs
      BY <1>0 DEF TypeOK
    <3>2. CASE \E t \in Txs : Accept(h, t)
      BY <1>0, <1>3, <3>1, <3>2 DEF Accept
    <3>3. CASE RejectTx(h) \/ Push(h)
      BY <1>0, <1>3, <3>1, <3>3, NoTxAssumption DEF RejectTx, Push
    <3>4. CASE CheckSize(h) \/ NothingToDrain(h)
      BY <1>0, <1>3, <3>1, <3>4 DEF CheckSize, NothingToDrain
    <3>5. QED
      BY <3>2, <3>3, <3>4
  <2>3. QED
    BY <1>0, <1>1, <1>3, <2>1, <2>2 DEF TypeOK
<1>5. LocalsOK' /\ PostRootCurrent'
  BY <1>1, <1>3 DEF SeqInv, LocalsOK, PostRootCurrent
<1>6. ChainContinuous' /\ NoncesCover' /\ ExecutedOnce'
  BY <1>1 DEF SeqInv, ChainContinuous, NoncesCover, ExecutedOnce
<1>7. QED
  BY <1>4, <1>5, <1>6 DEF SeqInv

\* execute_transaction: the only step that makes a client's change, and its
\* nonce is above every one used before.
LEMMA ExecuteStep ==
    ASSUME SeqInv, NEW h \in Handlers, Execute(h)
    PROVE  SeqInv'
<1>0. h \in Tasks /\ Handlers \subseteq Tasks /\ TypeOK
  BY DEF Tasks, SeqInv
<1>1. /\ UNCHANGED <<accounts, account_keys, pending, log, current_state_root, proven,
                     tx, batch, dropped, restarts, disconnects>>
      /\ pc[h] = "accepted" /\ pc' = [pc EXCEPT ![h] = "executed"]
      /\ \A t \in Tasks : pc[t] \notin Holding
  BY DEF Execute, daVars, StateWritable
<1>2. PICK u \in Txs : u = tx[h]
  BY <1>0, <1>1 DEF TypeOK
<1>3. /\ executed' = [executed EXCEPT ![u] = @ + 1]
      /\ \/ root' = root /\ nonces' = nonces
         \/ /\ root' = Append(root, u)
            /\ nonces' = [nonces EXCEPT ![u.signer] = @ + 1]
            /\ u.kind = "Checked" => u.nonce = nonces[u.signer] + 1
  BY <1>2 DEF Execute, NonceOk
<1>4. u.kind \in TxKinds /\ u.signer \in Accounts /\ u.nonce \in Nat /\ u \in Changes
  BY TxsAssumption DEF Changes
<1>5. /\ \A t \in Tasks : t # h => pc'[t] = pc[t]
      /\ pc'[h] = "executed"
      /\ pc' \in [Tasks -> PCs]
  BY <1>0, <1>1 DEF TypeOK, PCs
<1>6. TypeOK'
  <2>1. executed' \in [Txs -> Nat]
    BY <1>0, <1>3 DEF TypeOK
  <2>2. root' \in Seq(Changes) /\ nonces' \in [Accounts -> Nat]
    <3>1. CASE root' = root /\ nonces' = nonces
      BY <1>0, <3>1 DEF TypeOK
    <3>2. CASE root' = Append(root, u) /\ nonces' = [nonces EXCEPT ![u.signer] = @ + 1]
      BY <1>0, <1>4, <3>2 DEF TypeOK
    <3>3. QED
      BY <1>3, <3>1, <3>2
  <2>3. QED
    BY <1>0, <1>1, <1>5, <2>1, <2>2 DEF TypeOK
<1>7. LocalsOK' /\ PostRootCurrent'
  BY <1>1, <1>5 DEF SeqInv, LocalsOK, PostRootCurrent, Holding
<1>8. ChainContinuous'
  BY <1>1 DEF SeqInv, ChainContinuous
<1>9. ASSUME root' = Append(root, u), nonces' = [nonces EXCEPT ![u.signer] = @ + 1],
             u.kind = "Checked" => u.nonce = nonces[u.signer] + 1
      PROVE  NoncesCover' /\ ExecutedOnce'
  <2>1. /\ DOMAIN root' = 1 .. Len(root) + 1 /\ DOMAIN root = 1 .. Len(root)
        /\ Len(root) \in Nat /\ root'[Len(root) + 1] = u
        /\ \A i \in DOMAIN root : root'[i] = root[i]
    BY <1>0, <1>9, <1>4 DEF TypeOK
  <2>2. \A a \in Accounts : /\ nonces[a] \in Nat
                            /\ nonces'[a] = IF a = u.signer THEN nonces[a] + 1 ELSE nonces[a]
    BY <1>0, <1>9, <1>4 DEF TypeOK
  <2>3. \A i \in DOMAIN root : root[i] \in Txs =>
            root[i].signer \in Accounts /\ root[i].nonce \in Nat
    BY TxsAssumption
  <2>4. NoncesCover'
    <3>1. ASSUME NEW i \in DOMAIN root', root'[i] \in Txs, root'[i].kind = "Checked"
          PROVE  root'[i].nonce <= nonces'[root'[i].signer]
      <4>1. CASE i = Len(root) + 1
        BY <4>1, <3>1, <1>9, <1>4, <2>1, <2>2
      <4>2. CASE i # Len(root) + 1
        <5>1. i \in DOMAIN root /\ root'[i] = root[i]
          BY <4>2, <2>1
        <5>2. root[i].nonce <= nonces[root[i].signer]
          BY <3>1, <5>1 DEF SeqInv, NoncesCover
        <5>3. QED
          BY <3>1, <5>1, <5>2, <2>2, <2>3
      <4>3. QED
        BY <4>1, <4>2
    <3>2. QED
      BY <3>1 DEF NoncesCover
  <2>5. ASSUME NEW i \in DOMAIN root, root[i] = u, u.kind = "Checked"
        PROVE  FALSE
    <3>1. u.nonce <= nonces[u.signer]
      BY <2>5 DEF SeqInv, NoncesCover
    <3>2. QED
      BY <3>1, <2>5, <1>9, <1>4, <2>2
  <2>6. ExecutedOnce'
    BY <2>1, <2>5 DEF SeqInv, ExecutedOnce
  <2>7. QED
    BY <2>4, <2>6
<1>10. NoncesCover' /\ ExecutedOnce'
  <2>1. CASE root' = root /\ nonces' = nonces
    BY <2>1 DEF SeqInv, NoncesCover, ExecutedOnce
  <2>2. QED
    BY <1>3, <1>9, <2>1
<1>11. QED
  BY <1>6, <1>7, <1>8, <1>10 DEF SeqInv

\* What changes when task t of process_batch takes a step: its own program
\* counter and its own local variables.
LEMMA BatchFrame ==
    ASSUME TypeOK, NEW t \in Tasks, NEW p \in PCs,
           NEW b \in [txs : Seq(Txs), pre : Roots, post : Roots, id : Nat],
           p \notin {"accepted", "executed"}, pc[t] \notin {"accepted", "executed"},
           pc' = [pc EXCEPT ![t] = p], batch' = [batch EXCEPT ![t] = b], tx' = tx
    PROVE  /\ pc' \in [Tasks -> PCs]
           /\ batch' \in [Tasks -> [txs : Seq(Txs), pre : Roots, post : Roots, id : Nat]]
           /\ pc'[t] = p /\ batch'[t] = b
           /\ \A u \in Tasks : u # t => pc'[u] = pc[u] /\ batch'[u] = batch[u]
           /\ \A h \in Handlers : pc'[h] \in {"accepted", "executed"} <=> tx'[h] \in Txs
<1>1. Handlers \subseteq Tasks
  BY DEF Tasks
<1>2. QED
  BY <1>1 DEF TypeOK

\* The empty local variables are of the right type, and so is every program
\* counter process_batch leaves behind.
LEMMA NoBatchType ==
    /\ NoBatch \in [txs : Seq(Txs), pre : Roots, post : Roots, id : Nat]
    /\ \A t \in Tasks : AfterBatch(t) \in PCs /\ AfterBatch(t) \in {"done", "idle"}
<1>1. <<>> \in Seq(Txs) /\ ZeroRoot \in Roots
  BY DEF Roots
<1>2. QED
  BY <1>1 DEF NoBatch, AfterBatch, PCs

\* The steps of process_batch that only touch the task's own variables and the
\* mempool.
LEMMA LocalBatchSteps ==
    ASSUME SeqInv, NEW t \in Tasks,
           Drain(t) \/ ReadPostRoot(t) \/ ReadPreRoot(t) \/ Prove(t) \/ FailBatch(t)
    PROVE  SeqInv'
<1>0. TypeOK /\ PreRoot \in Roots /\ root \in Roots
  BY DEF SeqInv, TypeOK, PreRoot, Roots
<1>1. PICK b \in [txs : Seq(Txs), pre : Roots, post : Roots, id : Nat] : b = batch[t]
  BY <1>0, BatchType
<1>2. UNCHANGED <<root, nonces, accounts, executed, account_keys, log, current_state_root,
                  proven, tx, restarts, disconnects>>
  BY DEF Drain, ReadPostRoot, ReadPreRoot, Prove, FailBatch, stateVars, daVars
<1>3. ChainContinuous' /\ NoncesCover' /\ ExecutedOnce'
  BY <1>2 DEF SeqInv, ChainContinuous, NoncesCover, ExecutedOnce
<1>4. PICK p \in PCs, c \in [txs : Seq(Txs), pre : Roots, post : Roots, id : Nat] :
         /\ pc' = [pc EXCEPT ![t] = p] /\ batch' = [batch EXCEPT ![t] = c]
         /\ p \notin {"accepted", "executed"} /\ pc[t] \notin {"accepted", "executed"}
         /\ p \in {"drained", "rooted", "based"} => c.txs # <<>>
         /\ p = "based" /\ log = <<>> => c.pre = ZeroRoot
         /\ p \in {"prove", "store"} => c.id \in 1 .. Len(log)
         /\ p \in {"rooted", "based"} => c.post = root
  <2>1. CASE Drain(t)
    <3> DEFINE c == [NoBatch EXCEPT !.txs = pending]
    <3>1. c \in [txs : Seq(Txs), pre : Roots, post : Roots, id : Nat] /\ c.txs = pending
      BY <1>0, NoBatchType DEF TypeOK
    <3>2. /\ pc' = [pc EXCEPT ![t] = "drained"] /\ batch' = [batch EXCEPT ![t] = c]
          /\ pending # <<>>
          /\ pc[t] \in {"drain", "idle"}
      BY <2>1 DEF Drain, CanDrain, HasPending, DrainedTxs
    <3> HIDE DEF c
    <3>3. QED
      BY <3>1, <3>2 DEF PCs
  <2>2. CASE ReadPostRoot(t)
    <3> DEFINE c == [b EXCEPT !.post = root]
    <3>1. c \in [txs : Seq(Txs), pre : Roots, post : Roots, id : Nat] /\ c.txs = b.txs
          /\ c.post = root
      BY <1>0
    <3>2. /\ pc' = [pc EXCEPT ![t] = "rooted"] /\ batch' = [batch EXCEPT ![t] = c]
          /\ pc[t] = "drained"
      BY <2>2, <1>0, <1>1 DEF ReadPostRoot, PostRoot, TypeOK
    <3>3. b.txs # <<>>
      BY <1>1, <3>2 DEF SeqInv, LocalsOK
    <3> HIDE DEF c
    <3>4. QED
      BY <3>1, <3>2, <3>3 DEF PCs
  <2>3. CASE ReadPreRoot(t)
    <3> DEFINE c == [b EXCEPT !.pre = PreRoot]
    <3>1. c \in [txs : Seq(Txs), pre : Roots, post : Roots, id : Nat] /\ c.txs = b.txs
          /\ c.post = b.post /\ c.pre = PreRoot
      BY <1>0
    <3>2. /\ pc' = [pc EXCEPT ![t] = "based"] /\ batch' = [batch EXCEPT ![t] = c]
          /\ pc[t] = "rooted"
      BY <2>3, <1>0, <1>1 DEF ReadPreRoot, TypeOK
    <3>3. b.txs # <<>> /\ b.post = root
      BY <1>1, <3>2 DEF SeqInv, LocalsOK, PostRootCurrent
    <3>4. log = <<>> => PreRoot = ZeroRoot
      BY DEF PreRoot
    <3> HIDE DEF c
    <3>5. QED
      BY <3>1, <3>2, <3>3, <3>4 DEF PCs
  <2>4. CASE Prove(t)
    <3>1. pc[t] = "prove" /\ b.id \in 1 .. Len(log)
      BY <2>4, <1>1 DEF Prove, SeqInv, LocalsOK
    <3>2. CASE pc' = [pc EXCEPT ![t] = "store"] /\ batch' = batch
      <4>1. batch' = [batch EXCEPT ![t] = b]
        BY <3>2, <1>0, <1>1 DEF TypeOK
      <4>2. QED
        BY <3>1, <3>2, <4>1 DEF PCs
    <3>3. CASE pc' = [pc EXCEPT ![t] = AfterBatch(t)] /\ batch' = [batch EXCEPT ![t] = NoBatch]
      BY <3>1, <3>3, NoBatchType
    <3>4. QED
      BY <2>4, <3>2, <3>3 DEF Prove
  <2>5. CASE FailBatch(t)
    <3>1. /\ pc' = [pc EXCEPT ![t] = AfterBatch(t)] /\ batch' = [batch EXCEPT ![t] = NoBatch]
          /\ pc[t] = "based"
      BY <2>5 DEF FailBatch
    <3>2. QED
      BY <3>1, NoBatchType
  <2>6. QED
    BY <2>1, <2>2, <2>3, <2>4, <2>5
<1>5. /\ pc' \in [Tasks -> PCs]
      /\ batch' \in [Tasks -> [txs : Seq(Txs), pre : Roots, post : Roots, id : Nat]]
      /\ pc'[t] = p /\ batch'[t] = c
      /\ \A u \in Tasks : u # t => pc'[u] = pc[u] /\ batch'[u] = batch[u]
      /\ \A h \in Handlers : pc'[h] \in {"accepted", "executed"} <=> tx'[h] \in Txs
  BY <1>0, <1>2, <1>4, BatchFrame
<1>6. TypeOK'
  <2>1. pending' \in Seq(Txs)
    <3>1. pending' = pending \/ pending' = <<>>
      BY DEF Drain, ReadPostRoot, ReadPreRoot, Prove, FailBatch
    <3>2. pending \in Seq(Txs) /\ <<>> \in Seq(Txs)
      BY <1>0 DEF TypeOK
    <3>3. QED
      BY <3>1, <3>2
  <2>2. dropped' \in Seq(Txs)
    <3>1. dropped' = dropped \/ dropped' = dropped \o b.txs
      BY <1>1 DEF Drain, ReadPostRoot, ReadPreRoot, Prove, FailBatch
    <3>2. dropped \in Seq(Txs) /\ b.txs \in Seq(Txs)
      BY <1>0 DEF TypeOK
    <3>3. QED
      BY <3>1, <3>2, ConcatProperties
  <2>3. QED
    BY <1>0, <1>2, <1>5, <2>1, <2>2 DEF TypeOK
<1>7. LocalsOK' /\ PostRootCurrent'
  BY <1>2, <1>4, <1>5 DEF SeqInv, LocalsOK, PostRootCurrent
<1>8. QED
  BY <1>3, <1>6, <1>7 DEF SeqInv

\* append_batch and append_proof, the steps that change the log.
LEMMA AppendStep ==
    ASSUME SeqInv, NEW t \in Tasks, AppendBatch(t)
    PROVE  SeqInv' /\ log'[Len(log) + 1].txs # <<>> /\ Len(log') = Len(log) + 1
           /\ (\A i \in 1 .. Len(log) : log'[i] = log[i])
<1>0. TypeOK
  BY DEF SeqInv
<1>1. PICK b \in [txs : Seq(Txs), pre : Roots, post : Roots, id : Nat] : b = batch[t]
  BY <1>0, BatchType
<1> DEFINE e == [txs |-> b.txs, pre |-> b.pre, post |-> b.post]
<1>2. /\ pc[t] = "based"
      /\ Continues(b.pre)
      /\ log' = Append(log, e)
      /\ current_state_root' = b.post
      /\ pc' = [pc EXCEPT ![t] = "prove"]
      /\ UNCHANGED <<root, nonces, accounts, executed, account_keys, pending, proven, tx,
                     dropped, restarts, disconnects>>
  BY <1>1 DEF AppendBatch, stateVars
<1>3. e \in Batch /\ e.txs = b.txs /\ e.pre = b.pre /\ e.post = b.post
  BY DEF Batch
<1>4. b.txs # <<>> /\ (log = <<>> => b.pre = ZeroRoot)
  BY <1>1, <1>2 DEF SeqInv, LocalsOK
<1> HIDE DEF e
<1>5. /\ log \in Seq(Batch) /\ Len(log) \in Nat
      /\ log' \in Seq(Batch) /\ Len(log') = Len(log) + 1
      /\ DOMAIN log = 1 .. Len(log) /\ DOMAIN log' = 1 .. Len(log) + 1
      /\ log'[Len(log) + 1] = e
      /\ \A i \in 1 .. Len(log) : log'[i] = log[i]
  BY <1>0, <1>2, <1>3 DEF TypeOK
<1> DEFINE c == [b EXCEPT !.id = Len(log) + 1]
<1>6. c \in [txs : Seq(Txs), pre : Roots, post : Roots, id : Nat] /\ c.id = Len(log) + 1
  BY <1>5
<1>7. batch' = [batch EXCEPT ![t] = c]
  BY <1>0, <1>1 DEF AppendBatch, NextBatchId, TypeOK
<1> HIDE DEF c
<1>8. /\ pc' \in [Tasks -> PCs]
      /\ batch' \in [Tasks -> [txs : Seq(Txs), pre : Roots, post : Roots, id : Nat]]
      /\ pc'[t] = "prove" /\ batch'[t] = c
      /\ \A u \in Tasks : u # t => pc'[u] = pc[u] /\ batch'[u] = batch[u]
      /\ \A h \in Handlers : pc'[h] \in {"accepted", "executed"} <=> tx'[h] \in Txs
  <2>1. "prove" \in PCs /\ tx' = tx
    BY <1>2 DEF PCs
  <2>2. QED
    BY <1>0, <1>2, <1>6, <1>7, <2>1, BatchFrame
<1>9. TypeOK'
  <2>1. proven' \in SUBSET (1 .. Len(log'))
    BY <1>0, <1>2, <1>5 DEF TypeOK
  <2>2. QED
    BY <1>0, <1>2, <1>5, <1>8, <2>1 DEF TypeOK
<1>10. LocalsOK'
  <2>1. log' # <<>>
    BY <1>5
  <2>2. ASSUME NEW u \in Tasks, u # t
        PROVE  /\ pc'[u] \in {"drained", "rooted", "based"} => batch'[u].txs # <<>>
               /\ pc'[u] \in {"prove", "store"} => batch'[u].id \in 1 .. Len(log')
    <3>1. pc'[u] = pc[u] /\ batch'[u] = batch[u]
      BY <1>8, <2>2
    <3>2. pc[u] \in {"prove", "store"} => batch[u].id \in 1 .. Len(log)
      BY DEF SeqInv, LocalsOK
    <3>3. \A i \in 1 .. Len(log) : i \in 1 .. Len(log')
      BY <1>5
    <3>4. QED
      BY <3>1, <3>2, <3>3 DEF SeqInv, LocalsOK
  <2>3. Len(log) + 1 \in 1 .. Len(log')
    BY <1>5
  <2>4. QED
    BY <1>6, <1>8, <2>1, <2>2, <2>3 DEF LocalsOK
<1>11. PostRootCurrent'
  BY <1>2, <1>8 DEF SeqInv, PostRootCurrent
<1>12. ChainContinuous'
  <2>1. log' # <<>> /\ log'[Len(log')].post = b.post
    BY <1>3, <1>5
  <2>2. ASSUME NEW i \in DOMAIN log'
        PROVE  log'[i].pre = IF i = 1 THEN ZeroRoot ELSE log'[i - 1].post
    <3>1. CASE i \in 1 .. Len(log)
      BY <3>1, <1>5 DEF SeqInv, ChainContinuous
    <3>2. CASE i = Len(log) + 1 /\ log = <<>>
      BY <3>2, <1>3, <1>4, <1>5
    <3>3. CASE i = Len(log) + 1 /\ log # <<>>
      <4>1. b.pre = log[Len(log)].post
        BY <3>3, <1>2 DEF Continues, SeqInv, ChainContinuous
      <4>2. Len(log) \in 1 .. Len(log) /\ i # 1 /\ i - 1 = Len(log)
        BY <3>3, <1>5
      <4>3. QED
        BY <3>3, <4>1, <4>2, <1>3, <1>5
    <3>4. QED
      BY <1>5, <3>1, <3>2, <3>3
  <2>3. QED
    BY <1>2, <2>1, <2>2 DEF ChainContinuous
<1>13. NoncesCover' /\ ExecutedOnce'
  BY <1>2 DEF SeqInv, NoncesCover, ExecutedOnce
<1>14. QED
  BY <1>3, <1>4, <1>5, <1>9, <1>10, <1>11, <1>12, <1>13 DEF SeqInv

\* A proof is stored for a batch that is in the log.
LEMMA StoreProofStep ==
    ASSUME SeqInv, NEW t \in Tasks, StoreProof(t)
    PROVE  SeqInv' /\ (\E id \in 1 .. Len(log) : proven' = proven \cup {id})
<1>0. TypeOK
  BY DEF SeqInv
<1>1. /\ UNCHANGED <<root, nonces, accounts, executed, account_keys, pending, log,
                     current_state_root, tx, dropped, restarts, disconnects>>
      /\ pc[t] = "store" /\ pc' = [pc EXCEPT ![t] = AfterBatch(t)]
      /\ batch' = [batch EXCEPT ![t] = NoBatch]
      /\ proven' = proven \cup {batch[t].id}
  BY DEF StoreProof, stateVars
<1>2. batch[t].id \in 1 .. Len(log)
  BY <1>1 DEF SeqInv, LocalsOK
<1>3. /\ pc' \in [Tasks -> PCs]
      /\ batch' \in [Tasks -> [txs : Seq(Txs), pre : Roots, post : Roots, id : Nat]]
      /\ pc'[t] = AfterBatch(t) /\ batch'[t] = NoBatch
      /\ \A u \in Tasks : u # t => pc'[u] = pc[u] /\ batch'[u] = batch[u]
      /\ \A h \in Handlers : pc'[h] \in {"accepted", "executed"} <=> tx'[h] \in Txs
  BY <1>0, <1>1, NoBatchType, BatchFrame
<1>4. AfterBatch(t) \in {"done", "idle"}
  BY NoBatchType
<1>5. TypeOK'
  BY <1>0, <1>1, <1>2, <1>3 DEF TypeOK
<1>6. LocalsOK' /\ PostRootCurrent'
  BY <1>1, <1>3, <1>4 DEF SeqInv, LocalsOK, PostRootCurrent
<1>7. ChainContinuous' /\ NoncesCover' /\ ExecutedOnce'
  BY <1>1 DEF SeqInv, ChainContinuous, NoncesCover, ExecutedOnce
<1>8. QED
  BY <1>1, <1>2, <1>5, <1>6, <1>7 DEF SeqInv

\* A restart forgets the state and the tasks and keeps the log.
LEMMA RestartStep ==
    ASSUME SeqInv, Restart
    PROVE  SeqInv'
<1>0. TypeOK /\ Handlers \subseteq Tasks
  BY DEF SeqInv, Tasks
<1>1. /\ root' = <<>> /\ nonces' = [a \in Accounts |-> 0] /\ accounts' = {}
      /\ account_keys' = {} /\ pending' = <<>> /\ dropped' = dropped
      /\ executed' = [t \in Txs |-> 0]
      /\ UNCHANGED <<log, current_state_root, proven, disconnects>>
      /\ restarts' = restarts + 1 /\ restarts < MaxRestarts
      /\ batch' = [t \in Tasks |-> NoBatch] /\ tx' = [h \in Handlers |-> NoTx]
  BY DEF Restart, daVars
<1>2. /\ pc' \in [Tasks -> PCs]
      /\ \A t \in Tasks : pc'[t] \in {"idle", "done"}
  BY DEF Restart, PCs
<1>3. TypeOK'
  <2>1. <<>> \in Seq(Changes) /\ <<>> \in Seq(Txs)
    OBVIOUS
  <2>2. restarts' \in 0 .. MaxRestarts
    BY <1>0, <1>1, BoundsAssumption DEF TypeOK
  <2>3. \A h \in Handlers : pc'[h] \in {"accepted", "executed"} <=> tx'[h] \in Txs
    BY <1>0, <1>1, <1>2, NoTxAssumption
  <2>4. /\ tx' \in [Handlers -> Txs \cup {NoTx}] /\ nonces' \in [Accounts -> Nat]
        /\ executed' \in [Txs -> Nat]
    BY <1>1
  <2>5. batch' \in [Tasks -> [txs : Seq(Txs), pre : Roots, post : Roots, id : Nat]]
    BY <1>1, NoBatchType
  <2>6. QED
    BY <1>0, <1>1, <1>2, <2>1, <2>2, <2>3, <2>4, <2>5 DEF TypeOK
<1>4. LocalsOK' /\ PostRootCurrent'
  BY <1>2 DEF LocalsOK, PostRootCurrent
<1>5. ChainContinuous' /\ NoncesCover' /\ ExecutedOnce'
  BY <1>1 DEF SeqInv, ChainContinuous, NoncesCover, ExecutedOnce
<1>6. QED
  BY <1>3, <1>4, <1>5 DEF SeqInv

\* What a dropped future held are transactions.
LEMMA LostType ==
    ASSUME TypeOK, NEW t \in Tasks
    PROVE  Lost(t) \in Seq(Txs)
<1>1. CASE t \in Handlers /\ pc[t] = "executed"
  <2>1. tx[t] \in Txs
    BY <1>1 DEF TypeOK
  <2>2. Lost(t) = <<tx[t]>>
    BY <1>1 DEF Lost
  <2>3. QED
    BY <2>1, <2>2
<1>2. CASE ~(t \in Handlers /\ pc[t] = "executed")
  <2>1. batch[t].txs \in Seq(Txs) /\ <<>> \in Seq(Txs)
    BY BatchType
  <2>2. Lost(t) = batch[t].txs \/ Lost(t) = <<>>
    BY <1>2 DEF Lost
  <2>3. QED
    BY <2>1, <2>2
<1>3. QED
  BY <1>1, <1>2

\* A dropped future ends its own task and lets go of its locks.
LEMMA DisconnectStep ==
    ASSUME SeqInv, NEW t \in Tasks, Disconnect(t)
    PROVE  SeqInv'
<1>0. TypeOK /\ Handlers \subseteq Tasks
  BY DEF SeqInv, Tasks
<1>1. /\ UNCHANGED <<root, nonces, accounts, executed, account_keys, pending, log,
                     current_state_root, proven, restarts>>
      /\ pc' = [pc EXCEPT ![t] = AfterBatch(t)] /\ batch' = [batch EXCEPT ![t] = NoBatch]
      /\ tx' = [h \in Handlers |-> IF h = t THEN NoTx ELSE tx[h]]
      /\ dropped' = dropped \o Lost(t)
      /\ disconnects < MaxDisconnects /\ disconnects' = disconnects + 1
  BY DEF Disconnect, stateVars, daVars
<1>2. AfterBatch(t) \in PCs /\ AfterBatch(t) \in {"done", "idle"}
  BY NoBatchType
<1>3. /\ pc'[t] \in {"done", "idle"} /\ pc' \in [Tasks -> PCs]
      /\ \A u \in Tasks : u # t => pc'[u] = pc[u] /\ batch'[u] = batch[u]
  BY <1>0, <1>1, <1>2 DEF TypeOK
<1>4. TypeOK'
  <2>1. dropped' \in Seq(Txs)
    <3>1. dropped \in Seq(Txs) /\ Lost(t) \in Seq(Txs)
      BY <1>0, LostType DEF TypeOK
    <3>2. QED
      BY <1>1, <3>1, ConcatProperties
  <2>2. disconnects' \in 0 .. MaxDisconnects
    BY <1>0, <1>1, BoundsAssumption DEF TypeOK
  <2>3. batch' \in [Tasks -> [txs : Seq(Txs), pre : Roots, post : Roots, id : Nat]]
    BY <1>0, <1>1, NoBatchType DEF TypeOK
  <2>4. /\ tx' \in [Handlers -> Txs \cup {NoTx}]
        /\ \A h \in Handlers : pc'[h] \in {"accepted", "executed"} <=> tx'[h] \in Txs
    BY <1>0, <1>1, <1>3, NoTxAssumption DEF TypeOK
  <2>5. QED
    BY <1>0, <1>1, <1>3, <2>1, <2>2, <2>3, <2>4 DEF TypeOK
<1>5. LocalsOK' /\ PostRootCurrent'
  BY <1>1, <1>3 DEF SeqInv, LocalsOK, PostRootCurrent
<1>6. ChainContinuous' /\ NoncesCover' /\ ExecutedOnce'
  BY <1>1 DEF SeqInv, ChainContinuous, NoncesCover, ExecutedOnce
<1>7. QED
  BY <1>4, <1>5, <1>6 DEF SeqInv

\* Every step of the sequencer preserves the invariant.
LEMMA NextSeqInv == SeqInv /\ [Next]_vars => SeqInv'
<1> SUFFICES ASSUME SeqInv, [Next]_vars
             PROVE  SeqInv'
  OBVIOUS
<1>1. ASSUME NEW a \in Accounts, CreateAccount(a) \/ StoreKey(a)
      PROVE  SeqInv'
  BY <1>1, RegisterSteps
<1>2. ASSUME NEW h \in Handlers, (\E t \in Txs : Accept(h, t)) \/ SubmitStep(h) \/ NothingToDrain(h)
      PROVE  SeqInv'
  BY <1>2, RequestSteps, ExecuteStep DEF SubmitStep
<1>3. ASSUME NEW t \in Tasks, Drain(t) \/ BatchStep(t) \/ Disconnect(t)
      PROVE  SeqInv'
  BY <1>3, LocalBatchSteps, AppendStep, StoreProofStep, DisconnectStep DEF BatchStep
<1>4. CASE Restart
  BY <1>4, RestartStep
<1>5. CASE UNCHANGED vars
  BY <1>5 DEF vars, SeqInv, TypeOK, LocalsOK, ChainContinuous, PostRootCurrent,
              NoncesCover, ExecutedOnce
<1>6. QED
  BY <1>1, <1>2, <1>3, <1>4, <1>5 DEF Next

\* The inductive invariant holds in every reachable state.
THEOREM SeqInvAlways == Spec => []SeqInv
BY InitSeqInv, NextSeqInv, PTL DEF Spec

\* Every variable keeps its type.
THEOREM SequencerTypeCorrect == Spec => []TypeOK
<1>1. SeqInv => TypeOK
  BY DEF SeqInv
<1>2. QED
  BY <1>1, SeqInvAlways, PTL

\* The log chains from the zero root and the index is at its end, whichever
\* batchers race and however often the process restarts.
THEOREM ChainAlwaysContinuous == Spec => []ChainContinuous
<1>1. SeqInv => ChainContinuous
  BY DEF SeqInv
<1>2. QED
  BY <1>1, SeqInvAlways, PTL

\* The read lock that process_batch keeps makes the root it read current until
\* the batch is appended.
THEOREM PostRootAlwaysCurrent == Spec => []PostRootCurrent
<1>1. SeqInv => PostRootCurrent
  BY DEF SeqInv
<1>2. QED
  BY <1>1, SeqInvAlways, PTL

\* No checked transaction is executed twice in the life of a process.
THEOREM ExecutedAtMostOnce == Spec => []ExecutedOnce
<1>1. SeqInv => ExecutedOnce
  BY DEF SeqInv
<1>2. QED
  BY <1>1, SeqInvAlways, PTL

-----------------------------------------------------------------------------
(* The log implements the abstract chain of batches *)

\* A step of the sequencer that appends or proves a batch is a step of
\* BatchChain; any other leaves the log and the proofs alone.
LEMMA ChainStep ==
    ASSUME SeqInv, [Next]_vars
    PROVE  [Chain!ChainNext]_Chain!chainVars
<1>1. CASE UNCHANGED <<log, proven>>
  BY <1>1 DEF Chain!chainVars
<1>2. ASSUME NEW t \in Tasks, AppendBatch(t)
      PROVE  Chain!Extend
  <2>1. SeqInv' /\ log'[Len(log) + 1].txs # <<>> /\ Len(log') = Len(log) + 1
        /\ (\A i \in 1 .. Len(log) : log'[i] = log[i])
    BY <1>2, AppendStep
  <2>2. log \in Seq(Batch) /\ log' \in Seq(Batch) /\ Len(log) \in Nat
        /\ ChainContinuous /\ ChainContinuous'
    BY <2>1 DEF SeqInv, TypeOK
  <2>3. log'[Len(log) + 1].pre = IF log = <<>> THEN ZeroRoot ELSE log[Len(log)].post
    <3>1. Len(log) + 1 \in DOMAIN log'
      BY <2>1, <2>2
    <3>2. log'[Len(log) + 1].pre
            = IF Len(log) + 1 = 1 THEN ZeroRoot ELSE log'[(Len(log) + 1) - 1].post
      BY <2>2, <3>1 DEF ChainContinuous
    <3>3. CASE log = <<>>
      BY <3>2, <3>3
    <3>4. CASE log # <<>>
      <4>1. Len(log) \in 1 .. Len(log) /\ Len(log) + 1 # 1 /\ (Len(log) + 1) - 1 = Len(log)
        BY <2>2, <3>4
      <4>2. QED
        BY <3>2, <3>4, <4>1, <2>1
    <3>5. QED
      BY <3>3, <3>4
  <2>4. UNCHANGED proven
    BY <1>2 DEF AppendBatch
  <2>5. QED
    BY <2>1, <2>3, <2>4 DEF Chain!Extend, Chain!EndOfChain
<1>3. ASSUME NEW t \in Tasks, StoreProof(t)
      PROVE  Chain!Certify
  <2>1. \E id \in 1 .. Len(log) : proven' = proven \cup {id}
    BY <1>3, StoreProofStep
  <2>2. UNCHANGED log
    BY <1>3 DEF StoreProof
  <2>3. QED
    BY <2>1, <2>2 DEF Chain!Certify
<1>4. ASSUME NEW a \in Accounts, CreateAccount(a) \/ StoreKey(a)
      PROVE  UNCHANGED <<log, proven>>
  BY <1>4 DEF CreateAccount, StoreKey, daVars
<1>5. ASSUME NEW h \in Handlers,
             (\E t \in Txs : Accept(h, t)) \/ SubmitStep(h) \/ NothingToDrain(h)
      PROVE  UNCHANGED <<log, proven>>
  BY <1>5 DEF SubmitStep, Accept, Execute, RejectTx, Push, CheckSize, NothingToDrain, daVars
<1>6. ASSUME NEW t \in Tasks,
             \/ Drain(t) \/ ReadPostRoot(t) \/ ReadPreRoot(t) \/ Prove(t) \/ FailBatch(t)
             \/ Disconnect(t)
      PROVE  UNCHANGED <<log, proven>>
  BY <1>6 DEF Drain, ReadPostRoot, ReadPreRoot, Prove, FailBatch, Disconnect, daVars
<1>7. ASSUME Restart \/ UNCHANGED vars
      PROVE  UNCHANGED <<log, proven>>
  BY <1>7 DEF Restart, vars, daVars
<1>8. \/ UNCHANGED <<log, proven>>
      \/ \E t \in Tasks : AppendBatch(t) \/ StoreProof(t)
  BY <1>4, <1>5, <1>6, <1>7 DEF Next, BatchStep
<1>9. CASE \E t \in Tasks : AppendBatch(t) \/ StoreProof(t)
  BY <1>2, <1>3, <1>9 DEF Chain!ChainNext
<1>10. QED
  BY <1>1, <1>8, <1>9

\* What a reader of the log may rely on: an append-only chain of non-empty
\* batches with proofs only for batches of the chain, whatever happens.
THEOREM SequencerImplementsBatchChain == Spec => ImplementsBatchChain
<1>1. Init => Chain!ChainInit
  BY DEF Init, Chain!ChainInit
<1>2. SeqInv /\ [Next]_vars => [Chain!ChainNext]_Chain!chainVars
  BY ChainStep
<1>3. QED
  BY <1>1, <1>2, SeqInvAlways, PTL DEF Spec, ImplementsBatchChain, Chain!ChainSpec

-----------------------------------------------------------------------------
(* The log moves forward through the history of the state *)

\* Appending to a sequence keeps its prefixes.
LEMMA PrefixAppend ==
    ASSUME NEW S, NEW s \in Seq(S), NEW r \in Seq(S), NEW x \in S, IsPrefix(r, s)
    PROVE  IsPrefix(r, Append(s, x))
BY DEF IsPrefix

\* The prefix order is reflexive.
LEMMA PrefixReflexive ==
    ASSUME NEW S, NEW s \in Seq(S)
    PROVE  IsPrefix(s, s)
BY DEF IsPrefix

\* RootsAdvance, with what makes it inductive: every root of the log is a
\* history of the state.
AdvanceInv ==
    restarts = 0 =>
        /\ \A i \in DOMAIN log : log[i].post \in Seq(Changes) /\ IsPrefix(log[i].post, root)
        /\ \A i, j \in DOMAIN log : i < j => IsPrefix(log[i].post, log[j].post)

\* Every step keeps the roots of the log prefixes of one another and of the
\* state's history.
LEMMA AdvanceStep ==
    ASSUME SeqInv, AdvanceInv, [Next]_vars
    PROVE  AdvanceInv'
<1>0. TypeOK /\ root \in Seq(Changes)
  BY DEF SeqInv, TypeOK
<1>1. ASSUME UNCHANGED log, restarts' = restarts,
             root' = root \/ \E x \in Changes : root' = Append(root, x)
      PROVE  AdvanceInv'
  <2>1. ASSUME NEW i \in DOMAIN log, restarts = 0
        PROVE  log[i].post \in Seq(Changes) /\ IsPrefix(log[i].post, root')
    <3>1. log[i].post \in Seq(Changes) /\ IsPrefix(log[i].post, root)
      BY <2>1 DEF AdvanceInv
    <3>2. QED
      BY <3>1, <1>0, <1>1, PrefixAppend
  <2>2. QED
    BY <1>1, <2>1 DEF AdvanceInv
<1>2. ASSUME NEW t \in Tasks, AppendBatch(t)
      PROVE  AdvanceInv'
  <2>1. Len(log') = Len(log) + 1 /\ \A i \in 1 .. Len(log) : log'[i] = log[i]
    BY <1>2, AppendStep
  <2>2. pc[t] = "based" /\ root' = root /\ restarts' = restarts
        /\ log' = Append(log, [txs |-> batch[t].txs, pre |-> batch[t].pre, post |-> batch[t].post])
    BY <1>2 DEF AppendBatch, stateVars
  <2>3. batch[t].post = root
    BY <2>2 DEF SeqInv, PostRootCurrent
  <2>4. log \in Seq(Batch) /\ Len(log) \in Nat /\ log'[Len(log) + 1].post = root
        /\ DOMAIN log = 1 .. Len(log) /\ DOMAIN log' = 1 .. Len(log) + 1
    <3>1. log \in Seq(Batch)
      BY <1>0 DEF TypeOK
    <3>2. QED
      BY <3>1, <2>2, <2>3
  <2>5. IsPrefix(root, root)
    BY <1>0, PrefixReflexive
  <2>6. ASSUME restarts = 0, NEW i \in DOMAIN log'
        PROVE  log'[i].post \in Seq(Changes) /\ IsPrefix(log'[i].post, root)
    <3>1. CASE i \in DOMAIN log
      BY <3>1, <2>1, <2>4, <2>6 DEF AdvanceInv
    <3>2. CASE i = Len(log) + 1
      BY <3>2, <2>4, <2>5, <1>0
    <3>3. QED
      BY <3>1, <3>2, <2>4
  <2>7. ASSUME restarts = 0, NEW i \in DOMAIN log', NEW j \in DOMAIN log', i < j
        PROVE  IsPrefix(log'[i].post, log'[j].post)
    <3>1. i \in DOMAIN log
      BY <2>4, <2>7
    <3>2. CASE j \in DOMAIN log
      BY <3>1, <3>2, <2>1, <2>4, <2>7 DEF AdvanceInv
    <3>3. CASE j = Len(log) + 1
      BY <3>1, <3>3, <2>4, <2>6, <2>7
    <3>4. QED
      BY <3>2, <3>3, <2>4
  <2>8. QED
    BY <2>2, <2>6, <2>7 DEF AdvanceInv
<1>3. CASE Restart
  <2>1. restarts' = restarts + 1 /\ restarts \in Nat
    BY <1>3, <1>0, BoundsAssumption DEF Restart, TypeOK
  <2>2. QED
    BY <2>1 DEF AdvanceInv
<1>4. ASSUME NEW a \in Accounts, CreateAccount(a) \/ StoreKey(a)
      PROVE  AdvanceInv'
  <2>1. Registration(a) \in Changes
    BY DEF Changes
  <2>2. QED
    BY <1>1, <1>4, <2>1 DEF CreateAccount, StoreKey, daVars, stateVars
<1>5. ASSUME NEW h \in Handlers,
             (\E t \in Txs : Accept(h, t)) \/ SubmitStep(h) \/ NothingToDrain(h)
      PROVE  AdvanceInv'
  <2>1. CASE Execute(h)
    <3>1. /\ tx[h] \in Changes /\ UNCHANGED <<log, restarts>>
          /\ root' = root \/ root' = Append(root, tx[h])
      BY <2>1, <1>0 DEF Execute, TypeOK, Changes, daVars
    <3>2. QED
      BY <1>1, <3>1
  <2>2. CASE (\E t \in Txs : Accept(h, t)) \/ RejectTx(h) \/ Push(h) \/ CheckSize(h)
               \/ NothingToDrain(h)
    BY <1>1, <2>2 DEF Accept, RejectTx, Push, CheckSize, NothingToDrain, daVars, stateVars
  <2>3. QED
    BY <1>5, <2>1, <2>2 DEF SubmitStep
<1>6. ASSUME NEW t \in Tasks, \/ Drain(t) \/ ReadPostRoot(t) \/ ReadPreRoot(t) \/ Prove(t)
                              \/ FailBatch(t) \/ StoreProof(t) \/ Disconnect(t)
      PROVE  AdvanceInv'
  <2>1. log' = log /\ restarts' = restarts /\ root' = root
    BY <1>6 DEF Drain, ReadPostRoot, ReadPreRoot, Prove, FailBatch, StoreProof, Disconnect,
                daVars, stateVars
  <2>2. QED
    BY <1>1, <2>1
<1>7. CASE UNCHANGED vars
  BY <1>1, <1>7 DEF vars
<1>8. QED
  BY <1>2, <1>3, <1>4, <1>5, <1>6, <1>7 DEF Next, BatchStep

\* In the life of one process the log only moves forward through the history
\* of the state, however batchers overtake each other.
THEOREM RootsAlwaysAdvance == Spec => []RootsAdvance
<1>1. Init => AdvanceInv
  BY DEF Init, AdvanceInv
<1>2. SeqInv /\ AdvanceInv /\ [Next]_vars => AdvanceInv'
  BY AdvanceStep
<1>3. AdvanceInv => RootsAdvance
  BY DEF AdvanceInv, RootsAdvance
<1>4. QED
  BY <1>1, <1>2, <1>3, SeqInvAlways, PTL DEF Spec

-----------------------------------------------------------------------------
(* Why a batch is refused *)

\* The tasks that have read the pre-root keep it until the batch is appended or
\* refused, and only ReadPreRoot brings a task there.
LEMMA BasedStep ==
    ASSUME SeqInv, [Next]_vars, NEW u \in Tasks, pc'[u] = "based",
           \A t \in Tasks : ~AppendBatch(t)
    PROVE  /\ UNCHANGED <<log, current_state_root>>
           /\ \/ pc[u] = "based" /\ batch'[u].pre = batch[u].pre
              \/ batch'[u].pre = PreRoot
<1>0. TypeOK /\ Handlers \subseteq Tasks
  BY DEF SeqInv, Tasks
<1>1. ASSUME NEW a \in Accounts, CreateAccount(a) \/ StoreKey(a)
      PROVE  UNCHANGED <<log, current_state_root, pc, batch>>
  BY <1>1 DEF CreateAccount, StoreKey, daVars
<1>2. ASSUME NEW h \in Handlers, (\E t \in Txs : Accept(h, t)) \/ SubmitStep(h) \/ NothingToDrain(h)
      PROVE  /\ UNCHANGED <<log, current_state_root, batch>>
             /\ \E p \in PCs \ {"based"} : pc' = [pc EXCEPT ![h] = p]
  BY <1>2 DEF Accept, SubmitStep, Execute, RejectTx, Push, CheckSize, NothingToDrain,
              daVars, PCs
<1>3. ASSUME NEW t \in Tasks, Drain(t) \/ BatchStep(t) \/ Disconnect(t)
      PROVE  /\ UNCHANGED <<log, current_state_root>>
             /\ t = u => batch'[u].pre = PreRoot
             /\ t # u => pc'[u] = pc[u] /\ batch'[u] = batch[u]
  <2>1. CASE ReadPreRoot(t)
    <3>1. batch[t] \in [txs : Seq(Txs), pre : Roots, post : Roots, id : Nat]
      BY <1>0, BatchType
    <3>2. batch'[t].pre = PreRoot
      BY <1>0, <2>1, <3>1 DEF ReadPreRoot, TypeOK
    <3>3. QED
      BY <1>0, <2>1, <3>2 DEF ReadPreRoot, TypeOK, daVars
  <2>2. CASE \/ Drain(t) \/ ReadPostRoot(t) \/ FailBatch(t) \/ Prove(t) \/ StoreProof(t)
             \/ Disconnect(t)
    <3>1. AfterBatch(t) # "based"
      BY NoBatchType
    <3>2. \E p \in {"drained", "rooted", "store", AfterBatch(t)} : pc' = [pc EXCEPT ![t] = p]
      BY <2>2 DEF Drain, ReadPostRoot, FailBatch, Prove, StoreProof, Disconnect
    <3>3. t # u
      BY <1>0, <3>1, <3>2 DEF TypeOK
    <3>4. pc'[u] = pc[u]
      BY <1>0, <3>2, <3>3 DEF TypeOK
    <3>5. batch'[u] = batch[u]
      BY <1>0, <2>2, <3>3 DEF Drain, ReadPostRoot, FailBatch, Prove, StoreProof, Disconnect, TypeOK
    <3>6. UNCHANGED <<log, current_state_root>>
      BY <2>2 DEF Drain, ReadPostRoot, FailBatch, Prove, StoreProof, Disconnect, daVars
    <3>7. QED
      BY <3>3, <3>4, <3>5, <3>6
  <2>3. QED
    BY <1>3, <2>1, <2>2 DEF BatchStep
<1>4. CASE Restart
  <2>1. pc'[u] # "based"
    BY <1>4 DEF Restart
  <2>2. QED
    BY <2>1
<1>5. CASE UNCHANGED vars
  BY <1>5 DEF vars
<1>6. ASSUME NEW h \in Handlers, UNCHANGED batch, NEW p \in PCs \ {"based"},
             pc' = [pc EXCEPT ![h] = p]
      PROVE  pc[u] = "based" /\ batch'[u].pre = batch[u].pre
  BY <1>0, <1>6 DEF TypeOK
<1>7. QED
  BY <1>1, <1>2, <1>3, <1>4, <1>5, <1>6 DEF Next

\* A batch that is appended leaves every other task that holds the same pre-root
\* with a batch of the log that starts there.
LEMMA OvertakenStep == SeqInv /\ RefusedIfOvertaken /\ [Next]_vars => RefusedIfOvertaken'
<1> SUFFICES ASSUME SeqInv, RefusedIfOvertaken, [Next]_vars,
                    NEW u \in Tasks, pc'[u] = "based", ~Continues(batch[u].pre)'
             PROVE  \E i \in DOMAIN log' : log'[i].pre = batch'[u].pre
  BY DEF RefusedIfOvertaken
<1>1. CASE \A t \in Tasks : ~AppendBatch(t)
  <2>1. /\ UNCHANGED <<log, current_state_root>>
        /\ \/ pc[u] = "based" /\ batch'[u].pre = batch[u].pre
           \/ batch'[u].pre = PreRoot
    BY <1>1, BasedStep
  <2>2. batch'[u].pre # PreRoot
    BY <2>1 DEF Continues, PreRoot
  <2>3. QED
    BY <2>1, <2>2 DEF RefusedIfOvertaken, Continues
<1>2. ASSUME NEW t \in Tasks, AppendBatch(t)
      PROVE  \E i \in DOMAIN log' : log'[i].pre = batch'[u].pre
  <2>0. TypeOK
    BY DEF SeqInv
  <2>1. /\ t # u /\ pc[u] = "based" /\ batch'[u] = batch[u]
        /\ Continues(batch[t].pre) /\ pc[t] = "based"
        /\ log' = Append(log, [txs |-> batch[t].txs, pre |-> batch[t].pre, post |-> batch[t].post])
    BY <1>2, <2>0 DEF AppendBatch, TypeOK
  <2>2. /\ \A i \in DOMAIN log : i \in DOMAIN log' /\ log'[i] = log[i]
        /\ Len(log) + 1 \in DOMAIN log'
        /\ log'[Len(log) + 1].pre = batch[t].pre
    <3>1. [txs |-> batch[t].txs, pre |-> batch[t].pre, post |-> batch[t].post] \in Batch
      BY <2>0, BatchType DEF Batch
    <3>2. QED
      BY <2>0, <2>1, <3>1 DEF TypeOK
  <2>3. CASE Continues(batch[u].pre)
    <3>1. batch[u].pre = batch[t].pre
      BY <2>1, <2>3 DEF Continues, SeqInv, LocalsOK
    <3>2. QED
      BY <2>1, <2>2, <3>1
  <2>4. CASE ~Continues(batch[u].pre)
    <3>1. PICK i \in DOMAIN log : log[i].pre = batch[u].pre
      BY <2>1, <2>4 DEF RefusedIfOvertaken
    <3>2. QED
      BY <2>1, <2>2, <3>1
  <2>5. QED
    BY <2>3, <2>4
<1>3. QED
  BY <1>1, <1>2

\* process_batch loses a batch only to another batch: when append_batch refuses
\* its pre-root, the log has a batch from that pre-root already.
THEOREM OnlyOvertakenRefused == Spec => []RefusedIfOvertaken
<1>1. Init => RefusedIfOvertaken
  BY DEF Init, RefusedIfOvertaken
<1>2. SeqInv /\ RefusedIfOvertaken /\ [Next]_vars => RefusedIfOvertaken'
  BY OvertakenStep
<1>3. QED
  BY <1>1, <1>2, SeqInvAlways, PTL DEF Spec

-----------------------------------------------------------------------------
(* Counting transactions *)

\* The places of t in a sequence are finitely many.
LEMMA OccurrencesIsNat ==
    ASSUME NEW S, NEW s \in Seq(S), NEW t
    PROVE  IsFiniteSet({i \in DOMAIN s : s[i] = t}) /\ Occurrences(s, t) \in Nat
<1>1. DOMAIN s = 1 .. Len(s) /\ IsFiniteSet(1 .. Len(s))
  BY IntervalIsFinite
<1>2. IsFiniteSet({i \in DOMAIN s : s[i] = t})
  BY <1>1, FS_Subset
<1>3. QED
  BY <1>2, FS_CardinalityType DEF Occurrences

\* None in the empty sequence.
LEMMA OccurrencesOfNone == ASSUME NEW t PROVE Occurrences(<<>>, t) = 0
<1>1. {i \in DOMAIN <<>> : <<>>[i] = t} = {}
  OBVIOUS
<1>2. QED
  BY <1>1, FS_EmptySet DEF Occurrences

\* What is appended is counted.
LEMMA OccurrencesAppends ==
    ASSUME NEW S, NEW s \in Seq(S), NEW u \in S, NEW t
    PROVE  Occurrences(Append(s, u), t) = Occurrences(s, t) + (IF u = t THEN 1 ELSE 0)
<1>1. PICK A, B : /\ A = {i \in DOMAIN s : s[i] = t}
                  /\ B = {i \in DOMAIN Append(s, u) : Append(s, u)[i] = t}
  OBVIOUS
<1>2. IsFiniteSet(A) /\ Cardinality(A) \in Nat
  BY <1>1, OccurrencesIsNat, FS_CardinalityType
<1>3. /\ DOMAIN s = 1 .. Len(s) /\ Len(s) \in Nat
      /\ DOMAIN Append(s, u) = 1 .. Len(s) + 1 /\ Append(s, u)[Len(s) + 1] = u
      /\ \A i \in 1 .. Len(s) : Append(s, u)[i] = s[i]
  OBVIOUS
<1> Occurrences(s, t) = Cardinality(A) /\ Occurrences(Append(s, u), t) = Cardinality(B)
  BY <1>1 DEF Occurrences
<1>4. CASE u = t
  <2>1. B = A \cup {Len(s) + 1} /\ Len(s) + 1 \notin A
    BY <1>1, <1>3, <1>4
  <2>2. Cardinality(B) = Cardinality(A) + 1
    BY <1>2, <2>1, FS_AddElement
  <2>3. QED
    BY <1>4, <2>2
<1>5. CASE u # t
  <2>1. B = A
    BY <1>1, <1>3, <1>5
  <2>2. QED
    BY <1>2, <1>5, <2>1
<1>6. QED
  BY <1>4, <1>5

\* Two sequences one after the other have what each of them has.
LEMMA OccurrencesAdd ==
    ASSUME NEW S, NEW s \in Seq(S), NEW r \in Seq(S), NEW t
    PROVE  Occurrences(s \o r, t) = Occurrences(s, t) + Occurrences(r, t)
<1>1. PICK A, B, C, D : /\ A = {i \in DOMAIN s : s[i] = t}
                     /\ B = {i \in DOMAIN r : r[i] = t}
                     /\ C = {i \in DOMAIN (s \o r) : (s \o r)[i] = t}
                     /\ D = {i \in C : i > Len(s)}
  OBVIOUS
<1>2. /\ DOMAIN s = 1 .. Len(s) /\ Len(s) \in Nat /\ DOMAIN r = 1 .. Len(r) /\ Len(r) \in Nat
      /\ DOMAIN (s \o r) = 1 .. Len(s) + Len(r)
      /\ \A i \in 1 .. Len(s) : (s \o r)[i] = s[i]
      /\ \A i \in 1 .. Len(r) : (s \o r)[Len(s) + i] = r[i]
  OBVIOUS
<1>3. IsFiniteSet(A) /\ IsFiniteSet(B) /\ Cardinality(A) \in Nat /\ Cardinality(B) \in Nat
  BY <1>1, OccurrencesIsNat, FS_CardinalityType
<1>4. C = A \cup D /\ A \cap D = {}
  BY <1>1, <1>2
<1> DEFINE shift == [i \in B |-> Len(s) + i]
<1>5. shift \in Bijection(B, D)
  <2>1. \A i \in B : shift[i] \in D
    BY <1>1, <1>2
  <2>2. \A i, j \in B : shift[i] = shift[j] => i = j
    BY <1>1, <1>2
  <2>3. \A k \in D : \E i \in B : shift[i] = k
    <3> TAKE k \in D
    <3>1. k - Len(s) \in 1 .. Len(r) /\ Len(s) + (k - Len(s)) = k
      BY <1>1, <1>2
    <3>2. k - Len(s) \in B
      BY <1>1, <1>2, <3>1
    <3>3. QED
      BY <3>1, <3>2
  <2>4. QED
    BY <2>1, <2>2, <2>3 DEF Bijection, Injection, Surjection, IsInjective
<1>6. IsFiniteSet(D) /\ Cardinality(D) = Cardinality(B)
  BY <1>3, <1>5, FS_Bijection DEF ExistsBijection
<1>7. Cardinality(A \cup D) = Cardinality(A) + Cardinality(D) - Cardinality(A \cap D)
  BY <1>3, <1>6, FS_Union
<1>8. Cardinality(A \cap D) = 0
  BY <1>4, FS_EmptySet
<1>9. /\ Occurrences(s, t) = Cardinality(A) /\ Occurrences(r, t) = Cardinality(B)
      /\ Occurrences(s \o r, t) = Cardinality(C)
  BY <1>1 DEF Occurrences
<1>10. Cardinality(C) = Cardinality(A) + Cardinality(B)
  BY <1>3, <1>4, <1>6, <1>7, <1>8
<1>11. QED
  BY <1>9, <1>10

-----------------------------------------------------------------------------
(* Transactions on their way into the log *)

\* How often task b holds t, drained and not in the log yet.
HeldBy(b, t) == IF InHand(b) THEN Occurrences(batch[b].txs, t) ELSE 0

\* The property for one transaction, and with it the invariant.
Conserved(t) ==
    executed[t] =
        InHandlers(t) + Occurrences(pending, t) + InBatchers(t) + InLog(t)
      + Occurrences(dropped, t)

TxsInv == SeqInv /\ TxsConserved

LEMMA ConservedIs == TxsConserved <=> (restarts = 0 => \A t \in Txs : Conserved(t))
  BY DEF TxsConserved, Conserved

LEMMA TasksAreFinite == IsFiniteSet(Tasks) /\ IsFiniteSet(Handlers)
<1>1. IsFiniteSet((Handlers \cup Triggers) \cup {Timer})
  BY TasksAssumption, FS_AddElement
<1>2. Tasks = (Handlers \cup Triggers) \cup {Timer}
  BY DEF Tasks
<1>3. IsFiniteSet(Tasks)
  BY <1>1, <1>2
<1>4. Handlers \in SUBSET Tasks
  BY DEF Tasks
<1>5. QED
  BY <1>3, <1>4, FS_Subset

\* Every count is a natural number.
LEMMA CountsAreNat ==
    ASSUME TypeOK, NEW t
    PROVE  /\ t \in Txs => executed[t] \in Nat
           /\ Occurrences(pending, t) \in Nat
           /\ Occurrences(dropped, t) \in Nat /\ InHandlers(t) \in Nat
           /\ InBatchers(t) \in Nat /\ InLog(t) \in Nat
           /\ \A b \in Tasks : HeldBy(b, t) \in Nat /\ Occurrences(batch[b].txs, t) \in Nat
           /\ \A i \in DOMAIN log : Occurrences(log[i].txs, t) \in Nat
<1>1. /\ t \in Txs => executed[t] \in Nat
      /\ Occurrences(pending, t) \in Nat /\ Occurrences(dropped, t) \in Nat
  BY OccurrencesIsNat DEF TypeOK
<1>2. \A b \in Tasks : HeldBy(b, t) \in Nat /\ Occurrences(batch[b].txs, t) \in Nat
  <2> TAKE b \in Tasks
  <2>1. batch[b].txs \in Seq(Txs)
    BY BatchType
  <2>2. Occurrences(batch[b].txs, t) \in Nat
    BY <2>1, OccurrencesIsNat
  <2>3. QED
    BY <2>2 DEF HeldBy
<1>3. \A i \in DOMAIN log : Occurrences(log[i].txs, t) \in Nat
  <2> TAKE i \in DOMAIN log
  <2>1. log[i] \in Batch
    BY DEF TypeOK
  <2>2. log[i].txs \in Seq(Txs)
    BY <2>1 DEF Batch
  <2>3. QED
    BY <2>2, OccurrencesIsNat
<1>4. InHandlers(t) \in Nat
  <2>1. IsFiniteSet({h \in Handlers : pc[h] = "executed" /\ tx[h] = t})
    BY TasksAreFinite, FS_Subset
  <2>2. QED
    BY <2>1, FS_CardinalityType DEF InHandlers
<1>5. InBatchers(t) \in Nat
  <2> DEFINE f == [b \in Tasks |-> HeldBy(b, t)]
  <2>1. \A b \in Tasks : f[b] \in Nat
    BY <1>2
  <2>2. DOMAIN f = Tasks /\ InBatchers(t) = SumFunction(f)
    BY DEF InBatchers, HeldBy
  <2> HIDE DEF f
  <2>3. QED
    BY <2>1, <2>2, TasksAreFinite, SumIsNat DEF SumFunction
<1>6. InLog(t) \in Nat
  <2> DEFINE f == [i \in DOMAIN log |-> Occurrences(log[i].txs, t)]
  <2>1. \A i \in DOMAIN log : f[i] \in Nat
    BY <1>3
  <2>2. DOMAIN f = DOMAIN log /\ InLog(t) = SumFunction(f)
    BY DEF InLog
  <2>3. IsFiniteSet(DOMAIN log)
    <3>1. DOMAIN log = 1 .. Len(log) /\ Len(log) \in Nat
      BY DEF TypeOK
    <3>2. QED
      BY <3>1, IntervalIsFinite
  <2> HIDE DEF f
  <2>4. QED
    BY <2>1, <2>2, <2>3, SumIsNat DEF SumFunction
<1>7. QED
  BY <1>1, <1>2, <1>3, <1>4, <1>5, <1>6

\* What a step leaves alone: the handlers' transactions, the batchers', the log.
LEMMA HandlersKeep ==
    ASSUME NEW t, \A h \in Handlers : (pc[h] = "executed" /\ tx[h] = t) <=>
                                      (pc'[h] = "executed" /\ tx'[h] = t)
    PROVE  InHandlers(t)' = InHandlers(t)
<1>1. {h \in Handlers : pc[h] = "executed" /\ tx[h] = t} =
      {h \in Handlers : pc'[h] = "executed" /\ tx'[h] = t}
  OBVIOUS
<1>2. QED
  BY <1>1 DEF InHandlers

LEMMA BatchersKeep ==
    ASSUME NEW t, \A b \in Tasks : HeldBy(b, t)' = HeldBy(b, t)
    PROVE  InBatchers(t)' = InBatchers(t)
<1>1. [b \in Tasks |-> HeldBy(b, t)'] = [b \in Tasks |-> HeldBy(b, t)]
  OBVIOUS
<1>2. /\ InBatchers(t) = SumFunction([b \in Tasks |-> HeldBy(b, t)])
      /\ InBatchers(t)' = SumFunction([b \in Tasks |-> HeldBy(b, t)'])
  BY DEF InBatchers, HeldBy
<1>3. QED
  BY <1>1, <1>2

LEMMA LogKeeps ==
    ASSUME NEW t, UNCHANGED log PROVE InLog(t)' = InLog(t)
  BY DEF InLog

\* A handler that gets, or gives away, t once it has executed it.
LEMMA HandlersGain ==
    ASSUME TypeOK, NEW t, NEW h \in Handlers, tx[h] = t, tx'[h] = t, pc[h] # "executed",
           pc'[h] = "executed", \A g \in Handlers \ {h} : pc'[g] = pc[g] /\ tx'[g] = tx[g]
    PROVE  InHandlers(t)' = InHandlers(t) + 1
<1>1. PICK A, B : /\ A = {g \in Handlers : pc[g] = "executed" /\ tx[g] = t}
                  /\ B = {g \in Handlers : pc'[g] = "executed" /\ tx'[g] = t}
  OBVIOUS
<1>2. B = A \cup {h} /\ h \notin A
  BY <1>1
<1>3. IsFiniteSet(A)
  BY <1>1, TasksAreFinite, FS_Subset
<1>4. Cardinality(B) = Cardinality(A) + 1
  BY <1>2, <1>3, FS_AddElement
<1>5. InHandlers(t) = Cardinality(A) /\ InHandlers(t)' = Cardinality(B)
  BY <1>1 DEF InHandlers
<1>6. QED
  BY <1>4, <1>5

LEMMA HandlersLose ==
    ASSUME TypeOK, NEW t, NEW h \in Handlers, tx[h] = t, pc[h] = "executed",
           pc'[h] # "executed", \A g \in Handlers \ {h} : pc'[g] = pc[g] /\ tx'[g] = tx[g]
    PROVE  InHandlers(t) = InHandlers(t)' + 1
<1>1. PICK A, B : /\ A = {g \in Handlers : pc[g] = "executed" /\ tx[g] = t}
                  /\ B = {g \in Handlers : pc'[g] = "executed" /\ tx'[g] = t}
  OBVIOUS
<1>2. A = B \cup {h} /\ h \notin B
  BY <1>1
<1>3. IsFiniteSet(B)
  BY <1>1, TasksAreFinite, FS_Subset
<1>4. Cardinality(A) = Cardinality(B) + 1
  BY <1>2, <1>3, FS_AddElement
<1>5. InHandlers(t) = Cardinality(A) /\ InHandlers(t)' = Cardinality(B)
  BY <1>1 DEF InHandlers
<1>6. QED
  BY <1>4, <1>5

\* One batcher's holdings change: so does what all of them hold.
LEMMA BatchersChange ==
    ASSUME TypeOK, TypeOK', NEW t, NEW c \in Tasks,
           \A b \in Tasks \ {c} : pc'[b] = pc[b] /\ batch'[b] = batch[b]
    PROVE  InBatchers(t)' + HeldBy(c, t) = InBatchers(t) + HeldBy(c, t)'
<1> DEFINE f == [b \in Tasks |-> HeldBy(b, t)]
           g == [b \in Tasks |-> HeldBy(b, t)']
<1>1. \A b \in Tasks : f[b] \in Nat /\ g[b] \in Nat
  <2>1. \A b \in Tasks : HeldBy(b, t) \in Nat
    BY CountsAreNat
  <2>2. \A b \in Tasks : HeldBy(b, t)' \in Nat
    <3>1. \A b \in Tasks : Occurrences(batch'[b].txs, t) \in Nat
      <4> TAKE b \in Tasks
      <4>1. batch'[b].txs \in Seq(Txs)
        <5>1. batch'[b] \in [txs : Seq(Txs), pre : Roots, post : Roots, id : Nat]
          BY DEF TypeOK
        <5>2. QED
          BY <5>1
      <4>2. QED
        BY <4>1, OccurrencesIsNat
    <3>2. QED
      BY <3>1 DEF HeldBy, Occurrences
  <2>3. QED
    BY <2>1, <2>2
<1>2. \A b \in Tasks \ {c} : g[b] = f[b]
  BY DEF HeldBy, InHand, Occurrences
<1>3. /\ InBatchers(t) = SumFunctionOnSet(f, Tasks)
      /\ InBatchers(t)' = SumFunctionOnSet(g, Tasks)
  BY DEF InBatchers, HeldBy, SumFunction
<1>4. f[c] = HeldBy(c, t) /\ g[c] = HeldBy(c, t)'
  OBVIOUS
<1> HIDE DEF f, g
<1>5. SumFunctionOnSet(g, Tasks) + f[c] = SumFunctionOnSet(f, Tasks) + g[c]
  BY <1>1, <1>2, TasksAreFinite, SumChanges
<1>6. QED
  BY <1>3, <1>4, <1>5

\* A batch that joins the log brings its transactions.
LEMMA LogGains ==
    ASSUME TypeOK, NEW t, NEW b \in Batch, log' = Append(log, b)
    PROVE  InLog(t)' = InLog(t) + Occurrences(b.txs, t)
<1> DEFINE f == [i \in DOMAIN log |-> Occurrences(log[i].txs, t)]
           g == [i \in DOMAIN log' |-> Occurrences(log'[i].txs, t)]
           n == Len(log) + 1
<1>1. log \in Seq(Batch)
  BY DEF TypeOK
<1>2. /\ DOMAIN log = 1 .. Len(log) /\ Len(log) \in Nat
      /\ DOMAIN log' = DOMAIN log \cup {n} /\ n \notin DOMAIN log
      /\ log'[n] = b /\ \A i \in DOMAIN log : log'[i] = log[i]
  BY <1>1
<1>3. \A i \in DOMAIN log : f[i] \in Nat /\ g[i] = f[i]
  BY <1>2, CountsAreNat
<1>4. b.txs \in Seq(Txs)
  BY DEF Batch
<1>5. g[n] = Occurrences(b.txs, t) /\ g[n] \in Nat
  BY <1>2, <1>4, OccurrencesIsNat
<1>6. IsFiniteSet(DOMAIN log)
  BY <1>2, IntervalIsFinite
<1>7. DOMAIN f = DOMAIN log /\ DOMAIN g = DOMAIN log'
  OBVIOUS
<1>8. InLog(t) = SumFunction(f) /\ InLog(t)' = SumFunction(g)
  BY DEF InLog, Occurrences
<1> HIDE DEF f, g, n
<1>9. SumFunctionOnSet(g, DOMAIN log \cup {n}) = SumFunctionOnSet(f, DOMAIN log) + g[n]
  <2>1. PICK S, F, G, x : S = DOMAIN log /\ F = f /\ G = g /\ x = n
    OBVIOUS
  <2>2. IsFiniteSet(S) /\ x \notin S
    BY <1>2, <1>6, <2>1
  <2>3. G[x] \in Nat /\ \A y \in S : F[y] \in Nat /\ G[y] = F[y]
    BY <1>3, <1>5, <2>1
  <2>4. SumFunctionOnSet(G, S \cup {x}) = SumFunctionOnSet(F, S) + G[x]
    BY <2>2, <2>3, SumAppends
  <2>5. QED
    BY <2>1, <2>4
<1>10. QED
  BY <1>2, <1>5, <1>7, <1>8, <1>9 DEF SumFunction

\* A registration is not a transaction.
LEMMA RegistersConserve ==
    ASSUME TypeOK, NEW a \in Accounts, CreateAccount(a) \/ StoreKey(a), NEW t \in Txs,
           Conserved(t)
    PROVE  Conserved(t)'
<1>1. UNCHANGED <<executed, pending, log, pc, tx, batch, dropped>>
  BY DEF CreateAccount, StoreKey, stateVars, daVars
<1>2. /\ InHandlers(t)' = InHandlers(t) /\ InBatchers(t)' = InBatchers(t)
      /\ InLog(t)' = InLog(t)
  BY <1>1 DEF InHandlers, InBatchers, InLog, InHand
<1>3. QED
  BY <1>1, <1>2 DEF Conserved, Occurrences

\* execute_transaction gives the change it makes to its handler.
LEMMA ExecuteConserves ==
    ASSUME TypeOK, NEW h \in Handlers, Execute(h), NEW t \in Txs, Conserved(t)
    PROVE  Conserved(t)'
<1>1. /\ pc[h] = "accepted" /\ pc' = [pc EXCEPT ![h] = "executed"]
      /\ executed' = [executed EXCEPT ![tx[h]] = @ + 1]
      /\ UNCHANGED <<pending, log, tx, batch, dropped>>
  BY DEF Execute, daVars
<1>2. h \in Tasks /\ Handlers \subseteq Tasks /\ tx[h] \in Txs
  BY <1>1 DEF TypeOK, Tasks
<1>3. pc'[h] = "executed" /\ \A b \in Tasks \ {h} : pc'[b] = pc[b]
  BY <1>1, <1>2 DEF TypeOK
<1>4. executed'[t] = executed[t] + (IF tx[h] = t THEN 1 ELSE 0)
  BY <1>1, <1>2, CountsAreNat DEF TypeOK
<1>5. InHandlers(t)' = InHandlers(t) + (IF tx[h] = t THEN 1 ELSE 0)
  <2>1. CASE tx[h] = t
    <3>1. tx'[h] = t /\ \A g \in Handlers \ {h} : pc'[g] = pc[g] /\ tx'[g] = tx[g]
      BY <1>1, <1>2, <1>3, <2>1
    <3>2. InHandlers(t)' = InHandlers(t) + 1
      BY <1>1, <1>3, <2>1, <3>1, HandlersGain
    <3>3. QED
      BY <2>1, <3>2
  <2>2. CASE tx[h] # t
    <3>1. \A g \in Handlers : (pc[g] = "executed" /\ tx[g] = t) <=>
                              (pc'[g] = "executed" /\ tx'[g] = t)
      BY <1>1, <1>2, <1>3, <2>2
    <3>2. InHandlers(t)' = InHandlers(t)
      BY <3>1, HandlersKeep
    <3>3. QED
      BY <2>2, <3>2, CountsAreNat
  <2>3. QED
    BY <2>1, <2>2
<1>6. InBatchers(t)' = InBatchers(t)
  <2>1. \A b \in Tasks : HeldBy(b, t)' = HeldBy(b, t)
    BY <1>1, <1>3 DEF HeldBy, InHand
  <2>2. QED
    BY <2>1, BatchersKeep
<1>7. InLog(t)' = InLog(t)
  BY <1>1, LogKeeps
<1>8. /\ Occurrences(pending', t) = Occurrences(pending, t)
      /\ Occurrences(dropped', t) = Occurrences(dropped, t)
  BY <1>1
<1>9. executed'[t] = InHandlers(t)' + Occurrences(pending', t) + InBatchers(t)'
                                + InLog(t)' + Occurrences(dropped', t)
  BY <1>4, <1>5, <1>6, <1>7, <1>8, CountsAreNat DEF Conserved
<1>10. QED
  BY <1>9 DEF Conserved, Occurrences

\* The handler gives it on to the mempool.
LEMMA PushConserves ==
    ASSUME TypeOK, NEW h \in Handlers, Push(h), NEW t \in Txs, Conserved(t)
    PROVE  Conserved(t)'
<1>1. /\ pc[h] = "executed" /\ pc' = [pc EXCEPT ![h] = "check"]
      /\ pending' = Append(pending, tx[h]) /\ tx' = [tx EXCEPT ![h] = NoTx]
      /\ UNCHANGED <<executed, log, batch, dropped>>
  BY DEF Push, daVars, stateVars
<1>2. /\ h \in Tasks /\ Handlers \subseteq Tasks /\ tx[h] \in Txs /\ pending \in Seq(Txs)
  BY <1>1 DEF TypeOK, Tasks
<1>3. /\ pc'[h] = "check" /\ tx'[h] = NoTx
      /\ \A b \in Tasks \ {h} : pc'[b] = pc[b]
      /\ \A b \in Handlers \ {h} : tx'[b] = tx[b]
  BY <1>1, <1>2 DEF TypeOK
<1>4. Occurrences(pending', t) = Occurrences(pending, t) + (IF tx[h] = t THEN 1 ELSE 0)
  BY <1>1, <1>2, OccurrencesAppends
<1>5. InHandlers(t) = InHandlers(t)' + (IF tx[h] = t THEN 1 ELSE 0)
  <2>1. CASE tx[h] = t
    <3>1. \A g \in Handlers \ {h} : pc'[g] = pc[g] /\ tx'[g] = tx[g]
      BY <1>2, <1>3
    <3>2. InHandlers(t) = InHandlers(t)' + 1
      BY <1>1, <1>3, <2>1, <3>1, HandlersLose
    <3>3. QED
      BY <2>1, <3>2
  <2>2. CASE tx[h] # t
    <3>1. \A g \in Handlers : (pc[g] = "executed" /\ tx[g] = t) <=>
                              (pc'[g] = "executed" /\ tx'[g] = t)
      BY <1>1, <1>2, <1>3, <2>2
    <3>2. InHandlers(t)' = InHandlers(t)
      BY <3>1, HandlersKeep
    <3>3. QED
      BY <2>2, <3>2, CountsAreNat
  <2>3. QED
    BY <2>1, <2>2
<1>6. InBatchers(t)' = InBatchers(t)
  <2>1. \A b \in Tasks : HeldBy(b, t)' = HeldBy(b, t)
    BY <1>1, <1>3 DEF HeldBy, InHand
  <2>2. QED
    BY <2>1, BatchersKeep
<1>7. InLog(t)' = InLog(t)
  BY <1>1, LogKeeps
<1>8. /\ executed'[t] = executed[t]
      /\ Occurrences(dropped', t) = Occurrences(dropped, t)
  BY <1>1
<1>9. PICK n \in Nat : n = InHandlers(t)'
  <2>1. IsFiniteSet({g \in Handlers : pc'[g] = "executed" /\ tx'[g] = t})
    BY TasksAreFinite, FS_Subset
  <2>2. QED
    BY <2>1, FS_CardinalityType DEF InHandlers
<1>10. executed'[t] = InHandlers(t)' + Occurrences(pending', t) + InBatchers(t)'
                                + InLog(t)' + Occurrences(dropped', t)
  BY <1>4, <1>5, <1>6, <1>7, <1>8, <1>9, CountsAreNat DEF Conserved
<1>11. QED
  BY <1>10 DEF Conserved, Occurrences

\* The steps of submit_transaction that move nothing.
LEMMA OthersConserve ==
    ASSUME TypeOK, NEW h \in Handlers,
           (\E u \in Txs : Accept(h, u)) \/ RejectTx(h) \/ CheckSize(h) \/ NothingToDrain(h),
           NEW t \in Txs, Conserved(t)
    PROVE  Conserved(t)'
<1>1. /\ UNCHANGED <<executed, pending, log, batch, dropped>>
      /\ pc[h] \in {"idle", "accepted", "check", "drain"}
      /\ \E p \in {"accepted", "done", "drain"} : pc' = [pc EXCEPT ![h] = p]
      /\ \E u : tx' = [tx EXCEPT ![h] = u] \/ tx' = tx
  BY DEF Accept, RejectTx, CheckSize, NothingToDrain, daVars, stateVars
<1>2. h \in Tasks /\ Handlers \subseteq Tasks
  BY DEF Tasks
<1>3. /\ pc'[h] \in {"accepted", "done", "drain"}
      /\ \A b \in Tasks \ {h} : pc'[b] = pc[b]
      /\ \A b \in Handlers \ {h} : tx'[b] = tx[b]
  BY <1>1, <1>2 DEF TypeOK
<1>4. InHandlers(t)' = InHandlers(t)
  <2>1. \A g \in Handlers : (pc[g] = "executed" /\ tx[g] = t) <=>
                            (pc'[g] = "executed" /\ tx'[g] = t)
    BY <1>1, <1>2, <1>3
  <2>2. QED
    BY <2>1, HandlersKeep
<1>5. InBatchers(t)' = InBatchers(t)
  <2>1. \A b \in Tasks : HeldBy(b, t)' = HeldBy(b, t)
    BY <1>1, <1>3 DEF HeldBy, InHand
  <2>2. QED
    BY <2>1, BatchersKeep
<1>6. InLog(t)' = InLog(t)
  BY <1>1, LogKeeps
<1>7. QED
  BY <1>1, <1>4, <1>5, <1>6 DEF Conserved, Occurrences

\* What the batchers hold after a step is a natural number too.
LEMMA BatchersAreNat ==
    ASSUME TypeOK', NEW t
    PROVE  InBatchers(t)' \in Nat
<1> DEFINE g == [b \in Tasks |-> HeldBy(b, t)']
<1>1. \A b \in Tasks : g[b] \in Nat
  <2> TAKE b \in Tasks
  <2>1. batch'[b] \in [txs : Seq(Txs), pre : Roots, post : Roots, id : Nat]
    BY DEF TypeOK
  <2>2. Occurrences(batch'[b].txs, t) \in Nat
    BY <2>1, OccurrencesIsNat
  <2>3. QED
    BY <2>2 DEF HeldBy, Occurrences
<1>2. InBatchers(t)' = SumFunctionOnSet(g, Tasks)
  BY DEF InBatchers, HeldBy, SumFunction
<1> HIDE DEF g
<1>3. QED
  BY <1>1, <1>2, TasksAreFinite, SumIsNat

\* A step of process_batch: the handlers keep what they have, and so do the other
\* batchers.
LEMMA BatchStepFrame ==
    ASSUME TypeOK, TypeOK', NEW c \in Tasks, NEW t,
           \A h \in Handlers \ {c} : tx'[h] = tx[h],
           pc[c] # "executed", pc'[c] # "executed",
           \A b \in Tasks \ {c} : pc'[b] = pc[b] /\ batch'[b] = batch[b]
    PROVE  /\ InHandlers(t)' = InHandlers(t)
           /\ InBatchers(t)' + HeldBy(c, t) = InBatchers(t) + HeldBy(c, t)'
           /\ InBatchers(t)' \in Nat
<1>1. Handlers \subseteq Tasks
  BY DEF Tasks
<1>2. \A g \in Handlers : (pc[g] = "executed" /\ tx[g] = t) <=>
                          (pc'[g] = "executed" /\ tx'[g] = t)
  BY <1>1
<1>3. InHandlers(t)' = InHandlers(t)
  BY <1>2, HandlersKeep
<1>4. InBatchers(t)' + HeldBy(c, t) = InBatchers(t) + HeldBy(c, t)'
  BY BatchersChange
<1>5. InBatchers(t)' \in Nat
  BY BatchersAreNat
<1>6. QED
  BY <1>3, <1>4, <1>5

\* The mempool as a whole becomes the batch of the task that drains it.
LEMMA DrainConserves ==
    ASSUME TypeOK, TypeOK', NEW c \in Tasks, Drain(c), NEW t \in Txs, Conserved(t)
    PROVE  Conserved(t)'
<1>1. /\ pc[c] \in {"drain", "idle"} /\ pc' = [pc EXCEPT ![c] = "drained"]
      /\ batch' = [batch EXCEPT ![c] = [NoBatch EXCEPT !.txs = pending]]
      /\ pending' = <<>> /\ UNCHANGED <<executed, log, tx, dropped>>
  BY DEF Drain, CanDrain, DrainedTxs, daVars, stateVars
<1>2. /\ pc'[c] = "drained" /\ batch'[c].txs = pending
      /\ \A b \in Tasks \ {c} : pc'[b] = pc[b] /\ batch'[b] = batch[b]
  BY <1>1 DEF TypeOK, NoBatch
<1>3. /\ InHandlers(t)' = InHandlers(t)
      /\ InBatchers(t)' + HeldBy(c, t) = InBatchers(t) + HeldBy(c, t)'
      /\ InBatchers(t)' \in Nat
  BY <1>1, <1>2, BatchStepFrame
<1>4. HeldBy(c, t) = 0 /\ HeldBy(c, t)' = Occurrences(pending, t)
  BY <1>1, <1>2 DEF HeldBy, InHand, Occurrences
<1>5. Occurrences(pending', t) = 0
  BY <1>1, OccurrencesOfNone
<1>6. InLog(t)' = InLog(t) /\ executed'[t] = executed[t]
      /\ Occurrences(dropped', t) = Occurrences(dropped, t)
  BY <1>1, LogKeeps
<1>7. executed'[t] = InHandlers(t)' + Occurrences(pending', t) + InBatchers(t)'
                                + InLog(t)' + Occurrences(dropped', t)
  BY <1>3, <1>4, <1>5, <1>6, CountsAreNat DEF Conserved
<1>8. QED
  BY <1>7 DEF Conserved, Occurrences

\* append_batch moves it into the log.
LEMMA AppendConserves ==
    ASSUME TypeOK, TypeOK', NEW c \in Tasks, AppendBatch(c), NEW t \in Txs, Conserved(t)
    PROVE  Conserved(t)'
<1> DEFINE e == [txs |-> batch[c].txs, pre |-> batch[c].pre, post |-> batch[c].post]
<1>1. /\ pc[c] = "based" /\ pc' = [pc EXCEPT ![c] = "prove"]
      /\ log' = Append(log, e)
      /\ \E n : batch' = [batch EXCEPT ![c].id = n]
      /\ UNCHANGED <<executed, pending, tx, dropped>>
  BY DEF AppendBatch, stateVars
<1>2. /\ pc'[c] = "prove"
      /\ \A b \in Tasks \ {c} : pc'[b] = pc[b] /\ batch'[b] = batch[b]
  BY <1>1 DEF TypeOK
<1>3. e \in Batch /\ e.txs = batch[c].txs
  BY BatchType DEF Batch
<1>4. /\ InHandlers(t)' = InHandlers(t)
      /\ InBatchers(t)' + HeldBy(c, t) = InBatchers(t) + HeldBy(c, t)'
      /\ InBatchers(t)' \in Nat
  BY <1>1, <1>2, BatchStepFrame
<1>5. HeldBy(c, t) = Occurrences(batch[c].txs, t) /\ HeldBy(c, t)' = 0
  BY <1>1, <1>2 DEF HeldBy, InHand
<1>6. InLog(t)' = InLog(t) + Occurrences(batch[c].txs, t)
  <2> HIDE DEF e
  <2>1. InLog(t)' = InLog(t) + Occurrences(e.txs, t)
    BY <1>1, <1>3, LogGains
  <2>2. QED
    BY <1>3, <2>1
<1>7. /\ executed'[t] = executed[t]
      /\ Occurrences(pending', t) = Occurrences(pending, t)
      /\ Occurrences(dropped', t) = Occurrences(dropped, t)
  BY <1>1
<1>8. executed'[t] = InHandlers(t)' + Occurrences(pending', t) + InBatchers(t)'
                                + InLog(t)' + Occurrences(dropped', t)
  BY <1>4, <1>5, <1>6, <1>7, CountsAreNat DEF Conserved
<1>9. QED
  BY <1>8 DEF Conserved, Occurrences

\* A batch that is refused is dropped as a whole.
LEMMA FailConserves ==
    ASSUME TypeOK, TypeOK', NEW c \in Tasks, FailBatch(c), NEW t \in Txs, Conserved(t)
    PROVE  Conserved(t)'
<1>1. /\ pc[c] = "based" /\ pc' = [pc EXCEPT ![c] = AfterBatch(c)]
      /\ dropped' = dropped \o batch[c].txs
      /\ batch' = [batch EXCEPT ![c] = NoBatch]
      /\ UNCHANGED <<executed, pending, log, tx>>
  BY DEF FailBatch, stateVars, daVars
<1>2. /\ pc'[c] \in {"done", "idle"}
      /\ \A b \in Tasks \ {c} : pc'[b] = pc[b] /\ batch'[b] = batch[b]
  BY <1>1, NoBatchType DEF TypeOK
<1>3. /\ InHandlers(t)' = InHandlers(t)
      /\ InBatchers(t)' + HeldBy(c, t) = InBatchers(t) + HeldBy(c, t)'
      /\ InBatchers(t)' \in Nat
  BY <1>1, <1>2, BatchStepFrame
<1>4. HeldBy(c, t) = Occurrences(batch[c].txs, t) /\ HeldBy(c, t)' = 0
  BY <1>1, <1>2 DEF HeldBy, InHand
<1>5. Occurrences(dropped', t) = Occurrences(dropped, t) + Occurrences(batch[c].txs, t)
  <2>1. dropped \in Seq(Txs) /\ batch[c].txs \in Seq(Txs)
    BY BatchType DEF TypeOK
  <2>2. QED
    BY <1>1, <2>1, OccurrencesAdd
<1>6. /\ InLog(t)' = InLog(t) /\ executed'[t] = executed[t]
      /\ Occurrences(pending', t) = Occurrences(pending, t)
  BY <1>1, LogKeeps
<1>7. executed'[t] = InHandlers(t)' + Occurrences(pending', t) + InBatchers(t)'
                                + InLog(t)' + Occurrences(dropped', t)
  BY <1>3, <1>4, <1>5, <1>6, CountsAreNat DEF Conserved
<1>8. QED
  BY <1>7 DEF Conserved, Occurrences

\* The other steps of process_batch move nothing.
LEMMA BatchersConserve ==
    ASSUME TypeOK, TypeOK', NEW c \in Tasks,
           ReadPostRoot(c) \/ ReadPreRoot(c) \/ Prove(c) \/ StoreProof(c),
           NEW t \in Txs, Conserved(t)
    PROVE  Conserved(t)'
<1>1. UNCHANGED <<executed, pending, log, tx, dropped>>
  BY DEF ReadPostRoot, ReadPreRoot, Prove, StoreProof, stateVars, daVars
<1>2. /\ pc[c] # "executed" /\ pc'[c] # "executed"
      /\ \A b \in Tasks \ {c} : pc'[b] = pc[b] /\ batch'[b] = batch[b]
      /\ HeldBy(c, t)' = HeldBy(c, t)
  <2>1. CASE ReadPostRoot(c) \/ ReadPreRoot(c)
    <3>1. /\ pc[c] \in {"drained", "rooted"}
          /\ \E p \in {"rooted", "based"} : pc' = [pc EXCEPT ![c] = p]
          /\ \E r : batch' = [batch EXCEPT ![c].post = r] \/ batch' = [batch EXCEPT ![c].pre = r]
      BY <2>1 DEF ReadPostRoot, ReadPreRoot
    <3>2. /\ batch \in [Tasks -> [txs : Seq(Txs), pre : Roots, post : Roots, id : Nat]]
          /\ pc \in [Tasks -> PCs]
      BY DEF TypeOK
    <3>3. batch'[c].txs = batch[c].txs /\ pc'[c] \in {"rooted", "based"}
      BY <3>1, <3>2, BatchType
    <3>4. QED
      BY <3>1, <3>2, <3>3 DEF HeldBy, InHand
  <2>2. CASE Prove(c) \/ StoreProof(c)
    <3>1. /\ pc[c] \in {"prove", "store"}
          /\ \E p \in {"store", AfterBatch(c)} : pc' = [pc EXCEPT ![c] = p]
          /\ batch' = batch \/ batch' = [batch EXCEPT ![c] = NoBatch]
      BY <2>2 DEF Prove, StoreProof
    <3>2. pc'[c] \in {"store", "done", "idle"}
      BY <3>1, NoBatchType DEF TypeOK
    <3>3. QED
      BY <3>1, <3>2 DEF HeldBy, InHand, TypeOK
  <2>3. QED
    BY <2>1, <2>2
<1>3. /\ InHandlers(t)' = InHandlers(t)
      /\ InBatchers(t)' + HeldBy(c, t) = InBatchers(t) + HeldBy(c, t)'
      /\ InBatchers(t)' \in Nat
  BY <1>1, <1>2, BatchStepFrame
<1>4. InBatchers(t)' = InBatchers(t)
  BY <1>2, <1>3, CountsAreNat
<1>5. InLog(t)' = InLog(t)
  BY <1>1, LogKeeps
<1>6. QED
  BY <1>1, <1>3, <1>4, <1>5 DEF Conserved, Occurrences

\* A dropped request drops what it holds: the transaction it has executed and not
\* pushed, or the batch it has drained and not appended.
LEMMA DisconnectConserves ==
    ASSUME TypeOK, TypeOK', NEW c \in Tasks, Disconnect(c), NEW t \in Txs, Conserved(t)
    PROVE  Conserved(t)'
<1>1. /\ pc' = [pc EXCEPT ![c] = AfterBatch(c)] /\ batch' = [batch EXCEPT ![c] = NoBatch]
      /\ tx' = [h \in Handlers |-> IF h = c THEN NoTx ELSE tx[h]]
      /\ dropped' = dropped \o Lost(c)
      /\ UNCHANGED <<executed, pending, log>>
  BY DEF Disconnect, stateVars, daVars
<1>2. /\ pc'[c] \in {"done", "idle"} /\ Handlers \subseteq Tasks
      /\ \A b \in Tasks \ {c} : pc'[b] = pc[b] /\ batch'[b] = batch[b]
      /\ \A h \in Handlers \ {c} : tx'[h] = tx[h]
  BY <1>1, NoBatchType DEF TypeOK, Tasks
<1>3. Occurrences(dropped', t) = Occurrences(dropped, t) + Occurrences(Lost(c), t)
  <2>1. dropped \in Seq(Txs) /\ Lost(c) \in Seq(Txs)
    BY LostType DEF TypeOK
  <2>2. QED
    BY <1>1, <2>1, OccurrencesAdd
<1>4. HeldBy(c, t)' = 0
  BY <1>2 DEF HeldBy, InHand
<1>5. Occurrences(Lost(c), t) + InHandlers(t)' + InBatchers(t)' = InHandlers(t) + InBatchers(t)
  <2>1. CASE c \in Handlers /\ pc[c] = "executed"
    <3>1. tx[c] \in Txs /\ Lost(c) = <<tx[c]>>
      BY <2>1 DEF TypeOK, Lost
    <3>2. Occurrences(Lost(c), t) = IF tx[c] = t THEN 1 ELSE 0
      <4>0. <<>> \in Seq(Txs)
        OBVIOUS
      <4>1. PICK s \in Seq(Txs) : s = <<>>
        BY <4>0, Zenon
      <4>2. Lost(c) = Append(s, tx[c])
        BY <3>1, <4>1
      <4>3. Occurrences(Append(s, tx[c]), t) = Occurrences(s, t) + (IF tx[c] = t THEN 1 ELSE 0)
        BY <3>1, OccurrencesAppends
      <4>4. QED
        BY <4>1, <4>2, <4>3, OccurrencesOfNone
    <3>3. InHandlers(t) = InHandlers(t)' + (IF tx[c] = t THEN 1 ELSE 0)
      <4>1. CASE tx[c] = t
        <5>1. pc'[c] # "executed" /\ \A g \in Handlers \ {c} : pc'[g] = pc[g] /\ tx'[g] = tx[g]
          BY <1>2
        <5>2. InHandlers(t) = InHandlers(t)' + 1
          BY <2>1, <4>1, <5>1, HandlersLose
        <5>3. QED
          BY <4>1, <5>2
      <4>2. CASE tx[c] # t
        <5>1. \A g \in Handlers : (pc[g] = "executed" /\ tx[g] = t) <=>
                                  (pc'[g] = "executed" /\ tx'[g] = t)
          BY <1>2, <4>2
        <5>2. InHandlers(t)' = InHandlers(t)
          BY <5>1, HandlersKeep
        <5>3. QED
          BY <4>2, <5>2, CountsAreNat
      <4>3. QED
        BY <4>1, <4>2
    <3>4. InBatchers(t)' = InBatchers(t)
      <4>1. \A b \in Tasks : HeldBy(b, t)' = HeldBy(b, t)
        BY <1>2, <1>4, <2>1 DEF HeldBy, InHand
      <4>2. QED
        BY <4>1, BatchersKeep
    <3>5. PICK n \in Nat : n = InHandlers(t)'
      <4>1. IsFiniteSet({g \in Handlers : pc'[g] = "executed" /\ tx'[g] = t})
        BY TasksAreFinite, FS_Subset
      <4>2. QED
        BY <4>1, FS_CardinalityType DEF InHandlers
    <3>6. QED
      BY <3>2, <3>3, <3>4, <3>5, CountsAreNat
  <2>2. CASE c \notin Handlers \/ pc[c] # "executed"
    <3>1. Occurrences(Lost(c), t) = HeldBy(c, t)
      <4>1. CASE InHand(c)
        BY <2>2, <4>1 DEF Lost, HeldBy
      <4>2. CASE ~InHand(c)
        <5>1. Lost(c) = <<>> /\ HeldBy(c, t) = 0
          BY <2>2, <4>2 DEF Lost, HeldBy
        <5>2. QED
          BY <5>1, OccurrencesOfNone
      <4>3. QED
        BY <4>1, <4>2
    <3>2. InHandlers(t)' = InHandlers(t)
      <4>1. \A g \in Handlers : (pc[g] = "executed" /\ tx[g] = t) <=>
                                (pc'[g] = "executed" /\ tx'[g] = t)
        BY <1>2, <2>2
      <4>2. QED
        BY <4>1, HandlersKeep
    <3>3. InBatchers(t)' + HeldBy(c, t) = InBatchers(t) + HeldBy(c, t)'
      BY <1>2, BatchersChange
    <3>4. PICK n \in Nat : n = InBatchers(t)'
      BY <1>2, BatchersAreNat
    <3>5. QED
      BY <1>4, <3>1, <3>2, <3>3, <3>4, CountsAreNat
  <2>3. QED
    BY <2>1, <2>2
<1>6. /\ InLog(t)' = InLog(t) /\ executed'[t] = executed[t]
      /\ Occurrences(pending', t) = Occurrences(pending, t)
  BY <1>1, LogKeeps
<1>7. PICK n, m \in Nat : n = InHandlers(t)' /\ m = InBatchers(t)'
  <2>1. IsFiniteSet({g \in Handlers : pc'[g] = "executed" /\ tx'[g] = t})
    BY TasksAreFinite, FS_Subset
  <2>2. InHandlers(t)' \in Nat
    BY <2>1, FS_CardinalityType DEF InHandlers
  <2>3. QED
    BY <2>2, BatchersAreNat
<1>8. Occurrences(Lost(c), t) \in Nat
  BY LostType, OccurrencesIsNat
<1>9. executed'[t] = InHandlers(t)' + Occurrences(pending', t) + InBatchers(t)'
                                + InLog(t)' + Occurrences(dropped', t)
  BY <1>3, <1>5, <1>6, <1>7, <1>8, CountsAreNat DEF Conserved
<1>10. QED
  BY <1>9 DEF Conserved, Occurrences

-----------------------------------------------------------------------------

\* Every step keeps the count: a restart ends what the property is about.
LEMMA NextConserves == TxsInv /\ [Next]_vars => TxsConserved'
<1> SUFFICES ASSUME TxsInv, [Next]_vars, restarts' = 0, NEW t \in Txs
             PROVE  Conserved(t)'
  BY DEF TxsConserved, Conserved, InHandlers, InBatchers, InHand, InLog, Occurrences
<1>1. TypeOK /\ TypeOK'
  BY NextSeqInv DEF TxsInv, SeqInv
<1>2. ~Restart
  BY <1>1 DEF Restart, TypeOK
<1>3. restarts = 0
  BY <1>2 DEF Next, CreateAccount, StoreKey, Accept, SubmitStep, Execute, RejectTx, Push,
     CheckSize, NothingToDrain, Drain, BatchStep, ReadPostRoot, ReadPreRoot, AppendBatch,
     FailBatch, Prove, StoreProof, Disconnect, vars
<1>4. Conserved(t)
  BY <1>3, ConservedIs DEF TxsInv
<1>5. ASSUME NEW a \in Accounts, CreateAccount(a) \/ StoreKey(a) PROVE Conserved(t)'
  BY <1>1, <1>4, <1>5, RegistersConserve
<1>6. ASSUME NEW h \in Handlers,
             (\E u \in Txs : Accept(h, u)) \/ SubmitStep(h) \/ NothingToDrain(h)
      PROVE  Conserved(t)'
  BY <1>1, <1>4, <1>6, ExecuteConserves, PushConserves, OthersConserve DEF SubmitStep
<1>7. ASSUME NEW c \in Tasks, Drain(c) \/ BatchStep(c) \/ Disconnect(c) PROVE Conserved(t)'
  BY <1>1, <1>4, <1>7, DrainConserves, AppendConserves, FailConserves, BatchersConserve,
     DisconnectConserves DEF BatchStep
<1>8. CASE UNCHANGED vars
  BY <1>4, <1>8 DEF vars, stateVars, daVars, Conserved, InHandlers, InBatchers, InLog,
                    InHand, Occurrences
<1>9. QED
  BY <1>2, <1>5, <1>6, <1>7, <1>8 DEF Next

\* Nothing has been executed at first.
LEMMA InitConserves == Init => TxsConserved
<1> SUFFICES ASSUME Init, NEW t \in Txs PROVE Conserved(t)
  BY ConservedIs
<1>1. TypeOK
  BY InitSeqInv DEF SeqInv
<1>2. /\ executed[t] = 0 /\ Occurrences(pending, t) = 0
      /\ Occurrences(dropped, t) = 0
  BY OccurrencesOfNone DEF Init
<1>3. InHandlers(t) = 0
  <2>1. {h \in Handlers : pc[h] = "executed" /\ tx[h] = t} = {}
    BY DEF Init, Tasks
  <2>2. QED
    BY <2>1, FS_EmptySet DEF InHandlers
<1>4. InBatchers(t) = 0
  <2> DEFINE f == [b \in Tasks |-> HeldBy(b, t)]
  <2>1. \A b \in Tasks : f[b] = 0
    BY DEF Init, HeldBy, InHand
  <2>2. InBatchers(t) = SumFunctionOnSet(f, Tasks)
    BY DEF InBatchers, HeldBy, SumFunction
  <2> HIDE DEF f
  <2>3. QED
    BY <2>1, <2>2, TasksAreFinite, SumOfZeros
<1>5. InLog(t) = 0
  <2>1. /\ DOMAIN log = {}
        /\ InLog(t) = SumFunctionOnSet([i \in DOMAIN log |-> Occurrences(log[i].txs, t)], {})
    BY DEF Init, InLog, SumFunction
  <2>2. QED
    BY <2>1, SumUnfolds, FS_EmptySet
<1>6. QED
  BY <1>2, <1>3, <1>4, <1>5 DEF Conserved

\* Every transaction that was executed is with its handler, in the mempool, with a
\* batcher, in the log, in a batch that failed or with a request that was dropped, as
\* often as it was executed, for any number of handlers and batchers and however they
\* interleave.
THEOREM TxsAlwaysConserved == Spec => []TxsConserved
<1>1. Init => TxsInv
  BY InitConserves, InitSeqInv DEF TxsInv
<1>2. TxsInv /\ [Next]_vars => TxsInv'
  BY NextConserves, NextSeqInv DEF TxsInv
<1>3. TxsInv => TxsConserved
  BY DEF TxsInv
<1>4. QED
  BY <1>1, <1>2, <1>3, PTL DEF Spec
=============================================================================

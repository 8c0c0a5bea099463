------------------------------ MODULE Verifier ------------------------------
(***************************************************************************)
(* The verifier (verifier/src/lib.rs, main.rs): a process of its own that  *)
(* opens the log's directory with AppendLog::new, keeps the index it read  *)
(* then, and verifies one batch after the other when asked to.  It runs    *)
(* beside the sequencer's handle of the log, module AppendLog, and shares  *)
(* nothing with it but the files.                                          *)
(*                                                                         *)
(* Requests are serialised by the RwLock of AppState.  A request reads a   *)
(* batch file and a proof file; both were complete before the index the    *)
(* verifier holds counted them, so a request is one step.                  *)
(* Prover::verify is that of the mock, or of a build without the risc0     *)
(* feature: it accepts every receipt.                                      *)
(***************************************************************************)
EXTENDS AppendLog

CONSTANTS
    NoDa,         \* `da` is None: the log could not be opened
    MaxVRestarts  \* bound on the restarts of the verifier

ASSUME NoDaAssumption == NoDa \notin Index /\ MaxVRestarts \in Nat

VARIABLES
    v_pc,                 \* "down", in AppendLog::new, or "up"
    v_index,              \* the DaIndex of the verifier's handle, or NoDa
    v_cache,              \* the batch cache of its handle
    last_verified_batch,
    verified_root,
    verified,             \* verified_batches, with the batch behind every id
    v_result,             \* what the last verify_next answered
    v_restarts

verVars == <<v_pc, v_index, v_cache, last_verified_batch, verified_root, verified,
             v_result, v_restarts>>
vars    == <<logVars, verVars>>

Results == {"idle", "verified", "none", "da_error", "not_proven", "root_mismatch",
            "undecodable", "receipt_mismatch"}

Init ==
    /\ LogInit
    /\ v_pc = "down"
    /\ v_index = NoDa
    /\ v_cache = EmptyCache
    /\ last_verified_batch = 0
    /\ verified_root = ZeroRoot
    /\ verified = EmptyCache
    /\ v_result = "idle"
    /\ v_restarts = 0

-----------------------------------------------------------------------------
(* connect_da: AppendLog::new in the verifier's process *)

\* When the index does not parse, main logs the error and goes on without.
VOpen ==
    /\ v_pc = "down"
    /\ index_file # NoFile
    /\ v_index' = IF index_file = Torn THEN NoDa ELSE index_file
    /\ v_pc' = "up"
    /\ UNCHANGED <<logVars, v_cache, last_verified_batch, verified_root, verified,
                   v_result, v_restarts>>

VOpenMissing ==
    /\ v_pc = "down"
    /\ index_file = NoFile
    /\ v_pc' = "no_index"
    /\ UNCHANGED <<logVars, v_index, v_cache, last_verified_batch, verified_root,
                   verified, v_result, v_restarts>>

VCreateIndex ==
    /\ v_pc = "no_index"
    /\ index_file' = Torn
    /\ v_pc' = "new_index"
    /\ UNCHANGED <<batches, proofs, pc, index, batch_cache, arg, awaiting, saved, acked,
                   crashes, env, v_index, v_cache, last_verified_batch, verified_root,
                   verified, v_result, v_restarts>>

\* The default index is written from the start of the file.  If the sequencer
\* has written a longer index there since the truncation, its tail stays.
VWriteNewIndex ==
    /\ v_pc = "new_index"
    /\ index_file' = IF index_file \in {Torn, EmptyIndex} THEN EmptyIndex ELSE Torn
    /\ v_index' = EmptyIndex
    /\ v_pc' = "up"
    /\ UNCHANGED <<batches, proofs, pc, index, batch_cache, arg, awaiting, saved, acked,
                   crashes, env, v_cache, last_verified_batch, verified_root, verified,
                   v_result, v_restarts>>

-----------------------------------------------------------------------------
(* verify_next and verify_batch_data; /verify/all repeats them *)

\* AppendLog::get_batch of the verifier's handle: the cache, then the file.
VBatch(id) == IF id \in DOMAIN v_cache THEN v_cache[id] ELSE batches[id]

Readable(id) == VBatch(id) \notin {NoFile, Torn}

\* The checks of verify_batch_data, in their order.
Verdict(b, bytes) ==
    IF last_verified_batch > 0 /\ b.pre # verified_root THEN "root_mismatch"
    ELSE IF bytes = Seal THEN "undecodable"
    ELSE IF bytes # [pre |-> b.pre, post |-> b.post, tx_count |-> Len(b.txs)]
         THEN "receipt_mismatch"
    ELSE "verified"

Beyond(id) == id > v_index.last_batch_id

IsProvenAlways(id) == TRUE  \* mutant
IsProven(id) == id \in v_index.proven_batches

\* The checks of verify_next before it has the batch and the proof.
Answer ==
    LET id == last_verified_batch + 1
    IN  IF v_index = NoDa THEN "da_error"
        ELSE IF Beyond(id) THEN "none"
        ELSE IF ~Readable(id) THEN "da_error"
        ELSE IF ~IsProven(id) THEN "not_proven"
        ELSE IF proofs[id] \in {NoFile, Torn} THEN "da_error"
        ELSE Verdict(VBatch(id), proofs[id])

VerifyNext ==
    LET id == last_verified_batch + 1
        b  == VBatch(id)
    IN  /\ v_pc = "up"
        /\ v_result' = Answer
        /\ v_cache' = IF v_index # NoDa /\ id <= v_index.last_batch_id /\ Readable(id)
                      THEN Cached(v_cache, b) ELSE v_cache
        /\ IF Answer = "verified"
           THEN /\ last_verified_batch' = b.id
                /\ verified_root' = b.post
                /\ verified' = [i \in DOMAIN verified \cup {b.id} |->
                                  IF i = b.id THEN b ELSE verified[i]]
           ELSE UNCHANGED <<last_verified_batch, verified_root, verified>>
        /\ UNCHANGED <<logVars, v_pc, v_index, v_restarts>>

-----------------------------------------------------------------------------
(* get_batch_status, and the end of the process *)

\* It reads the batch whether the index counts it or not, and caches it.
GetBatchStatus(id) ==
    /\ v_pc = "up"
    /\ v_index # NoDa
    /\ id \notin DOMAIN v_cache
    /\ Readable(id)
    /\ v_cache' = Cached(v_cache, VBatch(id))
    /\ UNCHANGED <<logVars, v_pc, v_index, last_verified_batch, verified_root, verified,
                   v_result, v_restarts>>

\* The process ends; Verifier::new keeps nothing of what was verified.
VRestart ==
    /\ v_restarts < MaxVRestarts
    /\ v_pc # "down"
    /\ v_pc' = "down"
    /\ v_index' = NoDa
    /\ v_cache' = EmptyCache
    /\ last_verified_batch' = 0
    /\ verified_root' = ZeroRoot
    /\ verified' = EmptyCache
    /\ v_result' = "idle"
    /\ v_restarts' = v_restarts + 1
    /\ UNCHANGED logVars

VNext ==
    \/ VOpen \/ VOpenMissing \/ VCreateIndex \/ VWriteNewIndex
    \/ VerifyNext
    \/ \E id \in Ids : GetBatchStatus(id)
    \/ VRestart

Next == (LogNext /\ UNCHANGED verVars) \/ VNext

Spec == Init /\ [][Next]_vars

-----------------------------------------------------------------------------
(* What holds *)

\* What the verifier reports as verified is the beginning of the log, without
\* gaps, every batch proven in a saved index and still there as it was
\* verified, and the verified root is where it ends - whatever the sequencer
\* appends, overwrites after a crash or fails to save meanwhile.
VerifiedAreCommitted ==
    /\ DOMAIN verified = 1 .. last_verified_batch
    /\ last_verified_batch <= saved.last_batch_id
    /\ \A id \in DOMAIN verified :
          verified[id] = batches[id] /\ id \in saved.proven_batches
    /\ verified_root =
          IF last_verified_batch = 0 THEN ZeroRoot ELSE verified[last_verified_batch].post

\* What the index that the verifier has once read counts is there and whole for
\* as long as the verifier keeps it, however much older than the log it is:
\* cache and files have the same complete batches, in one chain that ends in its
\* root, and a complete proof for each batch it names - while the sequencer
\* appends, fails, crashes and uses ids again.  No request ends in a DA error
\* unless the index could not be read.  (Whether a proof's bytes decode is
\* another matter: a stored seal does not.)
CountedIsWhole ==
    /\ v_result = "da_error" => v_index = NoDa
    /\ v_index # NoDa =>
          /\ Holds(v_index)
          /\ \A id \in 1 .. v_index.last_batch_id : VBatch(id) = batches[id]
          /\ \A id \in v_index.proven_batches :
                /\ id <= v_index.last_batch_id
                /\ \E form \in StoredForms : proofs[id] = ProofBytes(VBatch(id), form)

\* Where the directory had an index when the processes started, a batch that was
\* acknowledged stays in the log, through I/O errors and crashes of the sequencer
\* and whatever the verifier does beside it.
AckedDurableBeside == "fresh_dir" \notin env => AckedDurable
=============================================================================

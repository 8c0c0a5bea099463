----------------------------- MODULE AppendLog -----------------------------
(***************************************************************************)
(* The data-availability log (da/src/lib.rs) as files: one per batch, one  *)
(* per proof, and index.json, which says how many batches there are.  The  *)
(* sequencer's handle of the log is a process that writes these files.     *)
(* File::create truncates a file and the content arrives with the flush of *)
(* the BufWriter, so every file passes through Torn; the process may end   *)
(* at any point in between and open the log again.  Other processes can    *)
(* read the files at any time (module Verifier).                           *)
(*                                                                         *)
(* The calls of a handle are serialised by the sequencer's RwLock.  Roots  *)
(* and transactions are opaque; timestamps, hashes and the transaction     *)
(* total, which decide nothing, are left out.  What a kill of the process  *)
(* leaves in the page cache is taken to reach the disk.                    *)
(***************************************************************************)
EXTENDS Integers, Sequences, FiniteSets, Functions

CONSTANTS
    Roots,          \* state roots
    ZeroRoot,       \* [0u8; 32], the root of an empty log
    TxLists,        \* the transaction lists batches are made of, none empty
    StoredForms,    \* what callers store as a proof: "seal", "receipt"
    Seal,           \* the seal of a receipt, which no receipt is read from
    CacheSize,      \* cache_size
    MaxBatches,     \* bound on the batches of the log
    MaxCrashes,     \* bound on the crashes of the sequencer
    Environments,   \* what env may be
    FlushMayFail,   \* whether the flush when a BufWriter is dropped can fail
    NoFile,         \* a path with no file
    Torn,           \* a file that was truncated and not written completely
    NoBatch         \* no batch is being appended

Ids == 1 .. MaxBatches

Batch   == [id : Ids, txs : TxLists, pre : Roots, post : Roots]
Receipt == [pre : Roots, post : Roots, tx_count : Nat]
Index   == [last_batch_id : 0 .. MaxBatches, current_state_root : Roots,
            proven_batches : SUBSET Ids]

ASSUME RootsAssumption  == ZeroRoot \in Roots
ASSUME ListsAssumption  == \A l \in TxLists : l \in Seq(Int) /\ l # <<>>
ASSUME FormsAssumption  == StoredForms \subseteq {"seal", "receipt"}
ASSUME BoundsAssumption == MaxBatches \in Nat /\ MaxCrashes \in Nat /\ CacheSize \in Nat
ASSUME FlagsAssumption  == FlushMayFail \in BOOLEAN
ASSUME EnvsAssumption   == \A e \in Environments : e \subseteq {"fresh_dir", "io_errors"}
ASSUME NoneAssumption   ==
    /\ NoFile # Torn
    /\ {NoFile, Torn, NoBatch} \cap Batch = {}
    /\ {NoFile, Torn} \cap Index = {}
    /\ {NoFile, Torn} \cap (Receipt \cup {Seal}) = {}

VARIABLES
    batches,      \* disk: batches/
    proofs,       \* disk: proofs/
    index_file,   \* disk: index.json
    pc,           \* where the sequencer's handle is
    index,        \* the handle's DaIndex
    batch_cache,  \* the handle's cache
    arg,          \* the batch a running append_batch appends, or NoBatch
    awaiting,     \* the appended batches whose caller is still proving
    saved,        \* history: the last index that save_index returned Ok for
    acked,        \* history: the batches append_batch returned Ok for
    crashes,      \* how often the sequencer has crashed
    env           \* "fresh_dir": the directory starts without index.json,
                  \* "io_errors": creating or writing a file can return an error

diskVars == <<batches, proofs, index_file>>
logVars  == <<batches, proofs, index_file, pc, index, batch_cache, arg, awaiting,
              saved, acked, crashes, env>>

\* DaIndex::default()
EmptyIndex == [last_batch_id |-> 0, current_state_root |-> ZeroRoot, proven_batches |-> {}]

EmptyCache == [id \in {} |-> NoBatch]

PCs == {"down", "no_index", "new_index", "idle", "save_batch", "save_proof",
        "indexed", "save_index"}

LogInit ==
    /\ env \in Environments
    /\ batches = [id \in Ids |-> NoFile]
    /\ proofs = [id \in Ids |-> NoFile]
    /\ index_file = IF "fresh_dir" \in env THEN NoFile ELSE EmptyIndex
    /\ pc = "down"
    /\ index = EmptyIndex
    /\ batch_cache = EmptyCache
    /\ arg = NoBatch
    /\ awaiting = {}
    /\ saved = EmptyIndex
    /\ acked = {}
    /\ crashes = 0

\* A file after its BufWriter was dropped: the flush there reports no error.
Flushed(content) == {content} \cup (IF FlushMayFail THEN {Torn} ELSE {})

\* insert and trim_cache: the lowest ids go until cache_size remain.
TrimOldest(c) ==
    Restrict(c, {i \in DOMAIN c : Cardinality({j \in DOMAIN c : j >= i}) <= CacheSize})

CachedOnce(c, b) ==  \* mutant: a batch that is there stays
    TrimOldest([i \in DOMAIN c \cup {b.id} |-> IF i \in DOMAIN c THEN c[i] ELSE b])
Cached(c, b) ==
    TrimOldest([i \in DOMAIN c \cup {b.id} |-> IF i = b.id THEN b ELSE c[i]])

-----------------------------------------------------------------------------
(* AppendLog::new *)

\* Mutant of Open: an index that does not parse is taken for a new one.
OpenOrDefault ==
    /\ pc = "down"
    /\ index_file # NoFile
    /\ index' = IF index_file = Torn THEN EmptyIndex ELSE index_file
    /\ pc' = "idle"
    /\ UNCHANGED <<diskVars, batch_cache, arg, awaiting, saved, acked, crashes, env>>

\* index.json is there and parses; a torn one makes `new` return an error.
Open ==
    /\ pc = "down"
    /\ index_file \notin {NoFile, Torn}
    /\ index' = index_file
    /\ pc' = "idle"
    /\ UNCHANGED <<diskVars, batch_cache, arg, awaiting, saved, acked, crashes, env>>

\* index.json is not there: exists(), create() and the write are three steps.
OpenMissing ==
    /\ pc = "down"
    /\ index_file = NoFile
    /\ pc' = "no_index"
    /\ UNCHANGED <<diskVars, index, batch_cache, arg, awaiting, saved, acked, crashes, env>>

CreateIndex ==
    /\ pc = "no_index"
    /\ index_file' = Torn
    /\ pc' = "new_index"
    /\ UNCHANGED <<batches, proofs, index, batch_cache, arg, awaiting, saved, acked, crashes, env>>

WriteNewIndex ==
    /\ pc = "new_index"
    /\ index_file' \in Flushed(EmptyIndex)
    /\ index' = EmptyIndex
    /\ pc' = "idle"
    /\ UNCHANGED <<batches, proofs, batch_cache, arg, awaiting, saved, acked, crashes, env>>

-----------------------------------------------------------------------------
(* append_batch, up to save_index *)

\* The continuity check, left out for the first batch.  The only caller,
\* process_batch, passes the zero root when the log is empty.
ContinuesAlways(pre) == TRUE  \* mutant
Continues(pre) ==
    IF index.last_batch_id = 0 THEN pre = ZeroRoot ELSE pre = index.current_state_root

NextIdFromZero == index.last_batch_id  \* mutant
NextId == index.last_batch_id + 1

\* save_batch creates the file; if it cannot, nothing has changed.
AppendBatch(txs, pre, post) ==
    /\ pc = "idle"
    /\ index.last_batch_id < MaxBatches
    /\ Continues(pre)
    /\ arg' = [id |-> NextId, txs |-> txs, pre |-> pre, post |-> post]
    /\ batches' = [batches EXCEPT ![NextId] = Torn]
    /\ pc' = "save_batch"
    /\ UNCHANGED <<proofs, index_file, index, batch_cache, awaiting, saved, acked, crashes, env>>

\* The file is written, the cache and the index in memory are updated.
WriteBatch ==
    /\ pc = "save_batch"
    /\ \E content \in Flushed(arg) : batches' = [batches EXCEPT ![arg.id] = content]
    /\ batch_cache' = Cached(batch_cache, arg)
    /\ index' = [index EXCEPT !.last_batch_id = arg.id, !.current_state_root = arg.post]
    /\ pc' = "indexed"
    /\ UNCHANGED <<proofs, index_file, arg, awaiting, saved, acked, crashes, env>>

-----------------------------------------------------------------------------
(* append_proof, up to save_index *)

\* What the caller passes as receipt_bytes: generate_batch_proof the seal of
\* the receipt, the verifier's own tests the receipt.
ProofBytes(b, form) ==
    IF form = "seal" THEN Seal
    ELSE [pre |-> b.pre, post |-> b.post, tx_count |-> Len(b.txs)]

\* Mutant of AppendProof: the index is changed and saved before the proof.
AppendProofIndexFirst(b) ==
    /\ pc = "idle"
    /\ b.id <= index.last_batch_id
    /\ proofs' = [proofs EXCEPT ![b.id] = Torn]
    /\ index' = [index EXCEPT !.proven_batches = @ \cup {b.id}]
    /\ pc' = "indexed"
    /\ awaiting' = awaiting \ {b}
    /\ UNCHANGED <<batches, index_file, batch_cache, arg, saved, acked, crashes, env>>

\* The prover is done and the caller has the log's lock again.
AppendProof(b) ==
    /\ pc = "idle"
    /\ b.id <= index.last_batch_id
    /\ arg' = b
    /\ proofs' = [proofs EXCEPT ![b.id] = Torn]
    /\ pc' = "save_proof"
    /\ awaiting' = awaiting \ {b}
    /\ UNCHANGED <<batches, index_file, index, batch_cache, saved, acked, crashes, env>>

WriteProof ==
    /\ pc = "save_proof"
    /\ \E form \in StoredForms : \E content \in Flushed(ProofBytes(arg, form)) :
          proofs' = [proofs EXCEPT ![arg.id] = content]
    /\ index' = [index EXCEPT !.proven_batches = @ \cup {arg.id}]
    /\ arg' = NoBatch
    /\ pc' = IF arg.id \in index.proven_batches THEN "idle" ELSE "indexed"
    /\ UNCHANGED <<batches, index_file, batch_cache, awaiting, saved, acked, crashes, env>>

\* generate_batch_proof logs a failure of the prover and gives up.
ProverFails(b) ==
    /\ awaiting' = awaiting \ {b}
    /\ UNCHANGED <<diskVars, pc, index, batch_cache, arg, saved, acked, crashes, env>>

-----------------------------------------------------------------------------
(* save_index, the last step of both *)

TruncateIndex ==
    /\ pc = "indexed"
    /\ index_file' = Torn
    /\ pc' = "save_index"
    /\ UNCHANGED <<batches, proofs, index, batch_cache, arg, awaiting, saved, acked, crashes, env>>

WriteIndex ==
    /\ pc = "save_index"
    /\ index_file' \in Flushed(index)
    /\ saved' = index
    /\ acked' = IF arg = NoBatch THEN acked ELSE acked \cup {arg}
    /\ awaiting' = IF arg = NoBatch THEN awaiting ELSE awaiting \cup {arg}
    /\ arg' = NoBatch
    /\ pc' = "idle"
    /\ UNCHANGED <<batches, proofs, index, batch_cache, crashes, env>>

\* An error returned on the way: files stay as they are, torn or not, and so
\* does the index in memory, which from "indexed" on has already changed.
\* (The same inside `new` ends the process, as Crash does.)
Fail ==
    /\ "io_errors" \in env
    /\ pc \in {"save_batch", "save_proof", "indexed", "save_index"}
    /\ arg' = NoBatch
    /\ pc' = "idle"
    /\ UNCHANGED <<diskVars, index, batch_cache, awaiting, saved, acked, crashes, env>>

-----------------------------------------------------------------------------
(* get_batch, and the end of the process *)

\* A batch that is not cached is read from its file, indexed or not.
GetBatch(id) ==
    /\ pc = "idle"
    /\ id \notin DOMAIN batch_cache
    /\ batches[id] \notin {NoFile, Torn}
    /\ batch_cache' = Cached(batch_cache, batches[id])
    /\ UNCHANGED <<diskVars, pc, index, arg, awaiting, saved, acked, crashes, env>>

Crash ==
    /\ crashes < MaxCrashes
    /\ pc # "down"
    /\ crashes' = crashes + 1
    /\ pc' = "down"
    /\ index' = EmptyIndex
    /\ batch_cache' = EmptyCache
    /\ arg' = NoBatch
    /\ awaiting' = {}
    /\ UNCHANGED <<diskVars, saved, acked, env>>

LogNext ==
    \/ Open \/ OpenMissing \/ CreateIndex \/ WriteNewIndex
    \/ \E txs \in TxLists, pre, post \in Roots : AppendBatch(txs, pre, post)
    \/ WriteBatch
    \/ \E b \in awaiting : AppendProof(b) \/ ProverFails(b)
    \/ WriteProof
    \/ TruncateIndex \/ WriteIndex \/ Fail
    \/ \E id \in Ids : GetBatch(id)
    \/ Crash

LogSpec == LogInit /\ [][LogNext]_logVars

-----------------------------------------------------------------------------
(* What holds *)

\* Every file, the handle and the histories hold what they may hold.
TypeOK ==
    /\ batches \in [Ids -> Batch \cup {NoFile, Torn}]
    /\ proofs \in [Ids -> Receipt \cup {Seal, NoFile, Torn}]
    /\ index_file \in Index \cup {NoFile, Torn}
    /\ pc \in PCs
    /\ index \in Index /\ saved \in Index
    /\ DOMAIN batch_cache \subseteq Ids
    /\ \A id \in DOMAIN batch_cache : batch_cache[id] \in Batch
    /\ arg \in Batch \cup {NoBatch}
    /\ awaiting \subseteq acked /\ acked \subseteq Batch
    /\ crashes \in 0 .. MaxCrashes
    /\ env \in Environments

\* The files hold the batches that idx counts, each under its id, each
\* starting from the root where the one before ended, up to idx's root.
Holds(idx) ==
    /\ \A id \in 1 .. idx.last_batch_id :
          /\ batches[id] \in Batch
          /\ batches[id].id = id
          /\ batches[id].pre = IF id = 1 THEN ZeroRoot ELSE batches[id - 1].post
    /\ idx.current_state_root =
          IF idx.last_batch_id = 0 THEN ZeroRoot ELSE batches[idx.last_batch_id].post

\* Whenever index.json can be read, get_all_transactions can replay what it
\* counts as one continuous chain: the batch files are complete before the
\* index counts them and are never written again, whatever crashed or failed.
Replayable == index_file \notin {NoFile, Torn} => Holds(index_file)

\* A batch that append_batch returned Ok for stays in the log: no crash, no
\* failed call and no later batch that reuses its id takes it out of an open
\* handle's index or off the disk.
AckedDurable ==
    pc = "idle" =>
        \A b \in acked : b.id <= index.last_batch_id /\ batches[b.id] = b

\* proven_batches on disk names only batches of the log, and the proof file
\* of each was written to the end, for the batch that is there now.
ProvenHaveProofs ==
    index_file \notin {NoFile, Torn} =>
        \A id \in index_file.proven_batches :
            /\ id <= index_file.last_batch_id
            /\ \E form \in StoredForms : proofs[id] = ProofBytes(batches[id], form)

\* get_batch answers from the cache what the file of a counted batch says,
\* also when the id was used before a crash or a failed append.
CacheHonest ==
    \A id \in DOMAIN batch_cache \cap 1 .. index.last_batch_id :
        batch_cache[id] = batches[id]

\* Without I/O errors, in a directory that has an index, the log that index.json
\* describes is the append-only chain its readers are promised, across crashes
\* between any two writes.  (Of other runs nothing is said: their log is empty.)
Chain == INSTANCE BatchChain WITH
    log    <- IF env # {} THEN <<>>
              ELSE [id \in 1 .. saved.last_batch_id |->
                      [txs |-> batches[id].txs, pre |-> batches[id].pre,
                       post |-> batches[id].post]],
    proven <- IF env # {} THEN {} ELSE saved.proven_batches

ImplementsBatchChain == Chain!ChainSpec
=============================================================================

--------------------------- MODULE Verifier_proofs ---------------------------
(***************************************************************************)
(* Proofs about AppendLog and about Verifier, which reads its files.       *)
(*                                                                         *)
(* The log: with flushes that do not fail, what the index counts can be    *)
(* replayed, what was acknowledged stays, and proofs and cache agree with  *)
(* the batch files, through crashes and reported I/O errors; without such  *)
(* errors, where there is an index, the log is the append-only chain of    *)
(* BatchChain.                                                             *)
(*                                                                         *)
(* The verifier: beside a sequencer that appends, fails with I/O errors    *)
(* and crashes, in a directory that has an index, it reports only a proven *)
(* beginning of the log, what its index counts is there and whole, and     *)
(* no batch that was acknowledged is lost.                                 *)
(***************************************************************************)
EXTENDS Verifier, TLAPS

Running == pc \in {"idle", "save_batch", "save_proof", "indexed", "save_index"}

\* index.json is what was saved last, unless it is torn or was never written.
FileIsSaved ==
    /\ index_file \in {saved, NoFile, Torn}
    /\ index_file = NoFile => saved = EmptyIndex
    /\ pc \in {"no_index", "new_index"} => saved = EmptyIndex

\* A batch file that is complete is the file of its id.
FilesNamed == \A id \in Ids : batches[id] \in Batch => batches[id].id = id

\* The proofs that idx counts were written to the end, for batches it counts.
Proves(idx) ==
    \A id \in idx.proven_batches :
        /\ id <= idx.last_batch_id
        /\ \E form \in StoredForms : proofs[id] = ProofBytes(batches[id], form)

\* The saved index and, while there is a handle, the index in memory describe
\* the files; the one in memory is never behind.
IndexesHold ==
    /\ Holds(saved) /\ Proves(saved)
    /\ Running => /\ Holds(index) /\ Proves(index)
                  /\ saved.last_batch_id <= index.last_batch_id
                  /\ saved.proven_batches \subseteq index.proven_batches

\* What a call in progress is working on.
CallOK ==
    /\ pc \in {"idle", "down", "no_index", "new_index"} => arg = NoBatch
    /\ pc \in {"save_batch", "save_proof"} => arg # NoBatch
    /\ pc = "save_batch" =>
          arg.id = NextId /\ Continues(arg.pre)
    /\ pc = "save_proof" =>
          arg \in acked \ awaiting /\ arg.id \notin index.proven_batches
    /\ (pc \in {"indexed", "save_index"} /\ arg # NoBatch) =>
          /\ arg.id <= index.last_batch_id
          /\ batches[arg.id] = arg
          /\ arg.id \notin index.proven_batches

\* Acknowledged batches are in the saved index; those that wait for their
\* proof are not proven yet.
AckedOK ==
    /\ \A b \in acked : b.id <= saved.last_batch_id /\ batches[b.id] = b
    /\ awaiting # {} => Running
    /\ \A b \in awaiting : b.id \notin index.proven_batches

CacheOK ==
    /\ ~Running => DOMAIN batch_cache = {}
    /\ CacheHonest

LogInv == TypeOK /\ FileIsSaved /\ FilesNamed /\ IndexesHold /\ CallOK /\ AckedOK /\ CacheOK

-----------------------------------------------------------------------------

\* What insert followed by trim_cache leaves in the cache: some of the old
\* batches and, unless it was trimmed at once, the new one.
LEMMA CachedFacts ==
    ASSUME NEW c, NEW b
    PROVE  /\ DOMAIN Cached(c, b) \subseteq DOMAIN c \cup {b.id}
           /\ \A i \in DOMAIN Cached(c, b) :
                 Cached(c, b)[i] = IF i = b.id THEN b ELSE c[i]
BY DEF Cached, TrimOldest, Restrict

\* The first state satisfies the invariant.
LEMMA InitInv == LogInit => LogInv
<1> SUFFICES ASSUME LogInit PROVE LogInv
    OBVIOUS
<1> USE BoundsAssumption, RootsAssumption, NoneAssumption DEF LogInit, Ids
<1>1. EmptyIndex \in Index
    BY DEF EmptyIndex, Index
<1>2. TypeOK
    BY <1>1 DEF TypeOK, PCs, EmptyCache
<1>3. FileIsSaved /\ FilesNamed
    BY DEF FileIsSaved, FilesNamed
<1>4. IndexesHold
    BY DEF IndexesHold, Holds, Proves, Running, EmptyIndex
<1>5. CallOK /\ AckedOK /\ CacheOK
    BY DEF CallOK, AckedOK, CacheOK, CacheHonest, Running, EmptyCache
<1> QED
    BY <1>2, <1>3, <1>4, <1>5 DEF LogInv

\* The three steps of AppendLog::new that go before a handle, and the first
\* of them when index.json is there.
LEMMA OpenInv ==
    ASSUME LogInv, Open \/ OpenMissing \/ CreateIndex
    PROVE  LogInv'
<1> USE BoundsAssumption, RootsAssumption, NoneAssumption DEF LogInv, Ids
<1>1. CASE Open
    <2> USE <1>1 DEF Open, diskVars
    <2>1. TypeOK'
        BY DEF TypeOK, PCs
    <2>2. FileIsSaved' /\ FilesNamed' /\ index' = saved
        BY DEF FileIsSaved, FilesNamed
    <2>3. IndexesHold'
        BY <2>2 DEF IndexesHold, Holds, Proves, Running, ProofBytes, TypeOK, Index
    <2>4. CallOK'
        BY DEF CallOK
    <2>5. AckedOK' /\ CacheOK'
        BY <2>2 DEF AckedOK, CacheOK, CacheHonest, Running
    <2> QED
        BY <2>1, <2>2, <2>3, <2>4, <2>5
<1>2. CASE OpenMissing
    <2> USE <1>2 DEF OpenMissing, diskVars
    <2>1. TypeOK' /\ FileIsSaved' /\ FilesNamed'
        BY DEF TypeOK, PCs, FileIsSaved, FilesNamed
    <2>2. IndexesHold'
        BY DEF IndexesHold, Holds, Proves, Running, ProofBytes
    <2>3. CallOK' /\ AckedOK' /\ CacheOK'
        BY DEF CallOK, AckedOK, CacheOK, CacheHonest, Running
    <2> QED
        BY <2>1, <2>2, <2>3
<1>3. CASE CreateIndex
    <2> USE <1>3 DEF CreateIndex
    <2>1. TypeOK' /\ FileIsSaved' /\ FilesNamed'
        BY DEF TypeOK, PCs, FileIsSaved, FilesNamed
    <2>2. IndexesHold'
        BY DEF IndexesHold, Holds, Proves, Running, ProofBytes
    <2>3. CallOK' /\ AckedOK' /\ CacheOK'
        BY DEF CallOK, AckedOK, CacheOK, CacheHonest, Running
    <2> QED
        BY <2>1, <2>2, <2>3
<1> QED
    BY <1>1, <1>2, <1>3

\* The last step of AppendLog::new in a directory without index.json.
LEMMA NewIndexInv ==
    ASSUME LogInv, WriteNewIndex, FlushMayFail = FALSE
    PROVE  LogInv'
<1> USE BoundsAssumption, RootsAssumption, NoneAssumption DEF LogInv, Ids, WriteNewIndex
<1>1. index_file' = EmptyIndex /\ saved = EmptyIndex
    BY DEF Flushed, FileIsSaved
<1>2. EmptyIndex \in Index
    BY DEF EmptyIndex, Index
<1>3. TypeOK' /\ FileIsSaved' /\ FilesNamed'
    BY <1>1, <1>2 DEF TypeOK, PCs, FileIsSaved, FilesNamed
<1>4. IndexesHold'
    BY <1>1 DEF IndexesHold, Holds, Proves, Running, ProofBytes, EmptyIndex
<1>5. CallOK' /\ AckedOK'
    BY <1>1 DEF CallOK, AckedOK, Running, EmptyIndex
<1>6. CacheOK'
    BY DEF CacheOK, CacheHonest, Running
<1> QED
    BY <1>3, <1>4, <1>5, <1>6

\* An index holds on as long as the files it counts stay.
LEMMA CountedStays ==
    ASSUME NEW idx \in Index, Holds(idx), Proves(idx),
           \A id \in 1 .. idx.last_batch_id : batches'[id] = batches[id],
           \A id \in idx.proven_batches : proofs'[id] = proofs[id]
    PROVE  Holds(idx)' /\ Proves(idx)'
<1> USE BoundsAssumption DEF Ids
<1>1. Holds(idx)'
    BY DEF Holds, Index
<1>2. ASSUME NEW id \in idx.proven_batches
      PROVE  /\ id <= idx.last_batch_id
             /\ \E form \in StoredForms : proofs'[id] = ProofBytes(batches'[id], form)
    <2>1. id \in 1 .. idx.last_batch_id
        BY DEF Index, Proves
    <2>2. PICK form \in StoredForms : proofs[id] = ProofBytes(batches[id], form)
        BY DEF Proves
    <2>3. proofs'[id] = ProofBytes(batches'[id], form)
        BY <2>1, <2>2 DEF ProofBytes
    <2> QED
        BY <2>1, <2>3
<1>3. Proves(idx)'
    BY <1>2 DEF Proves, ProofBytes
<1> QED
    BY <1>1, <1>3

\* Truncating the file of the next id touches nothing that is counted.
LEMMA AppendBatchInv ==
    ASSUME LogInv, NEW txs \in TxLists, NEW pre \in Roots, NEW post \in Roots,
           AppendBatch(txs, pre, post)
    PROVE  LogInv'
<1> USE BoundsAssumption, RootsAssumption, NoneAssumption DEF LogInv, Ids, AppendBatch
<1> DEFINE b == [id |-> NextId, txs |-> txs, pre |-> pre, post |-> post]
<1>1. index \in Index /\ saved \in Index /\ saved.last_batch_id <= index.last_batch_id
    BY DEF TypeOK, IndexesHold, Running
<1>2. NextId \in Ids /\ NextId > index.last_batch_id /\ NextId > saved.last_batch_id
    BY <1>1 DEF NextId, Index
<1>3. b \in Batch
    BY <1>2 DEF Batch
<1>4. \A id \in Ids : id # NextId => batches'[id] = batches[id]
    BY DEF TypeOK
<1>5. TypeOK'
    BY <1>2, <1>3 DEF TypeOK, PCs
<1>6. FileIsSaved'
    BY DEF FileIsSaved
<1>7. FilesNamed'
    BY <1>2 DEF FilesNamed, TypeOK
<1>8. ASSUME NEW idx \in Index, idx.last_batch_id <= index.last_batch_id, Holds(idx), Proves(idx)
      PROVE  Holds(idx)' /\ Proves(idx)'
    BY <1>1, <1>2, <1>4, <1>8, CountedStays DEF Index
<1>9. IndexesHold'
    BY <1>1, <1>8 DEF IndexesHold, Running, Index
<1>10. CallOK'
    BY <1>3 DEF CallOK, NextId, Continues
<1>11. AckedOK'
    BY <1>1, <1>2, <1>4 DEF AckedOK, Running, TypeOK, Batch, Index
<1>12. CacheOK'
    BY <1>1, <1>2, <1>4 DEF CacheOK, CacheHonest, Running, TypeOK, Index
<1> QED
    BY <1>5, <1>6, <1>7, <1>9, <1>10, <1>11, <1>12

\* The batch file is complete before the index in memory counts it.
LEMMA WriteBatchInv ==
    ASSUME LogInv, WriteBatch, FlushMayFail = FALSE
    PROVE  LogInv'
<1> USE BoundsAssumption, RootsAssumption, NoneAssumption DEF LogInv, Ids, WriteBatch
<1>1. index \in Index /\ saved \in Index /\ arg \in Batch
    BY DEF TypeOK, CallOK
<1>2. arg.id = index.last_batch_id + 1 /\ arg.id \in Ids /\ Continues(arg.pre)
    BY <1>1 DEF CallOK, NextId, Batch
<1>3. batches' = [batches EXCEPT ![arg.id] = arg]
    BY DEF Flushed
<1>4. /\ batches'[arg.id] = arg
      /\ \A id \in Ids : id # arg.id => batches'[id] = batches[id]
    BY <1>2, <1>3 DEF TypeOK
<1>5. /\ index'.last_batch_id = arg.id /\ index'.current_state_root = arg.post
      /\ index'.proven_batches = index.proven_batches /\ index' \in Index
    <2>1. index' = [last_batch_id |-> arg.id, current_state_root |-> arg.post,
                    proven_batches |-> index.proven_batches]
        BY <1>1 DEF Index
    <2> QED
        BY <2>1, <1>1, <1>2 DEF Index, Batch
<1>6. saved' = saved /\ saved.last_batch_id <= index.last_batch_id
      /\ Holds(saved) /\ Proves(saved) /\ Holds(index) /\ Proves(index)
    BY DEF IndexesHold, Running
<1>7. TypeOK'
    <2>1. DOMAIN batch_cache' \subseteq Ids
        BY <1>2, CachedFacts DEF TypeOK
    <2>2. \A id \in DOMAIN batch_cache' : batch_cache'[id] \in Batch
        <3> TAKE id \in DOMAIN batch_cache'
        <3>1. batch_cache'[id] = IF id = arg.id THEN arg ELSE batch_cache[id]
            BY CachedFacts
        <3>2. id \in DOMAIN batch_cache \cup {arg.id}
            BY CachedFacts
        <3> QED
            BY <3>1, <3>2, <1>1 DEF TypeOK
    <2> QED
        BY <1>1, <1>3, <1>5, <2>1, <2>2 DEF TypeOK, PCs
<1>8. FileIsSaved' /\ FilesNamed'
    BY <1>4 DEF FileIsSaved, FilesNamed
<1>9. IndexesHold'
    <2>1. Holds(saved)' /\ Proves(saved)'
        BY <1>1, <1>2, <1>4, <1>6, CountedStays DEF Index
    <2>2. /\ \A id \in 1 .. index.last_batch_id : batches'[id] = batches[id]
          /\ \A id \in index.proven_batches : proofs'[id] = proofs[id]
        BY <1>1, <1>2, <1>4 DEF Index
    <2>3. Holds(index)'
        BY <1>1, <1>2, <1>4, <1>5, <1>6, <2>2 DEF Holds, Continues, Index, Batch
    <2>4. \A id \in index.proven_batches : id \in 1 .. index.last_batch_id
        BY <1>1, <1>6 DEF Proves, Index
    <2>5. Proves(index)'
        <3> SUFFICES ASSUME NEW id \in index.proven_batches
                     PROVE  /\ id <= arg.id
                            /\ \E form \in StoredForms : proofs[id] = ProofBytes(batches'[id], form)
            BY <1>5 DEF Proves, ProofBytes
        <3>1. PICK form \in StoredForms : proofs[id] = ProofBytes(batches[id], form)
            BY <1>6 DEF Proves
        <3>2. proofs[id] = ProofBytes(batches'[id], form)
            BY <3>1, <2>2, <2>4 DEF ProofBytes
        <3> QED
            BY <3>2, <2>4, <1>1, <1>2 DEF Index
    <2> QED
        BY <2>1, <2>3, <2>5, <1>1, <1>2, <1>5, <1>6 DEF IndexesHold, Running, Index
<1>10. CallOK'
    <2>1. arg.id \notin index.proven_batches
        BY <1>1, <1>2, <1>6 DEF Proves, Index
    <2> QED
        BY <2>1, <1>1, <1>2, <1>4, <1>5 DEF CallOK, Batch
<1>11. AckedOK'
    BY <1>1, <1>2, <1>4, <1>5, <1>6 DEF AckedOK, Running, TypeOK, Batch, Index
<1>12. CacheOK'
    <2> SUFFICES ASSUME NEW id \in DOMAIN batch_cache', id \in 1 .. arg.id
                 PROVE  batch_cache'[id] = batches'[id]
        BY <1>5 DEF CacheOK, CacheHonest, Running
    <2>1. batch_cache'[id] = IF id = arg.id THEN arg ELSE batch_cache[id]
        BY CachedFacts
    <2>2. id \in DOMAIN batch_cache \cup {arg.id}
        BY CachedFacts
    <2>3. CASE id = arg.id
        BY <2>1, <2>3, <1>4
    <2>4. CASE id # arg.id
        <3>1. id \in 1 .. index.last_batch_id
            BY <2>4, <1>1, <1>2 DEF Index
        <3> QED
            BY <2>1, <2>2, <2>4, <3>1, <1>1, <1>2, <1>4 DEF CacheOK, CacheHonest, Index
    <2> QED
        BY <2>3, <2>4
<1> QED
    BY <1>7, <1>8, <1>9, <1>10, <1>11, <1>12

\* Truncating a proof file: the batch is acknowledged and not proven yet.
LEMMA AppendProofInv ==
    ASSUME LogInv, NEW b \in awaiting, AppendProof(b)
    PROVE  LogInv'
<1> USE BoundsAssumption, RootsAssumption, NoneAssumption DEF LogInv, Ids, AppendProof
<1>1. index \in Index /\ saved \in Index /\ b \in Batch /\ b \in acked
    BY DEF TypeOK
<1>2. b.id \in Ids /\ b.id \notin index.proven_batches /\ b # NoBatch
    BY <1>1 DEF AckedOK, Batch
<1>3. saved.proven_batches \subseteq index.proven_batches
      /\ Holds(saved) /\ Proves(saved) /\ Holds(index) /\ Proves(index)
      /\ saved.last_batch_id <= index.last_batch_id
    BY DEF IndexesHold, Running
<1>4. \A id \in Ids : id # b.id => proofs'[id] = proofs[id]
    BY DEF TypeOK
<1>5. TypeOK' /\ FileIsSaved' /\ FilesNamed'
    BY <1>1, <1>2 DEF TypeOK, PCs, FileIsSaved, FilesNamed
<1>6. Holds(saved)' /\ Proves(saved)'
    BY <1>1, <1>2, <1>3, <1>4, CountedStays DEF Index
<1>7. Holds(index)' /\ Proves(index)'
    BY <1>1, <1>2, <1>3, <1>4, CountedStays DEF Index
<1>8. IndexesHold'
    BY <1>3, <1>6, <1>7 DEF IndexesHold, Running
<1>9. CallOK' /\ AckedOK' /\ CacheOK'
    BY <1>1, <1>2 DEF CallOK, AckedOK, CacheOK, CacheHonest, Running
<1> QED
    BY <1>5, <1>8, <1>9

\* The proof is complete before the index in memory counts it.
LEMMA WriteProofInv ==
    ASSUME LogInv, WriteProof, FlushMayFail = FALSE
    PROVE  LogInv'
<1> USE BoundsAssumption, RootsAssumption, NoneAssumption DEF LogInv, Ids, WriteProof
<1>1. index \in Index /\ saved \in Index /\ arg \in Batch /\ arg \in acked
      /\ arg.id \notin index.proven_batches
    BY DEF TypeOK, CallOK
<1>2. arg.id \in Ids /\ batches[arg.id] = arg /\ arg.id <= saved.last_batch_id
    BY <1>1 DEF AckedOK, Batch
<1>3. saved.proven_batches \subseteq index.proven_batches
      /\ Holds(saved) /\ Proves(saved) /\ Holds(index) /\ Proves(index)
      /\ saved.last_batch_id <= index.last_batch_id
    BY DEF IndexesHold, Running
<1>4. PICK form \in StoredForms :
         proofs' = [proofs EXCEPT ![arg.id] = ProofBytes(arg, form)]
    BY DEF Flushed
<1>5. /\ proofs'[arg.id] = ProofBytes(arg, form)
      /\ \A id \in Ids : id # arg.id => proofs'[id] = proofs[id]
    BY <1>2, <1>4 DEF TypeOK
<1>6. ProofBytes(arg, form) \in Receipt \cup {Seal}
    BY <1>1, ListsAssumption DEF ProofBytes, Receipt, Batch
<1>7. /\ index'.last_batch_id = index.last_batch_id
      /\ index'.current_state_root = index.current_state_root
      /\ index'.proven_batches = index.proven_batches \cup {arg.id}
      /\ index' \in Index
    BY <1>1, <1>2 DEF Index
<1>8. TypeOK' /\ FileIsSaved' /\ FilesNamed'
    BY <1>1, <1>4, <1>6, <1>7 DEF TypeOK, PCs, FileIsSaved, FilesNamed
<1>9. Holds(saved)' /\ Proves(saved)'
    BY <1>1, <1>2, <1>3, <1>5, CountedStays DEF Index
<1>10. Holds(index)'
    BY <1>3, <1>7 DEF Holds
<1>11. Proves(index)'
    <2> SUFFICES ASSUME NEW id \in index.proven_batches \cup {arg.id}
                 PROVE  /\ id <= index.last_batch_id
                        /\ \E f \in StoredForms : proofs'[id] = ProofBytes(batches[id], f)
        BY <1>7 DEF Proves, ProofBytes
    <2>1. CASE id = arg.id
        BY <2>1, <1>1, <1>2, <1>3, <1>5 DEF Index
    <2>2. CASE id # arg.id
        <3>1. id \in Ids /\ proofs'[id] = proofs[id]
            BY <2>2, <1>1, <1>5 DEF Index
        <3> QED
            BY <2>2, <3>1, <1>3 DEF Proves
    <2> QED
        BY <2>1, <2>2
<1>12. IndexesHold'
    BY <1>3, <1>7, <1>9, <1>10, <1>11 DEF IndexesHold, Running
<1>13. CallOK'
    BY <1>1 DEF CallOK
<1>14. AckedOK'
    <2>1. ASSUME NEW b \in awaiting PROVE b.id # arg.id
        <3>1. batches[b.id] = b
            BY DEF AckedOK, TypeOK
        <3>2. b # arg
            BY DEF CallOK
        <3> QED
            BY <3>1, <3>2, <1>2
    <2> QED
        BY <2>1, <1>7 DEF AckedOK, Running
<1>15. CacheOK'
    BY <1>7 DEF CacheOK, CacheHonest, Running
<1> QED
    BY <1>8, <1>12, <1>13, <1>14, <1>15

\* Once the index is written, the saved index is the one in memory.
LEMMA WriteIndexInv ==
    ASSUME LogInv, WriteIndex, FlushMayFail = FALSE
    PROVE  LogInv'
<1> USE BoundsAssumption, RootsAssumption, NoneAssumption DEF LogInv, Ids, WriteIndex
<1>1. index_file' = index /\ index \in Index /\ saved \in Index
    BY DEF Flushed, TypeOK
<1>2. Holds(index) /\ Proves(index) /\ saved.last_batch_id <= index.last_batch_id
    BY DEF IndexesHold, Running
<1>3. TypeOK'
    BY <1>1 DEF TypeOK, PCs
<1>4. FileIsSaved' /\ FilesNamed'
    BY <1>1 DEF FileIsSaved, FilesNamed
<1>5. Holds(index)' /\ Proves(index)'
    BY <1>2 DEF Holds, Proves, ProofBytes
<1>6. saved' = index /\ index' = index
    OBVIOUS
<1>7. IndexesHold'
    <2>1. Holds(saved)' /\ Proves(saved)'
        BY <1>2, <1>6 DEF Holds, Proves, ProofBytes
    <2> QED
        BY <2>1, <1>1, <1>5, <1>6 DEF IndexesHold, Running, Index
<1>8. CallOK' /\ CacheOK'
    BY DEF CallOK, CacheOK, CacheHonest, Running
<1>9. AckedOK'
    <2>1. \A b \in acked' : b.id <= index.last_batch_id /\ batches[b.id] = b
        BY <1>1, <1>2 DEF AckedOK, CallOK, TypeOK, Batch, Index
    <2>2. \A b \in awaiting' : b.id \notin index.proven_batches
        BY DEF AckedOK, CallOK
    <2> QED
        BY <2>1, <2>2 DEF AckedOK, Running
<1> QED
    BY <1>3, <1>4, <1>7, <1>8, <1>9

\* Steps that leave the files and the two indexes alone, and open nothing.
LEMMA IndexesStay ==
    ASSUME TypeOK, IndexesHold, UNCHANGED <<batches, proofs, index, saved>>,
           Running' => Running
    PROVE  IndexesHold'
<1>1. saved \in Index /\ index \in Index
    BY DEF TypeOK
<1>2. Holds(saved)' /\ Proves(saved)'
    BY <1>1, CountedStays DEF IndexesHold
<1>3. Running => Holds(index)' /\ Proves(index)'
    BY <1>1, CountedStays DEF IndexesHold
<1> QED
    BY <1>2, <1>3 DEF IndexesHold

\* The steps that write no file but, at most, truncate the index.
LEMMA QuietInv ==
    ASSUME LogInv,
           \/ TruncateIndex \/ Fail
           \/ \E b \in awaiting : ProverFails(b)
    PROVE  LogInv'
<1> USE BoundsAssumption, RootsAssumption, NoneAssumption DEF LogInv, Ids
<1>1. CASE TruncateIndex
    <2> USE <1>1 DEF TruncateIndex
    <2>1. TypeOK' /\ FileIsSaved' /\ FilesNamed'
        BY DEF TypeOK, PCs, FileIsSaved, FilesNamed
    <2>2. IndexesHold'
        BY IndexesStay DEF Running
    <2>3. CallOK'
        BY DEF CallOK, NextId, Continues
    <2>4. AckedOK'
        BY DEF AckedOK, Running
    <2>5. CacheOK'
        BY DEF CacheOK, CacheHonest, Running
    <2> QED
        BY <2>1, <2>2, <2>3, <2>4, <2>5
<1>2. CASE Fail
    <2> USE <1>2 DEF Fail, diskVars
    <2>1. TypeOK' /\ FileIsSaved' /\ FilesNamed'
        BY DEF TypeOK, PCs, FileIsSaved, FilesNamed
    <2>2. IndexesHold'
        BY IndexesStay DEF Running
    <2>3. CallOK'
        BY DEF CallOK, NextId, Continues
    <2>4. AckedOK'
        BY DEF AckedOK, Running
    <2>5. CacheOK'
        BY DEF CacheOK, CacheHonest, Running
    <2> QED
        BY <2>1, <2>2, <2>3, <2>4, <2>5
<1>3. ASSUME NEW b \in awaiting, ProverFails(b) PROVE LogInv'
    <2> USE <1>3 DEF ProverFails, diskVars
    <2>1. TypeOK' /\ FileIsSaved' /\ FilesNamed'
        BY DEF TypeOK, PCs, FileIsSaved, FilesNamed
    <2>2. IndexesHold'
        BY IndexesStay DEF Running
    <2>3. CallOK'
        BY DEF CallOK, NextId, Continues
    <2>4. AckedOK'
        BY DEF AckedOK, Running
    <2>5. CacheOK'
        BY DEF CacheOK, CacheHonest, Running
    <2> QED
        BY <2>1, <2>2, <2>3, <2>4, <2>5
<1> QED
    BY <1>1, <1>2, <1>3

\* A batch read from disk is cached under its own id.
LEMMA GetBatchInv ==
    ASSUME LogInv, NEW id \in Ids, GetBatch(id)
    PROVE  LogInv'
<1> USE BoundsAssumption, RootsAssumption, NoneAssumption DEF LogInv, Ids, GetBatch, diskVars
<1>1. batches[id] \in Batch /\ batches[id].id = id
    BY DEF TypeOK, FilesNamed
<1>2. \A i \in DOMAIN batch_cache' :
         /\ i \in DOMAIN batch_cache \cup {id}
         /\ batch_cache'[i] = IF i = id THEN batches[id] ELSE batch_cache[i]
    BY <1>1, CachedFacts
<1>3. TypeOK'
    BY <1>1, <1>2 DEF TypeOK
<1>4. FileIsSaved' /\ FilesNamed'
    BY DEF FileIsSaved, FilesNamed
<1>5. IndexesHold'
    BY DEF IndexesHold, Holds, Proves, Running, ProofBytes
<1>6. CallOK' /\ AckedOK'
    BY DEF CallOK, AckedOK, Running, NextId, Continues
<1>7. CacheOK'
    BY <1>2 DEF CacheOK, CacheHonest, Running
<1> QED
    BY <1>3, <1>4, <1>5, <1>6, <1>7

\* A crash leaves the files, so the saved index goes on holding.
LEMMA CrashInv ==
    ASSUME LogInv, Crash
    PROVE  LogInv'
<1> USE BoundsAssumption, RootsAssumption, NoneAssumption DEF LogInv, Ids, Crash, diskVars
<1>1. EmptyIndex \in Index
    BY DEF EmptyIndex, Index
<1>2. TypeOK' /\ FileIsSaved' /\ FilesNamed'
    BY <1>1 DEF TypeOK, PCs, EmptyCache, FileIsSaved, FilesNamed
<1>3. IndexesHold'
    BY DEF IndexesHold, Holds, Proves, Running, ProofBytes
<1>4. CallOK' /\ AckedOK' /\ CacheOK'
    BY DEF CallOK, AckedOK, CacheOK, CacheHonest, Running, EmptyCache
<1> QED
    BY <1>2, <1>3, <1>4

\* The invariant as a whole is preserved by every step, stutters included.
LEMMA StepInv ==
    ASSUME LogInv, [LogNext]_logVars, FlushMayFail = FALSE
    PROVE  LogInv'
<1>1. CASE UNCHANGED logVars
    <2> USE <1>1 DEF LogInv, logVars
    <2>1. TypeOK' /\ FileIsSaved' /\ FilesNamed'
        BY DEF TypeOK, FileIsSaved, FilesNamed
    <2>2. IndexesHold'
        BY DEF IndexesHold, Holds, Proves, Running, ProofBytes
    <2>3. CallOK' /\ AckedOK' /\ CacheOK'
        BY DEF CallOK, AckedOK, CacheOK, CacheHonest, Running, NextId, Continues
    <2> QED
        BY <2>1, <2>2, <2>3
<1>2. CASE LogNext
    BY <1>2, OpenInv, NewIndexInv, AppendBatchInv, WriteBatchInv, AppendProofInv,
       WriteProofInv, WriteIndexInv, QuietInv, GetBatchInv, CrashInv DEF LogNext
<1> QED
    BY <1>1, <1>2

\* The inductive invariant holds in every state of the log.
THEOREM LogInvAlways ==
    ASSUME FlushMayFail = FALSE PROVE LogSpec => []LogInv
<1>1. LogInv /\ [LogNext]_logVars => LogInv'
    BY StepInv
<1> QED
    BY <1>1, InitInv, PTL DEF LogSpec

\* Types: files, handle and histories hold what they may hold.
THEOREM LogTypeCorrect ==
    ASSUME FlushMayFail = FALSE PROVE LogSpec => []TypeOK
<1>1. LogInv => TypeOK
    BY DEF LogInv
<1> QED
    BY <1>1, LogInvAlways, PTL

\* Whenever index.json parses, what it counts can be replayed as a chain.
THEOREM AlwaysReplayable ==
    ASSUME FlushMayFail = FALSE PROVE LogSpec => []Replayable
<1>1. LogInv => Replayable
    BY DEF LogInv, FileIsSaved, IndexesHold, Replayable
<1> QED
    BY <1>1, LogInvAlways, PTL

\* What was acknowledged is in the saved index, which no index is behind.
LEMMA LogInvAcked == LogInv => AckedDurable
    BY BoundsAssumption DEF LogInv, IndexesHold, AckedOK, AckedDurable, Running, TypeOK,
       Index, Batch, Ids

\* A batch that append_batch returned Ok for is never lost to a crash or to
\* an error that was returned.
THEOREM AckedAlwaysDurable ==
    ASSUME FlushMayFail = FALSE PROVE LogSpec => []AckedDurable
BY LogInvAcked, LogInvAlways, PTL

\* The proofs that index.json names are complete and fit their batches.
THEOREM ProvenAlwaysHaveProofs ==
    ASSUME FlushMayFail = FALSE PROVE LogSpec => []ProvenHaveProofs
<1>1. LogInv => ProvenHaveProofs
    BY DEF LogInv, FileIsSaved, IndexesHold, Proves, ProvenHaveProofs
<1> QED
    BY <1>1, LogInvAlways, PTL

\* The cache never answers anything but what the batch's file says.
THEOREM CacheAlwaysHonest ==
    ASSUME FlushMayFail = FALSE PROVE LogSpec => []CacheHonest
<1>1. LogInv => CacheHonest
    BY DEF LogInv, CacheOK
<1> QED
    BY <1>1, LogInvAlways, PTL

-----------------------------------------------------------------------------
(* The refinement of BatchChain *)

\* How far the index in memory is ahead of the saved one: not at all, by the
\* batch a call appends, or by the proof a call stores.
AheadByOne ==
    /\ pc \in {"idle", "save_batch", "save_proof"} => index = saved
    /\ pc \in {"indexed", "save_index"} =>
          IF arg = NoBatch
          THEN /\ index.last_batch_id = saved.last_batch_id
               /\ index.current_state_root = saved.current_state_root
               /\ \E id \in 1 .. saved.last_batch_id :
                     index.proven_batches = saved.proven_batches \cup {id}
          ELSE /\ index.last_batch_id = saved.last_batch_id + 1
               /\ arg.id = index.last_batch_id
               /\ index.proven_batches = saved.proven_batches

\* Without I/O errors the index is saved after every change.
LEMMA AheadStep ==
    ASSUME LogInv, AheadByOne, [LogNext]_logVars, "io_errors" \notin env,
           FlushMayFail = FALSE
    PROVE  AheadByOne'
<1> USE BoundsAssumption, NoneAssumption DEF AheadByOne
<1>1. CASE UNCHANGED logVars
    BY <1>1 DEF logVars
<1>2. CASE Open
    BY <1>2 DEF Open, LogInv, FileIsSaved
<1>3. CASE OpenMissing \/ CreateIndex
    BY <1>3 DEF OpenMissing, CreateIndex
<1>4. CASE WriteNewIndex
    BY <1>4 DEF WriteNewIndex, LogInv, FileIsSaved
<1>5. ASSUME NEW txs \in TxLists, NEW pre \in Roots, NEW post \in Roots,
             AppendBatch(txs, pre, post)
      PROVE  AheadByOne'
    BY <1>5 DEF AppendBatch
<1>6. CASE WriteBatch
    <2>1. index \in Index /\ arg \in Batch /\ arg.id = index.last_batch_id + 1
        BY <1>6 DEF WriteBatch, LogInv, TypeOK, CallOK, NextId
    <2> QED
        BY <1>6, <2>1 DEF WriteBatch, Index
<1>7. ASSUME NEW b \in awaiting, AppendProof(b) \/ ProverFails(b)
      PROVE  AheadByOne'
    BY <1>7 DEF AppendProof, ProverFails
<1>8. CASE WriteProof
    <2>1. index \in Index /\ arg \in Batch /\ arg \in acked
        BY <1>8 DEF WriteProof, LogInv, TypeOK, CallOK
    <2>2. arg.id \in 1 .. saved.last_batch_id
        BY <2>1 DEF LogInv, AckedOK, TypeOK, Batch, Ids, Index
    <2> QED
        BY <1>8, <2>1, <2>2 DEF WriteProof, Index, LogInv, CallOK
<1>9. CASE TruncateIndex \/ WriteIndex
    BY <1>9 DEF TruncateIndex, WriteIndex
<1>10. CASE Fail
    BY <1>10 DEF Fail
<1>11. ASSUME NEW id \in Ids, GetBatch(id) PROVE AheadByOne'
    BY <1>11 DEF GetBatch
<1>12. CASE Crash
    BY <1>12 DEF Crash
<1> QED
    BY <1>1, <1>2, <1>3, <1>4, <1>5, <1>6, <1>7, <1>8, <1>9, <1>10, <1>11, <1>12 DEF LogNext

\* No step but the write of the index changes what the saved index counts.
LEMMA CountedUntouched ==
    ASSUME LogInv, AheadByOne, [LogNext]_logVars, ~WriteIndex
    PROVE  /\ saved' = saved
           /\ \A id \in 1 .. saved.last_batch_id : batches'[id] = batches[id]
<1> USE BoundsAssumption, NoneAssumption
<1>1. index \in Index /\ saved \in Index /\ batches \in [Ids -> Batch \cup {NoFile, Torn}]
    BY DEF LogInv, TypeOK
<1>2. ASSUME NEW txs \in TxLists, NEW pre \in Roots, NEW post \in Roots,
             AppendBatch(txs, pre, post)
      PROVE  /\ saved' = saved
             /\ \A id \in 1 .. saved.last_batch_id : batches'[id] = batches[id]
    <2>1. index = saved /\ batches' = [batches EXCEPT ![NextId] = Torn]
        BY <1>2 DEF AppendBatch, AheadByOne
    <2> QED
        BY <1>1, <1>2, <2>1 DEF AppendBatch, NextId, Index, Ids
<1>3. CASE WriteBatch
    <2>1. index = saved /\ arg.id = index.last_batch_id + 1
        BY <1>3 DEF WriteBatch, AheadByOne, LogInv, CallOK, NextId
    <2>2. PICK content : batches' = [batches EXCEPT ![arg.id] = content]
        BY <1>3 DEF WriteBatch
    <2> QED
        BY <1>1, <1>3, <2>1, <2>2 DEF WriteBatch, Index, Ids
<1>4. CASE UNCHANGED <<batches, saved>>
    BY <1>4
<1>5. CASE Open \/ OpenMissing \/ CreateIndex \/ WriteNewIndex \/ WriteProof
           \/ TruncateIndex \/ Fail \/ Crash \/ UNCHANGED logVars
    BY <1>4, <1>5 DEF Open, OpenMissing, CreateIndex, WriteNewIndex, WriteProof,
       TruncateIndex, Fail, Crash, logVars, diskVars
<1>6. ASSUME NEW b \in awaiting, AppendProof(b) \/ ProverFails(b)
      PROVE  UNCHANGED <<batches, saved>>
    BY <1>6 DEF AppendProof, ProverFails, diskVars
<1>7. ASSUME NEW id \in Ids, GetBatch(id) PROVE UNCHANGED <<batches, saved>>
    BY <1>7 DEF GetBatch, diskVars
<1> QED
    BY <1>2, <1>3, <1>4, <1>5, <1>6, <1>7 DEF LogNext

\* What the processes may meet does not change on the way.
LEMMA EnvStays == ASSUME [LogNext]_logVars PROVE env' = env
BY DEF LogNext, logVars, Open, OpenMissing, CreateIndex, WriteNewIndex, AppendBatch, WriteBatch,
       AppendProof, ProverFails, WriteProof, TruncateIndex, WriteIndex, Fail, GetBatch, Crash

\* A step of the log is a step of the chain or leaves it alone.
LEMMA ChainStep ==
    ASSUME LogInv, AheadByOne, [LogNext]_logVars, env = {}, FlushMayFail = FALSE
    PROVE  [Chain!ChainNext]_(Chain!chainVars)
<1> USE BoundsAssumption, NoneAssumption, RootsAssumption
<1> DEFINE Link(b) == [txs |-> b.txs, pre |-> b.pre, post |-> b.post]
           L == [id \in 1 .. saved.last_batch_id |-> Link(batches[id])]
<1>1. index \in Index /\ saved \in Index /\ Holds(saved)
    BY DEF LogInv, TypeOK, IndexesHold
<1>0. env' = {}
    BY EnvStays
<1>2. CASE ~WriteIndex
    BY <1>0, <1>2, CountedUntouched DEF Chain!chainVars
<1>3. CASE WriteIndex
    <2>1. saved' = index /\ batches' = batches /\ pc = "save_index"
        BY <1>3 DEF WriteIndex
    <2>2. CASE arg = NoBatch
        <3>1. PICK id \in 1 .. saved.last_batch_id :
                 index.proven_batches = saved.proven_batches \cup {id}
            BY <2>1, <2>2 DEF AheadByOne
        <3>2. index.last_batch_id = saved.last_batch_id
            BY <2>1, <2>2 DEF AheadByOne
        <3>3. L' = L
            BY <2>1, <3>2
        <3>4. Len(L) = saved.last_batch_id
            BY <1>1 DEF Index
        <3>5. Chain!Certify
            <4>1. saved'.proven_batches = saved.proven_batches \cup {id}
                BY <2>1, <3>1
            <4>2. id \in 1 .. Len(L)
                BY <3>1, <3>4
            <4> QED
                BY <1>0, <4>1, <4>2, <3>3 DEF Chain!Certify
        <3> QED
            BY <3>5 DEF Chain!ChainNext
    <2>3. CASE arg # NoBatch
        <3>1. /\ index.last_batch_id = saved.last_batch_id + 1
              /\ index.proven_batches = saved.proven_batches
            BY <2>1, <2>3 DEF AheadByOne
        <3>2. Len(L) = saved.last_batch_id /\ Len(L') = saved.last_batch_id + 1
            BY <1>1, <2>1, <3>1 DEF Index
        <3>3. \A i \in 1 .. Len(L) : L'[i] = L[i]
            BY <1>1, <2>1, <3>1, <3>2 DEF Index
        <3>4. PICK b : b = batches[index.last_batch_id]
            OBVIOUS
        <3>5. /\ b \in Batch
              /\ b.pre = IF index.last_batch_id = 1 THEN ZeroRoot
                         ELSE batches[index.last_batch_id - 1].post
            BY <1>1, <2>1, <3>1, <3>4 DEF LogInv, IndexesHold, Running, Holds, Index
        <3>6. L'[Len(L) + 1] = Link(b)
            BY <1>1, <2>1, <3>1, <3>2, <3>4 DEF Index
        <3>7. b.txs # <<>>
            BY <3>5, ListsAssumption DEF Batch
        <3>8. (L = <<>>) <=> (saved.last_batch_id = 0)
            BY <1>1, <3>2 DEF Index
        <3>9. saved.last_batch_id # 0 => L[Len(L)].post = batches[saved.last_batch_id].post
            BY <1>1, <3>2 DEF Index
        <3>10. L'[Len(L) + 1].pre = Chain!EndOfChain
            BY <1>1, <3>1, <3>2, <3>5, <3>6, <3>8, <3>9 DEF Chain!EndOfChain, Index
        <3>11. Chain!Extend
            <4>1. saved'.proven_batches = saved.proven_batches
                BY <2>1, <3>1
            <4>2. L'[Len(L) + 1].txs # <<>>
                <5> HIDE DEF L
                <5>1. Link(b).txs = b.txs
                    OBVIOUS
                <5> QED
                    BY <5>1, <3>6, <3>7, Zenon
            <4>3. Len(L') = Len(L) + 1
                BY <3>2
            <4> QED
                BY <1>0, <4>1, <4>2, <4>3, <3>3, <3>10 DEF Chain!Extend
        <3> QED
            BY <3>11 DEF Chain!ChainNext
    <2> QED
        BY <2>2, <2>3
<1> QED
    BY <1>2, <1>3

AheadInv == env = {} => AheadByOne

\* Across crashes at any point, without I/O errors and in a directory that has an
\* index, what index.json counts is the append-only chain that BatchChain describes.
THEOREM LogImplementsBatchChain ==
    ASSUME FlushMayFail = FALSE PROVE LogSpec => ImplementsBatchChain
<1>1. LogInit => AheadInv
    BY DEF LogInit, AheadByOne, AheadInv
<1>2. LogInv /\ AheadInv /\ [LogNext]_logVars => AheadInv'
    BY AheadStep, EnvStays DEF AheadInv
<1>3. LogInit => Chain!ChainInit
    BY DEF LogInit, EmptyIndex, Chain!ChainInit
<1>4. LogInv /\ AheadInv /\ [LogNext]_logVars => [Chain!ChainNext]_(Chain!chainVars)
    <2> SUFFICES ASSUME LogInv, AheadInv, [LogNext]_logVars
                 PROVE  [Chain!ChainNext]_(Chain!chainVars)
        OBVIOUS
    <2>1. CASE env = {}
        BY <2>1, ChainStep DEF AheadInv
    <2>2. CASE env # {}
        <3>1. env' # {}
            BY <2>2, EnvStays
        <3> QED
            BY <2>2, <3>1 DEF Chain!chainVars
    <2> QED
        BY <2>1, <2>2
<1> QED
    BY <1>1, <1>2, <1>3, <1>4, LogInvAlways, PTL
       DEF LogSpec, ImplementsBatchChain, Chain!ChainSpec

-----------------------------------------------------------------------------
(* The verifier *)

\* With an index there, nobody creates one.
IndexIsThere ==
    /\ index_file # NoFile
    /\ pc \notin {"no_index", "new_index"}
    /\ v_pc \in {"down", "up"}

\* The verifier's index is an earlier one of the saved index.
VIndexOK ==
    v_index # NoDa =>
        /\ v_index \in Index
        /\ Holds(v_index)
        /\ \A id \in v_index.proven_batches : id <= v_index.last_batch_id
        /\ v_index.last_batch_id <= saved.last_batch_id
        /\ v_index.proven_batches \subseteq saved.proven_batches

\* Its cache agrees with the files of the batches that its index counts.
VCacheOK ==
    /\ DOMAIN v_cache \subseteq Ids
    /\ v_index # NoDa =>
          \A id \in DOMAIN v_cache :
              id <= v_index.last_batch_id => v_cache[id] = batches[id]

\* A verifier that has not opened the log has nothing of it.
DownOK ==
    v_pc = "down" => v_index = NoDa /\ v_cache = EmptyCache /\ v_result = "idle"

\* A request that finds no file, or a torn one, has no index.
NoneMissing == v_result = "da_error" => v_index = NoDa

VerInv ==
    /\ LogInv
    /\ IndexIsThere /\ VIndexOK /\ VCacheOK /\ DownOK
    /\ last_verified_batch \in Nat
    /\ VerifiedAreCommitted
    /\ NoneMissing

-----------------------------------------------------------------------------

\* What the saved index counts is never taken back, and its files stay.
LEMMA SavedGrows ==
    ASSUME LogInv, [LogNext]_logVars, FlushMayFail = FALSE
    PROVE  /\ saved.last_batch_id <= saved'.last_batch_id
           /\ saved.proven_batches \subseteq saved'.proven_batches
           /\ \A id \in 1 .. saved.last_batch_id : batches'[id] = batches[id]
<1> USE BoundsAssumption, NoneAssumption
<1>1. index \in Index /\ saved \in Index /\ batches \in [Ids -> Batch \cup {NoFile, Torn}]
    BY DEF LogInv, TypeOK
<1>2. Running => /\ saved.last_batch_id <= index.last_batch_id
                 /\ saved.proven_batches \subseteq index.proven_batches
    BY DEF LogInv, IndexesHold
<1>3. ASSUME NEW txs \in TxLists, NEW pre \in Roots, NEW post \in Roots,
             AppendBatch(txs, pre, post)
      PROVE  /\ saved' = saved
             /\ \A id \in 1 .. saved.last_batch_id : batches'[id] = batches[id]
    BY <1>1, <1>2, <1>3 DEF AppendBatch, NextId, Index, Ids, Running
<1>4. CASE WriteBatch
    <2>1. arg.id = index.last_batch_id + 1 /\ saved.last_batch_id <= index.last_batch_id
        BY <1>2, <1>4 DEF WriteBatch, LogInv, CallOK, NextId, Running
    <2>2. PICK content : batches' = [batches EXCEPT ![arg.id] = content]
        BY <1>4 DEF WriteBatch
    <2>3. saved' = saved /\ \A id \in 1 .. saved.last_batch_id : batches'[id] = batches[id]
        BY <1>1, <1>4, <2>1, <2>2 DEF WriteBatch, Index, Ids
    <2> QED
        BY <1>1, <2>3 DEF Index
<1>5. CASE WriteIndex
    BY <1>1, <1>2, <1>5 DEF WriteIndex, Running
<1>6. CASE UNCHANGED <<batches, saved>>
    BY <1>1, <1>6 DEF Index
<1>7. CASE Open \/ OpenMissing \/ CreateIndex \/ WriteNewIndex \/ WriteProof
           \/ TruncateIndex \/ Fail \/ Crash \/ UNCHANGED logVars
    BY <1>6, <1>7 DEF Open, OpenMissing, CreateIndex, WriteNewIndex, WriteProof,
       TruncateIndex, Fail, Crash, logVars, diskVars
<1>8. ASSUME NEW b \in awaiting, AppendProof(b) \/ ProverFails(b)
      PROVE  UNCHANGED <<batches, saved>>
    BY <1>8 DEF AppendProof, ProverFails, diskVars
<1>9. ASSUME NEW id \in Ids, GetBatch(id) PROVE UNCHANGED <<batches, saved>>
    BY <1>9 DEF GetBatch, diskVars
<1>10. saved.last_batch_id <= saved.last_batch_id
    BY <1>1 DEF Index
<1> QED
    BY <1>3, <1>4, <1>5, <1>6, <1>7, <1>8, <1>9, <1>10 DEF LogNext

\* The sequencer does not remove an index.
LEMMA IndexStays ==
    ASSUME LogInv, IndexIsThere, [LogNext]_logVars, FlushMayFail = FALSE
    PROVE  index_file' # NoFile /\ pc' \notin {"no_index", "new_index"}
<1> USE NoneAssumption DEF IndexIsThere
<1>1. index \in Index
    BY DEF LogInv, TypeOK
<1>2. CASE Open \/ OpenMissing \/ CreateIndex \/ WriteNewIndex \/ WriteBatch \/ WriteProof
    BY <1>2 DEF Open, OpenMissing, CreateIndex, WriteNewIndex, WriteBatch, WriteProof, diskVars
<1>3. CASE TruncateIndex \/ WriteIndex \/ Fail \/ Crash \/ UNCHANGED logVars
    BY <1>1, <1>3 DEF TruncateIndex, WriteIndex, Flushed, Fail, Crash, logVars, diskVars
<1>4. ASSUME NEW txs \in TxLists, NEW pre \in Roots, NEW post \in Roots,
             AppendBatch(txs, pre, post)
      PROVE  index_file' # NoFile /\ pc' \notin {"no_index", "new_index"}
    BY <1>4 DEF AppendBatch
<1>5. ASSUME NEW b \in awaiting, AppendProof(b) \/ ProverFails(b)
      PROVE  index_file' # NoFile /\ pc' \notin {"no_index", "new_index"}
    BY <1>5 DEF AppendProof, ProverFails, diskVars
<1>6. ASSUME NEW id \in Ids, GetBatch(id)
      PROVE  index_file' # NoFile /\ pc' \notin {"no_index", "new_index"}
    BY <1>6 DEF GetBatch, diskVars
<1> QED
    BY <1>2, <1>3, <1>4, <1>5, <1>6 DEF LogNext

\* The first state satisfies the invariant.
LEMMA VerInitInv ==
    ASSUME Init, "fresh_dir" \notin env
    PROVE  VerInv
<1> USE NoneAssumption, BoundsAssumption, RootsAssumption DEF Init
<1>1. LogInv
    BY InitInv
<1>2. IndexIsThere
    <2>1. EmptyIndex \in Index
        BY DEF EmptyIndex, Index
    <2> QED
        BY <2>1 DEF LogInit, IndexIsThere
<1>3. VIndexOK /\ VCacheOK /\ DownOK
    BY DEF VIndexOK, VCacheOK, DownOK, EmptyCache
<1>4. VerifiedAreCommitted /\ NoneMissing
    BY DEF VerifiedAreCommitted, NoneMissing, LogInit, EmptyIndex, EmptyCache
<1> QED
    BY <1>1, <1>2, <1>3, <1>4 DEF VerInv

-----------------------------------------------------------------------------

\* Whatever the sequencer does, the verifier's view stays a true one.
LEMMA LogPartInv ==
    ASSUME VerInv, [LogNext]_logVars, UNCHANGED verVars, FlushMayFail = FALSE
    PROVE  VerInv'
<1> USE BoundsAssumption DEF VerInv, verVars
<1>1. LogInv'
    BY StepInv
<1>2. /\ saved.last_batch_id <= saved'.last_batch_id
      /\ saved.proven_batches \subseteq saved'.proven_batches
      /\ \A id \in 1 .. saved.last_batch_id : batches'[id] = batches[id]
    BY SavedGrows
<1>3. saved \in Index /\ saved' \in Index
    BY <1>1 DEF LogInv, TypeOK
<1>4. IndexIsThere'
    BY IndexStays DEF IndexIsThere
<1>5. VIndexOK' /\ DownOK'
    <2>1. ASSUME v_index # NoDa PROVE Holds(v_index)'
        <3>1. /\ v_index \in Index /\ Holds(v_index)
              /\ v_index.last_batch_id <= saved.last_batch_id
            BY <2>1 DEF VIndexOK
        <3>2. \A id \in 1 .. v_index.last_batch_id : batches'[id] = batches[id]
            BY <1>2, <1>3, <3>1 DEF Index
        <3> QED
            BY <3>1, <3>2 DEF Holds, Index
    <2> QED
        BY <1>2, <1>3, <2>1 DEF VIndexOK, DownOK, Index
<1>6. VCacheOK'
    BY <1>2, <1>3 DEF VCacheOK, VIndexOK, Index, Ids
<1>7. VerifiedAreCommitted'
    BY <1>2, <1>3 DEF VerifiedAreCommitted, Index
<1>8. NoneMissing'
    BY DEF NoneMissing
<1> QED
    BY <1>1, <1>4, <1>5, <1>6, <1>7, <1>8

\* The verifier does not change what the sequencer's invariant is about.
LEMMA LogUntouched ==
    ASSUME LogInv, UNCHANGED logVars, FlushMayFail = FALSE
    PROVE  LogInv'
BY StepInv

\* A whole index file is the index saved last.
LEMMA VOpenInv ==
    ASSUME VerInv, VOpen, FlushMayFail = FALSE
    PROVE  VerInv'
<1> USE NoneAssumption, NoDaAssumption, BoundsAssumption DEF VerInv, VOpen, logVars
<1>1. LogInv'
    BY LogUntouched
<1>2. saved \in Index /\ index_file \in {saved, Torn}
    BY DEF LogInv, TypeOK, FileIsSaved
<1>3. IndexIsThere' /\ DownOK'
    BY DEF IndexIsThere, DownOK
<1>4. VIndexOK'
    <2>1. CASE index_file = Torn
        BY <2>1 DEF VIndexOK
    <2>2. CASE index_file = saved
        <3>1. /\ Holds(saved) /\ batches' = batches
              /\ \A id \in saved.proven_batches : id <= saved.last_batch_id
            BY DEF LogInv, IndexesHold, Proves
        <3>2. v_index' = saved /\ saved' = saved
            BY <1>2, <2>2
        <3> QED
            BY <1>2, <3>1, <3>2 DEF VIndexOK, Holds, Index
    <2> QED
        BY <1>2, <2>1, <2>2
<1>5. VCacheOK'
    BY DEF VCacheOK, DownOK, EmptyCache
<1>6. VerifiedAreCommitted' /\ NoneMissing'
    BY DEF VerifiedAreCommitted, NoneMissing, DownOK
<1> QED
    BY <1>1, <1>3, <1>4, <1>5, <1>6

\* The batch that the verifier reads is the one on disk, complete, and starts
\* where the batch before it ended.
LEMMA NextBatch ==
    ASSUME VerInv, v_index # NoDa, ~Beyond(last_verified_batch + 1)
    PROVE  LET id == last_verified_batch + 1
           IN  /\ id \in Ids /\ id <= saved.last_batch_id
               /\ VBatch(id) = batches[id] /\ batches[id] \in Batch /\ batches[id].id = id
               /\ last_verified_batch > 0 => batches[id].pre = verified_root
               /\ Readable(id)
<1> USE NoneAssumption, BoundsAssumption DEF VerInv
<1> DEFINE id == last_verified_batch + 1
<1>1. /\ saved \in Index /\ v_index \in Index
      /\ v_index.last_batch_id <= saved.last_batch_id
      /\ id <= v_index.last_batch_id
    BY DEF LogInv, TypeOK, VIndexOK, Beyond, Index
<1>2. id \in 1 .. saved.last_batch_id /\ id \in Ids
    BY <1>1 DEF Index, Ids
<1>3. /\ batches[id] \in Batch /\ batches[id].id = id
      /\ batches[id].pre = IF id = 1 THEN ZeroRoot ELSE batches[id - 1].post
    BY <1>2 DEF LogInv, IndexesHold, Holds
<1>4. VBatch(id) = batches[id]
    BY <1>1 DEF VBatch, VCacheOK
<1>5. last_verified_batch > 0 => batches[id].pre = verified_root
    BY <1>3 DEF VerifiedAreCommitted
<1>6. Readable(id)
    BY <1>3, <1>4 DEF Readable
<1> QED
    BY <1>1, <1>2, <1>3, <1>4, <1>5, <1>6

\* A proof that the verifier finds is complete and made for the batch.
LEMMA NextProof ==
    ASSUME VerInv, v_index # NoDa, ~Beyond(last_verified_batch + 1),
           IsProven(last_verified_batch + 1)
    PROVE  LET id == last_verified_batch + 1
           IN  /\ id \in saved.proven_batches
               /\ proofs[id] \notin {NoFile, Torn}
               /\ proofs[id] \in {Seal, ProofBytes(batches[id], "receipt")}
<1> USE NoneAssumption, FormsAssumption, BoundsAssumption DEF VerInv
<1> DEFINE id == last_verified_batch + 1
<1>1. id \in saved.proven_batches
    BY DEF VIndexOK, IsProven
<1>2. PICK form \in StoredForms : proofs[id] = ProofBytes(batches[id], form)
    BY <1>1 DEF LogInv, IndexesHold, Proves
<1>3. batches[id] \in Batch
    BY NextBatch
<1>4. proofs[id] \in {Seal, ProofBytes(batches[id], "receipt")}
    BY <1>2 DEF ProofBytes
<1>5. ProofBytes(batches[id], "receipt") \in Receipt
    <2>1. batches[id].txs \in TxLists /\ batches[id].pre \in Roots /\ batches[id].post \in Roots
        BY <1>3 DEF Batch
    <2>2. Len(batches[id].txs) \in Nat
        BY <2>1, ListsAssumption
    <2> QED
        BY <2>1, <2>2 DEF ProofBytes, Receipt
<1> QED
    BY <1>1, <1>4, <1>5

\* What the answers of verify_next tell.
LEMMA AnswerFacts ==
    ASSUME VerInv
    PROVE  /\ Answer = "da_error" => v_index = NoDa
           /\ Answer = "verified" => /\ v_index # NoDa
                                     /\ ~Beyond(last_verified_batch + 1)
                                     /\ IsProven(last_verified_batch + 1)
<1> DEFINE id == last_verified_batch + 1
<1>1. CASE v_index = NoDa \/ Beyond(id)
    BY <1>1 DEF Answer
<1>2. CASE v_index # NoDa /\ ~Beyond(id) /\ ~IsProven(id)
    BY <1>2, NextBatch DEF Answer
<1>3. CASE v_index # NoDa /\ ~Beyond(id) /\ IsProven(id)
    <2>1. /\ VBatch(id) = batches[id] /\ Readable(id)
          /\ last_verified_batch > 0 => batches[id].pre = verified_root
        BY <1>3, NextBatch
    <2>2. /\ proofs[id] \notin {NoFile, Torn}
          /\ proofs[id] \in {Seal, ProofBytes(batches[id], "receipt")}
        BY <1>3, NextProof
    <2>3. Answer = Verdict(batches[id], proofs[id])
        BY <1>3, <2>1, <2>2 DEF Answer
    <2>4. Verdict(batches[id], proofs[id]) \in {"undecodable", "verified"}
        BY <2>1, <2>2 DEF Verdict, ProofBytes
    <2> QED
        BY <1>3, <2>3, <2>4
<1> QED
    BY <1>1, <1>2, <1>3

-----------------------------------------------------------------------------

\* One request to verify the next batch.
LEMMA VerifyNextInv ==
    ASSUME VerInv, VerifyNext, FlushMayFail = FALSE
    PROVE  VerInv'
<1> USE NoneAssumption, BoundsAssumption DEF VerInv
<1> DEFINE id == last_verified_batch + 1
<1>1. UNCHANGED logVars /\ UNCHANGED <<v_pc, v_index>> /\ v_pc = "up" /\ v_result' = Answer
    BY DEF VerifyNext
<1>2. LogInv'
    BY <1>1, LogUntouched
<1>3. IndexIsThere' /\ VIndexOK' /\ DownOK'
    BY <1>1 DEF logVars, IndexIsThere, VIndexOK, Holds, DownOK
<1>4. VCacheOK'
    <2>1. CASE v_cache' = v_cache
        BY <1>1, <2>1 DEF logVars, VCacheOK
    <2>2. CASE v_cache' # v_cache
        <3>1. v_index # NoDa /\ id <= v_index.last_batch_id /\ v_cache' = Cached(v_cache, VBatch(id))
            BY <2>2 DEF VerifyNext
        <3>2. VBatch(id) = batches[id] /\ batches[id].id = id /\ id \in Ids
            <4>1. v_index \in Index
                BY <3>1 DEF VIndexOK
            <4>2. ~Beyond(id)
                BY <3>1, <4>1 DEF Beyond, Index
            <4> QED
                BY <3>1, <4>2, NextBatch
        <3>3. /\ DOMAIN v_cache' \subseteq DOMAIN v_cache \cup {id}
              /\ \A i \in DOMAIN v_cache' :
                    v_cache'[i] = IF i = id THEN batches[id] ELSE v_cache[i]
            BY <3>1, <3>2, CachedFacts
        <3> QED
            BY <1>1, <3>2, <3>3 DEF logVars, VCacheOK
    <2> QED
        BY <2>1, <2>2
<1>5. VerifiedAreCommitted' /\ last_verified_batch' \in Nat
    <2>1. CASE Answer # "verified"
        BY <1>1, <2>1 DEF VerifyNext, VerifiedAreCommitted, logVars
    <2>2. CASE Answer = "verified"
        <3>1. v_index # NoDa /\ ~Beyond(id) /\ IsProven(id)
            BY <2>2, AnswerFacts
        <3>2. /\ VBatch(id) = batches[id] /\ batches[id].id = id
              /\ id <= saved.last_batch_id /\ id \in saved.proven_batches
            BY <3>1, NextBatch, NextProof
        <3>3. /\ last_verified_batch' = id
              /\ verified_root' = batches[id].post
              /\ verified' = [i \in DOMAIN verified \cup {id} |->
                                IF i = id THEN batches[id] ELSE verified[i]]
            BY <2>2, <3>2 DEF VerifyNext
        <3>4. DOMAIN verified' = 1 .. id
            BY <3>3 DEF VerifiedAreCommitted
        <3>5. \A i \in DOMAIN verified' : verified'[i] = batches[i] /\ i \in saved.proven_batches
            BY <3>2, <3>3 DEF VerifiedAreCommitted
        <3> QED
            BY <1>1, <3>2, <3>3, <3>4, <3>5 DEF VerifiedAreCommitted, logVars
    <2> QED
        BY <2>1, <2>2
<1>6. NoneMissing'
    BY <1>1, AnswerFacts DEF NoneMissing
<1> QED
    BY <1>2, <1>3, <1>4, <1>5, <1>6

\* The other steps of the verifier.
LEMMA OtherStepInv ==
    ASSUME VerInv, VRestart \/ \E id \in Ids : GetBatchStatus(id), FlushMayFail = FALSE
    PROVE  VerInv'
<1> USE NoneAssumption, BoundsAssumption DEF VerInv
<1>1. UNCHANGED logVars
    BY DEF VRestart, GetBatchStatus
<1>2. LogInv'
    BY <1>1, LogUntouched
<1>3. CASE VRestart
    <2>1. IndexIsThere' /\ VIndexOK' /\ VCacheOK' /\ DownOK'
        BY <1>3 DEF VRestart, logVars, IndexIsThere, VIndexOK, VCacheOK, DownOK, EmptyCache
    <2>2. saved \in Index
        BY DEF LogInv, TypeOK
    <2>3. VerifiedAreCommitted' /\ NoneMissing' /\ last_verified_batch' \in Nat
        BY <1>3, <2>2 DEF VRestart, logVars, VerifiedAreCommitted, NoneMissing, EmptyCache, Index
    <2> QED
        BY <1>2, <2>1, <2>3
<1>4. ASSUME NEW id \in Ids, GetBatchStatus(id) PROVE VerInv'
    <2>1. UNCHANGED <<v_pc, v_index, last_verified_batch, verified_root, verified, v_result>>
        BY <1>4 DEF GetBatchStatus
    <2>2. VBatch(id) = batches[id] /\ batches[id].id = id
        BY <1>4 DEF GetBatchStatus, VBatch, Readable, LogInv, TypeOK, FilesNamed
    <2>3. /\ DOMAIN v_cache' \subseteq DOMAIN v_cache \cup {id}
          /\ \A i \in DOMAIN v_cache' :
                v_cache'[i] = IF i = id THEN batches[id] ELSE v_cache[i]
        BY <1>4, <2>2, CachedFacts DEF GetBatchStatus
    <2>4. VCacheOK'
        BY <1>1, <2>1, <2>3 DEF VCacheOK, logVars
    <2>5. IndexIsThere' /\ VIndexOK' /\ DownOK'
        BY <1>1, <1>4, <2>1 DEF GetBatchStatus, logVars, IndexIsThere, VIndexOK, Holds, DownOK
    <2>6. VerifiedAreCommitted' /\ NoneMissing' /\ last_verified_batch' \in Nat
        BY <1>1, <2>1 DEF logVars, VerifiedAreCommitted, NoneMissing
    <2> QED
        BY <1>2, <2>4, <2>5, <2>6
<1> QED
    BY <1>3, <1>4

\* Every step of the two processes.
LEMMA VerStepInv ==
    ASSUME VerInv, [Next]_vars, FlushMayFail = FALSE
    PROVE  VerInv'
<1>1. CASE UNCHANGED vars
    BY <1>1, LogPartInv DEF vars, logVars, verVars
<1>2. CASE LogNext /\ UNCHANGED verVars
    BY <1>2, LogPartInv
<1>3. CASE VNext
    <2>1. ~VOpenMissing /\ ~VCreateIndex /\ ~VWriteNewIndex
        BY DEF VerInv, IndexIsThere, VOpenMissing, VCreateIndex, VWriteNewIndex
    <2> QED
        BY <1>3, <2>1, VOpenInv, VerifyNextInv, OtherStepInv DEF VNext
<1> QED
    BY <1>1, <1>2, <1>3 DEF Next

\* Nor does a step of the verifier change what the processes may meet.
LEMMA NextEnvStays == ASSUME [Next]_vars PROVE env' = env
<1>1. CASE UNCHANGED vars \/ (LogNext /\ UNCHANGED verVars)
    BY <1>1, EnvStays DEF vars, logVars
<1>2. CASE VNext
    BY <1>2 DEF VNext, VOpen, VOpenMissing, VCreateIndex, VWriteNewIndex, VerifyNext,
       GetBatchStatus, VRestart, logVars
<1> QED
    BY <1>1, <1>2 DEF Next

\* In a directory that had an index at the start.
HadIndex == "fresh_dir" \notin env

\* The inductive invariant holds in every state.
THEOREM VerInvAlways ==
    ASSUME FlushMayFail = FALSE PROVE Spec => [](HadIndex => VerInv)
<1>1. Init => (HadIndex => VerInv)
    BY VerInitInv DEF HadIndex
<1>2. (HadIndex => VerInv) /\ [Next]_vars => (HadIndex => VerInv)'
    <2> SUFFICES ASSUME HadIndex => VerInv, [Next]_vars, HadIndex' PROVE VerInv'
        OBVIOUS
    <2> QED
        BY NextEnvStays, VerStepInv DEF HadIndex
<1> QED
    BY <1>1, <1>2, PTL DEF Spec

\* What the verifier reports as verified is a proven beginning of the log,
\* whatever the sequencer does beside it.
THEOREM VerifiedAlwaysCommitted ==
    ASSUME FlushMayFail = FALSE PROVE Spec => [](HadIndex => VerifiedAreCommitted)
<1>1. VerInv => VerifiedAreCommitted
    BY DEF VerInv
<1> QED
    BY <1>1, VerInvAlways, PTL

\* What the index that the verifier has read counts is there and whole, however
\* long ago it was read.
THEOREM CountedAlwaysWhole ==
    ASSUME FlushMayFail = FALSE PROVE Spec => [](HadIndex => CountedIsWhole)
<1>1. VerInv => CountedIsWhole
    <2> SUFFICES ASSUME VerInv, v_index # NoDa
                 PROVE  /\ Holds(v_index)
                        /\ \A id \in 1 .. v_index.last_batch_id : VBatch(id) = batches[id]
                        /\ \A id \in v_index.proven_batches :
                              /\ id <= v_index.last_batch_id
                              /\ \E form \in StoredForms :
                                    proofs[id] = ProofBytes(VBatch(id), form)
        BY DEF CountedIsWhole, VerInv, NoneMissing
    <2>1. /\ v_index \in Index /\ Holds(v_index)
          /\ v_index.proven_batches \subseteq saved.proven_batches
          /\ \A id \in v_index.proven_batches : id <= v_index.last_batch_id
        BY DEF VerInv, VIndexOK
    <2>2. ASSUME NEW id, id <= v_index.last_batch_id PROVE VBatch(id) = batches[id]
        BY <2>2 DEF VerInv, VCacheOK, VBatch
    <2>3. \A id \in v_index.proven_batches :
             \E form \in StoredForms : proofs[id] = ProofBytes(batches[id], form)
        BY <2>1 DEF VerInv, LogInv, IndexesHold, Proves
    <2>4. \A id \in 1 .. v_index.last_batch_id : VBatch(id) = batches[id]
        BY <2>1, <2>2 DEF Index
    <2>5. \A id \in v_index.proven_batches : VBatch(id) = batches[id]
        BY <2>1, <2>2
    <2> QED
        BY <2>1, <2>3, <2>4, <2>5
<1> QED
    BY <1>1, VerInvAlways, PTL

\* No batch that was acknowledged is lost while a verifier runs beside the
\* sequencer.
THEOREM AckedAlwaysDurableBeside ==
    ASSUME FlushMayFail = FALSE PROVE Spec => []AckedDurableBeside
<1>1. (HadIndex => VerInv) => AckedDurableBeside
    BY LogInvAcked DEF AckedDurableBeside, HadIndex, VerInv
<1> QED
    BY <1>1, VerInvAlways, PTL

\* To the log, a step of the verifier is a stutter.
LEMMA LogSteps ==
    ASSUME VerInv, [Next]_vars PROVE [LogNext]_logVars
<1>1. ~VOpenMissing /\ ~VCreateIndex /\ ~VWriteNewIndex
    BY DEF VerInv, IndexIsThere, VOpenMissing, VCreateIndex, VWriteNewIndex
<1>2. CASE VNext
    BY <1>1, <1>2 DEF VNext, VOpen, VerifyNext, GetBatchStatus, VRestart
<1> QED
    BY <1>2 DEF Next, vars

\* Beside a verifier too, the log is the append-only chain.
THEOREM LogImplementsBatchChainBeside ==
    ASSUME FlushMayFail = FALSE PROVE Spec => ImplementsBatchChain
<1>1. Init => AheadInv /\ Chain!ChainInit
    BY DEF Init, LogInit, AheadByOne, AheadInv, EmptyIndex, Chain!ChainInit
<1>2. (HadIndex => VerInv) /\ AheadInv /\ [Next]_vars
        => AheadInv' /\ [Chain!ChainNext]_(Chain!chainVars)
    <2> SUFFICES ASSUME HadIndex => VerInv, AheadInv, [Next]_vars
                 PROVE  AheadInv' /\ [Chain!ChainNext]_(Chain!chainVars)
        OBVIOUS
    <2>0. env' = env
        BY NextEnvStays
    <2>1. CASE env = {}
        <3>1. VerInv /\ AheadByOne
            BY <2>1 DEF HadIndex, AheadInv
        <3>2. LogInv /\ [LogNext]_logVars
            BY <3>1, LogSteps DEF VerInv
        <3>3. AheadByOne'
            BY <2>1, <3>1, <3>2, AheadStep
        <3> QED
            BY <2>1, <3>1, <3>2, <3>3, ChainStep DEF AheadInv
    <2>2. CASE env # {}
        BY <2>0, <2>2 DEF AheadInv, Chain!chainVars
    <2> QED
        BY <2>1, <2>2
<1> QED
    BY <1>1, <1>2, VerInvAlways, PTL DEF Spec, ImplementsBatchChain, Chain!ChainSpec
=============================================================================

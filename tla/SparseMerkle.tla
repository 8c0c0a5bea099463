---------------------------- MODULE SparseMerkle ----------------------------
(***************************************************************************)
(* The sparse Merkle tree (core/merkle/tree.rs) that commits accounts and  *)
(* positions: a map of leaves, its root, and the proofs drawn from it.     *)
(*                                                                         *)
(* Hashes are terms, so that a pair is hashed injectively.  Keys and       *)
(* values are opaque; a key's path is the first Depth bits of it, which    *)
(* another key may have as well.  Of the keys with one path the tree has   *)
(* the leaf of the one that comes last when the HashMap of leaves is gone  *)
(* through.                                                                *)
(***************************************************************************)
EXTENDS Integers, SequencesExt

CONSTANTS
    Depth,     \* DEFAULT_TREE_DEPTH
    Keys,
    Values,    \* what leaves hold
    Path,      \* key -> key_to_path(key, depth): FALSE is left, root first
    ZeroHash,  \* ZERO_HASH
    NoProof    \* no proof has been drawn

ASSUME DepthAssumption  == Depth \in Nat \ {0}
ASSUME PathAssumption   == Path \in [Keys -> [1 .. Depth -> BOOLEAN]]
ASSUME ValuesAssumption == ZeroHash \notin Values

VARIABLES
    leaves,  \* key -> value, of the leaves that are not empty
    tree,    \* those of them that are the last of their path in the HashMap
    root,
    proof    \* the proof that was drawn last, maybe of an earlier tree

vars == <<leaves, tree, root, proof>>

-----------------------------------------------------------------------------
(* What of the leaves gets into the tree *)

\* No two keys have the same path.
Apart(lv) == \A x, y \in DOMAIN lv : Path[x] = Path[y] => x = y

\* A leaf replaces that of an earlier key with its path: one remains of each
\* path, which one depends on the order of the HashMap.
Survivors(lv) ==
    {Restrict(lv, W) : W \in
        {W \in SUBSET DOMAIN lv :
            /\ Apart(Restrict(lv, W))
            /\ \A k \in DOMAIN lv : \E x \in W : Path[x] = Path[k]}}

-----------------------------------------------------------------------------
(* The tree, level by level from the leaves: height -> path -> hash, of the *)
(* subtrees with a leaf in them.                                            *)

HashPair(l, r) == <<l, r>>

ZeroHashes[h \in 0 .. Depth] ==
    IF h = 0 THEN ZeroHash ELSE HashPair(ZeroHashes[h - 1], ZeroHashes[h - 1])

LeafHashes(lv) ==
    [p \in {Path[k] : k \in DOMAIN lv} |->
        LET k == CHOOSE x \in DOMAIN lv : Path[x] = p IN HashPair(k, lv[k])]

\* The left or right child of the subtree at p, in the level below it.
ChildOfHeightAbove(below, p, bit) ==  \* mutant
    LET c == Append(p, bit)
    IN  IF c \in DOMAIN below THEN below[c] ELSE ZeroHashes[Depth - Len(p)]
Child(below, p, bit) ==
    LET c == Append(p, bit)
    IN  IF c \in DOMAIN below THEN below[c] ELSE ZeroHashes[Depth - Len(p) - 1]

LevelAbove(below) ==
    [p \in {Front(c) : c \in DOMAIN below} |->
        HashPair(Child(below, p, FALSE), Child(below, p, TRUE))]

Levels(lv) ==
    LET up[h \in 0 .. Depth] == IF h = 0 THEN LeafHashes(lv) ELSE LevelAbove(up[h - 1])
    IN  up

\* recompute_root
RootIfGrown(lv) ==  \* mutant
    IF Cardinality(DOMAIN lv) = Cardinality(DOMAIN tree) THEN root
    ELSE IF DOMAIN lv = {} THEN ZeroHashes[Depth] ELSE Levels(lv)[Depth][<<>>]
RootOf(lv) ==
    IF DOMAIN lv = {} THEN ZeroHashes[Depth] ELSE Levels(lv)[Depth][<<>>]

-----------------------------------------------------------------------------
(* Proofs *)

\* The path of the sibling at height h: the last bit is flipped.
SiblingPath(path, h) ==
    [SubSeq(path, 1, Depth - h) EXCEPT ![Depth - h] = ~@]

\* get_siblings, the leaf's first.  A sibling without leaves gets the zero hash
\* of the height above its own.
Siblings(path) ==
    [i \in 1 .. Depth |->
        LET level == Levels(tree)[i - 1]
            p     == SiblingPath(path, i - 1)
        IN  IF p \in DOMAIN level THEN level[p] ELSE ZeroHashes[i]]

ValueAt(k) == IF k \in DOMAIN leaves THEN leaves[k] ELSE ZeroHash

ProofOf(k) ==
    [key |-> k, value |-> ValueAt(k), siblings |-> Siblings(Path[k]), path |-> Path[k]]

\* MerkleProof::verify: the siblings, leaf first, are zipped with the bits of
\* the path, root first.
Verify(pf, rt) ==
    LET sibling(i) == IF pf.siblings[i] = ZeroHash THEN ZeroHashes[i - 1] ELSE pf.siblings[i]
        current[i \in 0 .. Depth] ==
            IF i = 0
            THEN IF pf.value = ZeroHash THEN ZeroHashes[0] ELSE HashPair(pf.key, pf.value)
            ELSE IF pf.path[i] THEN HashPair(sibling(i), current[i - 1])
                               ELSE HashPair(current[i - 1], sibling(i))
    IN  current[Depth] = rt

-----------------------------------------------------------------------------

Init ==
    /\ leaves = [k \in {} |-> ZeroHash]
    /\ tree = leaves
    /\ root = ZeroHashes[Depth]
    /\ proof = NoProof

Without(k) == Restrict(leaves, DOMAIN leaves \ {k})

\* The leaves after an insert: the zero hash empties the leaf.
Inserted(k, v) ==
    IF v = ZeroHash THEN Without(k)
    ELSE [x \in DOMAIN leaves \cup {k} |-> IF x = k THEN v ELSE leaves[x]]

\* The leaves change to lv and the root is recomputed.  The survivors among
\* "still" keep their places in the HashMap, and stay the last of their paths.
Recompute(lv, still) ==
    /\ leaves' = lv
    /\ \E sv \in Survivors(lv) :
          /\ still \subseteq DOMAIN sv
          /\ tree' = sv
          /\ root' = RootOf(sv)
    /\ UNCHANGED proof

\* A new key may make the HashMap grow, which puts all keys in another order.
InsertKey(k, v) ==
    Recompute(Inserted(k, v), IF v = ZeroHash THEN DOMAIN tree \ {k}
                              ELSE IF k \in DOMAIN leaves THEN DOMAIN tree
                              ELSE {})

RemoveKey(k) == Recompute(Without(k), DOMAIN tree \ {k})

Prove(k) ==
    /\ proof' = ProofOf(k)
    /\ UNCHANGED <<leaves, tree, root>>

Next ==
    \E k \in Keys :
        \/ \E v \in Values \cup {ZeroHash} : InsertKey(k, v)
        \/ RemoveKey(k)
        \/ Prove(k)

Spec == Init /\ [][Next]_vars

-----------------------------------------------------------------------------
(* What holds *)

LeafMaps == UNION {[S -> Values] : S \in SUBSET Keys}
TreeMaps == {lv \in LeafMaps : Apart(lv)}
BitPaths == UNION {[1 .. n -> BOOLEAN] : n \in 0 .. Depth}

\* The tree as it is defined, of leaves with different paths: all leaves are
\* there, the empty ones zero.
FullTree(lv) ==
    LET node[p \in BitPaths] ==
            IF Len(p) = Depth
            THEN IF \E k \in DOMAIN lv : Path[k] = p
                 THEN LET k == CHOOSE x \in DOMAIN lv : Path[x] = p IN HashPair(k, lv[k])
                 ELSE ZeroHash
            ELSE HashPair(node[Append(p, FALSE)], node[Append(p, TRUE)])
    IN  node

\* Nothing hashes to the zero hash.
ASSUME HashAssumption ==
    \A lv \in TreeMaps : \A p \in BitPaths :
        FullTree(lv)[p] = ZeroHash =>
            Len(p) = Depth /\ \A k \in DOMAIN lv : Path[k] # p

FullRoots == [lv \in TreeMaps |-> FullTree(lv)[<<>>]]

\* The root that is computed from the leaves that are there, skipping what is
\* empty, is the root of the full tree of one leaf for each path that a key has,
\* of these leaves and of no others - in whatever order leaves were inserted,
\* overwritten and removed.  Where no two keys share a path, these are all leaves.
RootDeterminesSurvivors ==
    \E sv \in Survivors(leaves) : {lv \in TreeMaps : FullRoots[lv] = root} = {sv}

\* A proof that verifies tells what leaf the exchange has at its key, or that it
\* has none, also when it was drawn from an earlier tree, and when the key has
\* its path in common with others.
ProofsNeverLie ==
    proof # NoProof /\ Verify(proof, root) => proof.value = ValueAt(proof.key)

\* tree.rs:430 asserts that a proof that is drawn for a key of the tree verifies
\* against the tree's root.
ProofsOfTreeVerify ==
    \A k \in DOMAIN leaves : Verify(ProofOf(k), root)
=============================================================================

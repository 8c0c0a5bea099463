------------------------ MODULE SparseMerkle_proofs ------------------------
(***************************************************************************)
(* Proofs about SparseMerkle, for any depth, keys, values and paths, of    *)
(* which different keys may have the same: the root commits one leaf of    *)
(* each path, and no proof that verifies lies.                             *)
(* Trees and proofs are recursive functions of the height, so each fact    *)
(* about all heights is proved from a least height at which it would fail. *)
(***************************************************************************)
EXTENDS SparseMerkle, Sums_proofs, TLAPS, SequenceTheorems

LEMMA PairsAgree ==
    ASSUME NEW a, NEW b, NEW c, NEW d, <<a, b>> = <<c, d>>
    PROVE  a = c /\ b = d
<1>1. <<a, b>>[1] = a /\ <<a, b>>[2] = b /\ <<c, d>>[1] = c /\ <<c, d>>[2] = d
    OBVIOUS
<1> QED
    BY <1>1, Zenon

LEMMA FlippedIsBit ==
    ASSUME NEW b \in BOOLEAN
    PROVE  (~b) \in BOOLEAN
    BY Zenon

-----------------------------------------------------------------------------
(* Paths *)

\* The first n bits of a path.
Upto(p, n) == [i \in 1 .. n |-> p[i]]

LEMMA PathIsSeq ==
    ASSUME NEW n \in Nat, NEW p \in [1 .. n -> BOOLEAN]
    PROVE  p \in Seq(BOOLEAN) /\ Len(p) = n /\ DOMAIN p = 1 .. n
    OBVIOUS

LEMMA PathInTree ==
    ASSUME NEW n \in 0 .. Depth, NEW p \in [1 .. n -> BOOLEAN]
    PROVE  p \in BitPaths /\ Len(p) = n
<1>1. n \in Nat
    BY DepthAssumption
<1> QED
    BY <1>1, PathIsSeq DEF BitPaths

\* A bit is added at the end.
LEMMA AppendBit ==
    ASSUME NEW n \in Nat, NEW p \in [1 .. n -> BOOLEAN], NEW b \in BOOLEAN
    PROVE  /\ Append(p, b) \in [1 .. n + 1 -> BOOLEAN]
           /\ Append(p, b)[n + 1] = b
           /\ \A i \in 1 .. n : Append(p, b)[i] = p[i]
           /\ Upto(Append(p, b), n) = p
<1>1. p \in Seq(BOOLEAN) /\ Len(p) = n
    BY PathIsSeq
<1>2. /\ Append(p, b) \in [1 .. n + 1 -> BOOLEAN]
      /\ Append(p, b)[n + 1] = b
      /\ \A i \in 1 .. n : Append(p, b)[i] = p[i]
    <2>1. /\ Append(p, b) \in Seq(BOOLEAN) /\ Len(Append(p, b)) = n + 1
          /\ \A i \in 1 .. n : Append(p, b)[i] = p[i]
          /\ Append(p, b)[n + 1] = b
        BY <1>1, AppendProperties
    <2> QED
        BY <2>1, LenProperties
<1>3. Upto(Append(p, b), n) = p
    BY <1>2 DEF Upto
<1> QED
    BY <1>2, <1>3

LEMMA UptoIsPath ==
    ASSUME NEW m \in Nat, NEW n \in 0 .. m, NEW p \in [1 .. m -> BOOLEAN]
    PROVE  /\ Upto(p, n) \in [1 .. n -> BOOLEAN]
           /\ \A i \in 1 .. n : Upto(p, n)[i] = p[i]
           /\ SubSeq(p, 1, n) = Upto(p, n)
           /\ \A k \in 0 .. n : Upto(Upto(p, n), k) = Upto(p, k)
<1>1. n \in Nat /\ \A i \in 1 .. n : i \in 1 .. m
    OBVIOUS
<1>2. /\ Upto(p, n) \in [1 .. n -> BOOLEAN]
      /\ \A i \in 1 .. n : Upto(p, n)[i] = p[i]
    BY <1>1 DEF Upto
<1>3. SubSeq(p, 1, n) = Upto(p, n)
    <2>1. p \in Seq(BOOLEAN) /\ Len(p) = m
        BY PathIsSeq
    <2>2. /\ SubSeq(p, 1, n) \in Seq(BOOLEAN) /\ Len(SubSeq(p, 1, n)) = n
          /\ \A i \in 1 .. n : SubSeq(p, 1, n)[i] = p[i]
        <3>1. CASE n = 0
            BY <2>1, <3>1
        <3>2. CASE n # 0
            <4>1. 1 \in 1 .. Len(p) /\ n \in 1 .. Len(p) /\ 1 <= n + 1
                BY <1>1, <2>1, <3>2
            <4> QED
                BY <1>1, <2>1, <4>1, SubSeqProperties
        <3> QED
            BY <3>1, <3>2
    <2>3. SubSeq(p, 1, n) \in [1 .. n -> BOOLEAN]
        BY <2>2, LenProperties
    <2> QED
        BY <1>2, <2>2, <2>3
<1>4. ASSUME NEW k \in 0 .. n PROVE Upto(Upto(p, n), k) = Upto(p, k)
    BY <1>1, <1>2 DEF Upto
<1> QED
    BY <1>2, <1>3, <1>4

\* One bit less, and again one more.
LEMMA FrontOfUpto ==
    ASSUME NEW n \in Nat, NEW p \in [1 .. n + 1 -> BOOLEAN]
    PROVE  Front(p) = Upto(p, n) /\ p = Append(Upto(p, n), p[n + 1]) /\ p[n + 1] \in BOOLEAN
<1>1. p[n + 1] \in BOOLEAN /\ n + 1 \in Nat /\ n \in 0 .. n + 1
    OBVIOUS
<1>2. Len(p) = n + 1
    BY <1>1, PathIsSeq
<1>3. Front(p) = Upto(p, n)
    BY <1>1, <1>2, UptoIsPath DEF Front
<1>4. /\ Upto(p, n) \in [1 .. n -> BOOLEAN]
      /\ \A i \in 1 .. n : Upto(p, n)[i] = p[i]
    BY <1>1, UptoIsPath
<1> DEFINE q == Append(Upto(p, n), p[n + 1])
<1>5. /\ q \in [1 .. n + 1 -> BOOLEAN] /\ q[n + 1] = p[n + 1]
      /\ \A i \in 1 .. n : q[i] = Upto(p, n)[i]
    BY <1>1, <1>4, AppendBit
<1> HIDE DEF q
<1>6. \A i \in 1 .. n + 1 : q[i] = p[i]
    BY <1>4, <1>5
<1>7. q = p
    BY <1>5, <1>6
<1> QED
    BY <1>1, <1>3, <1>7 DEF q

LEMMA UptoAll ==
    ASSUME NEW n \in Nat, NEW p \in [1 .. n -> BOOLEAN]
    PROVE  Upto(p, n) = p
    BY DEF Upto

-----------------------------------------------------------------------------
(* The recursive functions exist and unfold *)

\* The zero hashes up to height n.
AreZeros(z, n) == z = [h \in 0 .. n |-> IF h = 0 THEN ZeroHash ELSE HashPair(z[h - 1], z[h - 1])]

LEMMA ZerosExist ==
    ASSUME NEW n \in Nat
    PROVE  \E z : AreZeros(z, n)
<1> DEFINE Bad == {k \in Nat : ~ \E z : AreZeros(z, k)}
<1> SUFFICES ASSUME Bad # {} PROVE FALSE
    OBVIOUS
<1>1. PICK k \in Bad : \A m \in Bad : k <= m
    <2>1. Bad \in SUBSET Nat
        OBVIOUS
    <2> HIDE DEF Bad
    <2> QED
        BY <2>1, LeastNat
<1>2. k \in Nat /\ ~ \E z : AreZeros(z, k)
    OBVIOUS
<1>3. \A m \in Nat : m < k => \E z : AreZeros(z, m)
    BY <1>1, <1>2
<1> HIDE DEF Bad
<1>4. CASE k = 0
    <2>1. AreZeros([h \in 0 .. 0 |-> ZeroHash], 0)
        BY DEF AreZeros
    <2> QED
        BY <1>2, <1>4, <2>1
<1>5. CASE k # 0
    <2>1. k - 1 \in Nat /\ k - 1 < k
        BY <1>2, <1>5
    <2>2. PICK z : AreZeros(z, k - 1)
        BY <1>3, <2>1
    <2> DEFINE y == [h \in 0 .. k |-> IF h = 0 THEN ZeroHash ELSE HashPair(z[h - 1], z[h - 1])]
    <2>3. \A h \in 0 .. k : h # 0 => h - 1 \in 0 .. k - 1 /\ y[h - 1] = z[h - 1]
        BY <1>2, <2>1, <2>2 DEF AreZeros
    <2>4. y = [h \in 0 .. k |-> IF h = 0 THEN ZeroHash ELSE HashPair(y[h - 1], y[h - 1])]
        BY <2>3
    <2> HIDE DEF y
    <2>5. AreZeros(y, k)
        BY <2>4 DEF AreZeros
    <2> QED
        BY <1>2, <2>5
<1> QED
    BY <1>4, <1>5

LEMMA ZerosUnfold ==
    /\ ZeroHashes[0] = ZeroHash
    /\ \A h \in 0 .. Depth - 1 : ZeroHashes[h + 1] = <<ZeroHashes[h], ZeroHashes[h]>>
<1>1. Depth \in Nat
    BY DepthAssumption
<1>2. \E z : AreZeros(z, Depth)
    BY <1>1, ZerosExist
<1>3. AreZeros(ZeroHashes, Depth)
    BY <1>2 DEF ZeroHashes, AreZeros
<1>4. ASSUME NEW h \in 0 .. Depth
      PROVE  ZeroHashes[h] = IF h = 0 THEN ZeroHash
                             ELSE <<ZeroHashes[h - 1], ZeroHashes[h - 1]>>
    BY <1>3 DEF AreZeros, HashPair
<1>5. ASSUME NEW h \in 0 .. Depth - 1
      PROVE  ZeroHashes[h + 1] = <<ZeroHashes[h], ZeroHashes[h]>>
    <2>1. h + 1 \in 0 .. Depth /\ h + 1 # 0 /\ (h + 1) - 1 = h
        BY <1>1
    <2>2. ZeroHashes[h + 1] = <<ZeroHashes[(h + 1) - 1], ZeroHashes[(h + 1) - 1]>>
        BY <1>4, <2>1
    <2> QED
        BY <2>1, <2>2
<1>6. 0 \in 0 .. Depth
    BY <1>1
<1>7. ZeroHashes[0] = ZeroHash
    BY <1>4, <1>6
<1> QED
    BY <1>5, <1>7

LEMMA BitPathLen ==
    ASSUME NEW p \in BitPaths
    PROVE  Len(p) \in 0 .. Depth /\ p \in [1 .. Len(p) -> BOOLEAN]
<1>1. PICK n \in 0 .. Depth : p \in [1 .. n -> BOOLEAN]
    BY DEF BitPaths
<1>2. n \in Nat
    BY DepthAssumption
<1> QED
    BY <1>1, <1>2, PathIsSeq

LEMMA ChildInTree ==
    ASSUME NEW p \in BitPaths, Len(p) # Depth, NEW b \in BOOLEAN
    PROVE  /\ Len(p) \in 0 .. Depth - 1
           /\ Append(p, b) \in BitPaths /\ Len(Append(p, b)) = Len(p) + 1
<1>1. Len(p) \in 0 .. Depth /\ p \in [1 .. Len(p) -> BOOLEAN] /\ Depth \in Nat
    BY BitPathLen, DepthAssumption
<1> DEFINE n == Len(p)
<1>2. n \in Nat /\ n + 1 \in 0 .. Depth /\ n \in 0 .. Depth - 1
    <2>1. n \in 0 .. Depth /\ n # Depth
        BY <1>1
    <2> HIDE DEF n
    <2> QED
        BY <2>1, DepthAssumption
<1>3. Append(p, b) \in [1 .. Len(p) + 1 -> BOOLEAN]
    BY <1>1, <1>2, AppendBit
<1> QED
    BY <1>2, <1>3, PathInTree

\* What FullTree has at a leaf.
LeafAt(lv, p) ==
    IF \E k \in DOMAIN lv : Path[k] = p
    THEN LET k == CHOOSE x \in DOMAIN lv : Path[x] = p IN HashPair(k, lv[k])
    ELSE ZeroHash

\* The nodes of the full tree up to height h.
LowPaths(h) == {p \in BitPaths : Len(p) >= Depth - h}
AreNodes(g, lv, h) ==
    g = [p \in LowPaths(h) |->
            IF Len(p) = Depth THEN LeafAt(lv, p)
            ELSE HashPair(g[Append(p, FALSE)], g[Append(p, TRUE)])]

LEMMA NodesExist ==
    ASSUME NEW lv, NEW n \in Nat
    PROVE  \E g : AreNodes(g, lv, n)
<1> DEFINE Bad == {k \in Nat : ~ \E g : AreNodes(g, lv, k)}
<1> SUFFICES ASSUME Bad # {} PROVE FALSE
    OBVIOUS
<1>1. PICK h \in Bad : \A m \in Bad : h <= m
    <2>1. Bad \in SUBSET Nat
        OBVIOUS
    <2> HIDE DEF Bad
    <2> QED
        BY <2>1, LeastNat
<1>2. h \in Nat /\ ~ \E g : AreNodes(g, lv, h)
    OBVIOUS
<1>3. \A m \in Nat : m < h => \E g : AreNodes(g, lv, m)
    BY <1>1, <1>2
<1> HIDE DEF Bad
<1>4. CASE h = 0
    <2> DEFINE g == [p \in LowPaths(0) |-> LeafAt(lv, p)]
    <2>1. \A p \in LowPaths(0) : Len(p) = Depth
        BY BitPathLen, DepthAssumption DEF LowPaths
    <2>2. g = [p \in LowPaths(0) |->
                  IF Len(p) = Depth THEN LeafAt(lv, p)
                  ELSE HashPair(g[Append(p, FALSE)], g[Append(p, TRUE)])]
        BY <2>1
    <2> HIDE DEF g
    <2>3. AreNodes(g, lv, 0)
        BY <2>2 DEF AreNodes
    <2> QED
        BY <1>2, <1>4, <2>3
<1>5. CASE h # 0
    <2>1. h - 1 \in Nat /\ h - 1 < h
        BY <1>2, <1>5
    <2>2. PICK g : AreNodes(g, lv, h - 1)
        BY <1>3, <2>1
    <2> DEFINE f == [p \in LowPaths(h) |->
                       IF Len(p) = Depth THEN LeafAt(lv, p)
                       ELSE HashPair(g[Append(p, FALSE)], g[Append(p, TRUE)])]
    <2>3. ASSUME NEW p \in LowPaths(h), Len(p) # Depth, NEW b \in BOOLEAN
          PROVE  f[Append(p, b)] = g[Append(p, b)]
        <3>1. Append(p, b) \in BitPaths /\ Len(Append(p, b)) = Len(p) + 1 /\ Len(p) \in Int
            BY <2>3, ChildInTree DEF LowPaths
        <3>2. Append(p, b) \in LowPaths(h) /\ Append(p, b) \in LowPaths(h - 1)
            BY <1>2, <2>3, <3>1, DepthAssumption DEF LowPaths
        <3> DEFINE c == Append(p, b)
        <3> HIDE DEF c
        <3>3. c \in LowPaths(h) /\ c \in LowPaths(h - 1)
            BY <3>2 DEF c
        <3>4. g[c] = IF Len(c) = Depth THEN LeafAt(lv, c)
                     ELSE HashPair(g[Append(c, FALSE)], g[Append(c, TRUE)])
            BY <2>2, <3>3 DEF AreNodes
        <3>5. f[c] = IF Len(c) = Depth THEN LeafAt(lv, c)
                     ELSE HashPair(g[Append(c, FALSE)], g[Append(c, TRUE)])
            BY <3>3
        <3> QED
            BY <3>4, <3>5 DEF c
    <2>4. f = [p \in LowPaths(h) |->
                  IF Len(p) = Depth THEN LeafAt(lv, p)
                  ELSE HashPair(f[Append(p, FALSE)], f[Append(p, TRUE)])]
        BY <2>3
    <2> HIDE DEF f
    <2>5. AreNodes(f, lv, h)
        BY <2>4 DEF AreNodes
    <2> QED
        BY <1>2, <2>5
<1> QED
    BY <1>4, <1>5

\* The node at p in the full tree of lv.
Node(lv, p) == FullTree(lv)[p]

LEMMA TreeUnfolds ==
    ASSUME NEW lv, NEW p \in BitPaths
    PROVE  Node(lv, p) = IF Len(p) = Depth THEN LeafAt(lv, p)
                         ELSE <<Node(lv, Append(p, FALSE)), Node(lv, Append(p, TRUE))>>
<1>1. Depth \in Nat
    BY DepthAssumption
<1>2. LowPaths(Depth) = BitPaths
    BY <1>1, BitPathLen DEF LowPaths
<1>3. \E g : AreNodes(g, lv, Depth)
    BY <1>1, NodesExist
<1>4. AreNodes(FullTree(lv), lv, Depth)
    <2>1. FullTree(lv) = CHOOSE g : AreNodes(g, lv, Depth)
        BY <1>2 DEF FullTree, AreNodes, LeafAt
    <2> QED
        BY <1>3, <2>1
<1>5. FullTree(lv) = [q \in BitPaths |->
            IF Len(q) = Depth THEN LeafAt(lv, q)
            ELSE <<FullTree(lv)[Append(q, FALSE)], FullTree(lv)[Append(q, TRUE)]>>]
    BY <1>2, <1>4 DEF AreNodes, HashPair
<1>6. FullTree(lv)[p] =
            IF Len(p) = Depth THEN LeafAt(lv, p)
            ELSE <<FullTree(lv)[Append(p, FALSE)], FullTree(lv)[Append(p, TRUE)]>>
    BY <1>5
<1> QED
    BY <1>6 DEF Node

\* The two rules of a tree: its leaves, and the nodes above them.
LEMMA LeafOfKey ==
    ASSUME NEW lv \in TreeMaps, NEW k \in DOMAIN lv
    PROVE  k \in Keys /\ lv[k] \in Values /\ Node(lv, Path[k]) = <<k, lv[k]>>
<1>1. k \in Keys /\ lv[k] \in Values /\ DOMAIN lv \subseteq Keys
    BY DEF TreeMaps, LeafMaps
<1>2. Path[k] \in [1 .. Depth -> BOOLEAN] /\ Depth \in 0 .. Depth
    BY <1>1, PathAssumption, DepthAssumption
<1>3. Path[k] \in BitPaths /\ Len(Path[k]) = Depth
    BY <1>2, PathInTree
<1>4. \A x \in DOMAIN lv : Path[x] = Path[k] => x = k
    BY DEF TreeMaps, Apart
<1>5. (CHOOSE x \in DOMAIN lv : Path[x] = Path[k]) = k
    BY <1>4
<1>6. LeafAt(lv, Path[k]) = <<k, lv[k]>>
    BY <1>5 DEF LeafAt, HashPair
<1> QED
    BY <1>1, <1>3, <1>6, TreeUnfolds

LEMMA LeafOfNone ==
    ASSUME NEW lv, NEW p \in [1 .. Depth -> BOOLEAN], \A k \in DOMAIN lv : Path[k] # p
    PROVE  Node(lv, p) = ZeroHash
<1>1. p \in BitPaths /\ Len(p) = Depth
    BY PathInTree, DepthAssumption
<1> QED
    BY <1>1, TreeUnfolds DEF LeafAt

LEMMA NodeOfTwo ==
    ASSUME NEW lv, NEW n \in 0 .. Depth - 1, NEW p \in [1 .. n -> BOOLEAN]
    PROVE  Node(lv, p) = <<Node(lv, Append(p, FALSE)), Node(lv, Append(p, TRUE))>>
<1>1. n \in 0 .. Depth /\ n # Depth
    BY DepthAssumption
<1>2. p \in BitPaths /\ Len(p) = n
    BY <1>1, PathInTree
<1> QED
    BY <1>1, <1>2, TreeUnfolds

-----------------------------------------------------------------------------
(* The levels of the subtrees that have leaves *)

AreLevels(u, lv, n) ==
    u = [h \in 0 .. n |-> IF h = 0 THEN LeafHashes(lv) ELSE LevelAbove(u[h - 1])]

LEMMA LevelsExist ==
    ASSUME NEW lv, NEW n \in Nat
    PROVE  \E u : AreLevels(u, lv, n)
<1> DEFINE Bad == {k \in Nat : ~ \E u : AreLevels(u, lv, k)}
<1> SUFFICES ASSUME Bad # {} PROVE FALSE
    OBVIOUS
<1>1. PICK k \in Bad : \A m \in Bad : k <= m
    <2>1. Bad \in SUBSET Nat
        OBVIOUS
    <2> HIDE DEF Bad
    <2> QED
        BY <2>1, LeastNat
<1>2. k \in Nat /\ ~ \E u : AreLevels(u, lv, k)
    OBVIOUS
<1>3. \A m \in Nat : m < k => \E u : AreLevels(u, lv, m)
    BY <1>1, <1>2
<1> HIDE DEF Bad
<1>4. CASE k = 0
    <2>1. AreLevels([h \in 0 .. 0 |-> LeafHashes(lv)], lv, 0)
        BY DEF AreLevels
    <2> QED
        BY <1>2, <1>4, <2>1
<1>5. CASE k # 0
    <2>1. k - 1 \in Nat /\ k - 1 < k
        BY <1>2, <1>5
    <2>2. PICK u : AreLevels(u, lv, k - 1)
        BY <1>3, <2>1
    <2> DEFINE w == [h \in 0 .. k |-> IF h = 0 THEN LeafHashes(lv) ELSE LevelAbove(u[h - 1])]
    <2>3. \A h \in 0 .. k : h # 0 => h - 1 \in 0 .. k - 1 /\ w[h - 1] = u[h - 1]
        BY <1>2, <2>1, <2>2 DEF AreLevels
    <2>4. w = [h \in 0 .. k |-> IF h = 0 THEN LeafHashes(lv) ELSE LevelAbove(w[h - 1])]
        BY <2>3
    <2> HIDE DEF w
    <2>5. AreLevels(w, lv, k)
        BY <2>4 DEF AreLevels
    <2> QED
        BY <1>2, <2>5
<1> QED
    BY <1>4, <1>5

LEMMA LevelsUnfold ==
    ASSUME NEW lv
    PROVE  /\ Levels(lv)[0] = LeafHashes(lv)
           /\ \A h \in 0 .. Depth - 1 : Levels(lv)[h + 1] = LevelAbove(Levels(lv)[h])
<1>1. Depth \in Nat
    BY DepthAssumption
<1>2. \E u : AreLevels(u, lv, Depth)
    BY <1>1, LevelsExist
<1>3. AreLevels(Levels(lv), lv, Depth)
    <2>1. Levels(lv) = CHOOSE u : AreLevels(u, lv, Depth)
        BY DEF Levels, AreLevels
    <2> QED
        BY <1>2, <2>1
<1>4. \A h \in 0 .. Depth :
         Levels(lv)[h] = IF h = 0 THEN LeafHashes(lv) ELSE LevelAbove(Levels(lv)[h - 1])
    BY <1>3 DEF AreLevels
<1>5. 0 \in 0 .. Depth
    BY <1>1
<1>6. Levels(lv)[0] = LeafHashes(lv)
    BY <1>4, <1>5
<1>7. ASSUME NEW h \in 0 .. Depth - 1
      PROVE  Levels(lv)[h + 1] = LevelAbove(Levels(lv)[h])
    <2>1. h + 1 \in 0 .. Depth /\ h + 1 # 0 /\ (h + 1) - 1 = h
        BY <1>1
    <2>2. Levels(lv)[h + 1] = LevelAbove(Levels(lv)[(h + 1) - 1])
        BY <1>4, <2>1
    <2> QED
        BY <2>1, <2>2
<1> QED
    BY <1>6, <1>7

\* A level has the subtrees of its height that have leaves, the others are zero.
LevelOK(lv, h, level) ==
    /\ DOMAIN level = {Upto(Path[k], Depth - h) : k \in DOMAIN lv}
    /\ \A p \in [1 .. Depth - h -> BOOLEAN] :
          Node(lv, p) = IF p \in DOMAIN level THEN level[p] ELSE ZeroHashes[h]

LEMMA LeavesOK ==
    ASSUME NEW lv \in TreeMaps
    PROVE  LevelOK(lv, 0, LeafHashes(lv))
<1>1. DOMAIN lv \subseteq Keys /\ Depth \in Nat /\ Depth - 0 = Depth
    BY DepthAssumption DEF TreeMaps, LeafMaps
<1>2. \A k \in DOMAIN lv : Path[k] \in [1 .. Depth -> BOOLEAN] /\ Upto(Path[k], Depth) = Path[k]
    BY <1>1, PathAssumption, UptoAll
<1>3. DOMAIN LeafHashes(lv) = {Path[k] : k \in DOMAIN lv}
    BY DEF LeafHashes
<1>4. DOMAIN LeafHashes(lv) = {Upto(Path[k], Depth) : k \in DOMAIN lv}
    BY <1>2, <1>3
<1>5. ASSUME NEW k \in DOMAIN lv
      PROVE  LeafHashes(lv)[Path[k]] = <<k, lv[k]>>
    <2>1. \A x \in DOMAIN lv : Path[x] = Path[k] => x = k
        BY DEF TreeMaps, Apart
    <2>2. (CHOOSE x \in DOMAIN lv : Path[x] = Path[k]) = k
        BY <2>1
    <2> QED
        BY <2>2 DEF LeafHashes, HashPair
<1>6. ASSUME NEW p \in [1 .. Depth -> BOOLEAN]
      PROVE  Node(lv, p) = IF p \in DOMAIN LeafHashes(lv) THEN LeafHashes(lv)[p] ELSE ZeroHash
    <2>1. CASE p \in DOMAIN LeafHashes(lv)
        <3>1. PICK k \in DOMAIN lv : Path[k] = p
            BY <1>3, <2>1
        <3> QED
            BY <1>5, <2>1, <3>1, LeafOfKey
    <2>2. CASE p \notin DOMAIN LeafHashes(lv)
        BY <1>3, <2>2, LeafOfNone
    <2> QED
        BY <2>1, <2>2
<1> QED
    BY <1>1, <1>4, <1>6, ZerosUnfold DEF LevelOK

LEMMA LevelAboveOK ==
    ASSUME NEW lv \in TreeMaps, NEW h \in 0 .. Depth - 1, NEW below, LevelOK(lv, h, below)
    PROVE  LevelOK(lv, h + 1, LevelAbove(below))
<1> DEFINE n == Depth - (h + 1)
<1>1. /\ n \in Nat /\ n \in 0 .. Depth - 1 /\ n + 1 = Depth - h /\ n + 1 \in 0 .. Depth
      /\ h + 1 \in 0 .. Depth /\ Depth - n - 1 = h /\ n \in 0 .. n + 1 /\ Depth \in Nat
      /\ n \in 0 .. Depth
    BY DepthAssumption
<1> HIDE DEF n
<1>2. \A k \in DOMAIN lv : Path[k] \in [1 .. Depth -> BOOLEAN]
    BY PathAssumption DEF TreeMaps, LeafMaps
<1>3. DOMAIN below = {Upto(Path[k], n + 1) : k \in DOMAIN lv}
    BY <1>1 DEF LevelOK
<1>4. \A q \in [1 .. n + 1 -> BOOLEAN] :
         Node(lv, q) = IF q \in DOMAIN below THEN below[q] ELSE ZeroHashes[h]
    BY <1>1 DEF LevelOK
<1>5. ASSUME NEW k \in DOMAIN lv
      PROVE  /\ Upto(Path[k], n + 1) \in [1 .. n + 1 -> BOOLEAN]
             /\ Front(Upto(Path[k], n + 1)) = Upto(Path[k], n)
    <2>1. /\ Upto(Path[k], n + 1) \in [1 .. n + 1 -> BOOLEAN]
          /\ Upto(Upto(Path[k], n + 1), n) = Upto(Path[k], n)
        BY <1>1, <1>2, UptoIsPath
    <2> QED
        BY <1>1, <2>1, FrontOfUpto
<1>6. DOMAIN LevelAbove(below) = {Upto(Path[k], n) : k \in DOMAIN lv}
    <2>1. DOMAIN LevelAbove(below) = {Front(c) : c \in DOMAIN below}
        BY DEF LevelAbove
    <2> QED
        BY <1>3, <1>5, <2>1
<1>7. ASSUME NEW p \in [1 .. n -> BOOLEAN], NEW b \in BOOLEAN
      PROVE  /\ Child(below, p, b) = Node(lv, Append(p, b))
             /\ Append(p, b) \in [1 .. n + 1 -> BOOLEAN]
             /\ Append(p, b) \in DOMAIN below => p \in DOMAIN LevelAbove(below)
    <2>1. Append(p, b) \in [1 .. n + 1 -> BOOLEAN] /\ Upto(Append(p, b), n) = p /\ Len(p) = n
        BY <1>1, AppendBit, PathIsSeq
    <2>2. Depth - Len(p) - 1 = h
        BY <1>1, <2>1
    <2>3. Child(below, p, b) = Node(lv, Append(p, b))
        BY <1>4, <2>1, <2>2 DEF Child
    <2>4. Front(Append(p, b)) = p
        BY <1>1, <2>1, FrontOfUpto
    <2>5. Append(p, b) \in DOMAIN below => p \in DOMAIN LevelAbove(below)
        BY <2>4 DEF LevelAbove
    <2> QED
        BY <2>1, <2>3, <2>5
<1>8. ASSUME NEW p \in [1 .. n -> BOOLEAN]
      PROVE  Node(lv, p) = IF p \in DOMAIN LevelAbove(below) THEN LevelAbove(below)[p]
                           ELSE ZeroHashes[h + 1]
    <2>1. Node(lv, p) = <<Node(lv, Append(p, FALSE)), Node(lv, Append(p, TRUE))>>
        BY <1>1, NodeOfTwo
    <2>2. CASE p \in DOMAIN LevelAbove(below)
        <3>1. LevelAbove(below)[p] = <<Child(below, p, FALSE), Child(below, p, TRUE)>>
            BY <2>2 DEF LevelAbove, HashPair
        <3> QED
            BY <1>7, <2>1, <2>2, <3>1
    <2>3. CASE p \notin DOMAIN LevelAbove(below)
        <3>1. Node(lv, Append(p, FALSE)) = ZeroHashes[h] /\ Node(lv, Append(p, TRUE)) = ZeroHashes[h]
            BY <1>4, <1>7, <2>3
        <3>2. ZeroHashes[h + 1] = <<ZeroHashes[h], ZeroHashes[h]>>
            BY ZerosUnfold
        <3> QED
            BY <2>1, <2>3, <3>1, <3>2
    <2> QED
        BY <2>2, <2>3
<1> QED
    BY <1>1, <1>6, <1>8 DEF LevelOK, n

\* By induction over the height, every level is right.
LEMMA LevelsAreNodes ==
    ASSUME NEW lv \in TreeMaps, NEW h \in 0 .. Depth
    PROVE  LevelOK(lv, h, Levels(lv)[h])
<1> DEFINE Bad == {i \in 0 .. Depth : ~ LevelOK(lv, i, Levels(lv)[i])}
<1> SUFFICES ASSUME Bad # {} PROVE FALSE
    OBVIOUS
<1>0. Depth \in Nat
    BY DepthAssumption
<1>1. PICK k \in Bad : \A m \in Bad : k <= m
    <2>1. Bad \in SUBSET Nat
        BY <1>0
    <2> HIDE DEF Bad
    <2> QED
        BY <2>1, LeastNat
<1>2. k \in 0 .. Depth /\ ~ LevelOK(lv, k, Levels(lv)[k])
    OBVIOUS
<1>3. \A m \in 0 .. Depth : m < k => LevelOK(lv, m, Levels(lv)[m])
    BY <1>0, <1>1, <1>2
<1> HIDE DEF Bad
<1>4. CASE k = 0
    BY <1>2, <1>4, LeavesOK, LevelsUnfold
<1>5. CASE k # 0
    <2> DEFINE m == k - 1
    <2>1. m \in 0 .. Depth - 1 /\ m \in 0 .. Depth /\ m < k /\ m + 1 = k
        BY <1>0, <1>2, <1>5
    <2> HIDE DEF m
    <2>2. LevelOK(lv, m, Levels(lv)[m])
        BY <1>3, <2>1
    <2>3. LevelOK(lv, m + 1, LevelAbove(Levels(lv)[m]))
        BY <2>1, <2>2, LevelAboveOK
    <2>4. Levels(lv)[m + 1] = LevelAbove(Levels(lv)[m])
        BY <2>1, LevelsUnfold
    <2> QED
        BY <1>2, <2>1, <2>3, <2>4
<1> QED
    BY <1>4, <1>5

\* recompute_root computes the root of the full tree.
LEMMA RootIsNode ==
    ASSUME NEW lv \in TreeMaps
    PROVE  RootOf(lv) = Node(lv, <<>>)
<1>1. Depth \in 0 .. Depth /\ Depth - Depth = 0
    BY DepthAssumption
<1>2. LevelOK(lv, Depth, Levels(lv)[Depth])
    BY <1>1, LevelsAreNodes
<1>3. <<>> \in [1 .. 0 -> BOOLEAN]
    OBVIOUS
<1>4. Node(lv, <<>>) = IF <<>> \in DOMAIN Levels(lv)[Depth] THEN Levels(lv)[Depth][<<>>]
                       ELSE ZeroHashes[Depth]
    BY <1>1, <1>2, <1>3 DEF LevelOK
<1>5. DOMAIN Levels(lv)[Depth] = {Upto(Path[k], 0) : k \in DOMAIN lv}
    BY <1>1, <1>2 DEF LevelOK
<1>6. \A k : Upto(Path[k], 0) = <<>>
    BY DEF Upto
<1>7. <<>> \in DOMAIN Levels(lv)[Depth] <=> DOMAIN lv # {}
    BY <1>5, <1>6
<1> QED
    BY <1>4, <1>7 DEF RootOf

-----------------------------------------------------------------------------
(* A root commits its leaves *)

\* Two subtrees of height h with the same hash have the same leaves in the same
\* place.
SameLeaves(lv, mv, h) ==
    \A s, q \in [1 .. Depth - h -> BOOLEAN] :
        Node(lv, s) = Node(mv, q) =>
            \A k \in DOMAIN lv :
                Upto(Path[k], Depth - h) = s =>
                    k \in DOMAIN mv /\ mv[k] = lv[k] /\ s = q

\* Nothing hashes to the zero hash: not a leaf, and no node above.
LEMMA LeafNotZero ==
    ASSUME NEW lv \in TreeMaps, NEW k \in DOMAIN lv
    PROVE  <<k, lv[k]>> # ZeroHash
<1>1. Path[k] \in BitPaths
    BY PathAssumption, DepthAssumption, PathInTree DEF TreeMaps, LeafMaps
<1>2. Node(lv, Path[k]) = <<k, lv[k]>>
    BY LeafOfKey
<1>3. FullTree(lv)[Path[k]] # ZeroHash
    BY <1>1, HashAssumption
<1> QED
    BY <1>2, <1>3 DEF Node

LEMMA NodeNotZero ==
    ASSUME NEW lv \in TreeMaps, NEW n \in 0 .. Depth - 1, NEW p \in [1 .. n -> BOOLEAN]
    PROVE  Node(lv, p) # ZeroHash
<1>1. n \in 0 .. Depth /\ n # Depth
    BY DepthAssumption
<1>2. p \in BitPaths /\ Len(p) = n
    BY <1>1, PathInTree
<1> QED
    BY <1>1, <1>2, HashAssumption DEF Node

LEMMA SameLeavesBelow ==
    ASSUME NEW lv \in TreeMaps, NEW mv \in TreeMaps
    PROVE  SameLeaves(lv, mv, 0)
<1> SUFFICES ASSUME NEW s \in [1 .. Depth -> BOOLEAN], NEW q \in [1 .. Depth -> BOOLEAN],
                    Node(lv, s) = Node(mv, q), NEW k \in DOMAIN lv,
                    Upto(Path[k], Depth) = s
             PROVE  k \in DOMAIN mv /\ mv[k] = lv[k] /\ s = q
    BY DepthAssumption DEF SameLeaves
<1>1. Path[k] = s
    BY PathAssumption, UptoAll, DepthAssumption DEF TreeMaps, LeafMaps
<1>2. Node(lv, s) = <<k, lv[k]>> /\ <<k, lv[k]>> # ZeroHash
    BY <1>1, LeafOfKey, LeafNotZero
<1>3. PICK x \in DOMAIN mv : Path[x] = q
    BY <1>2, LeafOfNone
<1>4. Node(mv, q) = <<x, mv[x]>>
    BY <1>3, LeafOfKey
<1>5. x = k /\ mv[x] = lv[k]
    <2>1. <<k, lv[k]>> = <<x, mv[x]>>
        BY <1>2, <1>4
    <2> QED
        BY <2>1, PairsAgree
<1> QED
    BY <1>1, <1>3, <1>5

LEMMA SameLeavesAbove ==
    ASSUME NEW lv \in TreeMaps, NEW mv \in TreeMaps, NEW h \in 0 .. Depth - 1,
           SameLeaves(lv, mv, h)
    PROVE  SameLeaves(lv, mv, h + 1)
<1> DEFINE n == Depth - (h + 1)
<1>1. /\ n \in Nat /\ n \in 0 .. Depth - 1 /\ n + 1 = Depth - h /\ n + 1 \in 0 .. Depth
      /\ n \in 0 .. n + 1 /\ Depth \in Nat /\ n + 1 \in 1 .. Depth /\ n + 1 \in Nat
    BY DepthAssumption
<1> SUFFICES ASSUME NEW s \in [1 .. n -> BOOLEAN], NEW q \in [1 .. n -> BOOLEAN],
                    Node(lv, s) = Node(mv, q), NEW k \in DOMAIN lv,
                    Upto(Path[k], n) = s
             PROVE  k \in DOMAIN mv /\ mv[k] = lv[k] /\ s = q
    BY DEF SameLeaves
<1> HIDE DEF n
<1> DEFINE b == Path[k][n + 1]
           t == Upto(Path[k], n + 1)
<1>2. Path[k] \in [1 .. Depth -> BOOLEAN] /\ b \in BOOLEAN
    BY <1>1, PathAssumption DEF TreeMaps, LeafMaps
<1>3. /\ t \in [1 .. n + 1 -> BOOLEAN] /\ Upto(t, n) = s /\ t[n + 1] = b
    <2>1. n + 1 \in 1 .. n + 1
        BY <1>1
    <2> QED
        BY <1>1, <1>2, <2>1, UptoIsPath
<1> HIDE DEF b, t
<1>4. t = Append(s, b)
    BY <1>1, <1>3, FrontOfUpto
<1>5. Node(lv, s) = <<Node(lv, Append(s, FALSE)), Node(lv, Append(s, TRUE))>>
    BY <1>1, NodeOfTwo
<1>6. Node(mv, q) = <<Node(mv, Append(q, FALSE)), Node(mv, Append(q, TRUE))>>
    BY <1>1, NodeOfTwo
<1>7. Node(lv, Append(s, b)) = Node(mv, Append(q, b))
    <2>0. <<Node(lv, Append(s, FALSE)), Node(lv, Append(s, TRUE))>>
            = <<Node(mv, Append(q, FALSE)), Node(mv, Append(q, TRUE))>>
        BY <1>5, <1>6
    <2>1. Node(lv, Append(s, FALSE)) = Node(mv, Append(q, FALSE))
        BY <2>0, PairsAgree
    <2>2. Node(lv, Append(s, TRUE)) = Node(mv, Append(q, TRUE))
        BY <2>0, PairsAgree
    <2>3. CASE b = TRUE
        BY <2>2, <2>3
    <2>4. CASE b = FALSE
        BY <2>1, <2>4
    <2> QED
        BY <1>2, <2>3, <2>4
<1>8. Append(q, b) \in [1 .. n + 1 -> BOOLEAN] /\ Upto(Append(q, b), n) = q
    BY <1>1, <1>2, AppendBit
<1>9. k \in DOMAIN mv /\ mv[k] = lv[k] /\ t = Append(q, b)
    <2>1. \A u, v \in [1 .. n + 1 -> BOOLEAN] :
            Node(lv, u) = Node(mv, v) =>
                (Upto(Path[k], n + 1) = u => k \in DOMAIN mv /\ mv[k] = lv[k] /\ u = v)
        BY <1>1 DEF SameLeaves
    <2>2. Node(lv, t) = Node(mv, Append(q, b)) /\ Upto(Path[k], n + 1) = t
        BY <1>4, <1>7 DEF t
    <2> QED
        BY <1>3, <1>8, <2>1, <2>2
<1> QED
    BY <1>3, <1>8, <1>9

LEMMA SameHashSameLeaves ==
    ASSUME NEW lv \in TreeMaps, NEW mv \in TreeMaps, NEW h \in 0 .. Depth
    PROVE  SameLeaves(lv, mv, h)
<1> DEFINE Bad == {i \in 0 .. Depth : ~ SameLeaves(lv, mv, i)}
<1> SUFFICES ASSUME Bad # {} PROVE FALSE
    OBVIOUS
<1>0. Depth \in Nat
    BY DepthAssumption
<1>1. PICK k \in Bad : \A m \in Bad : k <= m
    <2>1. Bad \in SUBSET Nat
        BY <1>0
    <2> HIDE DEF Bad
    <2> QED
        BY <2>1, LeastNat
<1>2. k \in 0 .. Depth /\ ~ SameLeaves(lv, mv, k)
    OBVIOUS
<1>3. \A m \in 0 .. Depth : m < k => SameLeaves(lv, mv, m)
    BY <1>0, <1>1, <1>2
<1> HIDE DEF Bad
<1>4. CASE k = 0
    BY <1>2, <1>4, SameLeavesBelow
<1>5. CASE k # 0
    <2> DEFINE m == k - 1
    <2>1. m \in 0 .. Depth - 1 /\ m \in 0 .. Depth /\ m < k /\ m + 1 = k
        BY <1>0, <1>2, <1>5
    <2> HIDE DEF m
    <2> QED
        BY <1>2, <1>3, <2>1, SameLeavesAbove
<1> QED
    BY <1>4, <1>5

\* Two trees with the same root have the same leaves.
LEMMA SameRootSameLeaves ==
    ASSUME NEW lv \in TreeMaps, NEW mv \in TreeMaps, Node(lv, <<>>) = Node(mv, <<>>)
    PROVE  lv = mv
<1>1. Depth \in 0 .. Depth /\ Depth - Depth = 0
    BY DepthAssumption
<1>2. <<>> \in [1 .. 0 -> BOOLEAN] /\ \A k : Upto(Path[k], 0) = <<>>
    BY DEF Upto
<1>3. \A k \in DOMAIN lv : k \in DOMAIN mv /\ mv[k] = lv[k]
    <2>1. SameLeaves(lv, mv, Depth)
        BY <1>1, SameHashSameLeaves
    <2> QED
        BY <1>1, <1>2, <2>1 DEF SameLeaves
<1>4. \A k \in DOMAIN mv : k \in DOMAIN lv /\ lv[k] = mv[k]
    <2>1. SameLeaves(mv, lv, Depth)
        BY <1>1, SameHashSameLeaves
    <2> QED
        BY <1>1, <1>2, <2>1 DEF SameLeaves
<1>5. lv = [k \in DOMAIN lv |-> lv[k]] /\ mv = [k \in DOMAIN mv |-> mv[k]]
    BY DEF TreeMaps, LeafMaps
<1> QED
    BY <1>3, <1>4, <1>5

-----------------------------------------------------------------------------
(* The leaves, those of them in the tree, and the root *)

LeavesInv == leaves \in LeafMaps /\ tree \in Survivors(leaves) /\ root = RootOf(tree)

\* One leaf remains of each path, with its value.
LEMMA SurvivorsAre ==
    ASSUME NEW lv \in LeafMaps, NEW sv \in Survivors(lv)
    PROVE  /\ sv \in TreeMaps
           /\ DOMAIN sv \subseteq DOMAIN lv
           /\ \A k \in DOMAIN sv : sv[k] = lv[k]
           /\ \A k \in DOMAIN lv : \E x \in DOMAIN sv : Path[x] = Path[k]
<1>1. PICK W \in SUBSET DOMAIN lv :
        /\ sv = Restrict(lv, W) /\ Apart(Restrict(lv, W))
        /\ \A k \in DOMAIN lv : \E x \in W : Path[x] = Path[k]
    BY DEF Survivors
<1>2. PICK S \in SUBSET Keys : lv \in [S -> Values]
    BY DEF LeafMaps
<1>3. DOMAIN sv = W /\ \A k \in W : sv[k] = lv[k]
    BY <1>1 DEF Restrict
<1>4. sv \in [W -> Values] /\ W \in SUBSET Keys
    BY <1>1, <1>2 DEF Restrict
<1>5. sv \in TreeMaps
    BY <1>1, <1>4 DEF TreeMaps, LeafMaps
<1> QED
    BY <1>1, <1>3, <1>5

LEMMA InsertedIsMap ==
    ASSUME leaves \in LeafMaps, NEW k \in Keys, NEW v \in Values \cup {ZeroHash}
    PROVE  Inserted(k, v) \in LeafMaps /\ Without(k) \in LeafMaps
<1>1. PICK S \in SUBSET Keys : leaves \in [S -> Values]
    BY DEF LeafMaps
<1>2. Without(k) \in [S \ {k} -> Values] /\ S \ {k} \in SUBSET Keys
    BY <1>1 DEF Without, Restrict
<1>3. CASE v = ZeroHash
    BY <1>2, <1>3 DEF Inserted, LeafMaps
<1>4. CASE v # ZeroHash
    <2>1. Inserted(k, v) \in [S \cup {k} -> Values] /\ S \cup {k} \in SUBSET Keys
        BY <1>1, <1>4 DEF Inserted
    <2> QED
        BY <1>2, <2>1 DEF LeafMaps
<1> QED
    BY <1>3, <1>4

LEMMA EmptyIsMap ==
    /\ [k \in {} |-> ZeroHash] \in LeafMaps
    /\ [k \in {} |-> ZeroHash] \in TreeMaps
    /\ [k \in {} |-> ZeroHash] \in Survivors([k \in {} |-> ZeroHash])
    /\ DOMAIN [k \in {} |-> ZeroHash] = {}
<1> DEFINE none == [k \in {} |-> ZeroHash]
<1>1. none \in [{} -> Values] /\ {} \in SUBSET Keys /\ DOMAIN none = {}
    OBVIOUS
<1>2. none = Restrict(none, {})
    BY DEF Restrict
<1> HIDE DEF none
<1>3. Apart(none)
    BY <1>1 DEF Apart
<1>4. none \in LeafMaps /\ none \in TreeMaps
    BY <1>1, <1>3 DEF TreeMaps, LeafMaps
<1>5. none \in Survivors(none)
    BY <1>1, <1>2, <1>3 DEF Survivors
<1> QED
    BY <1>1, <1>4, <1>5 DEF none

LEMMA InitLeaves == ASSUME Init PROVE LeavesInv
<1>1. tree = leaves /\ leaves \in LeafMaps /\ tree \in Survivors(leaves) /\ DOMAIN tree = {}
    BY EmptyIsMap DEF Init
<1> QED
    BY <1>1 DEF Init, LeavesInv, RootOf

LEMMA RecomputeLeaves ==
    ASSUME NEW lv \in LeafMaps, NEW still, Recompute(lv, still)
    PROVE  LeavesInv'
<1>1. leaves' = lv /\ tree' \in Survivors(lv) /\ root' = RootOf(tree')
    BY DEF Recompute
<1> QED
    BY <1>1 DEF LeavesInv, RootOf, Survivors

LEMMA NextLeaves == ASSUME LeavesInv, [Next]_vars PROVE LeavesInv'
<1>1. ASSUME NEW k \in Keys, NEW v \in Values \cup {ZeroHash}, InsertKey(k, v)
      PROVE  LeavesInv'
    BY <1>1, InsertedIsMap, RecomputeLeaves DEF LeavesInv, InsertKey
<1>2. ASSUME NEW k \in Keys, RemoveKey(k) PROVE LeavesInv'
    <2>1. Without(k) \in LeafMaps
        BY InsertedIsMap DEF LeavesInv
    <2> QED
        BY <1>2, <2>1, RecomputeLeaves DEF RemoveKey
<1>3. CASE UNCHANGED <<leaves, tree, root>>
    BY <1>3 DEF LeavesInv, RootOf, Survivors
<1> QED
    BY <1>1, <1>2, <1>3 DEF Next, Prove, vars

LEMMA RootCommits == ASSUME LeavesInv PROVE RootDeterminesSurvivors
<1>1. tree \in TreeMaps /\ tree \in Survivors(leaves)
    BY SurvivorsAre DEF LeavesInv
<1>2. root = Node(tree, <<>>)
    BY <1>1, RootIsNode DEF LeavesInv
<1>3. \A lv \in TreeMaps : FullRoots[lv] = Node(lv, <<>>)
    BY DEF FullRoots, Node
<1>4. \A lv \in TreeMaps : FullRoots[lv] = root <=> lv = tree
    BY <1>1, <1>2, <1>3, SameRootSameLeaves
<1> QED
    BY <1>1, <1>4 DEF RootDeterminesSurvivors

\* The root is that of the full tree of one leaf for each path that a key has,
\* and of no other leaves, in whatever order leaves were inserted and removed.
THEOREM RootAlwaysDeterminesSurvivors == Spec => []RootDeterminesSurvivors
<1>1. Init => LeavesInv
    BY InitLeaves
<1>2. LeavesInv /\ [Next]_vars => LeavesInv'
    BY NextLeaves
<1>3. LeavesInv => RootDeterminesSurvivors
    BY RootCommits
<1> QED
    BY <1>1, <1>2, <1>3, PTL DEF Spec

-----------------------------------------------------------------------------
(* What verify computes *)

\* The sibling that verify takes at step i, and the hashes it climbs up to step n.
Sib(pf, i) == IF pf.siblings[i] = ZeroHash THEN ZeroHashes[i - 1] ELSE pf.siblings[i]

AreHashes(c, pf, n) ==
    c = [i \in 0 .. n |->
            IF i = 0
            THEN IF pf.value = ZeroHash THEN ZeroHashes[0] ELSE HashPair(pf.key, pf.value)
            ELSE IF pf.path[i] THEN HashPair(Sib(pf, i), c[i - 1])
                               ELSE HashPair(c[i - 1], Sib(pf, i))]

Climb(pf) == CHOOSE c : AreHashes(c, pf, Depth)

LEMMA HashesExist ==
    ASSUME NEW pf, NEW n \in Nat
    PROVE  \E c : AreHashes(c, pf, n)
<1> DEFINE Bad == {k \in Nat : ~ \E c : AreHashes(c, pf, k)}
<1> SUFFICES ASSUME Bad # {} PROVE FALSE
    OBVIOUS
<1>1. PICK k \in Bad : \A m \in Bad : k <= m
    <2>1. Bad \in SUBSET Nat
        OBVIOUS
    <2> HIDE DEF Bad
    <2> QED
        BY <2>1, LeastNat
<1>2. k \in Nat /\ ~ \E c : AreHashes(c, pf, k)
    OBVIOUS
<1>3. \A m \in Nat : m < k => \E c : AreHashes(c, pf, m)
    BY <1>1, <1>2
<1> HIDE DEF Bad
<1> DEFINE leaf == IF pf.value = ZeroHash THEN ZeroHashes[0] ELSE HashPair(pf.key, pf.value)
<1>4. CASE k = 0
    <2>1. AreHashes([i \in 0 .. 0 |-> leaf], pf, 0)
        BY DEF AreHashes
    <2> QED
        BY <1>2, <1>4, <2>1
<1>5. CASE k # 0
    <2>1. k - 1 \in Nat /\ k - 1 < k
        BY <1>2, <1>5
    <2>2. PICK c : AreHashes(c, pf, k - 1)
        BY <1>3, <2>1
    <2> HIDE DEF leaf
    <2> DEFINE d == [i \in 0 .. k |->
                        IF i = 0 THEN leaf
                        ELSE IF pf.path[i] THEN HashPair(Sib(pf, i), c[i - 1])
                                           ELSE HashPair(c[i - 1], Sib(pf, i))]
    <2>3. \A i \in 0 .. k : i # 0 => i - 1 \in 0 .. k - 1 /\ d[i - 1] = c[i - 1]
        BY <1>2, <2>1, <2>2 DEF AreHashes, leaf
    <2>4. d = [i \in 0 .. k |->
                  IF i = 0 THEN leaf
                  ELSE IF pf.path[i] THEN HashPair(Sib(pf, i), d[i - 1])
                                     ELSE HashPair(d[i - 1], Sib(pf, i))]
        BY <2>3
    <2> HIDE DEF d
    <2>5. AreHashes(d, pf, k)
        BY <2>4 DEF AreHashes, leaf
    <2> QED
        BY <1>2, <2>5
<1> QED
    BY <1>4, <1>5

LEMMA VerifyUnfolds ==
    ASSUME NEW pf, NEW rt
    PROVE  /\ Verify(pf, rt) <=> Climb(pf)[Depth] = rt
           /\ Climb(pf)[0] = IF pf.value = ZeroHash THEN ZeroHash ELSE <<pf.key, pf.value>>
           /\ \A i \in 1 .. Depth :
                 Climb(pf)[i] = IF pf.path[i] THEN <<Sib(pf, i), Climb(pf)[i - 1]>>
                                              ELSE <<Climb(pf)[i - 1], Sib(pf, i)>>
<1>1. Depth \in Nat
    BY DepthAssumption
<1>2. \E c : AreHashes(c, pf, Depth)
    BY <1>1, HashesExist
<1>3. AreHashes(Climb(pf), pf, Depth)
    BY <1>2 DEF Climb
<1>4. Verify(pf, rt) <=> Climb(pf)[Depth] = rt
    BY DEF Verify, Climb, AreHashes, Sib
<1>5. \A i \in 0 .. Depth :
         Climb(pf)[i] =
            IF i = 0
            THEN IF pf.value = ZeroHash THEN ZeroHashes[0] ELSE <<pf.key, pf.value>>
            ELSE IF pf.path[i] THEN <<Sib(pf, i), Climb(pf)[i - 1]>>
                               ELSE <<Climb(pf)[i - 1], Sib(pf, i)>>
    BY <1>3 DEF AreHashes, HashPair
<1>6. 0 \in 0 .. Depth /\ \A i \in 1 .. Depth : i \in 0 .. Depth /\ i # 0
    BY <1>1
<1> QED
    BY <1>4, <1>5, <1>6, ZerosUnfold

-----------------------------------------------------------------------------
(* What get_siblings collects *)

SiblingsOf(lv, path) ==
    [i \in 1 .. Depth |->
        LET level == Levels(lv)[i - 1]
            p     == SiblingPath(path, i - 1)
        IN  IF p \in DOMAIN level THEN level[p] ELSE ZeroHashes[i]]

\* The proof of k and its value v in the tree of lv.
ProofFrom(lv, k, v) ==
    [key |-> k, value |-> v, siblings |-> SiblingsOf(lv, Path[k]), path |-> Path[k]]

\* The zero hash of an inner node is not the zero hash.
LEMMA ZerosDiffer ==
    ASSUME NEW h \in 1 .. Depth
    PROVE  ZeroHashes[h] # ZeroHash
<1> DEFINE none == [k \in {} |-> ZeroHash]
           n    == Depth - h
           p    == [i \in 1 .. n |-> TRUE]
<1>1. h \in 0 .. Depth /\ n \in 0 .. Depth - 1
    BY DepthAssumption
<1>2. none \in TreeMaps /\ DOMAIN none = {}
    BY EmptyIsMap
<1> HIDE DEF none
<1>3. LevelOK(none, h, Levels(none)[h])
    BY <1>1, <1>2, LevelsAreNodes
<1>4. p \in [1 .. n -> BOOLEAN]
    OBVIOUS
<1> HIDE DEF p
<1>5. Node(none, p) = ZeroHashes[h]
    BY <1>2, <1>3, <1>4 DEF LevelOK
<1> HIDE DEF n
<1> QED
    BY <1>1, <1>2, <1>4, <1>5, NodeNotZero

LEMMA SiblingPathIs ==
    ASSUME NEW p \in [1 .. Depth -> BOOLEAN], NEW i \in 1 .. Depth
    PROVE  /\ Depth - i \in 0 .. Depth - 1 /\ p[Depth - i + 1] \in BOOLEAN
           /\ Upto(p, Depth - i) \in [1 .. Depth - i -> BOOLEAN]
           /\ SiblingPath(p, i - 1) = Append(Upto(p, Depth - i), ~p[Depth - i + 1])
<1>0. PICK n, s : n = Depth - i /\ s = SiblingPath(p, i - 1)
    OBVIOUS
<1>1. /\ Depth \in Nat /\ n \in Nat /\ n \in 0 .. Depth - 1 /\ n \in 0 .. Depth
      /\ n + 1 \in 0 .. Depth /\ n + 1 \in 1 .. Depth /\ Depth - (i - 1) = n + 1
    BY <1>0, DepthAssumption
<1>2. s = [SubSeq(p, 1, Depth - (i - 1)) EXCEPT ![Depth - (i - 1)] = ~@]
    BY <1>0 DEF SiblingPath
<1>3. p[n + 1] \in BOOLEAN
    BY <1>1
<1>4. SubSeq(p, 1, n + 1) = Upto(p, n + 1)
    BY <1>1, UptoIsPath
<1>5. /\ Upto(p, n + 1) \in [1 .. n + 1 -> BOOLEAN]
      /\ \A j \in 1 .. n + 1 : Upto(p, n + 1)[j] = p[j]
      /\ Upto(p, n) \in [1 .. n -> BOOLEAN]
    BY <1>1, UptoIsPath
<1>6. s = [Upto(p, n + 1) EXCEPT ![n + 1] = ~p[n + 1]]
    BY <1>1, <1>2, <1>4, <1>5
<1>7. s \in [1 .. n + 1 -> BOOLEAN] /\ \A j \in 1 .. n : s[j] = p[j]
    BY <1>1, <1>5, <1>6
<1>8. s[n + 1] = ~p[n + 1]
    <2>1. n + 1 \in 1 .. n + 1
        BY <1>1
    <2> QED
        BY <1>5, <1>6, <2>1, Zenon
<1>9. Upto(s, n) = Upto(p, n)
    BY <1>7 DEF Upto
<1>10. s = Append(Upto(s, n), s[n + 1])
    BY <1>1, <1>7, FrontOfUpto
<1>11. s = Append(Upto(p, n), ~p[n + 1])
    BY <1>8, <1>9, <1>10, Zenon
<1> QED
    BY <1>0, <1>1, <1>3, <1>5, <1>11, Zenon

\* A sibling that has leaves, and one that has none.
LEMMA SiblingWithLeaves ==
    ASSUME NEW lv \in TreeMaps, NEW p \in [1 .. Depth -> BOOLEAN], NEW i \in 1 .. Depth,
           NEW x \in DOMAIN lv, Upto(Path[x], Depth - i + 1) = SiblingPath(p, i - 1)
    PROVE  /\ SiblingsOf(lv, p)[i] = Node(lv, SiblingPath(p, i - 1))
           /\ SiblingsOf(lv, p)[i] # ZeroHash
<1> DEFINE s == SiblingPath(p, i - 1)
           h == i - 1
           n == Depth - h
<1>1. /\ h \in 0 .. Depth /\ n = Depth - i + 1 /\ n \in 0 .. Depth /\ Depth \in Nat
      /\ h # 0 => n \in 0 .. Depth - 1
      /\ h = 0 => n = Depth
    BY DepthAssumption
<1>2. LevelOK(lv, h, Levels(lv)[h])
    BY <1>1, LevelsAreNodes
<1>3. Path[x] \in [1 .. Depth -> BOOLEAN]
    BY PathAssumption DEF TreeMaps, LeafMaps
<1> HIDE DEF n
<1>4. s \in [1 .. n -> BOOLEAN] /\ s = Upto(Path[x], n)
    BY <1>1, <1>3, UptoIsPath
<1> HIDE DEF s
<1>5. s \in DOMAIN Levels(lv)[h] /\ Node(lv, s) = Levels(lv)[h][s]
    BY <1>2, <1>4 DEF LevelOK, n
<1>6. SiblingsOf(lv, p)[i] = Node(lv, s)
    BY <1>5 DEF SiblingsOf, s
<1>7. CASE h # 0
    BY <1>1, <1>4, <1>6, <1>7, NodeNotZero DEF s
<1>8. CASE h = 0
    <2>1. s = Path[x]
        BY <1>1, <1>3, <1>4, <1>8, UptoAll
    <2> QED
        BY <1>6, <2>1, LeafOfKey, LeafNotZero DEF s
<1> QED
    BY <1>6, <1>7, <1>8 DEF s

LEMMA SiblingWithout ==
    ASSUME NEW lv \in TreeMaps, NEW p \in [1 .. Depth -> BOOLEAN], NEW i \in 1 .. Depth,
           \A x \in DOMAIN lv : Upto(Path[x], Depth - i + 1) # SiblingPath(p, i - 1)
    PROVE  SiblingsOf(lv, p)[i] = ZeroHashes[i] /\ ZeroHashes[i] # ZeroHash
<1>1. i - 1 \in 0 .. Depth /\ Depth - (i - 1) = Depth - i + 1
    BY DepthAssumption
<1>2. LevelOK(lv, i - 1, Levels(lv)[i - 1])
    BY <1>1, LevelsAreNodes
<1>3. SiblingPath(p, i - 1) \notin DOMAIN Levels(lv)[i - 1]
    BY <1>1, <1>2 DEF LevelOK
<1> QED
    BY <1>3, ZerosDiffer DEF SiblingsOf

-----------------------------------------------------------------------------
(* A proof that verifies *)

\* verify goes down from the root by the bits of the path from its end.
Down(p, i) == [j \in 1 .. Depth - i |-> p[Depth - j + 1]]

LEMMA DownIsPath ==
    ASSUME NEW p \in [1 .. Depth -> BOOLEAN]
    PROVE  /\ \A i \in 0 .. Depth : Down(p, i) \in [1 .. Depth - i -> BOOLEAN]
           /\ \A i \in 1 .. Depth : Down(p, i - 1) = Append(Down(p, i), p[i])
           /\ Down(p, Depth) = <<>>
<1>1. ASSUME NEW i \in 0 .. Depth PROVE Down(p, i) \in [1 .. Depth - i -> BOOLEAN]
    <2>1. \A j \in 1 .. Depth - i : Depth - j + 1 \in 1 .. Depth
        BY DepthAssumption
    <2> QED
        BY <2>1 DEF Down
<1>2. ASSUME NEW i \in 1 .. Depth PROVE Down(p, i - 1) = Append(Down(p, i), p[i])
    <2>0. PICK n, d : n = Depth - i /\ d = Down(p, i - 1)
        OBVIOUS
    <2>1. /\ n \in Nat /\ Depth - (i - 1) = n + 1 /\ i - 1 \in 0 .. Depth
          /\ Depth - (n + 1) + 1 = i /\ n + 1 \in 1 .. n + 1
        BY <2>0, DepthAssumption
    <2>2. d \in [1 .. n + 1 -> BOOLEAN]
        BY <1>1, <2>0, <2>1
    <2>3. d = [j \in 1 .. n + 1 |-> p[Depth - j + 1]]
        BY <2>0, <2>1 DEF Down
    <2>4. d[n + 1] = p[i]
        BY <2>1, <2>3, Zenon
    <2>5. Upto(d, n) = Down(p, i)
        <3>1. \A j \in 1 .. n : j \in 1 .. n + 1
            BY <2>1
        <3>2. \A j \in 1 .. n : d[j] = p[Depth - j + 1]
            BY <2>3, <3>1
        <3> QED
            BY <2>0, <3>2 DEF Upto, Down
    <2>6. d = Append(Upto(d, n), d[n + 1])
        BY <2>1, <2>2, FrontOfUpto
    <2> QED
        BY <2>0, <2>4, <2>5, <2>6, Zenon
<1>3. Down(p, Depth) = <<>>
    BY DepthAssumption DEF Down
<1> QED
    BY <1>1, <1>2, <1>3

\* At every step verify is at a node of the tree, next to its sibling.
IsAtNode(lv, pf, i) ==
    /\ Climb(pf)[i] = Node(lv, Down(pf.path, i))
    /\ i # 0 => Sib(pf, i) = Node(lv, Append(Down(pf.path, i), ~pf.path[i]))

LEMMA NodeDown ==
    ASSUME NEW lv \in TreeMaps, NEW pf, pf.path \in [1 .. Depth -> BOOLEAN],
           NEW i \in 1 .. Depth, Climb(pf)[i] = Node(lv, Down(pf.path, i))
    PROVE  IsAtNode(lv, pf, i) /\ Climb(pf)[i - 1] = Node(lv, Down(pf.path, i - 1))
<1> DEFINE d == Down(pf.path, i)
           b == pf.path[i]
<1>1. i \in 0 .. Depth /\ Depth - i \in 0 .. Depth - 1 /\ i # 0
    BY DepthAssumption
<1>2. d \in [1 .. Depth - i -> BOOLEAN] /\ Down(pf.path, i - 1) = Append(d, b)
    BY <1>1, DownIsPath
<1>3. Node(lv, d) = <<Node(lv, Append(d, FALSE)), Node(lv, Append(d, TRUE))>>
    BY <1>1, <1>2, NodeOfTwo
<1>4. Climb(pf)[i] = IF b THEN <<Sib(pf, i), Climb(pf)[i - 1]>>
                          ELSE <<Climb(pf)[i - 1], Sib(pf, i)>>
    BY VerifyUnfolds
<1>5. b \in BOOLEAN
    OBVIOUS
<1>6. Sib(pf, i) = Node(lv, Append(d, ~b)) /\ Climb(pf)[i - 1] = Node(lv, Append(d, b))
    <2>1. CASE b = TRUE
        <3>1. <<Sib(pf, i), Climb(pf)[i - 1]>>
                = <<Node(lv, Append(d, FALSE)), Node(lv, Append(d, TRUE))>>
            BY <1>3, <1>4, <2>1
        <3>2. ~b = FALSE
            BY <2>1
        <3> QED
            BY <2>1, <3>1, <3>2, PairsAgree
    <2>2. CASE b = FALSE
        <3>1. <<Climb(pf)[i - 1], Sib(pf, i)>>
                = <<Node(lv, Append(d, FALSE)), Node(lv, Append(d, TRUE))>>
            BY <1>3, <1>4, <2>2
        <3>2. ~b = TRUE
            BY <2>2
        <3> QED
            BY <2>2, <3>1, <3>2, PairsAgree
    <2> QED
        BY <1>5, <2>1, <2>2
<1> QED
    BY <1>1, <1>2, <1>6 DEF IsAtNode

\* By induction from the root to the leaf.
LEMMA VerifiedGoesDown ==
    ASSUME NEW lv \in TreeMaps, NEW pf, pf.path \in [1 .. Depth -> BOOLEAN],
           Verify(pf, Node(lv, <<>>)), NEW i \in 0 .. Depth
    PROVE  IsAtNode(lv, pf, i)
<1> DEFINE At(n) == Climb(pf)[Depth - n] = Node(lv, Down(pf.path, Depth - n))
           Bad == {n \in 0 .. Depth : ~ At(n)}
<1>0. Depth \in Nat /\ 0 \in 0 .. Depth /\ Depth - 0 = Depth
    BY DepthAssumption
<1>1. At(0)
    BY <1>0, VerifyUnfolds, DownIsPath
<1>2. ASSUME NEW n \in 0 .. Depth - 1, At(n) PROVE At(n + 1)
    <2>1. Depth - n \in 1 .. Depth /\ (Depth - n) - 1 = Depth - (n + 1)
        BY <1>0
    <2> QED
        BY <1>2, <2>1, NodeDown
<1>3. Bad = {}
    <2> SUFFICES ASSUME Bad # {} PROVE FALSE
        OBVIOUS
    <2> HIDE DEF At
    <2>1. PICK k \in Bad : \A m \in Bad : k <= m
        <3>1. Bad \in SUBSET Nat
            BY <1>0
        <3> HIDE DEF Bad
        <3> QED
            BY <3>1, LeastNat
    <2>2. k \in 0 .. Depth /\ ~ At(k) /\ k # 0
        BY <1>1
    <2>3. k - 1 \in 0 .. Depth - 1 /\ k - 1 \in 0 .. Depth /\ k - 1 < k /\ (k - 1) + 1 = k
        BY <1>0, <2>2
    <2>4. At(k - 1)
        BY <1>0, <2>1, <2>3
    <2> QED
        BY <1>2, <2>2, <2>3, <2>4
<1>4. Climb(pf)[i] = Node(lv, Down(pf.path, i))
    <2>1. Depth - i \in 0 .. Depth /\ Depth - (Depth - i) = i
        BY <1>0
    <2> HIDE DEF At
    <2>2. At(Depth - i)
        BY <1>3, <2>1
    <2> QED
        BY <2>1, <2>2 DEF At
<1>5. CASE i = 0
    BY <1>4, <1>5 DEF IsAtNode
<1>6. CASE i # 0
    <2>1. i \in 1 .. Depth
        BY <1>0, <1>6
    <2> QED
        BY <1>4, <2>1, NodeDown
<1> QED
    BY <1>5, <1>6

\* No node has the zero hash of the height above its own.
LEMMA NodeNotHigherZero ==
    ASSUME NEW lv \in TreeMaps, NEW h \in 0 .. Depth - 1, NEW q \in [1 .. Depth - h -> BOOLEAN]
    PROVE  Node(lv, q) # ZeroHashes[h + 1]
<1> DEFINE Good(i) == \A p \in [1 .. Depth - i -> BOOLEAN] : Node(lv, p) # ZeroHashes[i + 1]
           Bad == {i \in 0 .. Depth - 1 : ~ Good(i)}
<1>0. Depth \in Nat /\ Depth - 0 = Depth /\ 0 \in 0 .. Depth - 1 /\ 1 \in 1 .. Depth
    BY DepthAssumption
<1>1. Good(0)
    <2> SUFFICES ASSUME NEW p \in [1 .. Depth -> BOOLEAN], Node(lv, p) = ZeroHashes[1]
                 PROVE  FALSE
        BY <1>0
    <2>1. ZeroHashes[1] = <<ZeroHash, ZeroHash>> /\ ZeroHashes[1] # ZeroHash
        BY <1>0, ZerosUnfold, ZerosDiffer
    <2>2. PICK k \in DOMAIN lv : Path[k] = p
        BY <2>1, LeafOfNone
    <2>3. <<k, lv[k]>> = <<ZeroHash, ZeroHash>> /\ lv[k] \in Values
        BY <2>1, <2>2, LeafOfKey
    <2>4. lv[k] = ZeroHash
        BY <2>3, PairsAgree
    <2> QED
        BY <2>3, <2>4, ValuesAssumption
<1>2. ASSUME NEW i \in 0 .. Depth - 1, i + 1 \in 0 .. Depth - 1, Good(i) PROVE Good(i + 1)
    <2> SUFFICES ASSUME NEW p \in [1 .. Depth - (i + 1) -> BOOLEAN],
                        Node(lv, p) = ZeroHashes[(i + 1) + 1]
                 PROVE  FALSE
        OBVIOUS
    <2>0. PICK n : n = Depth - (i + 1)
        OBVIOUS
    <2>1. n \in 0 .. Depth - 1 /\ n \in Nat /\ n + 1 = Depth - i
        BY <1>0, <2>0
    <2>2. Node(lv, p) = <<Node(lv, Append(p, FALSE)), Node(lv, Append(p, TRUE))>>
        BY <2>0, <2>1, NodeOfTwo
    <2>3. ZeroHashes[(i + 1) + 1] = <<ZeroHashes[i + 1], ZeroHashes[i + 1]>>
        BY <1>2, ZerosUnfold
    <2>4. <<Node(lv, Append(p, FALSE)), Node(lv, Append(p, TRUE))>>
            = <<ZeroHashes[i + 1], ZeroHashes[i + 1]>>
        BY <2>2, <2>3
    <2>5. Node(lv, Append(p, FALSE)) = ZeroHashes[i + 1]
        BY <2>4, PairsAgree
    <2>6. Append(p, FALSE) \in [1 .. Depth - i -> BOOLEAN]
        BY <2>0, <2>1, AppendBit
    <2> QED
        BY <1>2, <2>5, <2>6
<1>3. Bad = {}
    <2> SUFFICES ASSUME Bad # {} PROVE FALSE
        OBVIOUS
    <2> HIDE DEF Good
    <2>1. PICK k \in Bad : \A m \in Bad : k <= m
        <3>1. Bad \in SUBSET Nat
            BY <1>0
        <3> HIDE DEF Bad
        <3> QED
            BY <3>1, LeastNat
    <2>2. k \in 0 .. Depth - 1 /\ ~ Good(k) /\ k # 0
        BY <1>1
    <2>3. k - 1 \in 0 .. Depth - 1 /\ k - 1 < k /\ (k - 1) + 1 = k
        BY <1>0, <2>2
    <2>4. Good(k - 1)
        BY <1>0, <2>1, <2>3
    <2> QED
        BY <1>2, <2>2, <2>3, <2>4
<1> HIDE DEF Good
<1>4. Good(h)
    BY <1>3
<1> QED
    BY <1>4 DEF Good

\* If an empty leaf is proved, each sibling is where its leaves are: the path
\* reads the same from either end.
LEMMA EmptyProofTurnsRound ==
    ASSUME NEW lv \in TreeMaps, NEW mv \in TreeMaps, NEW k \in Keys, NEW v,
           Verify(ProofFrom(lv, k, v), Node(mv, <<>>)), NEW i \in 1 .. Depth
    PROVE  Path[k][Depth - i + 1] = Path[k][i]
<1>0. PICK p, pf, sp, q, n :
        /\ p = Path[k] /\ pf = ProofFrom(lv, k, v) /\ sp = SiblingPath(p, i - 1)
        /\ q = Append(Down(p, i), ~p[i]) /\ n = Depth - i
    OBVIOUS
<1>1. /\ n \in Nat /\ n \in 0 .. Depth - 1 /\ i - 1 \in 0 .. Depth /\ i - 1 \in 0 .. Depth - 1
      /\ Depth - (i - 1) = n + 1 /\ i \in 0 .. Depth /\ i # 0 /\ (i - 1) + 1 = i
      /\ Depth - i + 1 = n + 1
    BY <1>0, DepthAssumption
<1>2. p \in [1 .. Depth -> BOOLEAN] /\ pf.path = p /\ pf.siblings = SiblingsOf(lv, p)
    BY <1>0, PathAssumption DEF ProofFrom
<1>3. Sib(pf, i) = Node(mv, q)
    <2>1. IsAtNode(mv, pf, i)
        BY <1>0, <1>1, <1>2, VerifiedGoesDown
    <2> QED
        BY <1>0, <1>1, <1>2, <2>1 DEF IsAtNode
<1>4. q \in [1 .. n + 1 -> BOOLEAN] /\ q[n + 1] = ~p[i]
    <2>1. Down(p, i) \in [1 .. n -> BOOLEAN] /\ p[i] \in BOOLEAN
        BY <1>0, <1>1, <1>2, DownIsPath
    <2>2. (~p[i]) \in BOOLEAN
        BY <2>1, FlippedIsBit, Zenon
    <2> QED
        BY <1>0, <1>1, <2>1, <2>2, AppendBit, Zenon
<1>5. sp \in [1 .. n + 1 -> BOOLEAN] /\ sp[n + 1] = ~p[n + 1] /\ p[n + 1] \in BOOLEAN
    <2>1. /\ Upto(p, n) \in [1 .. n -> BOOLEAN] /\ p[n + 1] \in BOOLEAN
          /\ sp = Append(Upto(p, n), ~p[n + 1])
        BY <1>0, <1>1, <1>2, SiblingPathIs
    <2>2. (~p[n + 1]) \in BOOLEAN
        BY <2>1, FlippedIsBit, Zenon
    <2> QED
        BY <1>1, <2>1, <2>2, AppendBit, Zenon
<1>6. CASE \E x \in DOMAIN lv : Upto(Path[x], n + 1) = sp
    <2>1. PICK x \in DOMAIN lv : Upto(Path[x], n + 1) = sp
        BY <1>6
    <2>2. SiblingsOf(lv, p)[i] = Node(lv, sp) /\ SiblingsOf(lv, p)[i] # ZeroHash
        BY <1>0, <1>1, <1>2, <2>1, SiblingWithLeaves
    <2>3. Node(lv, sp) = Node(mv, q)
        BY <1>2, <1>3, <2>2 DEF Sib
    <2>4. SameLeaves(lv, mv, i - 1)
        BY <1>1, SameHashSameLeaves
    <2>5. sp = q
        BY <1>1, <1>4, <1>5, <2>1, <2>3, <2>4 DEF SameLeaves
    <2>6. (~p[n + 1]) = (~p[i]) /\ p[i] \in BOOLEAN
        BY <1>2, <1>4, <1>5, <2>5
    <2> QED
        BY <1>0, <1>1, <1>5, <2>6
<1>7. CASE ~ \E x \in DOMAIN lv : Upto(Path[x], n + 1) = sp
    <2>1. SiblingsOf(lv, p)[i] = ZeroHashes[i] /\ ZeroHashes[i] # ZeroHash
        BY <1>0, <1>1, <1>2, <1>7, SiblingWithout
    <2>2. Node(mv, q) = ZeroHashes[i]
        BY <1>2, <1>3, <2>1 DEF Sib
    <2>3. q \in [1 .. Depth - (i - 1) -> BOOLEAN]
        BY <1>1, <1>4
    <2>4. Node(mv, q) # ZeroHashes[(i - 1) + 1]
        BY <1>1, <2>3, NodeNotHigherZero
    <2> QED
        BY <1>1, <2>2, <2>4
<1> QED
    BY <1>6, <1>7

\* No leaf hashes to the zero hash.
LEMMA HashNotZero ==
    ASSUME NEW k \in Keys, NEW v \in Values
    PROVE  <<k, v>> # ZeroHash
<1> DEFINE one == [x \in {k} |-> v]
<1>1. one \in [{k} -> Values] /\ DOMAIN one = {k} /\ one[k] = v
    OBVIOUS
<1> HIDE DEF one
<1>2. one \in TreeMaps
    BY <1>1 DEF TreeMaps, LeafMaps, Apart
<1>3. k \in DOMAIN one
    BY <1>1
<1> QED
    BY <1>1, <1>2, <1>3, LeafNotZero

\* A proof drawn from the tree of lv that verifies in that of mv, which is what
\* remains of the leaves ml.
LEMMA ProofTellsValue ==
    ASSUME NEW lv \in TreeMaps, NEW ml \in LeafMaps, NEW mv \in Survivors(ml),
           NEW k \in Keys, NEW v \in Values \cup {ZeroHash},
           Verify(ProofFrom(lv, k, v), Node(mv, <<>>))
    PROVE  v = IF k \in DOMAIN ml THEN ml[k] ELSE ZeroHash
<1>0. PICK p, pf, r : p = Path[k] /\ pf = ProofFrom(lv, k, v) /\ r = Down(p, 0)
    OBVIOUS
<1>1. pf.key = k /\ pf.path = p /\ pf.value = v /\ p \in [1 .. Depth -> BOOLEAN]
    BY <1>0, PathAssumption DEF ProofFrom
<1>2. /\ 0 \in 0 .. Depth /\ Depth - 0 = Depth /\ Depth \in Nat
      /\ \A i \in 1 .. Depth : Depth - i + 1 \in 1 .. Depth
    BY DepthAssumption
<1>3. r \in [1 .. Depth -> BOOLEAN]
    BY <1>0, <1>1, <1>2, DownIsPath
<1>4. /\ mv \in TreeMaps /\ DOMAIN mv \subseteq DOMAIN ml
      /\ \A x \in DOMAIN mv : mv[x] = ml[x]
      /\ \A x \in DOMAIN ml : \E y \in DOMAIN mv : Path[y] = Path[x]
    BY SurvivorsAre
<1>5. Climb(pf)[0] = Node(mv, r)
    <2>1. IsAtNode(mv, pf, 0)
        BY <1>0, <1>1, <1>2, <1>4, VerifiedGoesDown
    <2> QED
        BY <1>0, <1>1, <2>1 DEF IsAtNode
<1>6. Climb(pf)[0] = IF v = ZeroHash THEN ZeroHash ELSE <<k, v>>
    BY <1>1, VerifyUnfolds
<1>7. CASE v # ZeroHash
    <2>1. Node(mv, r) = <<k, v>> /\ <<k, v>> # ZeroHash
        BY <1>5, <1>6, <1>7, HashNotZero
    <2>2. PICK x \in DOMAIN mv : Path[x] = r
        BY <1>3, <2>1, LeafOfNone
    <2>3. <<x, mv[x]>> = <<k, v>>
        BY <1>4, <2>1, <2>2, LeafOfKey
    <2>4. x = k /\ mv[x] = v
        BY <2>3, PairsAgree
    <2> QED
        BY <1>4, <2>2, <2>4
<1>8. CASE v = ZeroHash
    <2>1. Node(mv, r) = ZeroHash
        BY <1>5, <1>6, <1>8
    <2>2. ASSUME k \in DOMAIN ml PROVE FALSE
        <3>1. \A i \in 1 .. Depth : p[Depth - i + 1] = p[i]
            BY <1>0, <1>4, EmptyProofTurnsRound
        <3>2. r = [j \in 1 .. Depth |-> p[Depth - j + 1]]
            BY <1>0, <1>2 DEF Down
        <3>3. r = p
            BY <1>1, <3>1, <3>2
        <3>4. PICK x \in DOMAIN mv : Path[x] = p
            BY <1>0, <1>4, <2>2
        <3>5. Node(mv, p) = <<x, mv[x]>> /\ <<x, mv[x]>> # ZeroHash
            BY <1>4, <3>4, LeafOfKey, LeafNotZero
        <3> QED
            BY <2>1, <3>3, <3>5
    <2> QED
        BY <1>8, <2>2
<1> QED
    BY <1>7, <1>8

\* The proof is one that was drawn from some tree.
ProofInv ==
    /\ LeavesInv
    /\ proof # NoProof =>
          \E lv \in TreeMaps : \E k \in Keys : \E v \in Values \cup {ZeroHash} :
             proof = ProofFrom(lv, k, v)

LEMMA ProofIsFrom == ASSUME NEW k PROVE ProofOf(k) = ProofFrom(tree, k, ValueAt(k))
    BY DEF ProofOf, ProofFrom, Siblings, SiblingsOf

LEMMA NextProof == ASSUME ProofInv, [Next]_vars PROVE ProofInv'
<1>1. LeavesInv'
    BY NextLeaves DEF ProofInv
<1>2. ASSUME NEW k \in Keys, Prove(k) PROVE ProofInv'
    <2>1. proof' = ProofFrom(tree, k, ValueAt(k))
        BY <1>2, ProofIsFrom DEF Prove
    <2>2. tree \in TreeMaps
        BY SurvivorsAre DEF ProofInv, LeavesInv
    <2>3. ValueAt(k) \in Values \cup {ZeroHash}
        BY DEF ProofInv, LeavesInv, LeafMaps, ValueAt
    <2> QED
        BY <1>1, <2>1, <2>2, <2>3 DEF ProofInv
<1>3. CASE UNCHANGED proof
    BY <1>1, <1>3 DEF ProofInv
<1> QED
    BY <1>2, <1>3 DEF Next, InsertKey, RemoveKey, Recompute, vars

\* A proof that verifies against the root tells what the tree has at its key,
\* also when the tree has changed since the proof was drawn.
THEOREM ProofsAlwaysHonest == Spec => []ProofsNeverLie
<1>1. Init => ProofInv
    BY InitLeaves DEF Init, ProofInv
<1>2. ProofInv /\ [Next]_vars => ProofInv'
    BY NextProof
<1>3. ProofInv => ProofsNeverLie
    <2> SUFFICES ASSUME ProofInv, proof # NoProof, Verify(proof, root)
                 PROVE  proof.value = ValueAt(proof.key)
        BY DEF ProofsNeverLie
    <2>1. PICK lv \in TreeMaps : \E k \in Keys : \E v \in Values \cup {ZeroHash} :
             proof = ProofFrom(lv, k, v)
        BY DEF ProofInv
    <2>2. PICK k \in Keys : \E v \in Values \cup {ZeroHash} : proof = ProofFrom(lv, k, v)
        BY <2>1
    <2>3. PICK v \in Values \cup {ZeroHash} : proof = ProofFrom(lv, k, v)
        BY <2>2
    <2>4. leaves \in LeafMaps /\ tree \in Survivors(leaves) /\ root = RootOf(tree)
        BY DEF ProofInv, LeavesInv
    <2>5. root = Node(tree, <<>>)
        BY <2>4, SurvivorsAre, RootIsNode
    <2>6. v = IF k \in DOMAIN leaves THEN leaves[k] ELSE ZeroHash
        BY <2>3, <2>4, <2>5, ProofTellsValue
    <2>7. proof.key = k /\ proof.value = v
        BY <2>3 DEF ProofFrom
    <2> QED
        BY <2>6, <2>7 DEF ValueAt
<1> QED
    BY <1>1, <1>2, <1>3, PTL DEF Spec

=============================================================================

----------------------------- MODULE Sums_proofs -----------------------------
(***************************************************************************)
(* Sums over finite sets (SumFunctionOnSet and SumFunction of Functions),  *)
(* by which OrderBook and Exchange state that totals cover their parts and *)
(* Sequencer that no transaction is lost.                                  *)
(* A sum is a recursive function on the subsets of the set, so each fact   *)
(* is proved from a least number of elements for which it would fail.      *)
(***************************************************************************)
EXTENDS Integers, FiniteSets, Functions, FiniteSetTheorems, WellFoundedInduction, TLAPS

(* A set of naturals that is not empty has a least element. *)
LEMMA LeastNat ==
    ASSUME NEW T \in SUBSET Nat, T # {}
    PROVE  \E n \in T : \A m \in T : n <= m
<1>1. PICK n \in T : \A m \in T : ~ (<<m, n>> \in OpToRel(<, Nat))
  BY WFMin, NatLessThanWellFounded
<1>2. ASSUME NEW m \in T, m < n PROVE FALSE
  <2>1. <<m, n>> \in OpToRel(<, Nat)
    BY <1>2 DEF OpToRel
  <2>2. QED
    BY <1>1, <2>1
<1>3. QED
  BY <1>2

LEMMA IntervalIsFinite ==
    ASSUME NEW m \in Int, NEW n \in Int
    PROVE  IsFiniteSet(m .. n)
  BY FS_Interval

(* The element that the sum takes first. *)
First(s) == CHOOSE x \in s : TRUE

(* g sums f over the subsets of S that have at most n elements. *)
SumsUpTo(g, f, S, n) ==
    g = [s \in {t \in SUBSET S : Cardinality(t) <= n} |->
            IF s = {} THEN 0 ELSE f[First(s)] + g[s \ {First(s)}]]

(* g sums f over every subset of S. *)
SumsAll(g, f, S) ==
    g = [s \in SUBSET S |-> IF s = {} THEN 0 ELSE f[First(s)] + g[s \ {First(s)}]]

LEMMA SubsetSmaller ==
    ASSUME NEW S, IsFiniteSet(S), NEW s \in SUBSET S, NEW x \in s
    PROVE  /\ IsFiniteSet(s) /\ IsFiniteSet(s \ {x})
           /\ Cardinality(s) \in Nat /\ Cardinality(s \ {x}) \in Nat
           /\ Cardinality(s) = Cardinality(s \ {x}) + 1
           /\ s \ {x} \in SUBSET S
<1>1. IsFiniteSet(s) /\ IsFiniteSet(s \ {x})
  BY FS_Subset
<1>2. Cardinality(s \ {x}) = Cardinality(s) - 1
  BY <1>1, FS_RemoveElement
<1>3. QED
  BY <1>1, <1>2, FS_CardinalityType

LEMMA FirstIn == ASSUME NEW s, s # {} PROVE First(s) \in s
  BY DEF First

(* Of some subsets of a finite set, one has none of the others in it. *)
LEMMA SmallestSubset ==
    ASSUME NEW S, IsFiniteSet(S), NEW B \in SUBSET (SUBSET S), B # {}
    PROVE  \E s \in B : \A t \in B : t \subseteq s => t = s
<1> DEFINE Sizes == {Cardinality(s) : s \in B}
<1>1. \A s \in B : IsFiniteSet(s) /\ Cardinality(s) \in Nat
  <2> TAKE s \in B
  <2>1. IsFiniteSet(s)
    BY FS_Subset
  <2>2. QED
    BY <2>1, FS_CardinalityType
<1>2. PICK n \in Sizes : \A m \in Sizes : n <= m
  <2>1. Sizes \in SUBSET Nat /\ Sizes # {}
    BY <1>1
  <2> HIDE DEF Sizes
  <2>2. QED
    BY <2>1, LeastNat
<1>3. PICK s \in B : n = Cardinality(s)
  OBVIOUS
<1>4. ASSUME NEW t \in B, t \subseteq s PROVE t = s
  <2>1. Cardinality(s) <= Cardinality(t)
    BY <1>2, <1>3
  <2>2. t \in SUBSET s /\ IsFiniteSet(s)
    BY <1>1, <1>4
  <2>3. Cardinality(t) <= Cardinality(s) /\ (Cardinality(s) = Cardinality(t) => s = t)
    BY <2>2, FS_Subset, Zenon
  <2>4. QED
    BY <1>1, <2>1, <2>3
<1>5. QED
  BY <1>4

(* Such a function exists for the subsets of any size... *)
LEMMA SumsUpToExist ==
    ASSUME NEW f, NEW S, IsFiniteSet(S), NEW n \in Nat
    PROVE  \E g : SumsUpTo(g, f, S, n)
<1> DEFINE Bad == {k \in Nat : ~ \E g : SumsUpTo(g, f, S, k)}
<1> SUFFICES ASSUME Bad # {} PROVE FALSE
  OBVIOUS
<1>1. PICK k \in Bad : \A m \in Bad : k <= m
  <2>1. Bad \in SUBSET Nat
    OBVIOUS
  <2> HIDE DEF Bad
  <2>2. QED
    BY <2>1, LeastNat
<1>2. k \in Nat /\ ~ \E g : SumsUpTo(g, f, S, k)
  OBVIOUS
<1>3. \A m \in Nat : m < k => \E g : SumsUpTo(g, f, S, m)
  BY <1>1, <1>2
<1> HIDE DEF Bad
<1>4. CASE k = 0
  <2> DEFINE g == [s \in {t \in SUBSET S : Cardinality(t) <= 0} |-> 0]
  <2>1. \A s \in {t \in SUBSET S : Cardinality(t) <= 0} : s = {}
    <3> TAKE s \in {t \in SUBSET S : Cardinality(t) <= 0}
    <3>1. IsFiniteSet(s)
      BY FS_Subset
    <3>2. Cardinality(s) = 0
      BY <3>1, FS_CardinalityType
    <3>3. QED
      BY <3>1, <3>2, FS_EmptySet
  <2>2. SumsUpTo(g, f, S, 0)
    BY <2>1 DEF SumsUpTo
  <2>3. QED
    BY <1>2, <1>4, <2>2
<1>5. CASE k # 0
  <2>1. k - 1 \in Nat /\ k - 1 < k
    BY <1>2, <1>5
  <2>2. PICK g : SumsUpTo(g, f, S, k - 1)
    BY <1>3, <2>1
  <2> DEFINE h == [s \in {t \in SUBSET S : Cardinality(t) <= k} |->
                     IF s = {} THEN 0 ELSE f[First(s)] + g[s \ {First(s)}]]
  <2>3. ASSUME NEW s \in SUBSET S, Cardinality(s) <= k, s # {}
        PROVE  h[s \ {First(s)}] = g[s \ {First(s)}]
    <3>1. /\ s \ {First(s)} \in SUBSET S
          /\ Cardinality(s \ {First(s)}) \in Nat
          /\ Cardinality(s \ {First(s)}) <= k - 1
      <4>1. First(s) \in s /\ s \in SUBSET S
        BY <2>3, FirstIn
      <4>2. /\ s \ {First(s)} \in SUBSET S
            /\ Cardinality(s) \in Nat /\ Cardinality(s \ {First(s)}) \in Nat
            /\ Cardinality(s) = Cardinality(s \ {First(s)}) + 1
        BY <4>1, SubsetSmaller, Zenon
      <4>3. QED
        BY <1>2, <2>3, <4>2
    <3> DEFINE t == s \ {First(s)}
    <3>2. h[t] = IF t = {} THEN 0 ELSE f[First(t)] + g[t \ {First(t)}]
      BY <1>2, <3>1
    <3>3. g[t] = IF t = {} THEN 0 ELSE f[First(t)] + g[t \ {First(t)}]
      BY <2>2, <3>1 DEF SumsUpTo
    <3>4. QED
      BY <3>2, <3>3
  <2>4. SumsUpTo(h, f, S, k)
    <3>1. h = [s \in {t \in SUBSET S : Cardinality(t) <= k} |->
                 IF s = {} THEN 0 ELSE f[First(s)] + h[s \ {First(s)}]]
      BY <2>3
    <3> HIDE DEF h
    <3>2. QED
      BY <3>1 DEF SumsUpTo
  <2>5. QED
    BY <1>2, <2>4
<1>6. QED
  BY <1>4, <1>5

(* ... so one for all subsets. *)
LEMMA SumsExist ==
    ASSUME NEW f, NEW S, IsFiniteSet(S)
    PROVE  \E g : SumsAll(g, f, S)
<1>1. Cardinality(S) \in Nat
  BY FS_CardinalityType
<1>2. PICK g : SumsUpTo(g, f, S, Cardinality(S))
  BY <1>1, SumsUpToExist
<1>3. {t \in SUBSET S : Cardinality(t) <= Cardinality(S)} = SUBSET S
  <2>1. \A t \in SUBSET S : Cardinality(t) <= Cardinality(S)
    BY FS_Subset
  <2>2. QED
    BY <2>1
<1>4. QED
  BY <1>2, <1>3 DEF SumsUpTo, SumsAll

(* Two of them agree on what both sum. *)
LEMMA SumsAgree ==
    ASSUME NEW f, NEW S, IsFiniteSet(S), NEW T \in SUBSET S, NEW g, NEW h,
           SumsAll(g, f, S), SumsAll(h, f, T)
    PROVE  g[T] = h[T]
<1> DEFINE Bad == {s \in SUBSET T : g[s] # h[s]}
<1> SUFFICES ASSUME Bad # {} PROVE FALSE
  OBVIOUS
<1>1. PICK s \in Bad : \A t \in Bad : t \subseteq s => t = s
  <2>1. IsFiniteSet(T) /\ Bad \in SUBSET (SUBSET T)
    BY FS_Subset
  <2> HIDE DEF Bad
  <2>2. QED
    BY <2>1, SmallestSubset
<1>2. /\ g[s] = IF s = {} THEN 0 ELSE f[First(s)] + g[s \ {First(s)}]
      /\ h[s] = IF s = {} THEN 0 ELSE f[First(s)] + h[s \ {First(s)}]
  BY DEF SumsAll
<1>3. s # {} /\ g[s \ {First(s)}] # h[s \ {First(s)}]
  BY <1>2
<1>4. First(s) \in s
  BY <1>3, FirstIn
<1>5. QED
  BY <1>1, <1>3, <1>4

(* What the operator of the library chooses. *)
LEMMA SumIsChosen ==
    ASSUME NEW f, NEW S
    PROVE  SumFunctionOnSet(f, S) = (CHOOSE g : SumsAll(g, f, S))[S]
  BY DEF SumFunctionOnSet, FoldFunctionOnSet, MapThenFoldSet, SumsAll, First

LEMMA SumIsOf ==
    ASSUME NEW f, NEW S, IsFiniteSet(S), NEW T \in SUBSET S, NEW g, SumsAll(g, f, S)
    PROVE  SumFunctionOnSet(f, T) = g[T]
<1>1. IsFiniteSet(T)
  BY FS_Subset
<1>2. PICK h : h = CHOOSE e : SumsAll(e, f, T)
  OBVIOUS
<1>3. SumsAll(h, f, T)
  BY <1>1, <1>2, SumsExist
<1>4. QED
  BY <1>2, <1>3, SumIsChosen, SumsAgree

(* A sum of nothing is zero, and any other is that of its first element and of
   the rest. *)
LEMMA SumUnfolds ==
    ASSUME NEW f, NEW S, IsFiniteSet(S)
    PROVE  SumFunctionOnSet(f, S) =
              IF S = {} THEN 0 ELSE f[First(S)] + SumFunctionOnSet(f, S \ {First(S)})
<1>1. PICK g : SumsAll(g, f, S)
  BY SumsExist
<1>2. g[S] = IF S = {} THEN 0 ELSE f[First(S)] + g[S \ {First(S)}]
  BY <1>1 DEF SumsAll
<1>3. SumFunctionOnSet(f, S) = g[S]
  BY <1>1, SumIsOf
<1>4. SumFunctionOnSet(f, S \ {First(S)}) = g[S \ {First(S)}]
  BY <1>1, SumIsOf
<1>5. QED
  BY <1>2, <1>3, <1>4
(* Sums of naturals are naturals. *)
LEMMA SumIsNat ==
    ASSUME NEW f, NEW S, IsFiniteSet(S), \A x \in S : f[x] \in Nat
    PROVE  SumFunctionOnSet(f, S) \in Nat
<1> DEFINE Bad == {s \in SUBSET S : SumFunctionOnSet(f, s) \notin Nat}
<1> SUFFICES ASSUME Bad # {} PROVE FALSE
  OBVIOUS
<1>1. PICK s \in Bad : \A t \in Bad : t \subseteq s => t = s
  <2>1. Bad \in SUBSET (SUBSET S)
    OBVIOUS
  <2> HIDE DEF Bad
  <2>2. QED
    BY <2>1, SmallestSubset
<1>2. IsFiniteSet(s)
  BY FS_Subset
<1>3. s # {} /\ SumFunctionOnSet(f, s) = f[First(s)] + SumFunctionOnSet(f, s \ {First(s)})
  <2>1. SumFunctionOnSet(f, s) \notin Nat
    OBVIOUS
  <2> HIDE DEF Bad
  <2>2. SumFunctionOnSet(f, s) =
           IF s = {} THEN 0 ELSE f[First(s)] + SumFunctionOnSet(f, s \ {First(s)})
    BY <1>2, SumUnfolds
  <2>3. QED
    BY <2>1, <2>2
<1>4. First(s) \in s
  BY <1>3, FirstIn
<1>5. SumFunctionOnSet(f, s \ {First(s)}) \in Nat
  BY <1>1, <1>4
<1>6. QED
  BY <1>3, <1>4, <1>5

(* Any element may be taken first. *)
LEMMA SumTakes ==
    ASSUME NEW f, NEW S, IsFiniteSet(S), \A y \in S : f[y] \in Nat, NEW x \in S
    PROVE  SumFunctionOnSet(f, S) = f[x] + SumFunctionOnSet(f, S \ {x})
<1> DEFINE Takes(s, y) == SumFunctionOnSet(f, s) = f[y] + SumFunctionOnSet(f, s \ {y})
           Bad == {s \in SUBSET S : \E y \in s : ~Takes(s, y)}
<1> SUFFICES ASSUME Bad # {} PROVE FALSE
  OBVIOUS
<1>1. PICK s \in Bad : \A t \in Bad : t \subseteq s => t = s
  <2>1. Bad \in SUBSET (SUBSET S)
    OBVIOUS
  <2> HIDE DEF Bad
  <2>2. QED
    BY <2>1, SmallestSubset
<1>2. PICK y \in s : ~Takes(s, y)
  OBVIOUS
<1>3. s \in SUBSET S /\ \A t \in SUBSET S : t \subseteq s /\ t # s => \A z \in t : Takes(t, z)
  BY <1>1
<1>4. IsFiniteSet(s)
  BY <1>3, FS_Subset
<1> DEFINE z == First(s)
<1>5. Takes(s, z)
  BY <1>4, SumUnfolds
<1>6. z \in s
  BY FirstIn
<1> HIDE DEF z, Bad
<1>7. y # z
  BY <1>2, <1>5
<1>8. Takes(s \ {z}, y) /\ Takes(s \ {y}, z)
  <2>1. s \ {z} \in SUBSET S /\ s \ {z} # s /\ y \in s \ {z}
    BY <1>3, <1>6, <1>7
  <2>2. s \ {y} \in SUBSET S /\ s \ {y} # s /\ z \in s \ {y}
    BY <1>3, <1>6, <1>7
  <2> HIDE DEF Takes
  <2>3. QED
    BY <1>3, <2>1, <2>2
<1>9. (s \ {z}) \ {y} = (s \ {y}) \ {z}
  OBVIOUS
<1>10. f[y] \in Nat /\ f[z] \in Nat /\ SumFunctionOnSet(f, (s \ {y}) \ {z}) \in Nat
  <2>1. (s \ {y}) \ {z} \in SUBSET S
    BY <1>3
  <2>2. IsFiniteSet((s \ {y}) \ {z}) /\ \A e \in (s \ {y}) \ {z} : f[e] \in Nat
    BY <2>1, FS_Subset
  <2>3. QED
    BY <1>3, <1>6, <2>2, SumIsNat
<1>11. QED
  BY <1>2, <1>5, <1>8, <1>9, <1>10

(* A sum covers another when each element of the latter has one of its own in the
   former that is no smaller: order, renaming and what is left out do not matter. *)
LEMMA SumCovers ==
    ASSUME NEW f, NEW S, IsFiniteSet(S), \A x \in S : f[x] \in Nat,
           NEW g, NEW T, IsFiniteSet(T), \A y \in T : g[y] \in Nat,
           NEW h, \A x \in S : h[x] \in T /\ f[x] <= g[h[x]],
           \A x, y \in S : h[x] = h[y] => x = y
    PROVE  SumFunctionOnSet(f, S) <= SumFunctionOnSet(g, T)
<1> DEFINE Covered(s) == \A t \in SUBSET T : (\A x \in s : h[x] \in t) =>
                            SumFunctionOnSet(f, s) <= SumFunctionOnSet(g, t)
           Bad == {s \in SUBSET S : ~Covered(s)}
<1> SUFFICES ASSUME Bad # {} PROVE FALSE
  OBVIOUS
<1>1. PICK s \in Bad : \A t \in Bad : t \subseteq s => t = s
  <2>1. Bad \in SUBSET (SUBSET S)
    OBVIOUS
  <2> HIDE DEF Bad
  <2>2. QED
    BY <2>1, SmallestSubset
<1>2. s \in SUBSET S /\ ~Covered(s) /\ \A u \in SUBSET S : u \subseteq s /\ u # s => Covered(u)
  BY <1>1
<1>3. PICK t \in SUBSET T : /\ \A x \in s : h[x] \in t
                            /\ ~(SumFunctionOnSet(f, s) <= SumFunctionOnSet(g, t))
  BY <1>2
<1> HIDE DEF Covered, Bad
<1>4. IsFiniteSet(s) /\ IsFiniteSet(t) /\ \A y \in t : g[y] \in Nat /\ \A x \in s : f[x] \in Nat
  BY <1>2, FS_Subset
<1>5. SumFunctionOnSet(f, s) \in Nat /\ SumFunctionOnSet(g, t) \in Nat
  BY <1>2, <1>3, <1>4, SumIsNat
<1>6. s # {}
  <2>1. ASSUME s = {} PROVE SumFunctionOnSet(f, s) = 0
    BY <1>4, <2>1, SumUnfolds
  <2>2. QED
    BY <1>3, <1>5, <2>1
<1>7. PICK x \in s : TRUE
  BY <1>6
<1>8. h[x] \in t /\ f[x] <= g[h[x]] /\ f[x] \in Nat /\ g[h[x]] \in Nat
  BY <1>2, <1>3
<1>9. SumFunctionOnSet(f, s) = f[x] + SumFunctionOnSet(f, s \ {x})
  BY <1>2, <1>4, SumTakes
<1>10. SumFunctionOnSet(g, t) = g[h[x]] + SumFunctionOnSet(g, t \ {h[x]})
  BY <1>3, <1>4, <1>8, SumTakes
<1>11. SumFunctionOnSet(f, s \ {x}) <= SumFunctionOnSet(g, t \ {h[x]})
  <2>1. Covered(s \ {x})
    BY <1>2
  <2>2. t \ {h[x]} \in SUBSET T /\ \A y \in s \ {x} : h[y] \in t \ {h[x]}
    BY <1>2, <1>3
  <2>3. QED
    BY <2>1, <2>2 DEF Covered
<1>12. SumFunctionOnSet(f, s \ {x}) \in Nat /\ SumFunctionOnSet(g, t \ {h[x]}) \in Nat
  <2>1. /\ IsFiniteSet(s \ {x}) /\ \A y \in s \ {x} : f[y] \in Nat
        /\ IsFiniteSet(t \ {h[x]}) /\ \A y \in t \ {h[x]} : g[y] \in Nat
    BY <1>2, <1>3, <1>4, FS_Subset
  <2>2. QED
    BY <2>1, SumIsNat
<1>13. QED
  BY <1>3, <1>8, <1>9, <1>10, <1>11, <1>12

(* Functions that agree on a set have the same sum over it. *)
LEMMA SumSame ==
    ASSUME NEW f, NEW g, NEW S, IsFiniteSet(S), \A x \in S : f[x] \in Nat /\ g[x] = f[x]
    PROVE  SumFunctionOnSet(f, S) = SumFunctionOnSet(g, S)
<1> DEFINE h == [x \in S |-> x]
<1>1. /\ \A x \in S : h[x] \in S /\ f[x] <= g[h[x]] /\ g[x] <= f[h[x]]
      /\ \A x, y \in S : h[x] = h[y] => x = y
      /\ \A x \in S : g[x] \in Nat
  OBVIOUS
<1> HIDE DEF h
<1>2. SumFunctionOnSet(f, S) <= SumFunctionOnSet(g, S)
  BY <1>1, SumCovers
<1>3. SumFunctionOnSet(g, S) <= SumFunctionOnSet(f, S)
  BY <1>1, SumCovers
<1>4. SumFunctionOnSet(f, S) \in Nat /\ SumFunctionOnSet(g, S) \in Nat
  BY <1>1, SumIsNat
<1>5. QED
  BY <1>2, <1>3, <1>4

(* Two functions that differ at x only: so do their sums. *)
LEMMA SumChanges ==
    ASSUME NEW S, IsFiniteSet(S), NEW f, NEW g, \A y \in S : f[y] \in Nat /\ g[y] \in Nat,
           NEW x \in S, \A y \in S \ {x} : g[y] = f[y]
    PROVE  SumFunctionOnSet(g, S) + f[x] = SumFunctionOnSet(f, S) + g[x]
<1>1. PICK T : T = S \ {x}
  OBVIOUS
<1>2. IsFiniteSet(T)
  BY <1>1, FS_Subset
<1>3. /\ SumFunctionOnSet(f, S) = f[x] + SumFunctionOnSet(f, S \ {x})
      /\ SumFunctionOnSet(g, S) = g[x] + SumFunctionOnSet(g, S \ {x})
  BY SumTakes
<1>4. SumFunctionOnSet(f, T) = SumFunctionOnSet(g, T) /\ SumFunctionOnSet(f, T) \in Nat
  BY <1>1, <1>2, SumSame, SumIsNat
<1>5. QED
  BY <1>1, <1>3, <1>4

(* An element that is added to a function is added to its sum. *)
LEMMA SumAppends ==
    ASSUME NEW S, IsFiniteSet(S), NEW x, x \notin S, NEW f, NEW g,
           \A y \in S : f[y] \in Nat /\ g[y] = f[y], g[x] \in Nat
    PROVE  SumFunctionOnSet(g, S \cup {x}) = SumFunctionOnSet(f, S) + g[x]
<1>1. PICK T : T = S \cup {x}
  OBVIOUS
<1>2. IsFiniteSet(T) /\ T \ {x} = S
  BY <1>1, FS_AddElement
<1>3. SumFunctionOnSet(g, T) = g[x] + SumFunctionOnSet(g, S)
  <2>1. SumFunctionOnSet(g, T) = g[x] + SumFunctionOnSet(g, T \ {x})
    BY <1>1, <1>2, SumTakes
  <2>2. QED
    BY <1>2, <2>1
<1>4. SumFunctionOnSet(f, S) = SumFunctionOnSet(g, S) /\ SumFunctionOnSet(f, S) \in Nat
  BY SumSame, SumIsNat
<1>5. SumFunctionOnSet(g, T) = SumFunctionOnSet(f, S) + g[x]
  BY <1>3, <1>4
<1>6. QED
  BY <1>1, <1>5

(* A sum of zeros is zero. *)
LEMMA SumOfZeros ==
    ASSUME NEW S, IsFiniteSet(S), NEW f, \A y \in S : f[y] = 0
    PROVE  SumFunctionOnSet(f, S) = 0
<1> DEFINE Bad == {s \in SUBSET S : SumFunctionOnSet(f, s) # 0}
<1> SUFFICES ASSUME Bad # {} PROVE FALSE
  OBVIOUS
<1>1. PICK s \in Bad : \A t \in Bad : t \subseteq s => t = s
  <2>1. Bad \in SUBSET (SUBSET S)
    OBVIOUS
  <2> HIDE DEF Bad
  <2>2. QED
    BY <2>1, SmallestSubset
<1>2. IsFiniteSet(s)
  BY FS_Subset
<1>3. s # {}
  BY <1>2, SumUnfolds
<1>4. PICK x \in s : TRUE
  BY <1>3
<1>5. SumFunctionOnSet(f, s) = f[x] + SumFunctionOnSet(f, s \ {x})
  BY <1>2, SumTakes
<1>6. s \ {x} \notin Bad
  BY <1>1, <1>4
<1>7. SumFunctionOnSet(f, s \ {x}) = 0
  BY <1>6
<1>8. QED
  BY <1>4, <1>5, <1>7
==============================================================================

---------------------------- MODULE Oracle_proofs ----------------------------
(* Proofs about Oracle, for any sources, prices, band and limits:            *)
(* get_history answers the latest prices of the walk, and the aggregated     *)
(* price lies between prices of honest sources when these are the majority.  *)
EXTENDS Oracle, Sums_proofs, TLAPS, SequenceTheorems

\* The history is the end of the walk, which stays within the band.
HistInv ==
    /\ ticked \in Seq(Prices) /\ history \in Seq(Prices)
    /\ \A i \in 1 .. Len(ticked) : Low <= ticked[i] /\ ticked[i] <= High
    /\ Len(history) = Smaller(MaxHistory, Len(ticked))
    /\ \A i \in 1 .. Len(history) :
          history[i] = ticked[Len(ticked) - Len(history) + i]

\* A new price goes to the end and, if there is no room, the first one goes.
LEMMA PushedFacts ==
    ASSUME history \in Seq(Prices), Len(history) <= MaxHistory, NEW p \in Prices
    PROVE  /\ Pushed(p) \in Seq(Prices)
           /\ Len(Pushed(p)) = Smaller(MaxHistory, Len(history) + 1)
           /\ \A i \in 1 .. Len(Pushed(p)) :
                 Pushed(p)[i] = Append(history, p)[Len(history) + 1 - Len(Pushed(p)) + i]
<1> DEFINE all == Append(history, p)
           m   == IF Len(all) > MaxHistory THEN Len(all) - MaxHistory + 1 ELSE 1
<1>1. all \in Seq(Prices) /\ Len(all) = Len(history) + 1
    OBVIOUS
<1>2. m \in 1 .. Len(all) /\ Len(all) \in 1 .. Len(all)
    BY <1>1, BoundsAssumption
<1>3. Pushed(p) = SubSeq(all, m, Len(all))
    BY DEF Pushed
<1> HIDE DEF all, m
<1>4. /\ Pushed(p) \in Seq(Prices)
      /\ Len(Pushed(p)) = Len(all) - m + 1
      /\ \A i \in 1 .. Len(Pushed(p)) : Pushed(p)[i] = all[m + i - 1]
    BY <1>1, <1>2, <1>3, SubSeqProperties
<1>5. Len(all) - m + 1 = Smaller(MaxHistory, Len(history) + 1)
    BY <1>1, BoundsAssumption DEF m, Smaller
<1>6. \A i \in 1 .. Len(Pushed(p)) :
         Pushed(p)[i] = all[Len(history) + 1 - Len(Pushed(p)) + i]
    BY <1>1, <1>2, <1>4
<1> QED
    BY <1>4, <1>5, <1>6 DEF all

\* One tick of the simulated oracle.
LEMMA TickInv ==
    ASSUME HistInv, Tick
    PROVE  HistInv'
<1>1. PICK p \in Prices : /\ history' = Pushed(Clamp(p))
                          /\ ticked' = Append(ticked, Clamp(p))
    BY DEF Tick
<1>2. Clamp(p) \in Prices /\ Low <= Clamp(p) /\ Clamp(p) <= High
    <2>1. Prices \subseteq Nat
        BY PricesAssumption
    <2>2. p \in Nat /\ Low \in Nat /\ High \in Nat /\ Low <= High /\ {p, Low, High} \subseteq Prices
        BY <2>1, BandAssumption
    <2>3. CASE p < Low
        BY <2>2, <2>3 DEF Clamp
    <2>4. CASE p >= Low /\ p > High
        BY <2>2, <2>4 DEF Clamp
    <2>5. CASE p >= Low /\ p <= High
        BY <2>2, <2>5 DEF Clamp
    <2> QED
        BY <2>2, <2>3, <2>4, <2>5
<1> DEFINE c == Clamp(p)
<1>3. /\ ticked' \in Seq(Prices) /\ Len(ticked') = Len(ticked) + 1
      /\ \A i \in 1 .. Len(ticked') :
            ticked'[i] = IF i = Len(ticked) + 1 THEN c ELSE ticked[i]
    BY <1>1, <1>2 DEF HistInv
<1>4. Len(history) <= MaxHistory
    BY BoundsAssumption DEF HistInv, Smaller
<1>5. /\ history' \in Seq(Prices)
      /\ Len(history') = Smaller(MaxHistory, Len(history) + 1)
      /\ \A i \in 1 .. Len(history') :
            history'[i] = Append(history, c)[Len(history) + 1 - Len(history') + i]
    BY <1>1, <1>2, <1>4, PushedFacts DEF HistInv
<1>6. Len(history') = Smaller(MaxHistory, Len(ticked'))
    BY <1>3, <1>5, BoundsAssumption DEF HistInv, Smaller
<1>7. \A i \in 1 .. Len(ticked') : Low <= ticked'[i] /\ ticked'[i] <= High
    <2> TAKE i \in 1 .. Len(ticked')
    <2>1. Len(ticked) \in Nat
        BY DEF HistInv
    <2>2. CASE i = Len(ticked) + 1
        BY <1>2, <1>3, <2>2
    <2>3. CASE i \in 1 .. Len(ticked)
        <3>1. ticked'[i] = ticked[i]
            BY <1>3, <2>1, <2>3
        <3> QED
            BY <2>3, <3>1 DEF HistInv
    <2> QED
        BY <1>3, <2>1, <2>2, <2>3
<1>8. ASSUME NEW i \in 1 .. Len(history')
      PROVE  history'[i] = ticked'[Len(ticked') - Len(history') + i]
    <2> DEFINE j == Len(history) + 1 - Len(history') + i
    <2>1. /\ Len(history) \in Nat /\ Len(history') \in Nat /\ Len(ticked) \in Nat
          /\ Len(history) <= Len(ticked) /\ Len(history') <= Len(history) + 1
        BY <1>5, BoundsAssumption DEF HistInv, Smaller
    <2>2. j \in 1 .. Len(history) + 1 /\ history'[i] = Append(history, c)[j]
        BY <1>5, <2>1
    <2>3. Len(ticked') - Len(history') + i = Len(ticked) - Len(history) + j
        BY <1>3, <2>1
    <2>4. CASE j = Len(history) + 1
        BY <1>2, <1>3, <2>1, <2>2, <2>3, <2>4 DEF HistInv
    <2>5. CASE j \in 1 .. Len(history)
        <3>1. history'[i] = history[j]
            BY <1>2, <2>2, <2>5 DEF HistInv
        <3>2. history[j] = ticked[Len(ticked) - Len(history) + j]
            BY <2>5 DEF HistInv
        <3>3. /\ Len(ticked) - Len(history) + j \in 1 .. Len(ticked)
              /\ Len(ticked) - Len(history) + j # Len(ticked) + 1
            BY <2>1, <2>5
        <3> QED
            BY <1>3, <2>1, <2>3, <3>1, <3>2, <3>3
    <2> QED
        BY <2>1, <2>2, <2>4, <2>5
<1> QED
    BY <1>3, <1>5, <1>6, <1>7, <1>8 DEF HistInv

\* get_history answers the end of the walk, read backwards.
LEMMA HistInvIsRecent ==
    ASSUME HistInv
    PROVE  HistoryIsRecent
<1> SUFFICES ASSUME NEW limit \in 0 .. MaxHistory + 1
             PROVE  /\ Len(GetHistory(limit)) = Smaller(limit, Smaller(MaxHistory, Len(ticked)))
                    /\ \A i \in DOMAIN GetHistory(limit) :
                          /\ GetHistory(limit)[i] = ticked[Len(ticked) - i + 1]
                          /\ Low <= GetHistory(limit)[i] /\ GetHistory(limit)[i] <= High
    BY DEF HistoryIsRecent
<1> DEFINE back == [i \in 1 .. Len(history) |-> history[(Len(history) - i) + 1]]
           k    == Smaller(limit, Len(history))
<1>1. /\ Len(history) \in Nat /\ Len(ticked) \in Nat /\ Len(history) <= Len(ticked)
      /\ limit \in Nat /\ k \in 0 .. Len(history)
    BY BoundsAssumption DEF HistInv, Smaller
<1>2. back \in Seq(Prices) /\ Len(back) = Len(history)
    <2>1. \A i \in 1 .. Len(history) : history[(Len(history) - i) + 1] \in Prices
        <3> TAKE i \in 1 .. Len(history)
        <3>1. (Len(history) - i) + 1 \in 1 .. Len(history)
            BY <1>1
        <3> QED
            BY <3>1 DEF HistInv
    <2>2. back \in [1 .. Len(history) -> Prices]
        BY <2>1
    <2> QED
        BY <1>1, <2>2, IsASeq, LenProperties
<1>3. GetHistory(limit) = SubSeq(back, 1, k)
    BY DEF GetHistory, Reverse
<1>4. \A i \in 1 .. k : back[i] = ticked[Len(ticked) - i + 1]
    <2> TAKE i \in 1 .. k
    <2>1. i \in 1 .. Len(history) /\ (Len(history) - i) + 1 \in 1 .. Len(history)
        BY <1>1
    <2>2. back[i] = ticked[Len(ticked) - Len(history) + ((Len(history) - i) + 1)]
        BY <2>1 DEF HistInv
    <2> QED
        BY <1>1, <2>1, <2>2
<1> HIDE DEF back, k
<1>5. /\ Len(SubSeq(back, 1, k)) = k
      /\ \A i \in 1 .. k : SubSeq(back, 1, k)[i] = back[i]
    BY <1>1, <1>2
<1>6. DOMAIN GetHistory(limit) = 1 .. k
    BY <1>1, <1>2, <1>3, <1>5
<1>7. ASSUME NEW i \in 1 .. k
      PROVE  /\ GetHistory(limit)[i] = ticked[Len(ticked) - i + 1]
             /\ Len(ticked) - i + 1 \in 1 .. Len(ticked)
    BY <1>1, <1>3, <1>4, <1>5
<1>8. Len(GetHistory(limit)) = Smaller(limit, Smaller(MaxHistory, Len(ticked)))
    BY <1>3, <1>5 DEF HistInv, k
<1> QED
    BY <1>6, <1>7, <1>8 DEF HistInv

\* get_history answers the latest prices of the walk, newest first and within
\* the band around the anchor, whatever set_price does to the price beside it.
THEOREM HistoryAlwaysRecent == Spec => []HistoryIsRecent
<1>1. Init => HistInv
    <2> SUFFICES ASSUME Init PROVE HistInv
        OBVIOUS
    <2>1. Anchor \in Prices /\ Low <= Anchor /\ Anchor <= High
        BY BandAssumption
    <2>2. ticked = <<Anchor>> /\ history = <<Anchor>>
        BY DEF Init
    <2> QED
        BY <2>1, <2>2, BoundsAssumption DEF HistInv, Smaller
<1>2. HistInv /\ [Next]_vars => HistInv'
    <2> SUFFICES ASSUME HistInv, [Next]_vars PROVE HistInv'
        OBVIOUS
    <2>1. CASE Tick
        BY <2>1, TickInv
    <2>2. CASE UNCHANGED <<history, ticked>>
        BY <2>2 DEF HistInv
    <2>3. CASE ~Tick
        <3>1. UNCHANGED <<history, ticked>>
            BY <2>3 DEF Next, vars, RefreshTimestamps, SetSimulated, SetMock, Publish,
               SetClock, AddSource
        <3> QED
            BY <2>2, <3>1
    <2> QED
        BY <2>1, <2>3
<1>3. HistInv => HistoryIsRecent
    BY HistInvIsRecent
<1> QED
    BY <1>1, <1>2, <1>3, PTL DEF Spec

-----------------------------------------------------------------------------
(* Sorting *)

\* o lists the members of S with their f ascending.
Sorts(o, f, S) ==
    /\ o \in [1 .. Cardinality(S) -> S]
    /\ \A i, j \in DOMAIN o : i < j => f[o[i]] <= f[o[j]]
    /\ IsInjective(o)

\* The member with the least f goes before the others.
LEMMA LeastGoesFirst ==
    ASSUME NEW S, IsFiniteSet(S), NEW f \in [S -> Nat],
           NEW x \in S, \A y \in S : f[x] <= f[y],
           NEW o, Sorts(o, f, S \ {x})
    PROVE  \E q : Sorts(q, f, S)
<1> DEFINE n == Cardinality(S)
           q == [i \in 1 .. n |-> IF i = 1 THEN x ELSE o[i - 1]]
<1>1. n \in Nat /\ n # 0 /\ Cardinality(S \ {x}) = n - 1
    BY FS_CardinalityType, FS_EmptySet, FS_RemoveElement
<1>2. o \in [1 .. n - 1 -> S \ {x}]
    BY <1>1 DEF Sorts
<1> HIDE DEF n
<1>3. \A i \in 1 .. n : i # 1 => i - 1 \in 1 .. n - 1
    BY <1>1
<1>4. q \in [1 .. n -> S]
    BY <1>2, <1>3
<1>5. ASSUME NEW i \in 1 .. n, NEW j \in 1 .. n, i < j
      PROVE  f[q[i]] <= f[q[j]] /\ q[i] # q[j]
    <2>1. j # 1 /\ q[j] = o[j - 1] /\ j - 1 \in 1 .. n - 1
        BY <1>1, <1>5
    <2>2. CASE i = 1
        BY <1>2, <2>1, <2>2
    <2>3. CASE i # 1
        <3>1. q[i] = o[i - 1] /\ i - 1 \in 1 .. n - 1 /\ i - 1 < j - 1
            BY <1>1, <1>5, <2>3
        <3>2. i - 1 \in DOMAIN o /\ j - 1 \in DOMAIN o /\ i - 1 # j - 1
            BY <1>2, <2>1, <3>1
        <3>3. f[o[i - 1]] <= f[o[j - 1]]
            BY <3>1, <3>2 DEF Sorts
        <3>4. o[i - 1] # o[j - 1]
            BY <3>2 DEF Sorts, IsInjective
        <3> QED
            BY <2>1, <3>1, <3>3, <3>4
    <2> QED
        BY <2>2, <2>3
<1>6. DOMAIN q = 1 .. n
    OBVIOUS
<1> HIDE DEF q
<1>7. \A i, j \in DOMAIN q : i < j => f[q[i]] <= f[q[j]]
    BY <1>5, <1>6
<1>8. IsInjective(q)
    <2> SUFFICES ASSUME NEW i \in DOMAIN q, NEW j \in DOMAIN q, q[i] = q[j] PROVE i = j
        BY DEF IsInjective
    <2>1. i \in Int /\ j \in Int /\ ~ (i < j) /\ ~ (j < i)
        BY <1>5, <1>6
    <2> QED
        BY <2>1
<1>9. q \in [1 .. Cardinality(S) -> S]
    BY <1>4 DEF n
<1> QED
    BY <1>7, <1>8, <1>9 DEF Sorts

\* A finite set can be sorted.
LEMMA SortExists ==
    ASSUME NEW S, IsFiniteSet(S), NEW f \in [S -> Nat]
    PROVE  \E o : Sorts(o, f, S)
<1> SUFFICES ASSUME ~ \E o : Sorts(o, f, S)
             PROVE  FALSE
    OBVIOUS
<1> DEFINE B == {T \in SUBSET S : ~ \E o : Sorts(o, f, T)}
<1>1. B \in SUBSET (SUBSET S) /\ S \in B
    OBVIOUS
<1> HIDE DEF B
<1>2. PICK T \in B : \A U \in B : U \subseteq T => U = T
    BY <1>1, SmallestSubset
<1>3. T \subseteq S /\ ~ \E o : Sorts(o, f, T)
    BY DEF B
<1>4. IsFiniteSet(T)
    BY <1>3, FS_Subset
<1>5. CASE T = {}
    <2> DEFINE none == [i \in 1 .. 0 |-> i]
    <2>1. Cardinality(T) = 0
        BY <1>5, FS_EmptySet
    <2>2. none \in [1 .. 0 -> T] /\ DOMAIN none = {}
        OBVIOUS
    <2>3. Sorts(none, f, T)
        BY <2>1, <2>2 DEF Sorts, IsInjective
    <2> QED
        BY <1>3, <2>3
<1>6. CASE T # {}
    <2> DEFINE all == {f[y] : y \in T}
    <2>1. all \in SUBSET Nat /\ all # {}
        BY <1>3, <1>6
    <2> HIDE DEF all
    <2>2. PICK least \in all : \A m \in all : least <= m
        BY <2>1, LeastNat
    <2>3. PICK x \in T : f[x] = least
        BY DEF all
    <2>4. \A y \in T : f[x] <= f[y]
        BY <2>2, <2>3 DEF all
    <2>5. T \ {x} \subseteq T /\ T \ {x} # T /\ T \ {x} \in SUBSET S
        BY <1>3
    <2>6. PICK o : Sorts(o, f, T \ {x})
        BY <1>2, <2>5 DEF B
    <2> DEFINE g == [y \in T |-> f[y]]
    <2>7. g \in [T -> Nat] /\ \A y \in T : g[y] = f[y]
        BY <1>3
    <2> HIDE DEF g
    <2>8. Sorts(o, g, T \ {x})
        BY <2>6, <2>7 DEF Sorts
    <2>9. PICK q : Sorts(q, g, T)
        BY <1>4, <2>4, <2>7, <2>8, LeastGoesFirst
    <2>10. Sorts(q, f, T)
        BY <2>7, <2>9 DEF Sorts
    <2> QED
        BY <1>3, <2>10
<1> QED
    BY <1>5, <1>6

\* What o has from place a to place b.
Stretch(o, a, b) == {o[i] : i \in a .. b}

\* A stretch of places holds as many members as it is long.
LEMMA StretchIsLong ==
    ASSUME NEW S, NEW n \in Nat, NEW o \in [1 .. n -> S], IsInjective(o),
           NEW a \in 1 .. n, NEW b \in 1 .. n, a <= b
    PROVE  /\ IsFiniteSet(Stretch(o, a, b))
           /\ Cardinality(Stretch(o, a, b)) = b - a + 1
<1> DEFINE T == {o[i] : i \in a .. b}
           h == [i \in a .. b |-> o[i]]
<1>1. IsFiniteSet(a .. b) /\ Cardinality(a .. b) = b - a + 1
    BY FS_Interval, IntervalIsFinite
<1>2. h \in [a .. b -> T] /\ \A i \in a .. b : h[i] = o[i] /\ i \in DOMAIN o
    OBVIOUS
<1>3. \A i, j \in a .. b : h[i] = h[j] => i = j
    BY <1>2 DEF IsInjective
<1>4. \A y \in T : \E i \in a .. b : h[i] = y
    BY <1>2
<1> HIDE DEF h, T
<1>5. h \in Bijection(a .. b, T)
    BY <1>2, <1>3, <1>4, Zenon DEF Bijection, Injection, Surjection, IsInjective
<1>6. IsFiniteSet(T) /\ Cardinality(T) = Cardinality(a .. b)
    BY <1>1, <1>5, FS_Bijection DEF ExistsBijection
<1> QED
    BY <1>1, <1>6 DEF T, Stretch

\* The one in the middle lies between two members of any majority.
LEMMA MiddleIsBetween ==
    ASSUME NEW S, IsFiniteSet(S), NEW f \in [S -> Nat], NEW o, Sorts(o, f, S),
           NEW H \in SUBSET S, 2 * Cardinality(H) > Cardinality(S)
    PROVE  LET mid == o[(Cardinality(S) \div 2) + 1]
           IN  /\ mid \in S
               /\ \E s, u \in H : f[s] <= f[mid] /\ f[mid] <= f[u]
<1> DEFINE n   == Cardinality(S)
           m   == (n \div 2) + 1
           c   == Cardinality(H)
           mid == o[m]
<1>1. n \in Nat /\ c \in Nat /\ c <= n /\ IsFiniteSet(H) /\ 2 * c > n
    BY FS_Subset, FS_CardinalityType
<1>2. o \in [1 .. n -> S] /\ IsInjective(o)
    BY DEF Sorts
<1>3. \A i, j \in 1 .. n : i < j => f[o[i]] <= f[o[j]]
    BY <1>2 DEF Sorts
<1> HIDE DEF c, n
<1>4. m \in 1 .. n /\ 2 * m >= n + 1 /\ 2 * (n - m + 1) >= n
    BY <1>1
<1>5. mid \in S
    BY <1>2, <1>4
<1> HIDE DEF m
<1>6. ASSUME NEW T, IsFiniteSet(T), T \subseteq S, T \cap H = {}
      PROVE  Cardinality(T) \in Nat /\ Cardinality(T) + c <= n
    <2>1. IsFiniteSet(T \cup H) /\ Cardinality(T \cup H) = Cardinality(T) + c - Cardinality(T \cap H)
        BY <1>1, <1>6, FS_Union DEF c
    <2>2. Cardinality(T \cap H) = 0 /\ Cardinality(T) \in Nat
        BY <1>6, FS_EmptySet, FS_CardinalityType
    <2>3. T \cup H \in SUBSET S
        BY <1>6
    <2>4. Cardinality(T \cup H) <= n
        BY <2>3, FS_Subset DEF n
    <2> QED
        BY <1>1, <2>1, <2>2, <2>4
<1>7. \E s \in H : f[s] <= f[mid]
    <2> SUFFICES ASSUME \A s \in H : ~ (f[s] <= f[mid]) PROVE FALSE
        OBVIOUS
    <2> DEFINE T == Stretch(o, 1, m)
    <2>1. IsFiniteSet(T) /\ Cardinality(T) = m
        <3>1. 1 \in 1 .. n /\ 1 <= m
            BY <1>1, <1>4
        <3>2. IsFiniteSet(T) /\ Cardinality(T) = m - 1 + 1
            BY <1>1, <1>2, <1>4, <3>1, StretchIsLong
        <3> QED
            BY <1>4, <3>2
    <2>2. T \subseteq S
        BY <1>1, <1>2, <1>4 DEF Stretch
    <2>3. \A i \in 1 .. m : f[o[i]] <= f[mid]
        <3> TAKE i \in 1 .. m
        <3>1. CASE i = m
            BY <1>2, <1>4, <1>5, <3>1
        <3>2. CASE i # m
            BY <1>1, <1>3, <1>4, <3>2
        <3> QED
            BY <3>1, <3>2
    <2>4. T \cap H = {}
        BY <2>3 DEF Stretch
    <2> HIDE DEF T
    <2>5. m + c <= n
        BY <1>6, <2>1, <2>2, <2>4
    <2> QED
        BY <1>1, <1>4, <2>5
<1>8. \E u \in H : f[mid] <= f[u]
    <2> SUFFICES ASSUME \A u \in H : ~ (f[mid] <= f[u]) PROVE FALSE
        OBVIOUS
    <2> DEFINE T == Stretch(o, m, n)
    <2>1. IsFiniteSet(T) /\ Cardinality(T) = n - m + 1
        <3>1. n \in 1 .. n /\ m <= n
            BY <1>1, <1>4
        <3> QED
            BY <1>1, <1>2, <1>4, <3>1, StretchIsLong
    <2>2. T \subseteq S
        BY <1>1, <1>2, <1>4 DEF Stretch
    <2>3. \A i \in m .. n : f[mid] <= f[o[i]]
        <3> TAKE i \in m .. n
        <3>1. CASE i = m
            BY <1>2, <1>4, <1>5, <3>1
        <3>2. CASE i # m
            BY <1>1, <1>3, <1>4, <3>2
        <3> QED
            BY <3>1, <3>2
    <2>4. T \cap H = {}
        BY <2>3 DEF Stretch
    <2> HIDE DEF T
    <2>5. (n - m + 1) + c <= n
        BY <1>6, <2>1, <2>2, <2>4
    <2> QED
        BY <1>1, <1>4, <2>5
<1> QED
    BY <1>5, <1>7, <1>8 DEF m, n

-----------------------------------------------------------------------------
(* The median *)

\* Quotes are prices with times, of sources that exist.
QuotesOK ==
    /\ now \in Times
    /\ quote \in [Sources -> OraclePrice \cup {NoPrice}]
    /\ sources \in Seq(Sources)

LEMMA InitQuotes == ASSUME Init PROVE QuotesOK
<1>1. Anchor \in Prices /\ now \in Times
    BY BandAssumption DEF Init
<1>2. [price |-> Anchor, timestamp |-> now] \in OraclePrice
    BY <1>1 DEF OraclePrice
<1> QED
    BY <1>1, <1>2 DEF Init, QuotesOK

LEMMA NextQuotes ==
    ASSUME QuotesOK, [Next]_vars
    PROVE  QuotesOK'
<1>1. {"mock", "simulated"} \subseteq Sources /\ Feeds \subseteq Sources
    BY DEF Sources
<1>2. \A p \in Prices, t \in Times : [price |-> p, timestamp |-> t] \in OraclePrice
    BY DEF OraclePrice
<1>3. CASE Tick
    <2>1. PICK moved \in Prices :
            quote' = [quote EXCEPT !["simulated"] = [price |-> Clamp(moved), timestamp |-> now]]
        BY <1>3 DEF Tick
    <2>2. Clamp(moved) \in Prices
        BY BandAssumption DEF Clamp
    <2>3. [price |-> Clamp(moved), timestamp |-> now] \in OraclePrice
        BY <1>2, <2>2 DEF QuotesOK
    <2> QED
        BY <1>1, <1>3, <2>1, <2>3 DEF Tick, QuotesOK
<1>4. CASE RefreshTimestamps
    <2>1. quote["mock"] \in OraclePrice
        BY <1>1, <1>4 DEF RefreshTimestamps, QuotesOK
    <2>2. [quote["mock"] EXCEPT !.timestamp = now] \in OraclePrice
        BY <2>1 DEF OraclePrice, QuotesOK
    <2>3. quote' = [quote EXCEPT !["mock"] = [quote["mock"] EXCEPT !.timestamp = now]]
        BY <1>1, <1>4 DEF RefreshTimestamps, QuotesOK
    <2> QED
        BY <1>1, <1>4, <2>2, <2>3 DEF RefreshTimestamps, QuotesOK
<1>5. ASSUME NEW p \in Prices, SetSimulated(p) PROVE QuotesOK'
    <2>1. [price |-> p, timestamp |-> now] \in OraclePrice
        BY <1>2 DEF QuotesOK
    <2> QED
        BY <1>1, <1>5, <2>1 DEF SetSimulated, QuotesOK
<1>6. ASSUME NEW p \in Prices, NEW t \in Times, SetMock(p, t) PROVE QuotesOK'
    <2>1. [price |-> p, timestamp |-> t] \in OraclePrice
        BY <1>2
    <2> QED
        BY <1>1, <1>6, <2>1 DEF SetMock, QuotesOK
<1>7. ASSUME NEW e \in Feeds, NEW q \in OraclePrice \cup {NoPrice}, Publish(e, q)
      PROVE  QuotesOK'
    BY <1>1, <1>7 DEF Publish, QuotesOK
<1>8. ASSUME NEW t \in Times, SetClock(t) PROVE QuotesOK'
    BY <1>8 DEF SetClock, QuotesOK
<1>9. ASSUME NEW s \in Sources, AddSource(s) PROVE QuotesOK'
    BY <1>9 DEF AddSource, QuotesOK
<1>10. CASE UNCHANGED vars
    BY <1>10 DEF vars, QuotesOK
<1> QED
    BY <1>3, <1>4, <1>5, <1>6, <1>7, <1>8, <1>9, <1>10 DEF Next

\* The aggregator counts exactly the sources that are fresh.
LEMMA CountsTheFresh ==
    ASSUME QuotesOK
    PROVE  /\ FreshSources = Fresh
           /\ IsFiniteSet(Fresh)
           /\ \A s \in Fresh : quote[s] \in OraclePrice /\ quote[s].price \in Nat
<1>1. now \in Int /\ MaxAge \in Nat /\ MaxTime \in Nat
    BY BoundsAssumption DEF QuotesOK, Times
<1>2. \A s \in ToSet(sources) : s \in Sources
    BY DEF QuotesOK, ToSet
<1>3. ASSUME NEW s \in ToSet(sources), quote[s] # NoPrice
      PROVE  /\ quote[s] \in OraclePrice /\ quote[s].price \in Nat
             /\ Age(quote[s].timestamp) <= MaxAge <=> now - quote[s].timestamp <= MaxAge
    <2>1. quote[s] \in OraclePrice
        BY <1>2, <1>3 DEF QuotesOK
    <2>2. quote[s].timestamp \in Times /\ quote[s].price \in Prices
        BY <2>1 DEF OraclePrice
    <2>3. Prices \subseteq Nat /\ Times \subseteq Int
        BY <1>1, PricesAssumption DEF Times
    <2>4. quote[s].timestamp \in Int /\ quote[s].price \in Nat
        BY <2>2, <2>3
    <2> QED
        BY <1>1, <2>1, <2>4 DEF Age
<1>4. FreshSources = Fresh
    BY <1>3 DEF FreshSources, Fresh, IsFresh
<1>5. IsFiniteSet(ToSet(sources))
    <2>1. Len(sources) \in Nat /\ DOMAIN sources = 1 .. Len(sources)
        BY DEF QuotesOK
    <2>2. IsFiniteSet(1 .. Len(sources))
        BY <2>1, IntervalIsFinite
    <2>3. sources \in Surjection(1 .. Len(sources), ToSet(sources))
        BY <2>1 DEF QuotesOK, Surjection, ToSet
    <2> QED
        BY <2>2, <2>3, FS_Surjection
<1>6. IsFiniteSet(Fresh)
    BY <1>5, FS_Subset DEF Fresh
<1> QED
    BY <1>3, <1>4, <1>6 DEF Fresh

\* What the aggregator answers lies between two prices of any majority.
LEMMA MedianBetween ==
    ASSUME QuotesOK
    PROVE  MedianIsHonest
<1> SUFFICES ASSUME NEW honest \in SUBSET Fresh,
                    2 * Cardinality(honest) > Cardinality(Fresh)
             PROVE  /\ AggregatedPrice # NoPrice
                    /\ \E s, u \in honest : /\ quote[s].price <= AggregatedPrice.price
                                            /\ AggregatedPrice.price <= quote[u].price
    BY DEF MedianIsHonest
<1> DEFINE f == [s \in Fresh |-> quote[s].price]
           n == Cardinality(Fresh)
           o == Ascending(Fresh)
<1>1. /\ FreshSources = Fresh /\ IsFiniteSet(Fresh) /\ f \in [Fresh -> Nat]
      /\ \A s \in Fresh : f[s] = quote[s].price /\ quote[s] \in OraclePrice
    BY CountsTheFresh
<1>2. n \in Nat /\ IsFiniteSet(honest) /\ Cardinality(honest) \in Nat /\ Cardinality(honest) <= n
    BY <1>1, FS_CardinalityType, FS_Subset
<1>3. n # 0
    BY <1>2
<1> HIDE DEF f
<1>4. Sorts(o, f, Fresh)
    <2> DEFINE P(q) == /\ \A i, j \in DOMAIN q : i < j => quote[q[i]].price <= quote[q[j]].price
                       /\ IsInjective(q)
    <2>1. ASSUME NEW q \in [1 .. n -> Fresh] PROVE P(q) <=> Sorts(q, f, Fresh)
        <3>1. \A i \in DOMAIN q : f[q[i]] = quote[q[i]].price
            BY <1>1
        <3> QED
            BY <3>1 DEF Sorts
    <2>2. \E q \in [1 .. n -> Fresh] : P(q)
        <3>1. PICK q : Sorts(q, f, Fresh)
            BY <1>1, SortExists
        <3>2. q \in [1 .. n -> Fresh]
            BY <3>1 DEF Sorts
        <3> QED
            BY <2>1, <3>1, <3>2
    <2>3. o = CHOOSE q \in [1 .. n -> Fresh] : P(q)
        BY DEF Ascending
    <2> HIDE DEF P, o, n
    <2>4. o \in [1 .. n -> Fresh] /\ P(o)
        BY <2>2, <2>3
    <2> QED
        BY <2>1, <2>4
<1> DEFINE mid == o[(n \div 2) + 1]
<1>5. mid \in Fresh /\ \E s, u \in honest : f[s] <= f[mid] /\ f[mid] <= f[u]
    <2> HIDE DEF o
    <2> QED
        BY <1>1, <1>4, MiddleIsBetween
<1>6. AggregatedPrice = [price |-> quote[mid].price, timestamp |-> now]
    BY <1>1, <1>3 DEF AggregatedPrice
<1> HIDE DEF mid
<1>7. AggregatedPrice \in OraclePrice /\ AggregatedPrice.price = f[mid]
    BY <1>1, <1>5, <1>6 DEF OraclePrice, QuotesOK
<1>8. AggregatedPrice # NoPrice
    BY <1>7, PricesAssumption
<1> QED
    BY <1>1, <1>5, <1>7, <1>8

\* Median of all sources, "for robustness": whatever the minority of the fresh
\* sources answers and claims about the time, the aggregated price lies between
\* two prices of the honest majority.
THEOREM MedianAlwaysHonest == Spec => []MedianIsHonest
<1>1. Init => QuotesOK
    BY InitQuotes
<1>2. QuotesOK /\ [Next]_vars => QuotesOK'
    BY NextQuotes
<1>3. QuotesOK => MedianIsHonest
    BY MedianBetween
<1> QED
    BY <1>1, <1>2, <1>3, PTL DEF Spec
=============================================================================

---------------------------- MODULE Server_proofs ----------------------------
(***************************************************************************)
(* Proofs about Server, for any clients, menus, markets and batch sizes: an *)
(* oracle update beside which nothing else set prices leaves no price      *)
(* older than it was when the update was requested.                        *)
(***************************************************************************)
EXTENDS Server, FiniteSetTheorems, SequenceTheorems, TLAPS

-----------------------------------------------------------------------------
(* Lists of critical sections *)

Sections == [lock : Locks, mode : {"read", "write"}, does : Deeds \cup Markets,
             keeps : SUBSET Locks]

\* A list of sections; an append has what comes after it.
IsList(s) ==
    s \in Seq(Sections) /\ \A i \in 1 .. Len(s) : s[i].does = "append" => i # Len(s)

\* No section of the list sets a price.
NoPrices(s) == \A i \in 1 .. Len(s) : s[i].does \notin Markets \cup {"reprice"}

\* r is the end of s.
Ends(r, s) ==
    /\ r \in Seq(Sections) /\ Len(r) <= Len(s)
    /\ \A i \in 1 .. Len(r) : r[i] = s[Len(s) - Len(r) + i]

LEMMA EndIsList ==
    ASSUME NEW s, NEW r, IsList(s), Ends(r, s)
    PROVE  IsList(r) /\ (NoPrices(s) => NoPrices(r))
<1>0. PICK m, n : m = Len(r) /\ n = Len(s)
    OBVIOUS
<1>1. m \in Nat /\ n \in Nat /\ m <= n
    BY <1>0 DEF IsList, Ends
<1>2. ASSUME NEW i \in 1 .. m
      PROVE  /\ n - m + i \in 1 .. n /\ r[i] = s[n - m + i]
             /\ (i = m => n - m + i = n)
    <2>1. n - m + i \in 1 .. n /\ (i = m => n - m + i = n)
        BY <1>1
    <2>2. r[i] = s[n - m + i]
        BY <1>0 DEF Ends
    <2> QED
        BY <2>1, <2>2
<1>3. IsList(r)
    BY <1>0, <1>1, <1>2 DEF IsList, Ends
<1>4. NoPrices(s) => NoPrices(r)
    BY <1>0, <1>1, <1>2 DEF NoPrices
<1> QED
    BY <1>3, <1>4

LEMMA TailEnds ==
    ASSUME NEW s \in Seq(Sections), s # <<>>
    PROVE  /\ Ends(Tail(s), s) /\ Len(Tail(s)) = Len(s) - 1 /\ Len(s) \in Nat \ {0}
           /\ Head(s) = s[1] /\ s[1] \in Sections
<1>1. /\ Tail(s) \in Seq(Sections) /\ Len(Tail(s)) = Len(s) - 1 /\ Len(s) \in Nat \ {0}
      /\ \A i \in 1 .. Len(Tail(s)) : Tail(s)[i] = s[i + 1]
    BY HeadTailProperties
<1>2. Len(s) - Len(Tail(s)) = 1
    BY <1>1
<1>3. \A i \in 1 .. Len(Tail(s)) : Tail(s)[i] = s[Len(s) - Len(Tail(s)) + i]
    BY <1>1, <1>2
<1>4. Head(s) = s[1] /\ s[1] \in Sections
    BY <1>1
<1> QED
    BY <1>1, <1>3, <1>4 DEF Ends

LEMMA EmptyEnds ==
    ASSUME NEW s \in Seq(Sections)
    PROVE  Ends(<<>>, s)
    BY DEF Ends

LEMMA SubSeqEnds ==
    ASSUME NEW s \in Seq(Sections), NEW n \in Nat \ {0}
    PROVE  Ends(SubSeq(s, n, Len(s)), s)
<1>1. Len(s) \in Nat
    OBVIOUS
<1>2. CASE n > Len(s)
    <2>1. SubSeq(s, n, Len(s)) = <<>>
        BY <1>1, <1>2, SubSeqEmpty
    <2> QED
        BY <2>1, EmptyEnds
<1>3. CASE n <= Len(s)
    <2>0. PICK r, m : r = SubSeq(s, n, Len(s)) /\ m = Len(s)
        OBVIOUS
    <2>1. \A i \in n .. m : s[i] \in Sections
        BY <1>1, <2>0
    <2>2. /\ r \in Seq(Sections) /\ Len(r) = m - n + 1
          /\ \A i \in 1 .. m - n + 1 : r[i] = s[n + i - 1]
        BY <1>1, <1>3, <2>0, <2>1, SubSeqProperties
    <2>3. Len(r) <= m /\ \A i \in 1 .. Len(r) : r[i] = s[m - Len(r) + i]
        BY <1>1, <1>3, <2>0, <2>2
    <2> QED
        BY <2>0, <2>2, <2>3 DEF Ends
<1> QED
    BY <1>1, <1>2, <1>3

LEMMA JoinedIsList ==
    ASSUME NEW r, NEW s, IsList(r), IsList(s)
    PROVE  /\ IsList(r \o s)
           /\ NoPrices(r) /\ NoPrices(s) => NoPrices(r \o s)
<1>0. PICK m, n, q : m = Len(r) /\ n = Len(s) /\ q = r \o s
    OBVIOUS
<1>1. /\ m \in Nat /\ n \in Nat /\ q \in Seq(Sections) /\ Len(q) = m + n
      /\ \A i \in 1 .. m + n : q[i] = IF i <= m THEN r[i] ELSE s[i - m]
    BY <1>0, ConcatProperties DEF IsList
<1>2. ASSUME NEW i \in 1 .. m + n, q[i].does = "append" PROVE i # m + n
    <2>1. CASE i <= m
        <3>1. i \in 1 .. m /\ q[i] = r[i]
            BY <1>1, <2>1
        <3> QED
            BY <1>0, <1>1, <1>2, <3>1 DEF IsList
    <2>2. CASE i > m
        <3>1. i - m \in 1 .. n /\ q[i] = s[i - m]
            BY <1>1, <2>2
        <3>2. i - m # n
            BY <1>0, <1>2, <3>1 DEF IsList
        <3> QED
            BY <1>1, <3>2
    <2> QED
        BY <1>1, <2>1, <2>2
<1>3. ASSUME NoPrices(r), NoPrices(s), NEW i \in 1 .. m + n PROVE q[i].does \notin Markets \cup {"reprice"}
    <2>1. CASE i <= m
        <3>1. i \in 1 .. m /\ q[i] = r[i]
            BY <1>1, <2>1
        <3> QED
            BY <1>0, <1>3, <3>1 DEF NoPrices
    <2>2. CASE i > m
        <3>1. i - m \in 1 .. n /\ q[i] = s[i - m]
            BY <1>1, <2>2
        <3> QED
            BY <1>0, <1>3, <3>1 DEF NoPrices
    <2> QED
        BY <1>1, <2>1, <2>2
<1> QED
    BY <1>0, <1>1, <1>2, <1>3 DEF IsList, NoPrices

-----------------------------------------------------------------------------
(* The handlers *)

\* What the lists of two, three and six sections need.
Harmless(a) == a \in Sections /\ a.does \notin Markets \cup {"reprice"}

LEMMA ListOfOne ==
    ASSUME NEW a, Harmless(a), a.does # "append"
    PROVE  IsList(<<a>>) /\ NoPrices(<<a>>)
<1>1. <<a>> \in Seq(Sections) /\ Len(<<a>>) = 1 /\ <<a>>[1] = a
    BY DEF Harmless
<1> QED
    BY <1>1 DEF IsList, NoPrices, Harmless

LEMMA ListOfTwo ==
    ASSUME NEW a, NEW b, Harmless(a), Harmless(b), b.does # "append"
    PROVE  IsList(<<a, b>>) /\ NoPrices(<<a, b>>)
<1>0. PICK s : s = <<a, b>>
    OBVIOUS
<1>1. s \in Seq(Sections) /\ Len(s) = 2 /\ s[1] = a /\ s[2] = b
    BY <1>0 DEF Harmless
<1>2. \A i \in 1 .. 2 : i = 1 \/ i = 2
    OBVIOUS
<1> QED
    BY <1>0, <1>1, <1>2 DEF IsList, NoPrices, Harmless

LEMMA ListOfThree ==
    ASSUME NEW a, NEW b, NEW c, Harmless(a), Harmless(b), Harmless(c), c.does # "append"
    PROVE  IsList(<<a, b, c>>) /\ NoPrices(<<a, b, c>>)
<1>0. PICK s : s = <<a, b, c>>
    OBVIOUS
<1>1. s \in Seq(Sections) /\ Len(s) = 3 /\ s[1] = a /\ s[2] = b /\ s[3] = c
    BY <1>0 DEF Harmless
<1>2. \A i \in 1 .. 3 : i = 1 \/ i = 2 \/ i = 3
    OBVIOUS
<1> QED
    BY <1>0, <1>1, <1>2 DEF IsList, NoPrices, Harmless

LEMMA ListOfSix ==
    ASSUME NEW a, NEW b, NEW c, NEW d, NEW e, NEW f,
           Harmless(a), Harmless(b), Harmless(c), Harmless(d), Harmless(e), Harmless(f),
           f.does # "append"
    PROVE  /\ IsList(<<a, b, c, d, e, f>>) /\ NoPrices(<<a, b, c, d, e, f>>)
           /\ Len(<<a, b, c, d, e, f>>) = 6
<1>0. PICK s : s = <<a, b, c, d, e, f>>
    OBVIOUS
<1>1. s \in Seq(Sections) /\ Len(s) = 6
    BY <1>0 DEF Harmless
<1>2. s[1] = a /\ s[2] = b /\ s[3] = c /\ s[4] = d /\ s[5] = e /\ s[6] = f
    BY <1>0
<1>3. \A i \in 1 .. 6 : i = 1 \/ i = 2 \/ i = 3 \/ i = 4 \/ i = 5 \/ i = 6
    OBVIOUS
<1>4. \A i \in 1 .. 6 : s[i].does \notin Markets \cup {"reprice"}
    BY <1>2, <1>3 DEF Harmless
<1>5. \A i \in 1 .. 6 : s[i].does = "append" => i # 6
    BY <1>2, <1>3
<1> QED
    BY <1>0, <1>1, <1>4, <1>5 DEF IsList, NoPrices

LEMMA ListsOfHandlers ==
    /\ IsList(ProcessBatch) /\ NoPrices(ProcessBatch) /\ Len(ProcessBatch) = 6
    /\ IsList(SubmitTransaction) /\ NoPrices(SubmitTransaction)
    /\ IsList(Health) /\ NoPrices(Health) /\ IsList(Status) /\ NoPrices(Status)
    /\ IsList(RegisterAccount) /\ NoPrices(RegisterAccount)
    /\ IsList(BatchTimer) /\ NoPrices(BatchTimer)
    /\ IsList(GetAccount) /\ NoPrices(GetAccount)
    /\ IsList(GetPrice) /\ NoPrices(GetPrice)
<1>1. ASSUME NEW lock \in Locks, NEW mode \in {"read", "write"},
             NEW d \in Deeds \ {"reprice"}, NEW keeps \in SUBSET Locks
      PROVE  /\ Harmless(Section(lock, mode, d, keeps))
             /\ Section(lock, mode, d, keeps).does = d
    BY MarketsAssumption DEF Section, Sections, Harmless
<1>2. {"look", "check", "push", "size", "tick", "drain", "append", "prove", "count"}
          \subseteq Deeds \ {"reprice"}
    BY DEF Deeds
<1>3. /\ "state" \in Locks /\ "pending_txs" \in Locks /\ "account_keys" \in Locks
      /\ "da" \in Locks /\ "stats" \in Locks /\ "oracle" \in Locks
      /\ {} \in SUBSET Locks /\ {"state"} \in SUBSET Locks
    BY DEF Locks
<1>4. \A lock \in Locks : /\ Harmless(Read(lock)) /\ Read(lock).does = "look"
                          /\ Harmless(Write(lock)) /\ Write(lock).does = "look"
    BY <1>1, <1>2, <1>3 DEF Read, Write
<1>5. IsList(ProcessBatch) /\ NoPrices(ProcessBatch) /\ Len(ProcessBatch) = 6
    <2>1. /\ Harmless(Section("pending_txs", "write", "drain", {}))
          /\ Harmless(Section("state", "read", "look", {"state"}))
          /\ Harmless(Section("da", "read", "look", {"state"}))
          /\ Harmless(Section("da", "write", "append", {"state"}))
          /\ Harmless(Section("da", "write", "prove", {"state"}))
          /\ Harmless(Section("stats", "write", "count", {}))
          /\ Section("stats", "write", "count", {}).does # "append"
        BY <1>1, <1>2, <1>3
    <2> QED
        BY <2>1, ListOfSix DEF ProcessBatch
<1>6. IsList(SubmitTransaction) /\ NoPrices(SubmitTransaction)
    <2>1. /\ Harmless(Section("account_keys", "read", "check", {}))
          /\ Harmless(Section("state", "read", "check", {}))
          /\ Harmless(Section("state", "write", "check", {}))
          /\ Harmless(Section("pending_txs", "write", "push", {}))
          /\ Harmless(Section("pending_txs", "read", "size", {}))
        BY <1>1, <1>2, <1>3
    <2>2. Harmless(Write("stats")) /\ Write("stats").does # "append"
        BY <1>3, <1>4
    <2> QED
        BY <2>1, <2>2, ListOfSix DEF SubmitTransaction
<1>7. IsList(Health) /\ NoPrices(Health)
    <2>1. Harmless(Section("state", "read", "look", {"state"}))
        BY <1>1, <1>2, <1>3
    <2> QED
        BY <1>3, <1>4, <2>1, ListOfTwo DEF Health
<1>8. IsList(Status) /\ NoPrices(Status) /\ IsList(RegisterAccount) /\ NoPrices(RegisterAccount)
    BY <1>3, <1>4, ListOfTwo, ListOfThree DEF Status, RegisterAccount
<1>9. IsList(BatchTimer) /\ NoPrices(BatchTimer)
    <2>1. /\ Harmless(Section("pending_txs", "read", "tick", {}))
          /\ Section("pending_txs", "read", "tick", {}).does # "append"
        BY <1>1, <1>2, <1>3
    <2> QED
        BY <2>1, ListOfOne DEF BatchTimer
<1>10. /\ IsList(GetAccount) /\ NoPrices(GetAccount)
       /\ IsList(GetPrice) /\ NoPrices(GetPrice)
    BY <1>3, <1>4, ListOfOne DEF GetAccount, GetPrice
<1> QED
    BY <1>5, <1>6, <1>7, <1>8, <1>9, <1>10

\* A transaction that sets a price is a list too.
LEMMA RepriceIsList == IsList(SubmitUpdateOracle) /\ Len(SubmitUpdateOracle) = 6
<1>0. PICK s : s = SubmitUpdateOracle
    OBVIOUS
<1>1. s \in Seq(Sections) /\ Len(s) = 6 /\ s[6].does = "look"
    BY <1>0 DEF SubmitUpdateOracle, Section, Write, Sections, Deeds, Locks
<1> QED
    BY <1>0, <1>1 DEF IsList

\* Every request but those that set prices is a list without prices.
LEMMA JobIsList ==
    ASSUME NEW request \in Requests, request \notin {"update", "/tx UpdateOracle"},
           NEW job \in Jobs(request)
    PROVE  IsList(job) /\ NoPrices(job)
<1>1. GetAccount = GetPositions /\ GetAccount = GetOrderbook
    BY DEF GetAccount, GetPositions, GetOrderbook
<1>2. job \in {Health, Status, RegisterAccount, GetAccount, GetPrice, SubmitTransaction,
               TriggerBatch}
    BY <1>1 DEF Jobs, Requests, TxRequests
<1> QED
    BY <1>2, ListsOfHandlers DEF TriggerBatch
-----------------------------------------------------------------------------
(* An update *)

N == Cardinality(Markets)

\* It has still to read the oracle, and will then set the prices in this order.
Quoting(s, order) ==
    /\ Len(s) = N + 1
    /\ s[1].does = "quote"
    /\ \A i \in 1 .. N : s[i + 1].does = order[i]

\* It has set the first j prices of the order.
Applying(s, order, j) ==
    /\ Len(s) = N - j
    /\ \A i \in 1 .. N - j : s[i].does = order[i + j]

LEMMA NumberOfMarkets ==
    /\ N \in Nat /\ (Markets # {} => N > 0)
    /\ \A order \in MarketOrders :
          /\ \A i \in 1 .. N : order[i] \in Markets
          /\ \A m \in Markets : \E i \in 1 .. N : order[i] = m
<1>1. N \in Nat /\ (Markets # {} => N > 0)
    BY MarketsAssumption, FS_CardinalityType, FS_EmptySet DEF N
<1>2. ASSUME NEW order \in MarketOrders
      PROVE  /\ \A i \in 1 .. N : order[i] \in Markets
             /\ \A m \in Markets : \E i \in 1 .. N : order[i] = m
    <2>1. order \in [1 .. N -> Markets] /\ IsInjective(order)
        BY DEF MarketOrders, N
    <2>2. order \in Injection(1 .. N, Markets)
        BY <2>1 DEF Injection
    <2>3. IsFiniteSet(1 .. N) /\ Cardinality(1 .. N) = N
        BY <1>1, FS_Interval
    <2>4. order \in Surjection(1 .. N, Markets)
        BY <2>2, <2>3, MarketsAssumption, FS_Injection DEF N
    <2> QED
        BY <2>1, <2>4 DEF Surjection
<1> QED
    BY <1>1, <1>2

LEMMA UpdateIsList ==
    ASSUME NEW order \in MarketOrders
    PROVE  IsList(UpdateOraclePrices(order)) /\ Quoting(UpdateOraclePrices(order), order)
<1>0. PICK n, a, b, s :
          /\ n = N
          /\ a = <<Section("oracle", "read", "quote", {})>>
          /\ b = [i \in DOMAIN order |-> Section("state", "write", order[i], {})]
          /\ s = UpdateOraclePrices(order)
    OBVIOUS
<1>1. n \in Nat /\ DOMAIN order = 1 .. n /\ \A i \in 1 .. n : order[i] \in Markets
    BY <1>0, NumberOfMarkets DEF MarketOrders, N
<1>2. s = a \o b
    BY <1>0 DEF UpdateOraclePrices
<1>3. a \in Seq(Sections) /\ Len(a) = 1 /\ a[1].does = "quote"
    <2>1. Section("oracle", "read", "quote", {}) \in Sections
        BY DEF Section, Sections, Deeds, Locks
    <2>2. Section("oracle", "read", "quote", {}).does = "quote"
        BY DEF Section
    <2> QED
        BY <1>0, <2>1, <2>2
<1>4. /\ b \in Seq(Sections) /\ Len(b) = n
      /\ \A i \in 1 .. n : b[i].does = order[i]
    <2>1. \A i \in 1 .. n : /\ Section("state", "write", order[i], {}) \in Sections
                            /\ Section("state", "write", order[i], {}).does = order[i]
        BY <1>1 DEF Section, Sections, Locks
    <2>2. b \in [1 .. n -> Sections] /\ \A i \in 1 .. n : b[i].does = order[i]
        BY <1>0, <1>1, <2>1
    <2> QED
        BY <1>1, <2>2
<1>5. /\ s \in Seq(Sections) /\ Len(s) = n + 1
      /\ \A i \in 1 .. n + 1 : s[i] = IF i <= 1 THEN a[i] ELSE b[i - 1]
    <2>1. /\ s \in Seq(Sections) /\ Len(s) = Len(a) + Len(b)
          /\ \A i \in 1 .. Len(a) + Len(b) :
                s[i] = IF i <= Len(a) THEN a[i] ELSE b[i - Len(a)]
        BY <1>2, <1>3, <1>4, ConcatProperties
    <2>2. 1 + n = n + 1
        BY <1>1
    <2> QED
        BY <1>3, <1>4, <2>1, <2>2
<1>6. s[1].does = "quote" /\ \A i \in 1 .. n : s[i + 1].does = order[i]
    <2>1. s[1] = a[1]
        BY <1>1, <1>5
    <2>2. ASSUME NEW i \in 1 .. n PROVE s[i + 1] = b[i]
        <3>1. i + 1 \in 1 .. n + 1 /\ ~(i + 1 <= 1) /\ (i + 1) - 1 = i
            BY <1>1
        <3> QED
            BY <1>5, <3>1
    <2> QED
        BY <1>3, <1>4, <2>1, <2>2
<1>7. ASSUME NEW i \in 1 .. n + 1 PROVE s[i].does # "append"
    <2>1. "append" \in Deeds
        BY DEF Deeds
    <2>2. CASE i = 1
        BY <1>6, <2>2
    <2>3. CASE i # 1
        <3>1. i - 1 \in 1 .. n /\ (i - 1) + 1 = i
            BY <1>1, <2>3
        <3>2. s[i].does = order[i - 1]
            BY <1>6, <3>1
        <3> QED
            BY <1>1, <2>1, <3>1, <3>2, MarketsAssumption
    <2> QED
        BY <2>2, <2>3
<1>8. IsList(s) /\ Quoting(s, order)
    BY <1>0, <1>5, <1>6, <1>7 DEF IsList, Quoting
<1> QED
    BY <1>0, <1>8

\* When the oracle has been read, no price is set yet; and each section of the
\* rest sets one.
LEMMA UpdateGoesOn ==
    ASSUME NEW s, IsList(s), s # <<>>, NEW order \in MarketOrders, Markets # {}
    PROVE  /\ Quoting(s, order) => Head(s).does = "quote" /\ Applying(Tail(s), order, 0)
           /\ \A j \in 0 .. N - 1 : Applying(s, order, j) =>
                 /\ Head(s).does = order[j + 1] /\ Head(s).does \in Markets
                 /\ Applying(Tail(s), order, j + 1)
                 /\ Tail(s) = <<>> <=> j + 1 = N
<1>0. PICK n, k, r : n = N /\ k = Len(s) /\ r = Tail(s)
    OBVIOUS
<1>1. /\ n \in Nat \ {0} /\ \A i \in 1 .. n : order[i] \in Markets
    BY <1>0, NumberOfMarkets
<1>2. /\ r \in Seq(Sections) /\ Len(r) = k - 1 /\ k \in Nat \ {0} /\ Head(s) = s[1]
      /\ \A i \in 1 .. k - 1 : r[i] = s[i + 1]
    BY <1>0, TailEnds, HeadTailProperties DEF IsList, Ends
<1>3. ASSUME Quoting(s, order)
      PROVE  Head(s).does = "quote" /\ Applying(r, order, 0)
    <2>1. k = n + 1 /\ s[1].does = "quote" /\ \A i \in 1 .. n : s[i + 1].does = order[i]
        BY <1>0, <1>3 DEF Quoting
    <2>2. Len(r) = n - 0 /\ \A i \in 1 .. n - 0 : r[i].does = order[i + 0]
        BY <1>1, <1>2, <2>1
    <2> QED
        BY <1>0, <1>2, <2>1, <2>2 DEF Applying
<1>4. ASSUME NEW j \in 0 .. n - 1, Applying(s, order, j)
      PROVE  /\ Head(s).does = order[j + 1] /\ Head(s).does \in Markets
             /\ Applying(r, order, j + 1)
             /\ r = <<>> <=> j + 1 = n
    <2>1. k = n - j /\ \A i \in 1 .. n - j : s[i].does = order[i + j]
        BY <1>0, <1>4 DEF Applying
    <2>2. Head(s).does = order[j + 1] /\ Head(s).does \in Markets
        <3>1. 1 \in 1 .. n - j /\ 1 + j = j + 1 /\ j + 1 \in 1 .. n
            BY <1>1
        <3> QED
            BY <1>1, <1>2, <2>1, <3>1
    <2>3. ASSUME NEW i \in 1 .. n - (j + 1) PROVE r[i].does = order[i + (j + 1)]
        <3>1. i + 1 \in 1 .. n - j /\ i \in 1 .. k - 1 /\ (i + 1) + j = i + (j + 1)
            BY <1>1, <2>1
        <3>2. r[i] = s[i + 1] /\ s[i + 1].does = order[(i + 1) + j]
            BY <1>2, <2>1, <3>1
        <3> QED
            BY <3>1, <3>2
    <2>4. Len(r) = n - (j + 1)
        BY <1>1, <1>2, <2>1
    <2>5. r = <<>> <=> j + 1 = n
        <3>1. r = <<>> <=> Len(r) = 0
            BY <1>2, EmptySeq
        <3> QED
            BY <1>1, <2>4, <3>1
    <2> QED
        BY <1>0, <2>2, <2>3, <2>4, <2>5 DEF Applying
<1> QED
    BY <1>0, <1>3, <1>4

\* Somewhere in what is left of an update a price is set.
LEMMA UpdateHasMarkets ==
    ASSUME NEW s, NEW order \in MarketOrders, Markets # {},
           Quoting(s, order) \/ \E j \in 0 .. N - 1 : Applying(s, order, j)
    PROVE  ~NoPrices(s) /\ s # <<>>
<1>0. PICK n : n = N
    OBVIOUS
<1>1. /\ n \in Nat \ {0} /\ \A i \in 1 .. n : order[i] \in Markets
    BY <1>0, NumberOfMarkets
<1>2. \E i \in 1 .. Len(s) : s[i].does \in Markets
    <2>1. CASE Quoting(s, order)
        <3>1. Len(s) = n + 1 /\ s[1 + 1].does = order[1]
            BY <1>0, <1>1, <2>1 DEF Quoting
        <3>2. 1 + 1 \in 1 .. n + 1 /\ 1 \in 1 .. n
            BY <1>1
        <3> QED
            BY <1>1, <3>1, <3>2
    <2>2. ASSUME NEW j \in 0 .. n - 1, Applying(s, order, j)
          PROVE  \E i \in 1 .. Len(s) : s[i].does \in Markets
        <3>1. 1 \in 1 .. n - j /\ 1 + j \in 1 .. n
            BY <1>1
        <3>2. Len(s) = n - j /\ s[1].does = order[1 + j]
            BY <1>0, <2>2, <3>1 DEF Applying
        <3> QED
            BY <1>1, <3>1, <3>2
    <2> QED
        BY <1>0, <2>1, <2>2
<1> QED
    BY <1>2 DEF NoPrices
-----------------------------------------------------------------------------
(* The invariant *)

TypesOK ==
    /\ todo = [t \in Tasks |-> todo[t]] /\ \A t \in Tasks : IsList(todo[t])
    /\ quotes = [t \in Tasks |-> quotes[t]]
    /\ since = [t \in Tasks |-> since[t]]
    /\ oracle \in [Markets -> Nat]
    /\ state_price = [m \in Markets |-> state_price[m]]

\* The prices an update has read, and those it has set, are not older than those
\* of the request.
FreshSoFar(t, order, j) ==
    /\ Applying(todo[t], order, j)
    /\ quotes[t] \in [Markets -> Nat] /\ \A m \in Markets : quotes[t][m] >= since[t][m]
    /\ \A i \in 1 .. j : state_price[order[i]] >= since[t][order[i]]

\* What `since` remembers of an update that runs alone.
RunsAlone(t) ==
    /\ \A u \in Tasks \ {t} : NoPrices(todo[u])
    /\ since[t] \in [Markets -> Nat] /\ \A m \in Markets : oracle[m] >= since[t][m]
    /\ \E order \in MarketOrders :
          Quoting(todo[t], order) \/ \E j \in 0 .. N - 1 : FreshSoFar(t, order, j)

FreshInv == TypesOK /\ \A t \in Tasks : since[t] # <<>> => RunsAlone(t)

\* The update a task runs alone.
LEMMA AloneHasMarkets ==
    ASSUME FreshInv, Markets # {}, NEW t \in Tasks, since[t] # <<>>
    PROVE  ~NoPrices(todo[t]) /\ todo[t] # <<>>
<1>1. PICK order \in MarketOrders :
          Quoting(todo[t], order) \/ \E j \in 0 .. N - 1 : FreshSoFar(t, order, j)
    BY DEF FreshInv, RunsAlone
<1>2. Quoting(todo[t], order) \/ \E j \in 0 .. N - 1 : Applying(todo[t], order, j)
    BY <1>1 DEF FreshSoFar
<1> QED
    BY <1>2, UpdateHasMarkets

LEMMA InitFresh == Init => FreshInv
<1> SUFFICES ASSUME Init PROVE FreshInv
    OBVIOUS
<1>1. IsList(<<>>)
    BY DEF IsList
<1>2. TypesOK
    BY <1>1 DEF Init, TypesOK
<1> QED
    BY <1>2 DEF Init, FreshInv

\* A task that is not in an update changes its list, and brings in no price.
LEMMA QuietMove ==
    ASSUME FreshInv, Markets # {}, NEW t \in Tasks, NEW rest, IsList(rest),
           NoPrices(todo[t]) => NoPrices(rest),
           since[t] = <<>>,
           todo' = [todo EXCEPT ![t] = rest], UNCHANGED priceVars
    PROVE  FreshInv'
<1>1. /\ quotes' = quotes /\ since' = since /\ oracle' = oracle
      /\ state_price' = state_price
    BY DEF priceVars
<1>2. todo'[t] = rest /\ \A u \in Tasks \ {t} : todo'[u] = todo[u]
    BY DEF FreshInv, TypesOK
<1>3. TypesOK'
    BY <1>1, <1>2 DEF FreshInv, TypesOK
<1>4. ASSUME NEW u \in Tasks, since[u] # <<>>
      PROVE  RunsAlone(u)'
    <2>1. RunsAlone(u) /\ u # t /\ todo'[u] = todo[u]
        BY <1>2, <1>4 DEF FreshInv
    <2>2. \A v \in Tasks \ {u} : NoPrices(todo'[v])
        BY <1>2, <2>1 DEF RunsAlone
    <2>3. PICK order \in MarketOrders :
              Quoting(todo[u], order) \/ \E j \in 0 .. N - 1 : FreshSoFar(u, order, j)
        BY <2>1 DEF RunsAlone
    <2>4. Quoting(todo'[u], order) \/ \E j \in 0 .. N - 1 : FreshSoFar(u, order, j)'
        BY <1>1, <2>1, <2>3 DEF FreshSoFar
    <2> QED
        BY <1>1, <2>1, <2>2, <2>4 DEF RunsAlone
<1> QED
    BY <1>1, <1>3, <1>4 DEF FreshInv

\* Neither does a task that enters a section of its own outside an update.
LEMMA QuietSection ==
    ASSUME FreshInv, Markets # {}, NEW t \in Tasks, todo[t] # <<>>,
           Head(todo[t]).does \in Deeds \ {"quote"}
    PROVE  since[t] = <<>>
<1> SUFFICES ASSUME since[t] # <<>> PROVE FALSE
    OBVIOUS
<1>1. IsList(todo[t]) /\ RunsAlone(t)
    BY DEF FreshInv, TypesOK
<1>2. PICK order \in MarketOrders :
          Quoting(todo[t], order) \/ \E j \in 0 .. N - 1 : Applying(todo[t], order, j)
    BY <1>1 DEF RunsAlone, FreshSoFar
<1>3. Head(todo[t]).does = "quote" \/ Head(todo[t]).does \in Markets
    BY <1>1, <1>2, UpdateGoesOn
<1> QED
    BY <1>3, MarketsAssumption

-----------------------------------------------------------------------------
(* The steps *)

\* The property of a step, for one task.
FreshAtEnd(t) ==
    since[t] # <<>> /\ since'[t] = <<>> /\ todo'[t] = <<>> =>
        \A m \in Markets : state_price'[m] >= since[t][m]

\* A section outside updates goes on with its list, with a piece of it, or with a
\* batch before it.
LEMMA QuietSteps ==
    ASSUME FreshInv, Markets # {}, NEW t \in Tasks,
           \/ Look(t) \/ Check(t) \/ Push(t) \/ Size(t) \/ Drain(t) \/ AppendBatch(t)
           \/ AppendProof(t) \/ (t = Timer /\ CheckDue)
    PROVE  FreshInv' /\ UNCHANGED since
<1>0. IsList(todo[t])
    BY DEF FreshInv, TypesOK
<1>1. todo[t] # <<>> /\ Head(todo[t]).does \in Deeds \ {"quote"} /\ UNCHANGED priceVars
    BY DEF Look, Check, Push, Size, Drain, AppendBatch, AppendProof, CheckDue, At, Deeds
<1>2. UNCHANGED since
    BY <1>1 DEF priceVars
<1>3. since[t] = <<>>
    BY <1>1, QuietSection
<1>4. /\ IsList(Rest(t)) /\ (NoPrices(todo[t]) => NoPrices(Rest(t)))
      /\ Rest(t) \in Seq(Sections) /\ Ends(Rest(t), todo[t])
    BY <1>0, <1>1, TailEnds, EndIsList DEF IsList, Rest, Ends
<1>5. IsList(<<>>) /\ NoPrices(<<>>)
    BY DEF IsList, NoPrices
<1>6. \E rest : /\ todo' = [todo EXCEPT ![t] = rest]
                /\ IsList(rest) /\ (NoPrices(todo[t]) => NoPrices(rest))
    <2>1. CASE Look(t) \/ Check(t) \/ Push(t) \/ AppendProof(t)
        <3>1. \E rest \in {Rest(t), <<>>} : todo' = [todo EXCEPT ![t] = rest]
            BY <2>1 DEF Look, Check, Push, AppendProof, Leave
        <3> QED
            BY <1>4, <1>5, <3>1
    <2>2. CASE Size(t)
        <3>1. \E rest \in {Rest(t), ProcessBatch \o Rest(t)} : todo' = [todo EXCEPT ![t] = rest]
            BY <2>2 DEF Size, Leave
        <3>2. /\ IsList(ProcessBatch \o Rest(t))
              /\ NoPrices(todo[t]) => NoPrices(ProcessBatch \o Rest(t))
            BY <1>4, ListsOfHandlers, JoinedIsList
        <3> QED
            BY <1>4, <3>1, <3>2
    <2>3. CASE Drain(t)
        <3>1. \E rest \in {Rest(t), AfterBatch(Rest(t))} : todo' = [todo EXCEPT ![t] = rest]
            BY <2>3 DEF Drain, Leave
        <3>2. Ends(AfterBatch(Rest(t)), Rest(t))
            BY <1>4, ListsOfHandlers, SubSeqEnds DEF AfterBatch
        <3>3. /\ IsList(AfterBatch(Rest(t)))
              /\ NoPrices(todo[t]) => NoPrices(AfterBatch(Rest(t)))
            BY <1>4, <3>2, EndIsList
        <3> QED
            BY <1>4, <3>1, <3>3
    <2>4. CASE AppendBatch(t)
        <3>1. \E rest \in {Rest(t), Tail(Rest(t)), <<>>} : todo' = [todo EXCEPT ![t] = rest]
            BY <2>4 DEF AppendBatch, Leave
        <3>2. Rest(t) # <<>>
            <4>1. todo[t][1].does = "append" /\ Len(todo[t]) \in Nat \ {0}
                BY <1>0, <1>1, <2>4, TailEnds DEF AppendBatch, At, IsList
            <4>2. Len(todo[t]) # 1 /\ Len(Rest(t)) = Len(todo[t]) - 1
                BY <1>0, <1>1, <4>1, TailEnds DEF IsList, Rest
            <4>3. Len(Rest(t)) # 0 /\ Len(<<>>) = 0
                BY <4>1, <4>2
            <4> QED
                BY <4>3
        <3>3. /\ IsList(Tail(Rest(t)))
              /\ NoPrices(todo[t]) => NoPrices(Tail(Rest(t)))
            BY <1>4, <3>2, TailEnds, EndIsList
        <3> QED
            BY <1>4, <1>5, <3>1, <3>3
    <2>5. CASE t = Timer /\ CheckDue
        <3>1. \E rest \in {ProcessBatch, <<>>} : todo' = [todo EXCEPT ![t] = rest]
            BY <2>5 DEF CheckDue, Leave
        <3> QED
            BY <1>5, <3>1, ListsOfHandlers
    <2> QED
        BY <2>1, <2>2, <2>3, <2>4, <2>5
<1> QED
    BY <1>1, <1>2, <1>3, <1>6, QuietMove

\* A request or a tick that is not for an update.
LEMMA StartStep ==
    ASSUME FreshInv, Markets # {}, NEW t \in Tasks, NEW job, IsList(job), NoPrices(job),
           Start(t, job), UNCHANGED priceVars
    PROVE  FreshInv' /\ UNCHANGED since
<1>1. todo[t] = <<>> /\ todo' = [todo EXCEPT ![t] = job]
    BY DEF Start
<1>2. since[t] = <<>>
    BY <1>1, AloneHasMarkets
<1> QED
    BY <1>1, <1>2, QuietMove DEF priceVars

LEMMA RequestStep ==
    ASSUME FreshInv, Markets # {}, NEW c \in Clients, NEW request \in Requests,
           Request(c, request)
    PROVE  FreshInv' /\ \A t \in Clients : FreshAtEnd(t)
<1>0. c \in Tasks /\ Clients \subseteq Tasks
    BY DEF Tasks
<1>1. PICK job \in Jobs(request) : Start(c, job)
    BY DEF Request
<1>2. CASE request \notin {"update", "/tx UpdateOracle"}
    <2>1. UNCHANGED priceVars
        BY <1>2 DEF Request, priceVars
    <2>2. FreshInv' /\ UNCHANGED since
        BY <1>0, <1>1, <1>2, <2>1, JobIsList, StartStep
    <2> QED
        BY <2>2 DEF FreshAtEnd
<1>3. CASE request = "update"
    <2>1. PICK order \in MarketOrders : job = UpdateOraclePrices(order)
        BY <1>1, <1>3 DEF Jobs
    <2>2. IsList(job) /\ Quoting(job, order) /\ ~NoPrices(job) /\ job # <<>>
        BY <2>1, UpdateIsList, UpdateHasMarkets
    <2>3. todo[c] = <<>> /\ todo' = [todo EXCEPT ![c] = job]
        BY <1>1 DEF Start
    <2>4. /\ todo'[c] = job /\ \A u \in Tasks \ {c} : todo'[u] = todo[u]
        BY <1>0, <2>3 DEF FreshInv, TypesOK
    <2>5. UNCHANGED <<oracle, quotes, state_price>>
        BY DEF Request
    <2>6. CASE Pricing = {}
        <3>1. since' = [since EXCEPT ![c] = oracle]
            BY <1>3, <2>6 DEF Request
        <3>2. \A u \in Tasks : NoPrices(todo[u])
            BY <2>6 DEF Pricing, NoPrices, FreshInv, TypesOK, IsList
        <3>3. \A u \in Tasks : since[u] = <<>>
            BY <3>2, AloneHasMarkets
        <3>4. /\ since' = [t \in Tasks |-> since'[t]]
              /\ since'[c] = oracle /\ \A u \in Tasks \ {c} : since'[u] = <<>>
            BY <1>0, <3>1, <3>3 DEF FreshInv, TypesOK
        <3>5. TypesOK'
            BY <2>2, <2>3, <2>4, <2>5, <3>4 DEF FreshInv, TypesOK
        <3>6. RunsAlone(c)'
            <4>1. \A u \in Tasks \ {c} : NoPrices(todo'[u])
                BY <2>4, <3>2
            <4>2. /\ since'[c] \in [Markets -> Nat] /\ \A m \in Markets : oracle[m] \in Nat
                  /\ \A m \in Markets : since'[c][m] = oracle'[m]
                BY <2>5, <3>4 DEF FreshInv, TypesOK
            <4>3. \A m \in Markets : oracle'[m] >= since'[c][m]
                BY <2>5, <4>2
            <4>4. Quoting(todo'[c], order)
                BY <2>2, <2>4
            <4> QED
                BY <4>1, <4>2, <4>3, <4>4 DEF RunsAlone
        <3> QED
            BY <1>0, <3>3, <3>4, <3>5, <3>6 DEF FreshInv, FreshAtEnd
    <2>7. CASE Pricing # {}
        <3>1. since' = [t \in Tasks |-> <<>>]
            BY <1>3, <2>7 DEF Request
        <3>2. TypesOK'
            BY <2>2, <2>3, <2>4, <2>5, <3>1 DEF FreshInv, TypesOK
        <3>3. FreshInv'
            BY <3>1, <3>2 DEF FreshInv
        <3>4. ASSUME NEW t \in Clients, since[t] # <<>> PROVE todo'[t] # <<>>
            <4>1. todo[t] # <<>>
                BY <1>0, <3>4, AloneHasMarkets
            <4> QED
                BY <1>0, <2>2, <2>4, <4>1
        <3> QED
            BY <3>3, <3>4 DEF FreshAtEnd
    <2> QED
        BY <2>6, <2>7
<1>4. CASE request = "/tx UpdateOracle"
    <2>1. job = SubmitUpdateOracle
        BY <1>1, <1>4 DEF Jobs
    <2>2. IsList(job) /\ job # <<>>
        BY <2>1, RepriceIsList
    <2>3. todo[c] = <<>> /\ todo' = [todo EXCEPT ![c] = job]
        BY <1>1 DEF Start
    <2>4. todo'[c] = job /\ \A u \in Tasks \ {c} : todo'[u] = todo[u]
        BY <1>0, <2>3 DEF FreshInv, TypesOK
    <2>5. UNCHANGED <<oracle, quotes, state_price>>
        BY DEF Request
    <2>6. \A u \in Tasks : since'[u] = <<>>
        <3>1. CASE Pricing = {}
            <4>1. since' = since
                BY <1>4, <3>1 DEF Request
            <4>2. \A u \in Tasks : NoPrices(todo[u])
                BY <3>1 DEF Pricing, NoPrices, FreshInv, TypesOK, IsList
            <4> QED
                BY <4>1, <4>2, AloneHasMarkets
        <3>2. CASE Pricing # {}
            BY <1>4, <3>2 DEF Request
        <3> QED
            BY <3>1, <3>2
    <2>7. since' = [u \in Tasks |-> since'[u]]
        BY <1>4 DEF Request, FreshInv, TypesOK
    <2>8. TypesOK'
        BY <2>2, <2>3, <2>4, <2>5, <2>7 DEF FreshInv, TypesOK
    <2>9. ASSUME NEW t \in Clients, since[t] # <<>> PROVE todo'[t] # <<>>
        <3>1. todo[t] # <<>>
            BY <1>0, <2>9, AloneHasMarkets
        <3> QED
            BY <1>0, <2>2, <2>4, <3>1
    <2> QED
        BY <2>6, <2>8, <2>9 DEF FreshInv, FreshAtEnd
<1> QED
    BY <1>2, <1>3, <1>4

LEMMA SetPriceStep ==
    ASSUME FreshInv, NEW m \in Markets, SetPrice(m)
    PROVE  FreshInv' /\ UNCHANGED since
<1>1. /\ todo' = todo /\ quotes' = quotes /\ state_price' = state_price /\ since' = since
      /\ oracle' = [oracle EXCEPT ![m] = @ + 1]
    BY DEF SetPrice, lockVars
<1>2. /\ oracle' \in [Markets -> Nat]
      /\ \A n \in Markets : oracle[n] \in Nat /\ oracle'[n] >= oracle[n]
    BY <1>1 DEF FreshInv, TypesOK
<1>3. TypesOK'
    BY <1>1, <1>2 DEF FreshInv, TypesOK
<1>4. ASSUME NEW t \in Tasks, since[t] # <<>> PROVE RunsAlone(t)'
    <2>1. RunsAlone(t)
        BY <1>4 DEF FreshInv
    <2>2. \A n \in Markets : since[t][n] \in Nat /\ oracle'[n] \in Nat
        BY <1>2, <2>1 DEF RunsAlone
    <2>3. \A n \in Markets : oracle'[n] >= since[t][n]
        BY <1>2, <2>1, <2>2 DEF RunsAlone
    <2>4. \A order, j : FreshSoFar(t, order, j) => FreshSoFar(t, order, j)'
        BY <1>1 DEF FreshSoFar
    <2>5. /\ \A u \in Tasks \ {t} : NoPrices(todo'[u])
          /\ since'[t] \in [Markets -> Nat]
          /\ \E order \in MarketOrders :
                Quoting(todo'[t], order) \/ \E j \in 0 .. N - 1 : FreshSoFar(t, order, j)'
        BY <1>1, <2>1, <2>4 DEF RunsAlone
    <2> QED
        BY <1>1, <2>3, <2>5 DEF RunsAlone
<1> QED
    BY <1>1, <1>3, <1>4 DEF FreshInv
LEMMA QuoteStep ==
    ASSUME FreshInv, Markets # {}, NEW t \in Tasks, Quote(t)
    PROVE  FreshInv' /\ UNCHANGED since
<1>1. /\ todo[t] # <<>> /\ Head(todo[t]).does = "quote" /\ IsList(todo[t])
      /\ todo' = [todo EXCEPT ![t] = Tail(todo[t])]
      /\ quotes' = [quotes EXCEPT ![t] = oracle]
      /\ oracle' = oracle /\ state_price' = state_price /\ since' = since
    BY DEF Quote, Quotes, At, Leave, Rest, FreshInv, TypesOK
<1>2. IsList(Tail(todo[t])) /\ (NoPrices(todo[t]) => NoPrices(Tail(todo[t])))
    BY <1>1, TailEnds, EndIsList DEF IsList
<1>3. /\ todo'[t] = Tail(todo[t]) /\ \A u \in Tasks \ {t} : todo'[u] = todo[u]
      /\ quotes'[t] = oracle /\ \A u \in Tasks \ {t} : quotes'[u] = quotes[u]
    BY <1>1 DEF FreshInv, TypesOK
<1>4. TypesOK'
    BY <1>1, <1>2, <1>3 DEF FreshInv, TypesOK
<1>5. ASSUME NEW u \in Tasks \ {t}, since[u] # <<>> PROVE RunsAlone(u)'
    <2>1. RunsAlone(u) /\ todo'[u] = todo[u] /\ quotes'[u] = quotes[u]
        BY <1>3, <1>5 DEF FreshInv
    <2>2. \A v \in Tasks \ {u} : NoPrices(todo'[v])
        BY <1>2, <1>3, <2>1 DEF RunsAlone
    <2>3. \A order, j : FreshSoFar(u, order, j) => FreshSoFar(u, order, j)'
        BY <1>1, <2>1 DEF FreshSoFar
    <2>4. \E order \in MarketOrders :
              Quoting(todo'[u], order) \/ \E j \in 0 .. N - 1 : FreshSoFar(u, order, j)'
        BY <2>1, <2>3 DEF RunsAlone
    <2> QED
        BY <1>1, <2>1, <2>2, <2>4 DEF RunsAlone
<1>6. ASSUME since[t] # <<>> PROVE RunsAlone(t)'
    <2>1. RunsAlone(t)
        BY <1>6 DEF FreshInv
    <2>2. PICK order \in MarketOrders :
              Quoting(todo[t], order) \/ \E j \in 0 .. N - 1 : Applying(todo[t], order, j)
        BY <2>1 DEF RunsAlone, FreshSoFar
    <2>3. ~ \E j \in 0 .. N - 1 : Applying(todo[t], order, j)
        <3>1. "quote" \notin Markets
            BY MarketsAssumption DEF Deeds
        <3> QED
            BY <1>1, <3>1, UpdateGoesOn
    <2>4. Applying(todo'[t], order, 0)
        BY <1>1, <1>3, <2>2, <2>3, UpdateGoesOn
    <2>5. quotes'[t] \in [Markets -> Nat] /\ \A m \in Markets : quotes'[t][m] >= since'[t][m]
        BY <1>1, <1>3, <2>1 DEF FreshInv, TypesOK, RunsAlone
    <2>6. FreshSoFar(t, order, 0)'
        BY <2>4, <2>5 DEF FreshSoFar
    <2>7. 0 \in 0 .. N - 1
        BY NumberOfMarkets
    <2>8. \A v \in Tasks \ {t} : NoPrices(todo'[v])
        BY <1>3, <2>1 DEF RunsAlone
    <2> QED
        BY <1>1, <2>1, <2>6, <2>7, <2>8 DEF RunsAlone
<1> QED
    BY <1>1, <1>4, <1>5, <1>6 DEF FreshInv

\* A section that sets a price belongs to the only update, if one runs alone; when
\* it is the last, every market has had its turn.
LEMMA ApplyPriceStep ==
    ASSUME FreshInv, Markets # {}, NEW t \in Tasks, NEW m \in Markets, ApplyPrice(t, m)
    PROVE  FreshInv' /\ \A u \in Tasks : FreshAtEnd(u)
<1>1. /\ todo[t] # <<>> /\ Head(todo[t]).does = m /\ IsList(todo[t])
      /\ todo' = [todo EXCEPT ![t] = Tail(todo[t])]
      /\ state_price' = [state_price EXCEPT ![m] = quotes[t][m]]
      /\ quotes' = IF Tail(todo[t]) = <<>> THEN [quotes EXCEPT ![t] = <<>>] ELSE quotes
      /\ since' = IF Tail(todo[t]) = <<>> THEN [since EXCEPT ![t] = <<>>] ELSE since
      /\ oracle' = oracle
    BY DEF ApplyPrice, At, Leave, Rest, FreshInv, TypesOK
<1>2. IsList(Tail(todo[t])) /\ ~NoPrices(todo[t])
    <2>1. /\ IsList(Tail(todo[t])) /\ Len(todo[t]) \in Nat \ {0} /\ todo[t][1].does = m
        BY <1>1, TailEnds, EndIsList DEF IsList
    <2> QED
        BY <2>1 DEF NoPrices
<1>3. /\ todo'[t] = Tail(todo[t]) /\ \A u \in Tasks \ {t} : todo'[u] = todo[u]
      /\ state_price'[m] = quotes[t][m]
      /\ \A n \in Markets \ {m} : state_price'[n] = state_price[n]
    BY <1>1 DEF FreshInv, TypesOK
<1>4. TypesOK'
    <2>1. todo' = [u \in Tasks |-> todo'[u]] /\ \A u \in Tasks : IsList(todo'[u])
        BY <1>1, <1>2, <1>3 DEF FreshInv, TypesOK
    <2>2. /\ quotes' = [u \in Tasks |-> quotes'[u]] /\ since' = [u \in Tasks |-> since'[u]]
        BY <1>1 DEF FreshInv, TypesOK
    <2>3. state_price' = [n \in Markets |-> state_price'[n]] /\ oracle' \in [Markets -> Nat]
        BY <1>1 DEF FreshInv, TypesOK
    <2> QED
        BY <2>1, <2>2, <2>3 DEF TypesOK
<1>5. \A u \in Tasks \ {t} : since[u] = <<>> /\ since'[u] = <<>>
    <2>1. \A u \in Tasks \ {t} : since[u] = <<>>
        BY <1>2 DEF FreshInv, RunsAlone
    <2> QED
        BY <1>1, <2>1 DEF FreshInv, TypesOK
<1>6. CASE since[t] = <<>>
    <2>1. since'[t] = <<>>
        BY <1>1, <1>6 DEF FreshInv, TypesOK
    <2> QED
        BY <1>4, <1>5, <1>6, <2>1 DEF FreshInv, FreshAtEnd
<1>7. CASE since[t] # <<>>
    <2>1. RunsAlone(t)
        BY <1>7 DEF FreshInv
    <2>2. PICK order \in MarketOrders :
              Quoting(todo[t], order) \/ \E j \in 0 .. N - 1 : FreshSoFar(t, order, j)
        BY <2>1 DEF RunsAlone
    <2>3. ~Quoting(todo[t], order)
        <3>1. "quote" \notin Markets
            BY MarketsAssumption DEF Deeds
        <3> QED
            BY <1>1, <3>1, UpdateGoesOn
    <2>4. PICK j \in 0 .. N - 1 : FreshSoFar(t, order, j)
        BY <2>2, <2>3
    <2>5. /\ m = order[j + 1] /\ Applying(Tail(todo[t]), order, j + 1)
          /\ Tail(todo[t]) = <<>> <=> j + 1 = N
        BY <1>1, <2>4, UpdateGoesOn DEF FreshSoFar
    <2>6. /\ N \in Nat \ {0} /\ \A i \in 1 .. N : order[i] \in Markets
          /\ \A n \in Markets : \E i \in 1 .. N : order[i] = n
        BY NumberOfMarkets
    <2>7. ASSUME NEW i \in 1 .. j + 1
          PROVE  state_price'[order[i]] >= since[t][order[i]]
        <3>1. CASE order[i] = m
            <4>1. quotes[t][m] >= since[t][m]
                BY <2>4 DEF FreshSoFar
            <4> QED
                BY <1>3, <3>1, <4>1
        <3>2. CASE order[i] # m
            <4>1. i \in 1 .. j /\ i \in 1 .. N
                BY <2>5, <2>6, <3>2
            <4>2. state_price[order[i]] >= since[t][order[i]]
                BY <2>4, <4>1 DEF FreshSoFar
            <4>3. order[i] \in Markets \ {m}
                BY <2>6, <3>2, <4>1
            <4> QED
                BY <1>3, <4>2, <4>3
        <3> QED
            BY <3>1, <3>2
    <2>8. CASE Tail(todo[t]) = <<>>
        <3>1. since'[t] = <<>>
            BY <1>1, <2>8 DEF FreshInv, TypesOK
        <3>2. \A n \in Markets : state_price'[n] >= since[t][n]
            BY <2>5, <2>6, <2>7, <2>8
        <3> QED
            BY <1>4, <1>5, <3>1, <3>2 DEF FreshInv, FreshAtEnd
    <2>9. CASE Tail(todo[t]) # <<>>
        <3>1. since' = since /\ quotes' = quotes
            BY <1>1, <2>9
        <3>2. j + 1 \in 0 .. N - 1
            BY <2>5, <2>6, <2>9
        <3>3. FreshSoFar(t, order, j + 1)'
            <4>1. Applying(todo'[t], order, j + 1)
                BY <1>3, <2>5
            <4>2. /\ quotes'[t] \in [Markets -> Nat]
                  /\ \A n \in Markets : quotes'[t][n] >= since'[t][n]
                BY <2>4, <3>1 DEF FreshSoFar
            <4>3. \A i \in 1 .. j + 1 : state_price'[order[i]] >= since'[t][order[i]]
                BY <2>7, <3>1
            <4> QED
                BY <4>1, <4>2, <4>3 DEF FreshSoFar
        <3>4. \A u \in Tasks \ {t} : NoPrices(todo'[u])
            BY <1>3, <2>1 DEF RunsAlone
        <3>5. RunsAlone(t)'
            BY <1>1, <2>1, <3>1, <3>2, <3>3, <3>4 DEF RunsAlone
        <3>6. FreshInv'
            BY <1>4, <1>5, <3>5 DEF FreshInv
        <3> QED
            BY <1>5, <1>7, <3>1, <3>6 DEF FreshAtEnd
    <2> QED
        BY <2>8, <2>9
<1> QED
    BY <1>6, <1>7

\* A transaction that sets a price has not been executed while an update ran alone.
LEMMA RepriceStep ==
    ASSUME FreshInv, Markets # {}, NEW t \in Tasks, Reprice(t)
    PROVE  FreshInv' /\ UNCHANGED since
<1>1. /\ todo[t] # <<>> /\ Head(todo[t]).does = "reprice" /\ IsList(todo[t])
      /\ todo' = [todo EXCEPT ![t] = Tail(todo[t])]
      /\ UNCHANGED <<oracle, quotes, since>>
      /\ \E m \in Markets, price \in 0 .. MaxPrices :
            state_price' = [state_price EXCEPT ![m] = price]
    BY DEF Reprice, At, Leave, Rest, FreshInv, TypesOK
<1>2. IsList(Tail(todo[t])) /\ ~NoPrices(todo[t])
    <2>1. IsList(Tail(todo[t])) /\ Len(todo[t]) \in Nat \ {0} /\ todo[t][1].does = "reprice"
        BY <1>1, TailEnds, EndIsList DEF IsList
    <2> QED
        BY <2>1 DEF NoPrices
<1>3. \A u \in Tasks \ {t} : since[u] = <<>>
    BY <1>2 DEF FreshInv, RunsAlone
<1>4. since[t] = <<>>
    BY <1>1, QuietSection DEF Deeds
<1>5. TypesOK'
    <2>1. todo' = [u \in Tasks |-> todo'[u]] /\ \A u \in Tasks : IsList(todo'[u])
        BY <1>1, <1>2 DEF FreshInv, TypesOK
    <2>2. state_price' = [m \in Markets |-> state_price'[m]]
        BY <1>1 DEF FreshInv, TypesOK
    <2> QED
        BY <1>1, <2>1, <2>2 DEF FreshInv, TypesOK
<1> QED
    BY <1>1, <1>3, <1>4, <1>5 DEF FreshInv

LEMMA StepFresh ==
    ASSUME FreshInv, Markets # {}, [Next]_vars
    PROVE  FreshInv' /\ \A t \in Clients : FreshAtEnd(t)
<1>0. Timer \in Tasks /\ Clients \subseteq Tasks
    BY DEF Tasks
<1>1. since' = since => \A t \in Clients : FreshAtEnd(t)
    BY DEF FreshAtEnd
<1>2. ASSUME NEW t \in Tasks, Step(t)
      PROVE  FreshInv' /\ \A u \in Clients : FreshAtEnd(u)
    <2>1. CASE \E m \in Markets : ApplyPrice(t, m)
        BY <1>0, <2>1, ApplyPriceStep
    <2>2. CASE Quote(t)
        BY <1>1, <2>2, QuoteStep
    <2>3. CASE \/ Look(t) \/ Check(t) \/ Push(t) \/ Size(t)
               \/ Drain(t) \/ AppendBatch(t) \/ AppendProof(t)
        BY <1>1, <2>3, QuietSteps
    <2>4. CASE Reprice(t)
        BY <1>1, <2>4, RepriceStep
    <2> QED
        BY <1>2, <2>1, <2>2, <2>3, <2>4 DEF Step
<1>3. ASSUME NEW c \in Clients, NEW request \in Menu[c], Request(c, request)
      PROVE  FreshInv' /\ \A u \in Clients : FreshAtEnd(u)
    BY <1>3, MenuAssumption, RequestStep
<1>4. CASE Tick
    <2>1. Start(Timer, BatchTimer) /\ UNCHANGED priceVars
        BY <1>4 DEF Tick
    <2> QED
        BY <1>0, <1>1, <2>1, ListsOfHandlers, StartStep
<1>5. CASE CheckDue
    BY <1>0, <1>1, <1>5, QuietSteps
<1>6. CASE \E m \in Markets : SetPrice(m)
    BY <1>1, <1>6, SetPriceStep
<1>7. CASE UNCHANGED vars
    <2>1. /\ todo' = todo /\ oracle' = oracle /\ quotes' = quotes /\ since' = since
          /\ state_price' = state_price
        BY <1>7 DEF vars, lockVars, priceVars
    <2>2. FreshInv'
        BY <2>1 DEF FreshInv, TypesOK, RunsAlone, FreshSoFar
    <2> QED
        BY <1>1, <2>1, <2>2
<1> QED
    BY <1>0, <1>2, <1>3, <1>4, <1>5, <1>6, <1>7 DEF Next

\* An update leaves every price at least as new as the oracle's when it was requested,
\* unless another update or an UpdateOracle transaction of a client has run beside it:
\* for any clients, menus, markets and batch sizes.
THEOREM UpdateAloneAlwaysFresh == Spec => UpdateAloneIsFresh
<1>1. CASE Markets # {}
    <2>1. Init => FreshInv
        BY InitFresh
    <2>2. FreshInv /\ [Next]_vars => FreshInv'
        BY <1>1, StepFresh
    <2>3. FreshInv /\ [Next]_vars => [\A t \in Clients : FreshAtEnd(t)]_vars
        BY <1>1, StepFresh
    <2>4. [\A t \in Clients : FreshAtEnd(t)]_vars
          <=> [\A t \in Clients :
                  since[t] # <<>> /\ since'[t] = <<>> /\ todo'[t] = <<>> =>
                      \A m \in Markets : state_price'[m] >= since[t][m]]_vars
        BY DEF FreshAtEnd
    <2> QED
        BY <2>1, <2>2, <2>3, <2>4, PTL DEF Spec, UpdateAloneIsFresh
<1>2. CASE Markets = {}
    <2>1. [Next]_vars => [\A t \in Clients :
                  since[t] # <<>> /\ since'[t] = <<>> /\ todo'[t] = <<>> =>
                      \A m \in Markets : state_price'[m] >= since[t][m]]_vars
        BY <1>2
    <2> QED
        BY <2>1, PTL DEF Spec, UpdateAloneIsFresh
<1> QED
    BY <1>1, <1>2
=============================================================================

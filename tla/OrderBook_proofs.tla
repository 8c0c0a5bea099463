-------------------------- MODULE OrderBook_proofs --------------------------
(***************************************************************************)
(* Proofs about OrderBook, for every set of accounts, prices, quantities   *)
(* and every number of orders: types, levels and their totals; that the    *)
(* index and the queues agree, each queue in the order of time, and every  *)
(* fill is made with the first order in price-time priority; that the book *)
(* implements PriorityBook, in which the resting orders are a set; and     *)
(* that the fills of a match are in order.                                 *)
(***************************************************************************)
EXTENDS OrderBook, Sums_proofs, TLAPS, SequenceTheorems, NaturalsInduction

-----------------------------------------------------------------------------
(* Maps *)

(* Setting a key gives a map of the same type. *)
LEMMA PutIsMap ==
    ASSUME NEW S, NEW T, NEW f, IsMap(f, S, T), NEW k \in S, NEW v \in T
    PROVE  /\ IsMap(Put(f, k, v), S, T)
           /\ DOMAIN Put(f, k, v) = DOMAIN f \cup {k}
           /\ Put(f, k, v)[k] = v
           /\ \A x \in DOMAIN f : x # k => Put(f, k, v)[x] = f[x]
BY DEF IsMap, Put

(* So does removing one. *)
LEMMA DropIsMap ==
    ASSUME NEW S, NEW T, NEW f, IsMap(f, S, T), NEW k \in S
    PROVE  /\ IsMap(Drop(f, k), S, T)
           /\ DOMAIN Drop(f, k) = DOMAIN f \ {k}
           /\ \A x \in DOMAIN f \ {k} : Drop(f, k)[x] = f[x]
BY DEF IsMap, Drop

(* PutLevel keeps the other levels, and the key p only of a level that holds
   something. *)
LEMMA PutLevelIsMap ==
    ASSUME NEW f, IsMap(f, Prices, PriceLevel), NEW p \in Prices, NEW l \in PriceLevel
    PROVE  /\ IsMap(PutLevel(f, p, l), Prices, PriceLevel)
           /\ \A r \in DOMAIN PutLevel(f, p, l) :
                 \/ r \in DOMAIN f /\ r # p /\ PutLevel(f, p, l)[r] = f[r]
                 \/ r = p /\ PutLevel(f, p, l)[r] = l /\ l.orders # <<>>
           /\ \A r \in DOMAIN f :
                 r # p => r \in DOMAIN PutLevel(f, p, l) /\ PutLevel(f, p, l)[r] = f[r]
           /\ l.orders # <<>> => /\ p \in DOMAIN PutLevel(f, p, l)
                                 /\ PutLevel(f, p, l)[p] = l
<1>1. /\ IsMap(Put(f, p, l), Prices, PriceLevel)
      /\ DOMAIN Put(f, p, l) = DOMAIN f \cup {p}
      /\ Put(f, p, l)[p] = l
      /\ \A x \in DOMAIN f : x # p => Put(f, p, l)[x] = f[x]
  BY PutIsMap
<1>2. /\ IsMap(Drop(f, p), Prices, PriceLevel)
      /\ DOMAIN Drop(f, p) = DOMAIN f \ {p}
      /\ \A x \in DOMAIN f \ {p} : Drop(f, p)[x] = f[x]
  BY DEF IsMap, Drop
<1>3. CASE l.orders = <<>>
  <2>1. PutLevel(f, p, l) = Drop(f, p)
    BY <1>3 DEF PutLevel
  <2>2. QED
    BY <1>2, <1>3, <2>1
<1>4. CASE l.orders # <<>>
  <2>1. PutLevel(f, p, l) = Put(f, p, l)
    BY <1>4 DEF PutLevel
  <2>2. QED
    BY <1>1, <1>4, <2>1
<1>5. QED
  BY <1>3, <1>4

-----------------------------------------------------------------------------
(* Levels *)

(* add_order puts the order behind those of the level. *)
LEMMA AddToLevelType ==
    ASSUME NEW l \in PriceLevel, NEW o \in Order
    PROVE  /\ AddToLevel(l, o) \in PriceLevel
           /\ AddToLevel(l, o).orders = Append(l.orders, o)
           /\ AddToLevel(l, o).orders # <<>>
           /\ DOMAIN AddToLevel(l, o).orders = 1 .. Len(l.orders) + 1
           /\ \A i \in DOMAIN AddToLevel(l, o).orders :
                 AddToLevel(l, o).orders[i] = IF i <= Len(l.orders) THEN l.orders[i] ELSE o
<1>1. l.orders \in Seq(Order) /\ l.total_quantity \in Int /\ o.remaining_qty \in Int
  BY DEF PriceLevel, Order
<1>2. AddToLevel(l, o).orders = Append(l.orders, o)
  BY DEF AddToLevel
<1>3. QED
  BY <1>1, <1>2 DEF AddToLevel, PriceLevel

(* remove_order closes the gap it makes and keeps the order of the others. *)
LEMMA RemoveFromLevelType ==
    ASSUME NEW l \in PriceLevel, NEW i \in DOMAIN l.orders
    PROVE  LET r == RemoveFromLevel(l, i)
           IN  /\ r \in PriceLevel
               /\ DOMAIN r.orders = 1 .. Len(l.orders) - 1
               /\ \A j \in DOMAIN r.orders :
                     r.orders[j] = IF j < i THEN l.orders[j] ELSE l.orders[j + 1]
<1> DEFINE q == l.orders
           a == SubSeq(q, 1, i - 1)
           b == SubSeq(q, i + 1, Len(q))
           r == RemoveFromLevel(l, i)
<1>1. q \in Seq(Order) /\ l.total_quantity \in Int /\ Len(q) \in Nat /\ i \in 1 .. Len(q)
  BY DEF PriceLevel
<1>2. q[i] \in Order /\ q[i].remaining_qty \in Int
  <2>1. q[i] \in Order
    BY <1>1
  <2>2. QED
    BY <2>1 DEF Order
<1>3. a \in Seq(Order) /\ Len(a) = i - 1 /\ \A j \in 1 .. i - 1 : a[j] = q[j]
  BY <1>1
<1>4. b \in Seq(Order) /\ Len(b) = Len(q) - i /\ \A j \in 1 .. Len(q) - i : b[j] = q[j + i]
  BY <1>1
<1>5. r = [orders |-> a \o b, total_quantity |-> l.total_quantity - q[i].remaining_qty]
  BY DEF RemoveFromLevel
<1>6. /\ a \o b \in Seq(Order)
      /\ Len(a \o b) = Len(q) - 1
      /\ DOMAIN (a \o b) = 1 .. Len(q) - 1
      /\ \A j \in 1 .. Len(a) + Len(b) :
            (a \o b)[j] = IF j <= Len(a) THEN a[j] ELSE b[j - Len(a)]
  <2> HIDE DEF a, b
  <2>1. /\ a \o b \in Seq(Order)
        /\ Len(a \o b) = Len(a) + Len(b)
        /\ \A j \in 1 .. Len(a) + Len(b) :
              (a \o b)[j] = IF j <= Len(a) THEN a[j] ELSE b[j - Len(a)]
    BY <1>3, <1>4, ConcatProperties
  <2> DEFINE c == a \o b
  <2> HIDE DEF c
  <2>2. c \in Seq(Order) /\ Len(c) = Len(q) - 1
    BY <2>1, <1>1, <1>3, <1>4 DEF c
  <2>3. DOMAIN c = 1 .. Len(q) - 1
    BY <2>2
  <2>4. QED
    BY <2>1, <2>2, <2>3 DEF c
<1>7. ASSUME NEW j \in 1 .. Len(q) - 1
      PROVE  (a \o b)[j] = IF j < i THEN q[j] ELSE q[j + 1]
  <2> HIDE DEF a, b, q
  <2>1. CASE j < i
    BY <2>1, <1>1, <1>3, <1>4, <1>6
  <2>2. CASE ~(j < i)
    <3>1. (a \o b)[j] = b[j - (i - 1)]
      BY <2>2, <1>1, <1>3, <1>4, <1>6
    <3>2. j - (i - 1) \in 1 .. Len(q) - i /\ (j - (i - 1)) + i = j + 1
      BY <2>2, <1>1
    <3>3. b[j - (i - 1)] = q[j + 1]
      BY <1>4, <3>2
    <3>4. QED
      BY <2>2, <3>1, <3>3
  <2>3. QED
    BY <2>1, <2>2
<1>8. l.total_quantity - q[i].remaining_qty \in Int
  BY <1>1, <1>2
<1>9. /\ r \in PriceLevel
      /\ r.orders = a \o b
  <2> HIDE DEF a, b, q, r
  <2>1. QED
    BY <1>5, <1>6, <1>8 DEF PriceLevel
<1>10. QED
  <2> HIDE DEF a, b
  <2>1. QED
    BY <1>6, <1>7, <1>9

(* Filling the front order touches nothing else of the level's queue. *)
LEMMA FillFrontType ==
    ASSUME NEW l \in PriceLevel, l.orders # <<>>,
           NEW q \in Nat, q <= Head(l.orders).remaining_qty
    PROVE  LET f == FillFront(l, q)
           IN  /\ f \in PriceLevel
               /\ f.orders # <<>>
               /\ DOMAIN f.orders = DOMAIN l.orders
               /\ f.orders[1] = [l.orders[1] EXCEPT !.remaining_qty = @ - q]
               /\ \A j \in DOMAIN l.orders : j # 1 => f.orders[j] = l.orders[j]
<1> DEFINE f == FillFront(l, q)
           o == [l.orders[1] EXCEPT !.remaining_qty = @ - q]
<1>1. l.orders \in Seq(Order) /\ l.total_quantity \in Int /\ Len(l.orders) \in Nat
  BY DEF PriceLevel
<1>2. 1 \in 1 .. Len(l.orders) /\ Head(l.orders) = l.orders[1] /\ l.orders[1] \in Order
  BY <1>1
<1>3. o \in Order
  BY <1>2 DEF Order
<1>4. f.orders = [l.orders EXCEPT ![1] = o] /\ f.total_quantity = l.total_quantity
      /\ f = [orders |-> f.orders, total_quantity |-> f.total_quantity]
  <2>1. f = [l EXCEPT !.orders = [l.orders EXCEPT ![1] = o]]
    BY DEF FillFront
  <2>2. l = [orders |-> l.orders, total_quantity |-> l.total_quantity]
    BY DEF PriceLevel
  <2> DEFINE m == [l.orders EXCEPT ![1] = o]
  <2> HIDE DEF f, m, o
  <2>3. f = [l EXCEPT !.orders = m]
    BY <2>1 DEF m
  <2>4. f = [orders |-> m, total_quantity |-> l.total_quantity]
    BY <2>2, <2>3
  <2>5. QED
    BY <2>4 DEF m
<1>5. [l.orders EXCEPT ![1] = o] \in Seq(Order)
  BY <1>1, <1>2, <1>3, ExceptSeq
<1>6. f \in PriceLevel
  BY <1>1, <1>4, <1>5 DEF PriceLevel
<1>7. f.orders # <<>> /\ DOMAIN f.orders = DOMAIN l.orders
  BY <1>1, <1>2, <1>4, <1>5
<1>8. f.orders[1] = o /\ \A j \in DOMAIN l.orders : j # 1 => f.orders[j] = l.orders[j]
  BY <1>1, <1>2, <1>4
<1>9. QED
  BY <1>6, <1>7, <1>8

-----------------------------------------------------------------------------
(* Best prices *)

(* A set of naturals that is bounded and not empty has a greatest element. *)
LEMMA GreatestNatural ==
    ASSUME NEW n \in Nat, NEW D \in SUBSET (0 .. n), D # {}
    PROVE  \E x \in D : \A y \in D : y <= x
<1> DEFINE T == {n - p : p \in D}
<1>1. \A p \in D : p \in Nat /\ p <= n /\ n - p \in Nat
  OBVIOUS
<1>2. T \in SUBSET Nat
  BY <1>1
<1>3. PICK x \in T : \A y \in T : x <= y
  <2>1. T # {}
    OBVIOUS
  <2>2. QED
    BY <1>2, <2>1, LeastNat
<1>4. PICK p \in D : x = n - p
  BY <1>3
<1>5. ASSUME NEW r \in D
      PROVE  r <= p
  <2>1. n - r \in T
    OBVIOUS
  <2>2. n - p <= n - r
    BY <1>3, <1>4, <2>1
  <2>3. p \in Nat /\ r \in Nat
    BY <1>1
  <2>4. QED
    BY <2>2, <2>3
<1>6. QED
  BY <1>5

(* A map of levels that is not empty has a best price: best_ask and best_bid
   return None only of an empty side. *)
LEMMA BestExists ==
    ASSUME NEW s \in Sides, IsMap(book[s], Prices, PriceLevel), DOMAIN book[s] # {}
    PROVE  \E p \in Prices : IsBest(s, p)
<1> DEFINE D == DOMAIN book[s]
<1> HIDE DEF D
<1>1. D \subseteq Prices /\ D \in SUBSET (0 .. MaxPrice) /\ D \in SUBSET Nat /\ MaxPrice \in Nat
  <2>1. D \subseteq Prices
    BY DEF D, IsMap
  <2>2. Prices \subseteq 0 .. MaxPrice /\ MaxPrice \in Nat
    BY PricesAssumption
  <2>3. \A p \in D : p \in 0 .. MaxPrice /\ p \in Nat
    BY <2>1, <2>2
  <2>4. QED
    BY <2>1, <2>2, <2>3
<1>2. CASE s = "Ask"
  <2>1. PICK p \in D : \A r \in D : p <= r
    BY <1>1, LeastNat DEF D
  <2>2. QED
    BY <2>1, <1>1, <1>2 DEF D, IsBest
<1>3. CASE s = "Bid"
  <2>1. PICK p \in D : \A r \in D : r <= p
    BY <1>1, GreatestNatural DEF D
  <2>2. QED
    BY <2>1, <1>1, <1>3 DEF D, IsBest
<1>4. QED
  BY <1>2, <1>3 DEF Sides


-----------------------------------------------------------------------------
(* The inductive invariant.  NoCrossedBook needs the type invariant and what
   the levels hold; the levels stay well formed because ids are issued in
   order and an order only rests once its match is over. *)

BookInv ==
    /\ TypeOK
    /\ IncomingIsNewest
    /\ LevelsWellFormed
    /\ NoCrossedBook

(* The effect on the whole book of replacing the level (s, p) by l: every level
   of the new book is an old one, or it is l. *)
LevelReplaced(s, p, l) ==
    \A t \in Sides : \A r \in DOMAIN book'[t] :
        \/ r \in DOMAIN book[t] /\ <<t, r>> # <<s, p>> /\ book'[t][r] = book[t][r]
        \/ t = s /\ r = p /\ book'[t][r] = l /\ l.orders # <<>>

(* Replacing one level keeps the book a map of levels and the other levels. *)
LEMMA ReplaceLevel ==
    ASSUME TypeOK, NEW s \in Sides, NEW p \in Prices, NEW l \in PriceLevel,
           book' = [book EXCEPT ![s] = PutLevel(@, p, l)]
    PROVE  /\ book' = [t \in Sides |-> book'[t]]
           /\ \A t \in Sides : IsMap(book'[t], Prices, PriceLevel)
           /\ LevelReplaced(s, p, l)
<1>1. book = [t \in Sides |-> book[t]] /\ \A t \in Sides : IsMap(book[t], Prices, PriceLevel)
  BY DEF TypeOK
<1> DEFINE m == PutLevel(book[s], p, l)
<1>2. /\ IsMap(m, Prices, PriceLevel)
      /\ \A r \in DOMAIN m :
            \/ r \in DOMAIN book[s] /\ r # p /\ m[r] = book[s][r]
            \/ r = p /\ m[r] = l /\ l.orders # <<>>
  BY <1>1, PutLevelIsMap
<1>3. book' = [t \in Sides |-> IF t = s THEN m ELSE book[t]]
  BY <1>1
<1> HIDE DEF m
<1>4. book' = [t \in Sides |-> book'[t]]
  BY <1>3
<1>5. book'[s] = m /\ \A t \in Sides : t # s => book'[t] = book[t]
  BY <1>3
<1>6. ASSUME NEW t \in Sides
      PROVE  IsMap(book'[t], Prices, PriceLevel)
  BY <1>1, <1>2, <1>5
<1>7. ASSUME NEW t \in Sides, NEW r \in DOMAIN book'[t]
      PROVE  \/ r \in DOMAIN book[t] /\ <<t, r>> # <<s, p>> /\ book'[t][r] = book[t][r]
             \/ t = s /\ r = p /\ book'[t][r] = l /\ l.orders # <<>>
  <2>1. CASE t = s
    BY <2>1, <1>2, <1>5
  <2>2. CASE t # s
    BY <2>2, <1>5
  <2>3. QED
    BY <2>1, <2>2
<1>8. QED
  BY <1>4, <1>6, <1>7 DEF LevelReplaced

(* What FillMaker leaves of the level it works on. *)
FilledLevel(l, q) ==
    IF Head(l.orders).remaining_qty = q THEN PopFront(FillFront(l, q)) ELSE FillFront(l, q)

(* Each order the fill leaves was there before, whole or with more quantity. *)
LEMMA AfterFillType ==
    ASSUME NEW l \in PriceLevel, l.orders # <<>>,
           NEW q \in Nat, q <= Head(l.orders).remaining_qty
    PROVE  /\ FilledLevel(l, q) \in PriceLevel
           /\ \A i \in DOMAIN FilledLevel(l, q).orders : \E j \in DOMAIN l.orders :
                 \/ FilledLevel(l, q).orders[i] = l.orders[j]
                 \/ /\ q < l.orders[j].remaining_qty
                    /\ FilledLevel(l, q).orders[i] =
                          [l.orders[j] EXCEPT !.remaining_qty = @ - q]
<1> DEFINE f == FillFront(l, q)
<1>1. l.orders \in Seq(Order) /\ Len(l.orders) \in Nat /\ 1 \in DOMAIN l.orders
      /\ Head(l.orders) = l.orders[1] /\ l.orders[1] \in Order /\ l.orders[1].remaining_qty \in Nat
  <2>1. l.orders \in Seq(Order)
    BY DEF PriceLevel
  <2>2. Len(l.orders) \in Nat /\ 1 \in DOMAIN l.orders /\ Head(l.orders) = l.orders[1]
        /\ l.orders[1] \in Order
    BY <2>1
  <2>3. QED
    BY <2>1, <2>2 DEF Order
<1>2. /\ f \in PriceLevel
      /\ f.orders # <<>>
      /\ DOMAIN f.orders = DOMAIN l.orders
      /\ f.orders[1] = [l.orders[1] EXCEPT !.remaining_qty = @ - q]
      /\ \A j \in DOMAIN l.orders : j # 1 => f.orders[j] = l.orders[j]
  BY FillFrontType
<1>3. f.orders \in Seq(Order) /\ Len(f.orders) = Len(l.orders) /\ f.total_quantity \in Int
  <2>1. f.orders \in Seq(Order) /\ f.total_quantity \in Int
    BY <1>2 DEF PriceLevel
  <2>2. QED
    BY <2>1, <1>1, <1>2
<1> HIDE DEF f
<1>4. CASE l.orders[1].remaining_qty = q
  <2> DEFINE n == PopFront(f)
  <2>1. Head(f.orders) \in Order /\ Head(f.orders).remaining_qty \in Int
    <3>1. Head(f.orders) \in Order
      BY <1>2, <1>3
    <3>2. QED
      BY <3>1 DEF Order
  <2>2. n.orders = Tail(f.orders) /\ n \in PriceLevel
    <3>1. Tail(f.orders) \in Seq(Order)
      BY <1>2, <1>3
    <3>2. QED
      BY <3>1, <2>1, <1>3 DEF PopFront, PriceLevel
  <2>3. ASSUME NEW i \in DOMAIN n.orders
        PROVE  i + 1 \in DOMAIN l.orders /\ n.orders[i] = l.orders[i + 1]
    <3>1. /\ DOMAIN Tail(f.orders) = 1 .. Len(f.orders) - 1
          /\ \A k \in 1 .. Len(f.orders) - 1 : Tail(f.orders)[k] = f.orders[k + 1]
      BY <1>2, <1>3
    <3>2. i \in 1 .. Len(l.orders) - 1
      BY <2>2, <3>1, <1>3
    <3>3. i + 1 \in DOMAIN l.orders /\ i + 1 # 1
      BY <3>2, <1>1
    <3>4. n.orders[i] = f.orders[i + 1]
      BY <2>2, <3>1, <3>2, <1>3
    <3>5. QED
      BY <3>3, <3>4, <1>2
  <2>4. FilledLevel(l, q) = n
    BY <1>1, <1>4 DEF FilledLevel, f
  <2>5. QED
    BY <2>2, <2>3, <2>4
<1>5. CASE l.orders[1].remaining_qty # q
  <2>1. q < l.orders[1].remaining_qty
    BY <1>1, <1>5
  <2>2. FilledLevel(l, q) = f
    BY <1>1, <1>5 DEF FilledLevel, f
  <2>3. QED
    BY <2>1, <2>2, <1>1, <1>2
<1>6. QED
  BY <1>4, <1>5

(* The empty book satisfies the invariant. *)
THEOREM InitBookInv == Init => BookInv
<1> SUFFICES ASSUME Init PROVE BookInv
  OBVIOUS
<1>1. TypeOK
  BY DEF Init, TypeOK, IsMap, Results
<1>2. QED
  BY <1>1 DEF Init, BookInv, IncomingIsNewest, LevelsWellFormed, NoCrossedBook, Idle, Sides

(* A step that leaves the book alone keeps what it says of the resting orders
   when no new id is taken by them and the order in flight stays the newest. *)
LEMMA UnchangedLevels ==
    ASSUME BookInv, TypeOK', UNCHANGED book, next_order_id' >= next_order_id,
           ~Idle' => IF Idle THEN incoming'.id >= next_order_id
                             ELSE incoming'.id = incoming.id,
           ~Idle' => incoming'.id < next_order_id'
    PROVE  BookInv'
<1>1. ASSUME NEW s \in Sides, NEW p \in DOMAIN book[s], NEW i \in DOMAIN book[s][p].orders
      PROVE  RestsWell(book[s][p].orders[i], s, p)'
  <2> DEFINE o == book[s][p].orders[i]
  <2>1. RestsWell(o, s, p)
    BY DEF BookInv, LevelsWellFormed
  <2>2. o.id \in Nat
    <3>1. book[s][p] \in PriceLevel
      BY DEF BookInv, TypeOK, IsMap
    <3>2. o \in Order
      BY <3>1 DEF PriceLevel
    <3>3. QED
      BY <3>2 DEF Order
  <2>3. next_order_id \in Nat /\ next_order_id' \in Nat /\ (~Idle' => incoming'.id \in Nat)
    BY DEF BookInv, TypeOK, Idle, Order
  <2>4. o' = o
    OBVIOUS
  <2> HIDE DEF o
  <2>5. RestsWell(o, s, p)'
    BY <2>1, <2>2, <2>3, <2>4 DEF RestsWell
  <2>6. QED
    BY <2>5 DEF o
<1>2. LevelsWellFormed'
  BY <1>1 DEF BookInv, LevelsWellFormed
<1>3. NoCrossedBook'
  BY DEF BookInv, NoCrossedBook
<1>4. IncomingIsNewest'
  BY DEF IncomingIsNewest
<1>5. QED
  BY <1>2, <1>3, <1>4 DEF BookInv

(* The entry of match_order preserves it. *)
LEMMA SubmitStep ==
    ASSUME BookInv, NEW a \in Accounts, NEW s \in Sides, NEW t \in OrderTypes,
           NEW p \in Prices, NEW q \in Quantities, NEW post \in BOOLEAN,
           Submit(a, s, t, p, q, post)
    PROVE  BookInv'
<1>1. next_order_id \in Nat /\ q \in Nat
  BY QuantitiesAssumption DEF BookInv, TypeOK
<1> DEFINE o == [id |-> next_order_id, account_id |-> a, side |-> s, order_type |-> t,
                 price |-> p, original_qty |-> q, remaining_qty |-> q, post_only |-> post]
<1>2. o \in Order /\ o.id = next_order_id
  BY <1>1 DEF Order
<1> HIDE DEF o
<1>3. Idle /\ next_order_id' = next_order_id + 1 /\ fills' = <<>>
      /\ UNCHANGED <<book, order_locations>>
      /\ \/ result' = "InvalidOrder" /\ incoming' = incoming
         \/ result' = "Matching" /\ incoming' = o
  BY DEF Submit, o
<1>4. TypeOK'
  BY <1>1, <1>2, <1>3 DEF BookInv, TypeOK, Results
<1>5. ~Idle' => incoming' = o
  BY <1>3 DEF Idle
<1>6. QED
  BY <1>1, <1>2, <1>3, <1>4, <1>5, UnchangedLevels

(* So does refusing a post-only order. *)
LEMMA RejectStep ==
    ASSUME BookInv, RejectPostOnly
    PROVE  BookInv'
<1>1. TypeOK' /\ Idle' /\ UNCHANGED <<book, next_order_id>> /\ next_order_id \in Nat
  BY DEF BookInv, TypeOK, RejectPostOnly, AfterRefusal, Results, Idle
<1>2. QED
  BY <1>1, UnchangedLevels

(* So does a cancel of an order that is not in the book. *)
LEMMA CancelUnknownStep ==
    ASSUME BookInv, NEW id \in 0 .. MaxOrders, CancelUnknown(id)
    PROVE  BookInv'
<1>1. TypeOK' /\ Idle' /\ UNCHANGED <<book, next_order_id>> /\ next_order_id \in Nat
  BY DEF BookInv, TypeOK, CancelUnknown, Results, Idle
<1>2. QED
  BY <1>1, UnchangedLevels

(* A step that replaces one level by another whose orders may rest there. *)
LEMMA ReplacedLevels ==
    ASSUME BookInv, NEW s \in Sides, NEW p \in Prices, NEW l \in PriceLevel,
           book' = [book EXCEPT ![s] = PutLevel(@, p, l)],
           next_order_id' = next_order_id,
           ~Idle' => ~Idle /\ incoming'.id = incoming.id,
           \A i \in DOMAIN l.orders : RestsWell(l.orders[i], s, p)'
    PROVE  LevelsWellFormed'
<1> SUFFICES ASSUME NEW t \in Sides, NEW r \in DOMAIN book'[t]
             PROVE  /\ book'[t][r].orders # <<>>
                    /\ \A i \in DOMAIN book'[t][r].orders :
                          RestsWell(book[t][r].orders[i], t, r)'
  BY DEF LevelsWellFormed
<1>1. \/ r \in DOMAIN book[t] /\ book'[t][r] = book[t][r]
      \/ t = s /\ r = p /\ book'[t][r] = l /\ l.orders # <<>>
  <2>1. TypeOK
    BY DEF BookInv
  <2>2. LevelReplaced(s, p, l)
    BY <2>1, ReplaceLevel, Zenon
  <2>3. QED
    BY <2>2 DEF LevelReplaced
<1>2. CASE r \in DOMAIN book[t] /\ book'[t][r] = book[t][r]
  <2>1. ASSUME NEW i \in DOMAIN book[t][r].orders
        PROVE  RestsWell(book[t][r].orders[i], t, r)'
    <3>1. RestsWell(book[t][r].orders[i], t, r)
      BY <1>2 DEF BookInv, LevelsWellFormed
    <3>2. QED
      BY <1>2, <3>1 DEF RestsWell
  <2>2. book[t][r].orders # <<>>
    BY <1>2 DEF BookInv, LevelsWellFormed
  <2>3. QED
    BY <1>2, <2>1, <2>2
<1>3. CASE t = s /\ r = p /\ book'[t][r] = l /\ l.orders # <<>>
  <2>1. ASSUME NEW i \in DOMAIN l.orders
        PROVE  RestsWell(book[t][r].orders[i], t, r)'
    <3>1. RestsWell(l.orders[i], s, p)'
      OBVIOUS
    <3>2. (book[t][r].orders[i])' = l.orders[i]
      BY <1>3
    <3>3. QED
      BY <1>3, <3>1, <3>2 DEF RestsWell
  <2>2. QED
    BY <1>3, <2>1
<1>4. QED
  BY <1>1, <1>2, <1>3

(* Replacing a level that exists adds no price, so nothing new can cross. *)
LEMMA NoNewPrice ==
    ASSUME BookInv, NEW s \in Sides, NEW p \in DOMAIN book[s], NEW l \in PriceLevel,
           book' = [book EXCEPT ![s] = PutLevel(@, p, l)]
    PROVE  NoCrossedBook'
<1>1. p \in Prices
  BY DEF BookInv, TypeOK, IsMap
<1>2. \A t \in Sides : DOMAIN book'[t] \subseteq DOMAIN book[t]
  <2>1. TypeOK
    BY DEF BookInv
  <2>2. LevelReplaced(s, p, l)
    BY <1>1, <2>1, ReplaceLevel, Zenon
  <2>3. QED
    BY <2>2 DEF LevelReplaced
<1>3. QED
  BY <1>2 DEF BookInv, NoCrossedBook, Sides

(* A cancel takes one order out of its level, and an empty level out of the map. *)
LEMMA CancelFoundStep ==
    ASSUME BookInv, NEW id \in 0 .. MaxOrders, NEW a \in Accounts, NEW s \in Sides,
           NEW p \in DOMAIN book[s], NEW i \in DOMAIN book[s][p].orders,
           CancelFound(id, a, s, p, i)
    PROVE  BookInv'
<1>1. p \in Prices /\ book[s][p] \in PriceLevel /\ next_order_id \in Nat
  BY DEF BookInv, TypeOK, IsMap
<1>2. CASE UNCHANGED book
  <2>1. TypeOK' /\ Idle' /\ UNCHANGED <<book, next_order_id>>
    <3>1. order_locations' = order_locations \/ order_locations' = Drop(order_locations, id)
      BY DEF CancelFound, IndexWithout
    <3>2. IsMap(order_locations', Nat, OrderLocation)
      BY <3>1 DEF BookInv, TypeOK, Drop, IsMap
    <3>3. QED
      BY <1>2, <3>2 DEF BookInv, TypeOK, CancelFound, Results, Idle
  <2>2. QED
    BY <1>1, <2>1, UnchangedLevels
<1>3. CASE ~UNCHANGED book
  <2>1. /\ book' = [book EXCEPT ![s] = PutLevel(@, p, RemoveFromLevel(@[p], i))]
        /\ order_locations' = Drop(order_locations, id)
        /\ result' = "Ok" /\ Idle /\ UNCHANGED <<next_order_id, incoming, fills>>
    BY <1>3 DEF CancelFound, IndexWithout
  <2>2. PICK l \in PriceLevel :
           /\ l = RemoveFromLevel(book[s][p], i)
           /\ \A j \in DOMAIN l.orders : \E k \in DOMAIN book[s][p].orders :
                 l.orders[j] = book[s][p].orders[k]
    <3> DEFINE m == RemoveFromLevel(book[s][p], i)
    <3>1. /\ m \in PriceLevel
          /\ DOMAIN m.orders = 1 .. Len(book[s][p].orders) - 1
          /\ \A j \in DOMAIN m.orders :
                m.orders[j] = IF j < i THEN book[s][p].orders[j] ELSE book[s][p].orders[j + 1]
      BY <1>1, RemoveFromLevelType
    <3>2. DOMAIN book[s][p].orders = 1 .. Len(book[s][p].orders) /\ Len(book[s][p].orders) \in Nat
      BY <1>1 DEF PriceLevel
    <3> HIDE DEF m
    <3>3. ASSUME NEW j \in DOMAIN m.orders
          PROVE  \E k \in DOMAIN book[s][p].orders : m.orders[j] = book[s][p].orders[k]
      <4>1. j \in DOMAIN book[s][p].orders /\ j + 1 \in DOMAIN book[s][p].orders
        BY <3>1, <3>2
      <4>2. QED
        BY <3>1, <4>1
    <3>4. QED
      BY <3>1, <3>3 DEF m
  <2>b. book' = [book EXCEPT ![s] = PutLevel(@, p, l)]
    BY <2>1, <2>2
  <2>3. TypeOK'
    <3>1. IsMap(order_locations', Nat, OrderLocation)
      BY <2>1 DEF BookInv, TypeOK, Drop, IsMap
    <3>2. book' = [t \in Sides |-> book'[t]] /\ \A t \in Sides : IsMap(book'[t], Prices, PriceLevel)
      <4>1. TypeOK
        BY DEF BookInv
      <4>2. QED
        BY <1>1, <2>b, <4>1, ReplaceLevel, Zenon
    <3>3. QED
      BY <2>1, <3>1, <3>2 DEF BookInv, TypeOK, Results
  <2>4. \A j \in DOMAIN l.orders : RestsWell(l.orders[j], s, p)'
    <3>1. ASSUME NEW j \in DOMAIN l.orders
          PROVE  RestsWell(l.orders[j], s, p)'
      <4>1. PICK k \in DOMAIN book[s][p].orders : l.orders[j] = book[s][p].orders[k]
        BY <2>2
      <4>2. RestsWell(l.orders[j], s, p)
        BY <4>1 DEF BookInv, LevelsWellFormed
      <4>3. QED
        BY <2>1, <4>2 DEF RestsWell, Idle
    <3>2. QED
      BY <3>1
  <2>5. LevelsWellFormed'
    <3>1. next_order_id' = next_order_id /\ (~Idle' => ~Idle /\ incoming'.id = incoming.id)
      BY <2>1 DEF Idle
    <3>2. QED
      BY <1>1, <2>b, <2>4, <3>1, ReplacedLevels, Zenon
  <2>6. NoCrossedBook'
    BY <2>b, NoNewPrice, Zenon
  <2>7. QED
    BY <2>1, <2>3, <2>5, <2>6 DEF BookInv, IncomingIsNewest, Idle
<1>4. QED
  BY <1>2, <1>3

(* When the loop of match_order stops with quantity left, no price of the
   other side crosses the incoming order: the best one does not. *)
LEMMA NothingCrosses ==
    ASSUME BookInv, ~Idle, incoming.remaining_qty > 0,
           ~ \E p \in Prices : Matchable(p),
           NEW r \in DOMAIN book[Opposite(incoming.side)]
    PROVE  IF incoming.side = "Bid" THEN incoming.price < r ELSE r < incoming.price
<1> DEFINE s == Opposite(incoming.side)
<1>1. incoming \in Order
  BY DEF BookInv, TypeOK, Idle
<1>2. incoming.side \in Sides /\ incoming.price \in Prices /\ s \in Sides
  BY <1>1 DEF Order, Opposite, Sides
<1> HIDE DEF s
<1>3. IsMap(book[s], Prices, PriceLevel) /\ DOMAIN book[s] # {} /\ r \in DOMAIN book[s]
  BY <1>2 DEF BookInv, TypeOK, s
<1>4. PICK p \in Prices : IsBest(s, p)
  BY <1>2, <1>3, BestExists
<1>5. ~CanTrade(incoming, p)
  BY <1>4 DEF Matchable, s
<1>6. Prices \subseteq Nat /\ DOMAIN book[s] \subseteq Prices
  BY <1>3, PricesAssumption DEF IsMap
<1>7. r \in Nat /\ p \in Nat /\ incoming.price \in Nat
  BY <1>2, <1>3, <1>6
<1>8. CASE incoming.side = "Bid"
  <2>1. s = "Ask"
    BY <1>8 DEF s, Opposite
  <2>2. p <= r
    BY <1>3, <1>4, <2>1 DEF IsBest
  <2>3. incoming.price < p
    BY <1>5, <1>7, <1>8 DEF CanTrade
  <2>4. QED
    BY <1>7, <1>8, <2>2, <2>3
<1>9. CASE incoming.side = "Ask"
  <2>1. s = "Bid"
    BY <1>9 DEF s, Opposite
  <2>2. r <= p
    BY <1>3, <1>4, <2>1 DEF IsBest
  <2>3. p < incoming.price
    BY <1>5, <1>7, <1>9 DEF CanTrade
  <2>4. QED
    BY <1>7, <1>9, <2>2, <2>3
<1>10. QED
  BY <1>2, <1>8, <1>9 DEF Sides

(* A fill changes or removes the front order of one level and adds no price. *)
LEMMA FillStep ==
    ASSUME BookInv, NEW p \in Prices, FillMaker(p)
    PROVE  BookInv'
<1>1. PICK s \in Sides : s = Opposite(incoming.side)
  BY DEF Opposite, Sides
<1>2. ~Idle /\ incoming \in Order /\ incoming.remaining_qty \in Nat /\ incoming.id \in Nat
      /\ incoming.account_id \in Accounts /\ incoming.side \in Sides
  BY DEF BookInv, TypeOK, FillMaker, Matchable, Idle, Order
<1>3. /\ p \in DOMAIN book[s]
      /\ book[s][p] \in PriceLevel
      /\ book[s][p].orders # <<>>
  BY <1>1 DEF BookInv, TypeOK, IsMap, LevelsWellFormed, FillMaker, Matchable, IsBest
<1>4. PICK maker \in Order : maker = Head(book[s][p].orders)
  BY <1>3 DEF PriceLevel
<1>5. maker.remaining_qty \in Nat /\ maker.id \in Nat /\ maker.account_id \in Accounts
  BY DEF Order
<1>6. PICK q \in Nat : /\ q = Smaller(incoming.remaining_qty, maker.remaining_qty)
                       /\ q <= incoming.remaining_qty
                       /\ q <= maker.remaining_qty
  BY <1>2, <1>5 DEF Smaller
<1>7. PICK l \in PriceLevel :
         /\ l = FilledLevel(book[s][p], q)
         /\ \A i \in DOMAIN l.orders : \E j \in DOMAIN book[s][p].orders :
               \/ l.orders[i] = book[s][p].orders[j]
               \/ /\ q < book[s][p].orders[j].remaining_qty
                  /\ l.orders[i] = [book[s][p].orders[j] EXCEPT !.remaining_qty = @ - q]
  <2>1. q <= Head(book[s][p].orders).remaining_qty
    BY <1>4, <1>6
  <2>2. QED
    BY <1>3, <2>1, AfterFillType
<1>8. /\ book' = [book EXCEPT ![s] = PutLevel(@, p, FilledLevel(@[p], q))]
      /\ order_locations' = IF maker.remaining_qty = q THEN Drop(order_locations, maker.id)
                                                       ELSE order_locations
      /\ incoming' = [incoming EXCEPT !.remaining_qty = @ - q]
      /\ fills' = Append(fills, [maker_order_id   |-> maker.id,
                                 taker_order_id   |-> incoming.id,
                                 maker_account_id |-> maker.account_id,
                                 taker_account_id |-> incoming.account_id,
                                 taker_side       |-> incoming.side,
                                 price            |-> p,
                                 quantity         |-> q])
      /\ UNCHANGED <<next_order_id, result>>
  BY <1>1, <1>4, <1>6 DEF FillMaker, IndexWithout, FilledLevel
<1>9. book' = [book EXCEPT ![s] = PutLevel(@, p, l)]
  BY <1>7, <1>8
<1>10. incoming' \in Order /\ ~Idle' /\ incoming'.id = incoming.id
  <2>1. incoming' \in Order /\ incoming'.id = incoming.id
    BY <1>2, <1>6, <1>8 DEF Order
  <2>2. QED
    BY <2>1, NoOrderAssumption DEF Idle
<1>11. TypeOK'
  <2>1. fills' \in Seq(Fill)
    BY <1>2, <1>5, <1>6, <1>8 DEF BookInv, TypeOK, Fill
  <2>2. IsMap(order_locations', Nat, OrderLocation)
    BY <1>8 DEF BookInv, TypeOK, Drop, IsMap
  <2>3. book' = [t \in Sides |-> book'[t]] /\ \A t \in Sides : IsMap(book'[t], Prices, PriceLevel)
    <3>1. TypeOK
      BY DEF BookInv
    <3>2. QED
      BY <1>9, <3>1, ReplaceLevel, Zenon
  <2>4. QED
    BY <1>8, <1>10, <2>1, <2>2, <2>3 DEF BookInv, TypeOK
<1>12. \A i \in DOMAIN l.orders : RestsWell(l.orders[i], s, p)'
  <2>1. ASSUME NEW i \in DOMAIN l.orders
        PROVE  RestsWell(l.orders[i], s, p)'
    <3>1. PICK j \in DOMAIN book[s][p].orders :
             \/ l.orders[i] = book[s][p].orders[j]
             \/ /\ q < book[s][p].orders[j].remaining_qty
                /\ l.orders[i] = [book[s][p].orders[j] EXCEPT !.remaining_qty = @ - q]
      BY <1>7
    <3>2. PICK o \in Order : o = book[s][p].orders[j] /\ RestsWell(o, s, p)
      BY <1>3 DEF BookInv, LevelsWellFormed, PriceLevel
    <3>3. o.remaining_qty \in Nat
      BY DEF Order
    <3>4. PICK u \in Order : u = l.orders[i]
      BY DEF PriceLevel
    <3>5. /\ u.side = o.side /\ u.price = o.price /\ u.id = o.id
          /\ u.order_type = o.order_type /\ 0 < u.remaining_qty
      <4>1. CASE u = o
        BY <3>2, <4>1 DEF RestsWell
      <4>2. CASE q < o.remaining_qty /\ u = [o EXCEPT !.remaining_qty = @ - q]
        BY <3>3, <4>2 DEF Order
      <4>3. QED
        BY <3>1, <3>2, <3>4, <4>1, <4>2
    <3>6. RestsWell(u, s, p)'
      BY <1>2, <1>8, <1>10, <3>2, <3>5 DEF RestsWell
    <3>7. QED
      BY <3>4, <3>6
  <2>2. QED
    BY <2>1
<1>13. LevelsWellFormed'
  <2>1. next_order_id' = next_order_id /\ (~Idle' => ~Idle /\ incoming'.id = incoming.id)
    BY <1>2, <1>8, <1>10
  <2>2. QED
    BY <1>9, <1>12, <2>1, ReplacedLevels, Zenon
<1>14. NoCrossedBook'
  BY <1>3, <1>9, NoNewPrice, Zenon
<1>15. IncomingIsNewest'
  BY <1>2, <1>8, <1>10 DEF BookInv, IncomingIsNewest
<1>16. QED
  BY <1>11, <1>13, <1>14, <1>15 DEF BookInv

(* Resting what is left of a limit order: the only step that adds a price. *)
LEMMA RestStep ==
    ASSUME BookInv, ~Idle, incoming.remaining_qty > 0, incoming.order_type = "Limit",
           ~ \E p \in Prices : Matchable(p), Rest,
           incoming' = NoOrder, UNCHANGED next_order_id
    PROVE  /\ book' = [t \in Sides |-> book'[t]]
           /\ \A t \in Sides : IsMap(book'[t], Prices, PriceLevel)
           /\ IsMap(order_locations', Nat, OrderLocation)
           /\ LevelsWellFormed'
           /\ NoCrossedBook'
<1>1. PICK o \in Order : o = incoming
  BY DEF BookInv, TypeOK, Idle
<1>2. PICK s \in Sides, p \in Prices : s = o.side /\ p = o.price
  BY DEF Order
<1>3. o.id \in Nat /\ o.remaining_qty \in Nat /\ o.account_id \in Accounts
  BY DEF Order
<1>4. TypeOK /\ IsMap(book[s], Prices, PriceLevel)
  BY DEF BookInv, TypeOK
<1>5. PICK l0 \in PriceLevel : l0 = IF p \in DOMAIN book[s] THEN book[s][p] ELSE EmptyLevel
  <2>1. EmptyLevel \in PriceLevel
    <3>1. <<>> \in Seq(Order)
      OBVIOUS
    <3>2. QED
      BY <3>1 DEF EmptyLevel, PriceLevel
  <2>2. p \in DOMAIN book[s] => book[s][p] \in PriceLevel
    BY <1>4 DEF IsMap
  <2>3. QED
    BY <2>1, <2>2
<1>6. PICK l \in PriceLevel :
         /\ l = AddToLevel(l0, o)
         /\ l.orders # <<>>
         /\ DOMAIN l.orders = 1 .. Len(l0.orders) + 1
         /\ \A i \in DOMAIN l.orders :
               l.orders[i] = IF i <= Len(l0.orders) THEN l0.orders[i] ELSE o
  BY AddToLevelType
<1>7. /\ book' = [book EXCEPT ![s] = PutLevel(@, p, l)]
      /\ order_locations' = Put(order_locations, o.id, [side |-> s, price |-> p])
  BY <1>1, <1>2, <1>5, <1>6 DEF Rest, PutLevel
<1>8. /\ book' = [t \in Sides |-> book'[t]]
      /\ \A t \in Sides : IsMap(book'[t], Prices, PriceLevel)
      /\ LevelReplaced(s, p, l)
  BY <1>4, <1>7, ReplaceLevel, Zenon
<1>9. IsMap(order_locations', Nat, OrderLocation)
  <2>1. [side |-> s, price |-> p] \in OrderLocation
    BY DEF OrderLocation
  <2>2. IsMap(order_locations, Nat, OrderLocation)
    BY <1>4 DEF TypeOK
  <2>3. QED
    BY <1>3, <1>7, <2>1, <2>2, PutIsMap
<1>10. \A i \in DOMAIN l.orders : RestsWell(l.orders[i], s, p)'
  <2>1. ASSUME NEW i \in DOMAIN l.orders
        PROVE  RestsWell(l.orders[i], s, p)'
    <3>1. CASE i <= Len(l0.orders)
      <4>1. i \in DOMAIN l0.orders /\ l0.orders # <<>> /\ l.orders[i] = l0.orders[i]
        BY <1>6, <3>1 DEF PriceLevel
      <4>2. p \in DOMAIN book[s] /\ l0 = book[s][p]
        BY <1>5, <4>1 DEF EmptyLevel
      <4>3. RestsWell(l0.orders[i], s, p)
        BY <4>1, <4>2 DEF BookInv, LevelsWellFormed
      <4>4. QED
        BY <4>1, <4>3 DEF RestsWell, Idle
    <3>2. CASE ~(i <= Len(l0.orders))
      <4>1. l.orders[i] = o
        BY <1>6, <3>2
      <4>2. o.id < next_order_id
        BY <1>1 DEF BookInv, IncomingIsNewest
      <4>3. RestsWell(o, s, p)'
        BY <1>1, <1>2, <4>2 DEF RestsWell, Idle
      <4>4. QED
        BY <4>1, <4>3
    <3>3. QED
      BY <3>1, <3>2
  <2>2. QED
    BY <2>1
<1>11. LevelsWellFormed'
  <2>1. next_order_id' = next_order_id /\ (~Idle' => ~Idle /\ incoming'.id = incoming.id)
    BY DEF Idle
  <2>2. QED
    BY <1>7, <1>10, <2>1, ReplacedLevels, Zenon
<1>12. NoCrossedBook'
  <2>1. \A r \in DOMAIN book[Opposite(s)] : IF s = "Bid" THEN p < r ELSE r < p
    BY <1>1, <1>2, NothingCrosses
  <2>2. \A t \in Sides : \A r \in DOMAIN book'[t] : r \in DOMAIN book[t] \/ (t = s /\ r = p)
    BY <1>8 DEF LevelReplaced
  <2>3. ASSUME NEW b \in DOMAIN book'["Bid"], NEW a \in DOMAIN book'["Ask"]
        PROVE  b < a
    <3>1. CASE b \in DOMAIN book["Bid"] /\ a \in DOMAIN book["Ask"]
      BY <3>1 DEF BookInv, NoCrossedBook
    <3>2. CASE s = "Bid" /\ b = p /\ a \in DOMAIN book["Ask"]
      BY <2>1, <3>2 DEF Opposite
    <3>3. CASE s = "Ask" /\ a = p /\ b \in DOMAIN book["Bid"]
      BY <2>1, <3>3 DEF Opposite
    <3>4. QED
      BY <2>2, <3>1, <3>2, <3>3 DEF Sides
  <2>4. QED
    BY <2>3 DEF NoCrossedBook
<1>13. QED
  BY <1>8, <1>9, <1>11, <1>12

(* The end of match_order preserves the invariant. *)
LEMMA FinishStep ==
    ASSUME BookInv, FinishMatch
    PROVE  BookInv'
<1>1. ~Idle /\ incoming' = NoOrder /\ result' = "Ok" /\ UNCHANGED <<next_order_id, fills>>
      /\ next_order_id \in Nat
  BY DEF FinishMatch, BookInv, TypeOK
<1>2. CASE incoming.remaining_qty > 0 /\ incoming.order_type = "Limit"
  <2>1. Rest /\ ~ \E p \in Prices : Matchable(p)
    BY <1>2 DEF FinishMatch, MayRest
  <2>2. /\ book' = [t \in Sides |-> book'[t]]
        /\ \A t \in Sides : IsMap(book'[t], Prices, PriceLevel)
        /\ IsMap(order_locations', Nat, OrderLocation)
        /\ LevelsWellFormed'
        /\ NoCrossedBook'
    BY <1>1, <1>2, <2>1, RestStep
  <2>3. QED
    BY <1>1, <2>2 DEF BookInv, TypeOK, Results, IncomingIsNewest, Idle
<1>3. CASE ~(incoming.remaining_qty > 0 /\ incoming.order_type = "Limit")
  <2>1. TypeOK' /\ Idle' /\ UNCHANGED book
    BY <1>1, <1>3 DEF FinishMatch, MayRest, BookInv, TypeOK, Results, Idle
  <2>2. QED
    BY <1>1, <2>1, UnchangedLevels
<1>4. QED
  BY <1>2, <1>3

(* Every step of the engine preserves the invariant. *)
THEOREM NextBookInv == BookInv /\ [Next]_vars => BookInv'
<1> SUFFICES ASSUME BookInv, [Next]_vars
             PROVE  BookInv'
  OBVIOUS
<1>1. ASSUME NEW a \in Accounts, NEW s \in Sides, NEW t \in OrderTypes, NEW p \in Prices,
             NEW q \in Quantities, NEW post \in BOOLEAN, Submit(a, s, t, p, q, post)
      PROVE  BookInv'
  BY <1>1, SubmitStep
<1>2. CASE RejectPostOnly
  BY <1>2, RejectStep
<1>3. CASE FinishMatch
  BY <1>3, FinishStep
<1>4. ASSUME NEW p \in Prices, FillMaker(p)
      PROVE  BookInv'
  BY <1>4, FillStep
<1>5. ASSUME NEW id \in 0 .. MaxOrders, NEW a \in Accounts, CancelUnknown(id)
      PROVE  BookInv'
  BY <1>5, CancelUnknownStep
<1>6. ASSUME NEW id \in 0 .. MaxOrders, NEW a \in Accounts, CancelKnown(id, a)
      PROVE  BookInv'
  <2>1. PICK s \in Sides : \E p \in DOMAIN book[s] : \E i \in DOMAIN book[s][p].orders :
                               CancelFound(id, a, s, p, i)
    BY <1>6 DEF CancelKnown
  <2>2. PICK p \in DOMAIN book[s] : \E i \in DOMAIN book[s][p].orders :
                                        CancelFound(id, a, s, p, i)
    BY <2>1
  <2>3. PICK i \in DOMAIN book[s][p].orders : CancelFound(id, a, s, p, i)
    BY <2>2
  <2>4. QED
    BY <2>3, CancelFoundStep
<1>7. CASE UNCHANGED vars
  <2>1. UNCHANGED <<book, order_locations, next_order_id, incoming, fills, result>>
    BY <1>7 DEF vars
  <2>2. TypeOK' /\ next_order_id \in Nat
    BY <2>1 DEF BookInv, TypeOK
  <2>3. QED
    BY <2>1, <2>2, UnchangedLevels DEF BookInv, IncomingIsNewest, Idle
<1>8. QED
  BY <1>1, <1>2, <1>3, <1>4, <1>5, <1>6, <1>7 DEF Next, Match, Cancel

(* Every variable keeps its type, whatever the sets of prices and quantities
   and however many orders arrive. *)
THEOREM BookTypeCorrect == Spec => []TypeOK
<1>1. BookInv => TypeOK
  BY DEF BookInv
<1>2. QED
  BY <1>1, InitBookInv, NextBookInv, PTL DEF Spec

(* The levels always hold what match_order and cancel_order take for granted. *)
THEOREM LevelsAlwaysWellFormed == Spec => []LevelsWellFormed
<1>1. BookInv => LevelsWellFormed
  BY DEF BookInv
<1>2. QED
  BY <1>1, InitBookInv, NextBookInv, PTL DEF Spec

(* The book is never crossed, in any reachable state, mid-match included. *)
THEOREM NeverCrossed == Spec => []NoCrossedBook
<1>1. BookInv => NoCrossedBook
  BY DEF BookInv
<1>2. QED
  BY <1>1, InitBookInv, NextBookInv, PTL DEF Spec

(* Whose orders are in the book: every one is an account's in S, as the
   exchange needs to know of the makers it settles with. *)
OwnedIn(S) ==
    \A s \in Sides : \A p \in DOMAIN book[s] : \A i \in DOMAIN book[s][p].orders :
        book[s][p].orders[i].account_id \in S

(* Replacing a level by one whose orders are owned in S keeps all owned in S. *)
LEMMA OwnersOfLevel ==
    ASSUME TypeOK, NEW S, OwnedIn(S), NEW s \in Sides, NEW p \in Prices,
           NEW l \in PriceLevel, book' = [book EXCEPT ![s] = PutLevel(@, p, l)],
           \A i \in DOMAIN l.orders : l.orders[i].account_id \in S
    PROVE  OwnedIn(S)'
<1>1. LevelReplaced(s, p, l)
  BY ReplaceLevel, Zenon
<1>2. QED
  BY <1>1 DEF LevelReplaced, OwnedIn

(* A cancel takes orders away only. *)
LEMMA OwnersAfterCancel ==
    ASSUME BookInv, NEW S, OwnedIn(S), NEW id, NEW a, NEW s \in Sides,
           NEW p \in DOMAIN book[s], NEW i \in DOMAIN book[s][p].orders,
           CancelFound(id, a, s, p, i)
    PROVE  OwnedIn(S)'
<1>1. TypeOK /\ p \in Prices /\ book[s][p] \in PriceLevel
  BY DEF BookInv, TypeOK, IsMap
<1>2. CASE UNCHANGED book
  BY <1>2 DEF OwnedIn
<1>3. CASE ~UNCHANGED book
  <2>1. book' = [book EXCEPT ![s] = PutLevel(@, p, RemoveFromLevel(@[p], i))]
    BY <1>3 DEF CancelFound
  <2>2. PICK l \in PriceLevel :
           /\ l = RemoveFromLevel(book[s][p], i)
           /\ DOMAIN l.orders = 1 .. Len(book[s][p].orders) - 1
           /\ \A j \in DOMAIN l.orders :
                 l.orders[j] = IF j < i THEN book[s][p].orders[j]
                                        ELSE book[s][p].orders[j + 1]
    BY <1>1, RemoveFromLevelType
  <2>3. DOMAIN book[s][p].orders = 1 .. Len(book[s][p].orders) /\ Len(book[s][p].orders) \in Nat
    BY <1>1 DEF PriceLevel
  <2>4. \A j \in DOMAIN l.orders : j \in DOMAIN book[s][p].orders
                                   /\ j + 1 \in DOMAIN book[s][p].orders
    BY <2>2, <2>3
  <2>5. \A j \in DOMAIN l.orders : l.orders[j].account_id \in S
    BY <2>2, <2>4 DEF OwnedIn
  <2>6. book' = [book EXCEPT ![s] = PutLevel(@, p, l)]
    BY <2>1, <2>2
  <2>7. QED
    BY <1>1, <2>5, <2>6, OwnersOfLevel, Zenon
<1>4. QED
  BY <1>2, <1>3

(* The end of a match adds at most the incoming order. *)
LEMMA OwnersAfterFinish ==
    ASSUME BookInv, NEW S, OwnedIn(S), FinishMatch, incoming.account_id \in S
    PROVE  OwnedIn(S)'
<1>1. CASE UNCHANGED book
  BY <1>1 DEF OwnedIn
<1>2. CASE ~UNCHANGED book
  <2>1. Rest
    BY <1>2 DEF FinishMatch
  <2>2. PICK o \in Order : o = incoming
    BY DEF FinishMatch, BookInv, TypeOK, Idle
  <2>3. PICK s \in Sides, p \in Prices : s = o.side /\ p = o.price
    BY DEF Order
  <2>4. TypeOK /\ IsMap(book[s], Prices, PriceLevel)
    BY DEF BookInv, TypeOK
  <2>5. PICK l0 \in PriceLevel : /\ l0 = IF p \in DOMAIN book[s] THEN book[s][p]
                                                                  ELSE EmptyLevel
                                 /\ \A i \in DOMAIN l0.orders : l0.orders[i].account_id \in S
    <3>1. CASE p \in DOMAIN book[s]
      BY <2>4, <3>1 DEF IsMap, OwnedIn
    <3>2. CASE p \notin DOMAIN book[s]
      <4>1. <<>> \in Seq(Order) /\ DOMAIN <<>> = {}
        OBVIOUS
      <4>2. EmptyLevel \in PriceLevel /\ DOMAIN EmptyLevel.orders = {}
        BY <4>1 DEF EmptyLevel, PriceLevel
      <4>3. QED
        BY <3>2, <4>2
    <3>3. QED
      BY <3>1, <3>2
  <2>6. PICK l \in PriceLevel :
           /\ l = AddToLevel(l0, o)
           /\ l.orders # <<>>
           /\ DOMAIN l.orders = 1 .. Len(l0.orders) + 1
           /\ \A i \in DOMAIN l.orders :
                 l.orders[i] = IF i <= Len(l0.orders) THEN l0.orders[i] ELSE o
    BY AddToLevelType
  <2>7. book' = [book EXCEPT ![s] = PutLevel(@, p, l)]
    BY <2>1, <2>2, <2>3, <2>5, <2>6 DEF Rest, PutLevel
  <2>8. DOMAIN l0.orders = 1 .. Len(l0.orders) /\ Len(l0.orders) \in Nat
    BY DEF PriceLevel
  <2>9. \A i \in DOMAIN l.orders : l.orders[i].account_id \in S
    BY <2>2, <2>5, <2>6, <2>8
  <2>10. QED
    BY <2>4, <2>7, <2>9, OwnersOfLevel, Zenon
<1>3. QED
  BY <1>1, <1>2

(* What a turn of the loop does, as settling its fill needs it: one more fill,
   of a positive quantity, between an order of the book and the incoming one. *)
FillTaken(S) ==
    /\ OwnedIn(S)'
    /\ ~Idle' /\ incoming'.account_id = incoming.account_id
    /\ \E f \in Fill :
          /\ fills' = Append(fills, f)
          /\ f.quantity > 0
          /\ f.maker_account_id \in S
          /\ f.taker_account_id = incoming.account_id

LEMMA FillMakerTakes ==
    ASSUME BookInv, NEW S, OwnedIn(S), NEW p \in Prices, FillMaker(p)
    PROVE  FillTaken(S)
<1>1. PICK s \in Sides : s = Opposite(incoming.side)
  BY DEF Opposite, Sides
<1>2. ~Idle /\ incoming \in Order /\ incoming.remaining_qty \in Nat /\ incoming.id \in Nat
      /\ incoming.account_id \in Accounts /\ incoming.side \in Sides
      /\ incoming.remaining_qty > 0
  BY DEF BookInv, TypeOK, FillMaker, Matchable, Idle, Order
<1>3. /\ TypeOK
      /\ p \in DOMAIN book[s]
      /\ book[s][p] \in PriceLevel
      /\ book[s][p].orders # <<>>
  BY <1>1 DEF BookInv, TypeOK, IsMap, LevelsWellFormed, FillMaker, Matchable, IsBest
<1>4. PICK maker \in Order : /\ maker = Head(book[s][p].orders)
                             /\ 1 \in DOMAIN book[s][p].orders
                             /\ maker = book[s][p].orders[1]
  <2>1. book[s][p].orders \in Seq(Order)
    BY <1>3 DEF PriceLevel
  <2>2. QED
    BY <1>3, <2>1
<1>5. /\ maker.remaining_qty \in Nat /\ maker.id \in Nat /\ maker.account_id \in Accounts
      /\ maker.remaining_qty > 0 /\ maker.account_id \in S
  <2>1. RestsWell(maker, s, p)
    BY <1>3, <1>4 DEF BookInv, LevelsWellFormed
  <2>2. maker.account_id \in S
    BY <1>3, <1>4 DEF OwnedIn
  <2>3. QED
    BY <2>1, <2>2 DEF RestsWell, Order
<1>6. PICK q \in Nat : /\ q = Smaller(incoming.remaining_qty, maker.remaining_qty)
                       /\ q > 0
                       /\ q <= incoming.remaining_qty
                       /\ q <= maker.remaining_qty
  BY <1>2, <1>5 DEF Smaller
<1>7. PICK l \in PriceLevel :
         /\ l = FilledLevel(book[s][p], q)
         /\ \A i \in DOMAIN l.orders : \E j \in DOMAIN book[s][p].orders :
               \/ l.orders[i] = book[s][p].orders[j]
               \/ /\ q < book[s][p].orders[j].remaining_qty
                  /\ l.orders[i] = [book[s][p].orders[j] EXCEPT !.remaining_qty = @ - q]
  <2>1. q <= Head(book[s][p].orders).remaining_qty
    BY <1>4, <1>6
  <2>2. QED
    BY <1>3, <2>1, AfterFillType
<1> DEFINE f == [maker_order_id   |-> maker.id,
                 taker_order_id   |-> incoming.id,
                 maker_account_id |-> maker.account_id,
                 taker_account_id |-> incoming.account_id,
                 taker_side       |-> incoming.side,
                 price            |-> p,
                 quantity         |-> q]
<1>8. /\ book' = [book EXCEPT ![s] = PutLevel(@, p, l)]
      /\ incoming' = [incoming EXCEPT !.remaining_qty = @ - q]
      /\ fills' = Append(fills, f)
  BY <1>1, <1>4, <1>6, <1>7 DEF FillMaker, FilledLevel
<1>9. OwnedIn(S)'
  <2>1. ASSUME NEW i \in DOMAIN l.orders
        PROVE  l.orders[i].account_id \in S
    <3>1. PICK j \in DOMAIN book[s][p].orders :
             \/ l.orders[i] = book[s][p].orders[j]
             \/ l.orders[i] = [book[s][p].orders[j] EXCEPT !.remaining_qty = @ - q]
      BY <1>7
    <3>2. PICK o \in Order : o = book[s][p].orders[j] /\ o.account_id \in S
      BY <1>3 DEF OwnedIn, PriceLevel
    <3>3. QED
      BY <3>1, <3>2 DEF Order
  <2>2. QED
    BY <1>3, <1>8, <2>1, OwnersOfLevel, Zenon
<1>10. ~Idle' /\ incoming'.account_id = incoming.account_id
  <2>1. incoming' = [incoming EXCEPT !.remaining_qty = @ - q]
    BY <1>8
  <2>2. incoming' \in Order /\ incoming'.account_id = incoming.account_id
    BY <1>2, <1>6, <2>1 DEF Order
  <2>3. QED
    BY <2>2, NoOrderAssumption DEF Idle
<1>11. f \in Fill /\ f.quantity > 0 /\ f.maker_account_id \in S
       /\ f.taker_account_id = incoming.account_id
  BY <1>2, <1>5, <1>6 DEF Fill
<1>12. QED
  BY <1>8, <1>9, <1>10, <1>11 DEF FillTaken

-----------------------------------------------------------------------------
(* The totals of the levels *)

(* What rests in a level is the sum of the quantities at its positions. *)
RemainingOf(l) == [i \in DOMAIN l.orders |-> l.orders[i].remaining_qty]

LevelCovers(l) == l.total_quantity >= RestingQuantity(l)

LEMMA RestingIsSum ==
    ASSUME NEW l \in PriceLevel
    PROVE  /\ RestingQuantity(l) = SumFunctionOnSet(RemainingOf(l), DOMAIN l.orders)
           /\ RestingQuantity(l) \in Nat
           /\ IsFiniteSet(DOMAIN l.orders)
           /\ \A i \in DOMAIN l.orders : /\ RemainingOf(l)[i] = l.orders[i].remaining_qty
                                         /\ RemainingOf(l)[i] \in Nat
<1>1. l.orders \in Seq(Order) /\ Len(l.orders) \in Nat /\ DOMAIN l.orders = 1 .. Len(l.orders)
  BY DEF PriceLevel
<1>2. IsFiniteSet(DOMAIN l.orders)
  BY <1>1, IntervalIsFinite
<1>3. \A i \in DOMAIN l.orders : l.orders[i].remaining_qty \in Nat
  <2>1. \A i \in DOMAIN l.orders : l.orders[i] \in Order
    BY <1>1
  <2>2. QED
    BY <2>1 DEF Order
<1>4. RestingQuantity(l) = SumFunctionOnSet(RemainingOf(l), DOMAIN l.orders)
  BY DEF RestingQuantity, SumFunction, RemainingOf
<1>5. \A i \in DOMAIN l.orders : /\ RemainingOf(l)[i] = l.orders[i].remaining_qty
                                 /\ RemainingOf(l)[i] \in Nat
  BY <1>3 DEF RemainingOf
<1>6. SumFunctionOnSet(RemainingOf(l), DOMAIN l.orders) \in Nat
  BY <1>2, <1>5, SumIsNat
<1>7. QED
  BY <1>2, <1>4, <1>5, <1>6

(* An order that is put at the back adds no more than what is left of it. *)
LEMMA AddedIsCovered ==
    ASSUME NEW l \in PriceLevel, NEW o \in Order, LevelCovers(l)
    PROVE  LevelCovers(AddToLevel(l, o))
<1>1. PICK n \in PriceLevel :
         /\ n = AddToLevel(l, o)
         /\ DOMAIN n.orders = 1 .. Len(l.orders) + 1
         /\ \A i \in DOMAIN n.orders :
               n.orders[i] = IF i <= Len(l.orders) THEN l.orders[i] ELSE o
  BY AddToLevelType
<1>2. n.total_quantity = l.total_quantity + o.remaining_qty
  BY <1>1 DEF AddToLevel
<1>3. l.orders \in Seq(Order) /\ Len(l.orders) \in Nat /\ DOMAIN l.orders = 1 .. Len(l.orders)
      /\ l.total_quantity \in Int /\ o.remaining_qty \in Nat
  BY DEF PriceLevel, Order
<1> DEFINE f == RemainingOf(n)
           D == DOMAIN n.orders
           last == Len(l.orders) + 1
<1>4. /\ RestingQuantity(n) = SumFunctionOnSet(f, D) /\ IsFiniteSet(D)
      /\ \A i \in D : f[i] = n.orders[i].remaining_qty /\ f[i] \in Nat
  BY RestingIsSum
<1>5. /\ RestingQuantity(l) = SumFunctionOnSet(RemainingOf(l), DOMAIN l.orders)
      /\ RestingQuantity(l) \in Nat /\ IsFiniteSet(DOMAIN l.orders)
      /\ \A i \in DOMAIN l.orders : /\ RemainingOf(l)[i] = l.orders[i].remaining_qty
                                    /\ RemainingOf(l)[i] \in Nat
  BY RestingIsSum
<1>6. last \in D /\ D \ {last} = DOMAIN l.orders /\ n.orders[last] = o
      /\ \A i \in DOMAIN l.orders : n.orders[i] = l.orders[i]
  BY <1>1, <1>3
<1> HIDE DEF f, D, last
<1>7. SumFunctionOnSet(f, D) = o.remaining_qty + SumFunctionOnSet(f, DOMAIN l.orders)
  BY <1>4, <1>6, SumTakes
<1>8. SumFunctionOnSet(f, DOMAIN l.orders) = RestingQuantity(l)
  <2>1. \A i \in DOMAIN l.orders : f[i] = RemainingOf(l)[i]
    BY <1>4, <1>5, <1>6
  <2>2. QED
    BY <1>5, <2>1, SumSame
<1>9. QED
  BY <1>1, <1>2, <1>3, <1>4, <1>5, <1>7, <1>8 DEF LevelCovers

(* An order that is taken out of the middle takes what is left of it along. *)
LEMMA RemovedIsCovered ==
    ASSUME NEW l \in PriceLevel, NEW k \in DOMAIN l.orders, LevelCovers(l)
    PROVE  LevelCovers(RemoveFromLevel(l, k))
<1>1. PICK n \in PriceLevel :
         /\ n = RemoveFromLevel(l, k)
         /\ DOMAIN n.orders = 1 .. Len(l.orders) - 1
         /\ \A j \in DOMAIN n.orders :
               n.orders[j] = IF j < k THEN l.orders[j] ELSE l.orders[j + 1]
  BY RemoveFromLevelType
<1>2. n.total_quantity = l.total_quantity - l.orders[k].remaining_qty
  BY <1>1 DEF RemoveFromLevel
<1>3. Len(l.orders) \in Nat /\ DOMAIN l.orders = 1 .. Len(l.orders) /\ l.total_quantity \in Int
  BY DEF PriceLevel
<1> DEFINE f == RemainingOf(l)
           g == RemainingOf(n)
           D == DOMAIN l.orders
           E == DOMAIN n.orders
           From == [j \in E |-> IF j < k THEN j ELSE j + 1]
<1>4. /\ RestingQuantity(l) = SumFunctionOnSet(f, D) /\ IsFiniteSet(D)
      /\ \A i \in D : f[i] = l.orders[i].remaining_qty /\ f[i] \in Nat
  BY RestingIsSum
<1>5. /\ RestingQuantity(n) = SumFunctionOnSet(g, E) /\ IsFiniteSet(E)
      /\ RestingQuantity(n) \in Nat
      /\ \A i \in E : g[i] = n.orders[i].remaining_qty /\ g[i] \in Nat
  BY RestingIsSum
<1>6. /\ \A j \in E : From[j] \in D \ {k} /\ n.orders[j] = l.orders[From[j]]
      /\ \A i, j \in E : From[i] = From[j] => i = j
  BY <1>1, <1>3
<1> HIDE DEF f, g, D, E, From
<1>7. SumFunctionOnSet(g, E) <= SumFunctionOnSet(f, D \ {k})
  <2>1. \A j \in E : From[j] \in D \ {k} /\ g[j] <= f[From[j]]
    BY <1>4, <1>5, <1>6
  <2>2. IsFiniteSet(D \ {k}) /\ \A i \in D \ {k} : f[i] \in Nat
    BY <1>4, FS_Subset
  <2>3. QED
    BY <1>5, <1>6, <2>1, <2>2, SumCovers
<1>8. k \in D
  BY DEF D
<1>9. SumFunctionOnSet(f, D) = l.orders[k].remaining_qty + SumFunctionOnSet(f, D \ {k})
  BY <1>4, <1>8, SumTakes
<1>10. l.orders[k].remaining_qty \in Nat /\ SumFunctionOnSet(f, D \ {k}) \in Nat
  BY <1>4, <1>8, FS_Subset, SumIsNat
<1>11. QED
  BY <1>1, <1>2, <1>3, <1>4, <1>5, <1>7, <1>9, <1>10 DEF LevelCovers

(* A fill shrinks what rests at the front and leaves the total: when the front is
   exhausted, pop_front has nothing left of it to subtract. *)
LEMMA FilledIsCovered ==
    ASSUME NEW l \in PriceLevel, l.orders # <<>>, LevelCovers(l),
           NEW q \in Nat, q <= Head(l.orders).remaining_qty
    PROVE  LevelCovers(FilledLevel(l, q))
<1> DEFINE n == FilledLevel(l, q)
           m == FillFront(l, q)
<1>1. l.orders \in Seq(Order) /\ Len(l.orders) \in Nat /\ 1 \in DOMAIN l.orders
      /\ DOMAIN l.orders = 1 .. Len(l.orders) /\ l.total_quantity \in Int
      /\ Head(l.orders) = l.orders[1] /\ l.orders[1] \in Order /\ l.orders[1].remaining_qty \in Nat
  <2>1. l.orders \in Seq(Order) /\ l.total_quantity \in Int
    BY DEF PriceLevel
  <2>2. l.orders[1] \in Order
    BY <2>1
  <2>3. QED
    BY <2>1, <2>2 DEF Order
<1>2. /\ m \in PriceLevel /\ m.orders # <<>> /\ DOMAIN m.orders = DOMAIN l.orders
      /\ m.orders[1] = [l.orders[1] EXCEPT !.remaining_qty = @ - q]
      /\ \A j \in DOMAIN l.orders : j # 1 => m.orders[j] = l.orders[j]
  BY FillFrontType
<1>3. m.total_quantity = l.total_quantity
  BY DEF FillFront, PriceLevel
<1>4. m.orders[1].remaining_qty = l.orders[1].remaining_qty - q
  BY <1>1, <1>2 DEF Order
<1>5. m.orders \in Seq(Order) /\ Len(m.orders) = Len(l.orders) /\ Head(m.orders) = m.orders[1]
  <2>1. m.orders \in Seq(Order)
    BY <1>2 DEF PriceLevel
  <2>2. QED
    BY <1>1, <1>2, <2>1
<1>6. n \in PriceLevel
  BY AfterFillType
<1> HIDE DEF m
<1> DEFINE From == IF l.orders[1].remaining_qty = q THEN [j \in DOMAIN n.orders |-> j + 1]
                                                   ELSE [j \in DOMAIN n.orders |-> j]
<1>7. /\ n.total_quantity = l.total_quantity
      /\ \A j \in DOMAIN n.orders : /\ From[j] \in DOMAIN l.orders
                                    /\ n.orders[j].remaining_qty <= l.orders[From[j]].remaining_qty
      /\ \A i, j \in DOMAIN n.orders : From[i] = From[j] => i = j
  <2>1. CASE l.orders[1].remaining_qty = q
    <3>1. n = [orders         |-> Tail(m.orders),
               total_quantity |-> l.total_quantity - (l.orders[1].remaining_qty - q)]
      BY <1>1, <1>3, <1>4, <1>5, <2>1 DEF FilledLevel, PopFront, m
    <3>2. DOMAIN n.orders = 1 .. Len(l.orders) - 1 /\ n.total_quantity = l.total_quantity
          /\ \A j \in DOMAIN n.orders : n.orders[j] = m.orders[j + 1]
      BY <1>1, <1>2, <1>5, <2>1, <3>1
    <3> HIDE DEF n
    <3>3. \A j \in DOMAIN n.orders : j + 1 \in DOMAIN l.orders /\ n.orders[j] = l.orders[j + 1]
                                     /\ l.orders[j + 1].remaining_qty \in Nat
      <4> TAKE j \in DOMAIN n.orders
      <4>1. j + 1 \in DOMAIN l.orders /\ j + 1 # 1
        BY <1>1, <3>2
      <4>2. l.orders[j + 1] \in Order
        BY <1>1, <4>1
      <4>3. QED
        BY <1>2, <3>2, <4>1, <4>2 DEF Order
    <3>4. QED
      BY <2>1, <3>2, <3>3
  <2>2. CASE l.orders[1].remaining_qty # q
    <3>1. n = m
      BY <1>1, <2>2 DEF FilledLevel, m
    <3>2. \A j \in DOMAIN l.orders : l.orders[j].remaining_qty \in Nat
      BY RestingIsSum
    <3>3. \A j \in DOMAIN l.orders : m.orders[j].remaining_qty <= l.orders[j].remaining_qty
      <4> TAKE j \in DOMAIN l.orders
      <4>1. CASE j = 1
        BY <1>1, <1>4, <4>1
      <4>2. CASE j # 1
        BY <1>2, <3>2, <4>2
      <4>3. QED
        BY <4>1, <4>2
    <3> HIDE DEF n
    <3>4. QED
      BY <1>2, <1>3, <2>2, <3>1, <3>3
  <2>3. QED
    BY <2>1, <2>2
<1> HIDE DEF n, From
<1> DEFINE f == RemainingOf(n)
           g == RemainingOf(l)
<1>8. /\ RestingQuantity(n) = SumFunctionOnSet(f, DOMAIN n.orders) /\ IsFiniteSet(DOMAIN n.orders)
      /\ RestingQuantity(n) \in Nat
      /\ \A i \in DOMAIN n.orders : f[i] = n.orders[i].remaining_qty /\ f[i] \in Nat
  BY <1>6, RestingIsSum
<1>9. /\ RestingQuantity(l) = SumFunctionOnSet(g, DOMAIN l.orders) /\ IsFiniteSet(DOMAIN l.orders)
      /\ RestingQuantity(l) \in Nat
      /\ \A i \in DOMAIN l.orders : g[i] = l.orders[i].remaining_qty /\ g[i] \in Nat
  BY RestingIsSum
<1> HIDE DEF f, g
<1>10. SumFunctionOnSet(f, DOMAIN n.orders) <= SumFunctionOnSet(g, DOMAIN l.orders)
  <2>1. \A j \in DOMAIN n.orders : From[j] \in DOMAIN l.orders /\ f[j] <= g[From[j]]
    BY <1>7, <1>8, <1>9
  <2>2. QED
    BY <1>7, <1>8, <1>9, <2>1, SumCovers
<1>11. LevelCovers(n)
  BY <1>1, <1>6, <1>7, <1>8, <1>9, <1>10 DEF LevelCovers
<1>12. QED
  BY <1>11 DEF n

(* The level that is replaced is the only one whose total has to be looked at. *)
LEMMA TotalsReplaced ==
    ASSUME TypeOK, LevelTotalCovers, NEW s \in Sides, NEW p \in Prices, NEW l \in PriceLevel,
           book' = [book EXCEPT ![s] = PutLevel(@, p, l)],
           LevelCovers(l)
    PROVE  LevelTotalCovers'
<1>1. LevelReplaced(s, p, l)
  BY ReplaceLevel, Zenon
<1>2. ASSUME NEW t \in Sides, NEW r \in DOMAIN book'[t]
      PROVE  book'[t][r].total_quantity >= RestingQuantity(book'[t][r])
  <2>1. \/ r \in DOMAIN book[t] /\ book'[t][r] = book[t][r]
        \/ book'[t][r] = l
    BY <1>1 DEF LevelReplaced
  <2>2. QED
    BY <2>1 DEF LevelTotalCovers, LevelCovers
<1>3. QED
  BY <1>2 DEF LevelTotalCovers, RestingQuantity

(* A turn of the loop, the rest of an order and a cancel preserve it. *)
LEMMA FillKeepsTotals ==
    ASSUME BookInv, LevelTotalCovers, NEW p \in Prices, FillMaker(p)
    PROVE  LevelTotalCovers'
<1>1. PICK s \in Sides : s = Opposite(incoming.side)
  BY DEF Opposite, Sides
<1>2. TypeOK /\ p \in DOMAIN book[s] /\ book[s][p] \in PriceLevel /\ book[s][p].orders # <<>>
  BY <1>1 DEF BookInv, TypeOK, IsMap, LevelsWellFormed, FillMaker, Matchable, IsBest
<1>3. PICK old \in PriceLevel : old = book[s][p] /\ old.orders # <<>> /\ LevelCovers(old)
  BY <1>2 DEF LevelTotalCovers, LevelCovers
<1>4. incoming.remaining_qty \in Nat /\ Head(old.orders).remaining_qty \in Nat
  <2>1. Head(old.orders) \in Order
    BY <1>3 DEF PriceLevel
  <2>2. incoming \in Order
    BY <1>2 DEF TypeOK, FillMaker, Matchable, Idle
  <2>3. QED
    BY <2>1, <2>2 DEF Order
<1>5. PICK q \in Nat : /\ q = Smaller(incoming.remaining_qty, Head(old.orders).remaining_qty)
                       /\ q <= Head(old.orders).remaining_qty
  BY <1>4 DEF Smaller
<1>6. PICK l \in PriceLevel : l = FilledLevel(old, q)
  BY <1>3, <1>5, AfterFillType
<1>7. book' = [book EXCEPT ![s] = PutLevel(@, p, l)]
  BY <1>1, <1>3, <1>5, <1>6 DEF FillMaker, FilledLevel
<1>8. LevelCovers(l)
  BY <1>3, <1>5, <1>6, FilledIsCovered
<1>9. QED
  BY <1>2, <1>7, <1>8, TotalsReplaced, Zenon

LEMMA FinishKeepsTotals ==
    ASSUME BookInv, LevelTotalCovers, FinishMatch
    PROVE  LevelTotalCovers'
<1>1. CASE UNCHANGED book
  BY <1>1 DEF LevelTotalCovers, RestingQuantity
<1>2. CASE Rest
  <2>1. PICK o \in Order : o = incoming
    BY DEF BookInv, TypeOK, FinishMatch, Idle
  <2>2. PICK s \in Sides, p \in Prices : s = o.side /\ p = o.price
    BY DEF Order
  <2>3. PICK old \in PriceLevel :
           /\ old = IF p \in DOMAIN book[s] THEN book[s][p] ELSE EmptyLevel
           /\ LevelCovers(old)
    <3>1. CASE p \in DOMAIN book[s]
      BY <3>1 DEF BookInv, TypeOK, IsMap, LevelTotalCovers, LevelCovers
    <3>2. CASE p \notin DOMAIN book[s]
      <4>1. <<>> \in Seq(Order) /\ DOMAIN <<>> = {}
        OBVIOUS
      <4>2. EmptyLevel \in PriceLevel /\ DOMAIN EmptyLevel.orders = {}
        BY <4>1 DEF EmptyLevel, PriceLevel
      <4>3. RestingQuantity(EmptyLevel) = 0
        <5>1. RestingQuantity(EmptyLevel) = SumFunctionOnSet(RemainingOf(EmptyLevel), {})
          BY <4>2, RestingIsSum
        <5>2. IsFiniteSet({})
          BY FS_EmptySet
        <5>3. QED
          BY <5>1, <5>2, SumUnfolds
      <4>4. EmptyLevel.total_quantity = 0
        BY DEF EmptyLevel
      <4>5. LevelCovers(EmptyLevel)
        BY <4>3, <4>4 DEF LevelCovers
      <4>6. QED
        BY <3>2, <4>2, <4>5
    <3>3. QED
      BY <3>1, <3>2
  <2>4. PICK l \in PriceLevel : l = AddToLevel(old, o) /\ l.orders # <<>>
    BY AddToLevelType
  <2>5. LevelCovers(l)
    BY <2>3, <2>4, AddedIsCovered
  <2>6. book' = [book EXCEPT ![s] = PutLevel(@, p, l)]
    BY <1>2, <2>1, <2>2, <2>3, <2>4 DEF Rest, PutLevel
  <2>7. TypeOK
    BY DEF BookInv
  <2>8. QED
    BY <2>5, <2>6, <2>7, TotalsReplaced, Zenon
<1>3. QED
  BY <1>1, <1>2 DEF FinishMatch

LEMMA CancelKeepsTotals ==
    ASSUME BookInv, LevelTotalCovers, NEW id, NEW a, NEW s \in Sides,
           NEW p \in DOMAIN book[s], NEW i \in DOMAIN book[s][p].orders,
           CancelFound(id, a, s, p, i)
    PROVE  LevelTotalCovers'
<1>1. CASE UNCHANGED book
  BY <1>1 DEF LevelTotalCovers, RestingQuantity
<1>2. CASE book' = [book EXCEPT ![s] = PutLevel(@, p, RemoveFromLevel(@[p], i))]
  <2>1. TypeOK /\ p \in Prices
    BY DEF BookInv, TypeOK, IsMap
  <2>2. PICK old \in PriceLevel : old = book[s][p] /\ LevelCovers(old)
    BY <2>1 DEF TypeOK, IsMap, LevelTotalCovers, LevelCovers
  <2>3. PICK l \in PriceLevel : l = RemoveFromLevel(old, i)
    BY <2>2, RemoveFromLevelType
  <2>4. LevelCovers(l)
    BY <2>2, <2>3, RemovedIsCovered
  <2>5. book' = [book EXCEPT ![s] = PutLevel(@, p, l)]
    BY <1>2, <2>2, <2>3
  <2>6. QED
    BY <2>1, <2>4, <2>5, TotalsReplaced, Zenon
<1>3. QED
  BY <1>1, <1>2 DEF CancelFound

(* The total of a level never falls below what rests in it, however often its
   front order was filled before it was popped or cancelled: remove_order and
   pop_front never subtract more than there is. *)
THEOREM TotalsAlwaysCover == Spec => []LevelTotalCovers
<1> DEFINE Inv == BookInv /\ LevelTotalCovers
<1>1. Init => Inv
  BY InitBookInv DEF Init, LevelTotalCovers, Sides
<1>2. Inv /\ [Next]_vars => Inv'
  <2> SUFFICES ASSUME Inv, [Next]_vars PROVE LevelTotalCovers'
    BY NextBookInv
  <2>1. ASSUME NEW p \in Prices, FillMaker(p) PROVE LevelTotalCovers'
    BY <2>1, FillKeepsTotals
  <2>2. CASE FinishMatch
    BY <2>2, FinishKeepsTotals
  <2>3. ASSUME NEW id \in 0 .. MaxOrders, NEW a \in Accounts, CancelKnown(id, a)
        PROVE  LevelTotalCovers'
    <3>1. PICK s \in Sides : \E p \in DOMAIN book[s] : \E i \in DOMAIN book[s][p].orders :
                                 CancelFound(id, a, s, p, i)
      BY <2>3 DEF CancelKnown
    <3>2. PICK p \in DOMAIN book[s] : \E i \in DOMAIN book[s][p].orders :
                                          CancelFound(id, a, s, p, i)
      BY <3>1
    <3>3. PICK i \in DOMAIN book[s][p].orders : CancelFound(id, a, s, p, i)
      BY <3>2
    <3>4. QED
      BY <3>3, CancelKeepsTotals
  <2>4. CASE UNCHANGED book
    BY <2>4 DEF LevelTotalCovers, RestingQuantity
  <2>5. QED
    BY <2>1, <2>2, <2>3, <2>4
       DEF Next, Match, Cancel, Submit, RejectPostOnly, CancelUnknown, vars
<1>3. QED
  BY <1>1, <1>2, PTL DEF Spec

-----------------------------------------------------------------------------
(* The index, priority, and the orders as a set *)

(* The index says that an order is in the level (s, p). *)
Located(id, s, p) ==
    /\ id \in DOMAIN order_locations
    /\ order_locations[id] = [side |-> s, price |-> p]

LocatedAfter(id, s, p) ==
    /\ id \in DOMAIN order_locations'
    /\ order_locations'[id] = [side |-> s, price |-> p]

(* The two directions of IndexMatchesBook. *)
QueuesIndexed ==
    \A s \in Sides : \A p \in DOMAIN book[s] :
        /\ TimeOrdered(book[s][p].orders)
        /\ \A i \in DOMAIN book[s][p].orders : Located(book[s][p].orders[i].id, s, p)

IndexFound ==
    \A id \in DOMAIN order_locations : \E s \in Sides : \E p \in DOMAIN book[s] :
        /\ order_locations[id] = [side |-> s, price |-> p]
        /\ \E i \in DOMAIN book[s][p].orders : book[s][p].orders[i].id = id

(* IndexMatchesBook, with sides and prices in place of locations. *)
LEMMA IndexSplit == TypeOK => (IndexMatchesBook <=> QueuesIndexed /\ IndexFound)
<1> SUFFICES ASSUME TypeOK PROVE IndexMatchesBook <=> QueuesIndexed /\ IndexFound
  OBVIOUS
<1>1. ASSUME IndexMatchesBook PROVE QueuesIndexed
  BY <1>1 DEF IndexMatchesBook, QueuesIndexed, Located
<1>2. ASSUME IndexMatchesBook PROVE IndexFound
  <2> SUFFICES ASSUME NEW id \in DOMAIN order_locations
               PROVE  \E s \in Sides : \E p \in DOMAIN book[s] :
                         /\ order_locations[id] = [side |-> s, price |-> p]
                         /\ \E i \in DOMAIN book[s][p].orders : book[s][p].orders[i].id = id
    BY DEF IndexFound
  <2>1. PICK l \in OrderLocation : l = order_locations[id]
    BY DEF TypeOK, IsMap
  <2>2. /\ l.side \in Sides /\ l.price \in DOMAIN book[l.side]
        /\ \E i \in DOMAIN book[l.side][l.price].orders :
              book[l.side][l.price].orders[i].id = id
    BY <1>2, <2>1 DEF IndexMatchesBook
  <2>3. l = [side |-> l.side, price |-> l.price]
    BY DEF OrderLocation
  <2>4. QED
    BY <2>1, <2>2, <2>3
<1>3. ASSUME QueuesIndexed, IndexFound PROVE IndexMatchesBook
  <2>1. ASSUME NEW id \in DOMAIN order_locations
        PROVE  LET l == order_locations[id]
               IN  /\ l.side \in Sides
                   /\ l.price \in DOMAIN book[l.side]
                   /\ \E i \in DOMAIN book[l.side][l.price].orders :
                         book[l.side][l.price].orders[i].id = id
    <3>1. PICK s \in Sides : \E p \in DOMAIN book[s] :
             /\ order_locations[id] = [side |-> s, price |-> p]
             /\ \E i \in DOMAIN book[s][p].orders : book[s][p].orders[i].id = id
      BY <1>3 DEF IndexFound
    <3>2. PICK p \in DOMAIN book[s] :
             /\ order_locations[id] = [side |-> s, price |-> p]
             /\ \E i \in DOMAIN book[s][p].orders : book[s][p].orders[i].id = id
      BY <3>1
    <3>3. order_locations[id].side = s /\ order_locations[id].price = p
      BY <3>2
    <3>4. QED
      BY <3>2, <3>3
  <2>2. QED
    BY <1>3, <2>1 DEF IndexMatchesBook, QueuesIndexed, Located
<1>4. QED
  BY <1>1, <1>2, <1>3

(* The other levels stay when one is replaced, and one that is not empty is
   there afterwards. *)
LevelsKept(s, p, l) ==
    /\ \A t \in Sides : \A r \in DOMAIN book[t] :
          <<t, r>> # <<s, p>> => r \in DOMAIN book'[t] /\ book'[t][r] = book[t][r]
    /\ l.orders # <<>> => p \in DOMAIN book'[s] /\ book'[s][p] = l

LEMMA ReplaceLevelKeeps ==
    ASSUME TypeOK, NEW s \in Sides, NEW p \in Prices, NEW l \in PriceLevel,
           book' = [book EXCEPT ![s] = PutLevel(@, p, l)]
    PROVE  LevelsKept(s, p, l)
<1>1. book = [t \in Sides |-> book[t]] /\ IsMap(book[s], Prices, PriceLevel)
  BY DEF TypeOK
<1> DEFINE m == PutLevel(book[s], p, l)
<1>2. /\ \A r \in DOMAIN book[s] : r # p => r \in DOMAIN m /\ m[r] = book[s][r]
      /\ l.orders # <<>> => p \in DOMAIN m /\ m[p] = l
  BY <1>1, PutLevelIsMap
<1>3. book'[s] = m /\ \A t \in Sides : t # s => book'[t] = book[t]
  BY <1>1
<1> HIDE DEF m
<1>4. ASSUME NEW t \in Sides, NEW r \in DOMAIN book[t], <<t, r>> # <<s, p>>
      PROVE  r \in DOMAIN book'[t] /\ book'[t][r] = book[t][r]
  <2>1. CASE t = s
    BY <2>1, <1>2, <1>3, <1>4
  <2>2. CASE t # s
    BY <2>2, <1>3
  <2>3. QED
    BY <2>1, <2>2
<1>5. QED
  BY <1>2, <1>3, <1>4 DEF LevelsKept

(* What has to be shown of a step that replaces the level (s, p) by l. *)
LEMMA ReplacedIndex ==
    ASSUME TypeOK, QueuesIndexed, IndexFound,
           NEW s \in Sides, NEW p \in Prices, NEW l \in PriceLevel,
           book' = [book EXCEPT ![s] = PutLevel(@, p, l)],
           TimeOrdered(l.orders),
           \A i \in DOMAIN l.orders : LocatedAfter(l.orders[i].id, s, p),
           \A id \in DOMAIN order_locations :
              order_locations[id] # [side |-> s, price |-> p] =>
                 id \in DOMAIN order_locations' /\ order_locations'[id] = order_locations[id],
           \A id \in DOMAIN order_locations' :
              \/ /\ id \in DOMAIN order_locations
                 /\ order_locations'[id] = order_locations[id]
                 /\ order_locations[id] # [side |-> s, price |-> p]
              \/ /\ order_locations'[id] = [side |-> s, price |-> p]
                 /\ \E i \in DOMAIN l.orders : l.orders[i].id = id
    PROVE  QueuesIndexed' /\ IndexFound'
<1>1. LevelReplaced(s, p, l)
  BY ReplaceLevel, Zenon
<1>2. LevelsKept(s, p, l)
  BY ReplaceLevelKeeps, Zenon
<1>3. ASSUME NEW t \in Sides, NEW r \in DOMAIN book'[t]
      PROVE  /\ TimeOrdered(book'[t][r].orders)
             /\ \A i \in DOMAIN book'[t][r].orders : LocatedAfter(book'[t][r].orders[i].id, t, r)
  <2>1. CASE t = s /\ r = p /\ book'[t][r] = l
    BY <2>1
  <2>2. CASE r \in DOMAIN book[t] /\ <<t, r>> # <<s, p>> /\ book'[t][r] = book[t][r]
    <3>1. /\ TimeOrdered(book[t][r].orders)
          /\ \A i \in DOMAIN book[t][r].orders : Located(book[t][r].orders[i].id, t, r)
      BY <2>2 DEF QueuesIndexed
    <3>2. ASSUME NEW i \in DOMAIN book[t][r].orders
          PROVE  LocatedAfter(book[t][r].orders[i].id, t, r)
      <4> DEFINE id == book[t][r].orders[i].id
      <4>1. id \in DOMAIN order_locations /\ order_locations[id] = [side |-> t, price |-> r]
        BY <3>1 DEF Located, LocatedAfter
      <4>2. order_locations[id] # [side |-> s, price |-> p]
        <5>1. [side |-> t, price |-> r].side = t /\ [side |-> t, price |-> r].price = r
              /\ [side |-> s, price |-> p].side = s /\ [side |-> s, price |-> p].price = p
          OBVIOUS
        <5>2. QED
          BY <2>2, <4>1, <5>1
      <4>3. id \in DOMAIN order_locations' /\ order_locations'[id] = order_locations[id]
        BY <4>1, <4>2
      <4>4. book'[t][r].orders[i].id = id
        BY <2>2
      <4>5. QED
        BY <2>2, <4>1, <4>3, <4>4 DEF Located, LocatedAfter
    <3>3. QED
      BY <2>2, <3>1, <3>2
  <2>3. QED
    BY <1>1, <2>1, <2>2 DEF LevelReplaced
<1>4. ASSUME NEW id \in DOMAIN order_locations'
      PROVE  \E t \in Sides : \E r \in DOMAIN book'[t] :
                /\ order_locations'[id] = [side |-> t, price |-> r]
                /\ \E i \in DOMAIN book'[t][r].orders : book'[t][r].orders[i].id = id
  <2>1. CASE /\ id \in DOMAIN order_locations
             /\ order_locations'[id] = order_locations[id]
             /\ order_locations[id] # [side |-> s, price |-> p]
    <3>1a. PICK t \in Sides : \E r \in DOMAIN book[t] :
             /\ order_locations[id] = [side |-> t, price |-> r]
             /\ \E i \in DOMAIN book[t][r].orders : book[t][r].orders[i].id = id
      BY <2>1 DEF IndexFound
    <3>1. PICK r \in DOMAIN book[t] :
             /\ order_locations[id] = [side |-> t, price |-> r]
             /\ \E i \in DOMAIN book[t][r].orders : book[t][r].orders[i].id = id
      BY <3>1a
    <3>2. <<t, r>> # <<s, p>>
      BY <2>1, <3>1
    <3>3. r \in DOMAIN book'[t] /\ book'[t][r] = book[t][r]
      BY <1>2, <3>2 DEF LevelsKept
    <3>4. QED
      BY <2>1, <3>1, <3>3
  <2>2. CASE /\ order_locations'[id] = [side |-> s, price |-> p]
             /\ \E i \in DOMAIN l.orders : l.orders[i].id = id
    <3>1. l.orders # <<>>
      BY <2>2
    <3>2. p \in DOMAIN book'[s] /\ book'[s][p] = l
      BY <1>2, <3>1 DEF LevelsKept
    <3>3. QED
      BY <2>2, <3>2
  <2>3. QED
    BY <2>1, <2>2
<1>5. QED
  BY <1>3, <1>4 DEF QueuesIndexed, IndexFound, Located, LocatedAfter

(* The ids of a level's orders are numbers, so no id stands there twice. *)
LEMMA IdsDistinct ==
    ASSUME NEW l \in PriceLevel, TimeOrdered(l.orders),
           NEW i \in DOMAIN l.orders, NEW j \in DOMAIN l.orders, i # j
    PROVE  l.orders[i].id # l.orders[j].id
<1>1. i \in Nat /\ j \in Nat
  BY DEF PriceLevel
<1>2. l.orders[i].id \in Nat /\ l.orders[j].id \in Nat
  <2>1. l.orders[i] \in Order /\ l.orders[j] \in Order
    BY DEF PriceLevel
  <2>2. QED
    BY <2>1 DEF Order
<1>3. i < j \/ j < i
  BY <1>1
<1>4. QED
  BY <1>2, <1>3 DEF TimeOrdered

(* One order leaves its level and the index, by a fill or by a cancel. *)
LEMMA OrderLeaves ==
    ASSUME TypeOK, QueuesIndexed, IndexFound,
           NEW s \in Sides, NEW p \in DOMAIN book[s], NEW l \in PriceLevel,
           NEW k \in DOMAIN book[s][p].orders,
           DOMAIN l.orders = 1 .. Len(book[s][p].orders) - 1,
           \A j \in DOMAIN l.orders :
              l.orders[j].id = IF j < k THEN book[s][p].orders[j].id
                                        ELSE book[s][p].orders[j + 1].id,
           book' = [book EXCEPT ![s] = PutLevel(@, p, l)],
           order_locations' = Drop(order_locations, book[s][p].orders[k].id)
    PROVE  QueuesIndexed' /\ IndexFound'
<1> DEFINE old  == book[s][p]
           gone == old.orders[k].id
           From(j) == IF j < k THEN j ELSE j + 1
<1>1. p \in Prices /\ old \in PriceLevel
  BY DEF TypeOK, IsMap
<1>2. TimeOrdered(old.orders) /\ \A i \in DOMAIN old.orders : Located(old.orders[i].id, s, p)
  BY DEF QueuesIndexed
<1>3. DOMAIN old.orders = 1 .. Len(old.orders) /\ Len(old.orders) \in Nat
  BY <1>1 DEF PriceLevel
<1>4. /\ \A j \in DOMAIN l.orders : /\ From(j) \in DOMAIN old.orders /\ From(j) # k
                                    /\ l.orders[j].id = old.orders[From(j)].id
      /\ \A i, j \in DOMAIN l.orders : i < j => From(i) < From(j)
  BY <1>3
<1>5. /\ DOMAIN order_locations' = DOMAIN order_locations \ {gone}
      /\ \A id \in DOMAIN order_locations \ {gone} : order_locations'[id] = order_locations[id]
  BY DEF Drop
<1>6. \A i \in DOMAIN old.orders : i # k => old.orders[i].id # gone
  BY <1>1, <1>2, IdsDistinct
<1>7. gone \in DOMAIN order_locations /\ order_locations[gone] = [side |-> s, price |-> p]
  BY <1>2 DEF Located, LocatedAfter
<1> HIDE DEF gone, From, old
<1>8. TimeOrdered(l.orders)
  BY <1>2, <1>4 DEF TimeOrdered
<1>9. \A j \in DOMAIN l.orders : LocatedAfter(l.orders[j].id, s, p)
  <2> TAKE j \in DOMAIN l.orders
  <2>1. l.orders[j].id # gone /\ Located(l.orders[j].id, s, p)
    BY <1>2, <1>4, <1>6
  <2>2. QED
    BY <1>5, <2>1 DEF Located, LocatedAfter
<1>10. \A id \in DOMAIN order_locations :
          order_locations[id] # [side |-> s, price |-> p] =>
             id \in DOMAIN order_locations' /\ order_locations'[id] = order_locations[id]
  BY <1>5, <1>7
<1>11. ASSUME NEW id \in DOMAIN order_locations',
              order_locations[id] = [side |-> s, price |-> p]
       PROVE  \E j \in DOMAIN l.orders : l.orders[j].id = id
  <2>1. id \in DOMAIN order_locations /\ id # gone
    BY <1>5
  <2>2a. PICK t \in Sides : \E r \in DOMAIN book[t] :
           /\ order_locations[id] = [side |-> t, price |-> r]
           /\ \E i \in DOMAIN book[t][r].orders : book[t][r].orders[i].id = id
    BY <2>1 DEF IndexFound
  <2>2. PICK r \in DOMAIN book[t] :
           /\ order_locations[id] = [side |-> t, price |-> r]
           /\ \E i \in DOMAIN book[t][r].orders : book[t][r].orders[i].id = id
    BY <2>2a
  <2>3. t = s /\ r = p
    <3>1. [side |-> t, price |-> r].side = t /\ [side |-> t, price |-> r].price = r
          /\ [side |-> s, price |-> p].side = s /\ [side |-> s, price |-> p].price = p
      OBVIOUS
    <3>2. QED
      BY <1>11, <2>2, <3>1
  <2>4. PICK i \in DOMAIN old.orders : old.orders[i].id = id
    BY <2>2, <2>3 DEF old
  <2>5. i # k
    BY <2>1, <2>4 DEF gone
  <2> DEFINE j == IF i < k THEN i ELSE i - 1
  <2>6. j \in DOMAIN l.orders /\ From(j) = i
    BY <1>3, <2>5 DEF From, old
  <2>7. QED
    BY <1>4, <2>4, <2>6
<1>12. \A id \in DOMAIN order_locations' :
          \/ /\ id \in DOMAIN order_locations
             /\ order_locations'[id] = order_locations[id]
             /\ order_locations[id] # [side |-> s, price |-> p]
          \/ /\ order_locations'[id] = [side |-> s, price |-> p]
             /\ \E i \in DOMAIN l.orders : l.orders[i].id = id
  BY <1>5, <1>11
<1>13. QED
  BY <1>1, <1>8, <1>9, <1>10, <1>12, ReplacedIndex, Zenon

(* A level whose orders keep their places, and the index. *)
LEMMA OrdersStay ==
    ASSUME TypeOK, QueuesIndexed, IndexFound,
           NEW s \in Sides, NEW p \in DOMAIN book[s], NEW l \in PriceLevel,
           DOMAIN l.orders = DOMAIN book[s][p].orders,
           \A j \in DOMAIN l.orders : l.orders[j].id = book[s][p].orders[j].id,
           book' = [book EXCEPT ![s] = PutLevel(@, p, l)],
           order_locations' = order_locations
    PROVE  QueuesIndexed' /\ IndexFound'
<1>1. p \in Prices
  BY DEF TypeOK, IsMap
<1>2. TimeOrdered(l.orders) /\ \A i \in DOMAIN l.orders : LocatedAfter(l.orders[i].id, s, p)
  BY DEF QueuesIndexed, TimeOrdered, Located, LocatedAfter
<1>3. ASSUME NEW id \in DOMAIN order_locations',
             order_locations'[id] = [side |-> s, price |-> p]
      PROVE  \E j \in DOMAIN l.orders : l.orders[j].id = id
  <2>1a. PICK t \in Sides : \E r \in DOMAIN book[t] :
           /\ order_locations[id] = [side |-> t, price |-> r]
           /\ \E i \in DOMAIN book[t][r].orders : book[t][r].orders[i].id = id
    BY DEF IndexFound
  <2>1. PICK r \in DOMAIN book[t] :
           /\ order_locations[id] = [side |-> t, price |-> r]
           /\ \E i \in DOMAIN book[t][r].orders : book[t][r].orders[i].id = id
    BY <2>1a
  <2>2. t = s /\ r = p
    <3>1. [side |-> t, price |-> r].side = t /\ [side |-> t, price |-> r].price = r
          /\ [side |-> s, price |-> p].side = s /\ [side |-> s, price |-> p].price = p
      OBVIOUS
    <3>2. QED
      BY <1>3, <2>1, <3>1
  <2>3. QED
    BY <2>1, <2>2
<1>4. \A id \in DOMAIN order_locations' :
         \/ /\ id \in DOMAIN order_locations
            /\ order_locations'[id] = order_locations[id]
            /\ order_locations[id] # [side |-> s, price |-> p]
         \/ /\ order_locations'[id] = [side |-> s, price |-> p]
            /\ \E i \in DOMAIN l.orders : l.orders[i].id = id
  BY <1>3
<1>5. \A id \in DOMAIN order_locations :
         order_locations[id] # [side |-> s, price |-> p] =>
            id \in DOMAIN order_locations' /\ order_locations'[id] = order_locations[id]
  OBVIOUS
<1>6. QED
  BY <1>1, <1>2, <1>4, <1>5, ReplacedIndex, Zenon

(* What is left of the incoming order rests: its id is above all that rest. *)
LEMMA OrderRests ==
    ASSUME BookInv, QueuesIndexed, IndexFound, ~Idle, Rest
    PROVE  QueuesIndexed' /\ IndexFound'
<1>1. PICK o \in Order : o = incoming
  BY DEF BookInv, TypeOK, Idle
<1>2. PICK s \in Sides, p \in Prices : s = o.side /\ p = o.price
  BY DEF Order
<1>3. TypeOK /\ IsMap(book[s], Prices, PriceLevel) /\ o.id \in Nat
  BY DEF BookInv, TypeOK, Order
<1>4. PICK old \in PriceLevel : old = IF p \in DOMAIN book[s] THEN book[s][p] ELSE EmptyLevel
  <2>1. EmptyLevel \in PriceLevel
    <3>1. <<>> \in Seq(Order)
      OBVIOUS
    <3>2. QED
      BY <3>1 DEF EmptyLevel, PriceLevel
  <2>2. p \in DOMAIN book[s] => book[s][p] \in PriceLevel
    BY <1>3 DEF IsMap
  <2>3. QED
    BY <2>1, <2>2
<1>5. PICK l \in PriceLevel :
         /\ l = AddToLevel(old, o)
         /\ l.orders # <<>>
         /\ DOMAIN l.orders = 1 .. Len(old.orders) + 1
         /\ \A i \in DOMAIN l.orders :
               l.orders[i] = IF i <= Len(old.orders) THEN old.orders[i] ELSE o
  BY AddToLevelType
<1>6. /\ book' = [book EXCEPT ![s] = PutLevel(@, p, l)]
      /\ order_locations' = Put(order_locations, o.id, [side |-> s, price |-> p])
  BY <1>1, <1>2, <1>4, <1>5 DEF Rest, PutLevel
<1>7. \A t \in Sides : \A r \in DOMAIN book[t] : \A i \in DOMAIN book[t][r].orders :
         book[t][r].orders[i].id < o.id
  BY <1>1 DEF BookInv, LevelsWellFormed, RestsWell
<1>8. o.id \notin DOMAIN order_locations
  <2> SUFFICES ASSUME o.id \in DOMAIN order_locations PROVE FALSE
    OBVIOUS
  <2>1. PICK t \in Sides : \E r \in DOMAIN book[t] :
           \E i \in DOMAIN book[t][r].orders : book[t][r].orders[i].id = o.id
    BY DEF IndexFound
  <2>2. PICK r \in DOMAIN book[t] :
           \E i \in DOMAIN book[t][r].orders : book[t][r].orders[i].id = o.id
    BY <2>1
  <2>3. QED
    BY <1>3, <1>7, <2>2
<1>9. /\ DOMAIN order_locations' = DOMAIN order_locations \cup {o.id}
      /\ order_locations'[o.id] = [side |-> s, price |-> p]
      /\ \A id \in DOMAIN order_locations : order_locations'[id] = order_locations[id]
  BY <1>6, <1>8 DEF Put
<1>10. /\ DOMAIN old.orders = 1 .. Len(old.orders) /\ Len(old.orders) \in Nat
       /\ TimeOrdered(old.orders)
       /\ \A i \in DOMAIN old.orders : /\ Located(old.orders[i].id, s, p)
                                       /\ old.orders[i].id < o.id
  <2>1. DOMAIN old.orders = 1 .. Len(old.orders) /\ Len(old.orders) \in Nat
    BY DEF PriceLevel
  <2>2. CASE p \in DOMAIN book[s]
    BY <1>4, <1>7, <2>1, <2>2 DEF QueuesIndexed
  <2>3. CASE p \notin DOMAIN book[s]
    <3>1. DOMAIN old.orders = {}
      BY <1>4, <2>3 DEF EmptyLevel
    <3>2. QED
      BY <2>1, <3>1 DEF TimeOrdered
  <2>4. QED
    BY <2>2, <2>3
<1>11. TimeOrdered(l.orders)
  <2> SUFFICES ASSUME NEW i \in DOMAIN l.orders, NEW j \in DOMAIN l.orders, i < j
               PROVE  l.orders[i].id < l.orders[j].id
    BY DEF TimeOrdered
  <2>1. i \in DOMAIN old.orders /\ l.orders[i] = old.orders[i]
    BY <1>5, <1>10
  <2>2. CASE j <= Len(old.orders)
    <3>1. j \in DOMAIN old.orders /\ l.orders[j] = old.orders[j]
      BY <1>5, <1>10, <2>2
    <3>2. QED
      BY <1>10, <2>1, <3>1 DEF TimeOrdered
  <2>3. CASE ~(j <= Len(old.orders))
    BY <1>5, <1>10, <2>1, <2>3
  <2>4. QED
    BY <2>2, <2>3
<1>12. \A i \in DOMAIN l.orders : LocatedAfter(l.orders[i].id, s, p)
  <2> TAKE i \in DOMAIN l.orders
  <2>1. CASE i <= Len(old.orders)
    <3>1. i \in DOMAIN old.orders /\ l.orders[i] = old.orders[i]
      BY <1>5, <1>10, <2>1
    <3>2. QED
      BY <1>9, <1>10, <3>1 DEF Located, LocatedAfter
  <2>2. CASE ~(i <= Len(old.orders))
    BY <1>5, <1>9, <2>2 DEF LocatedAfter
  <2>3. QED
    BY <2>1, <2>2
<1>13. ASSUME NEW id \in DOMAIN order_locations,
              order_locations[id] = [side |-> s, price |-> p]
       PROVE  \E i \in DOMAIN l.orders : l.orders[i].id = id
  <2>1a. PICK t \in Sides : \E r \in DOMAIN book[t] :
           /\ order_locations[id] = [side |-> t, price |-> r]
           /\ \E i \in DOMAIN book[t][r].orders : book[t][r].orders[i].id = id
    BY DEF IndexFound
  <2>1. PICK r \in DOMAIN book[t] :
           /\ order_locations[id] = [side |-> t, price |-> r]
           /\ \E i \in DOMAIN book[t][r].orders : book[t][r].orders[i].id = id
    BY <2>1a
  <2>2. t = s /\ r = p
    <3>1. [side |-> t, price |-> r].side = t /\ [side |-> t, price |-> r].price = r
          /\ [side |-> s, price |-> p].side = s /\ [side |-> s, price |-> p].price = p
      OBVIOUS
    <3>2. QED
      BY <1>13, <2>1, <3>1
  <2>3. PICK i \in DOMAIN old.orders : old.orders[i].id = id
    BY <1>4, <2>1, <2>2
  <2>4. i \in DOMAIN l.orders /\ l.orders[i] = old.orders[i]
    BY <1>5, <1>10
  <2>5. QED
    BY <2>3, <2>4
<1>14. \E i \in DOMAIN l.orders : l.orders[i].id = o.id
  <2>1. Len(old.orders) + 1 \in DOMAIN l.orders /\ l.orders[Len(old.orders) + 1] = o
    BY <1>5, <1>10
  <2>2. QED
    BY <2>1
<1>15. \A id \in DOMAIN order_locations' :
          \/ /\ id \in DOMAIN order_locations
             /\ order_locations'[id] = order_locations[id]
             /\ order_locations[id] # [side |-> s, price |-> p]
          \/ /\ order_locations'[id] = [side |-> s, price |-> p]
             /\ \E i \in DOMAIN l.orders : l.orders[i].id = id
  BY <1>9, <1>13, <1>14
<1>16. \A id \in DOMAIN order_locations :
          order_locations[id] # [side |-> s, price |-> p] =>
             id \in DOMAIN order_locations' /\ order_locations'[id] = order_locations[id]
  BY <1>9
<1>17. QED
  BY <1>3, <1>6, <1>11, <1>12, <1>15, <1>16, ReplacedIndex, Zenon

-----------------------------------------------------------------------------
(* The steps *)

(* A fill leaves the ids of the level in their order, and takes the first one
   away exactly when nothing of that order is left. *)
LEMMA FilledLevelIds ==
    ASSUME NEW l \in PriceLevel, l.orders # <<>>,
           NEW q \in Nat, q <= Head(l.orders).remaining_qty
    PROVE  LET f == FilledLevel(l, q)
           IN  /\ f \in PriceLevel
               /\ Head(l.orders).remaining_qty = q =>
                     /\ DOMAIN f.orders = 1 .. Len(l.orders) - 1
                     /\ \A j \in DOMAIN f.orders : f.orders[j].id = l.orders[j + 1].id
               /\ Head(l.orders).remaining_qty # q =>
                     /\ DOMAIN f.orders = DOMAIN l.orders
                     /\ \A j \in DOMAIN f.orders : f.orders[j].id = l.orders[j].id
<1> DEFINE f == FilledLevel(l, q)
           g == FillFront(l, q)
<1>1. l.orders \in Seq(Order) /\ Len(l.orders) \in Nat /\ 1 \in DOMAIN l.orders
      /\ DOMAIN l.orders = 1 .. Len(l.orders) /\ l.orders[1] \in Order
  <2>1. l.orders \in Seq(Order)
    BY DEF PriceLevel
  <2>2. QED
    BY <2>1
<1>2. /\ g \in PriceLevel /\ g.orders # <<>> /\ DOMAIN g.orders = DOMAIN l.orders
      /\ g.orders[1] = [l.orders[1] EXCEPT !.remaining_qty = @ - q]
      /\ \A j \in DOMAIN l.orders : j # 1 => g.orders[j] = l.orders[j]
  BY FillFrontType
<1>3. f \in PriceLevel
  BY AfterFillType
<1>4. CASE Head(l.orders).remaining_qty = q
  <2>1. f.orders = Tail(g.orders)
    BY <1>4 DEF FilledLevel, PopFront
  <2>2. g.orders \in Seq(Order) /\ Len(g.orders) = Len(l.orders)
    <3>1. g.orders \in Seq(Order)
      BY <1>2 DEF PriceLevel
    <3>2. QED
      BY <1>1, <1>2, <3>1
  <2> HIDE DEF f, g
  <2>3. /\ DOMAIN f.orders = 1 .. Len(l.orders) - 1
        /\ \A j \in DOMAIN f.orders : f.orders[j] = g.orders[j + 1]
    BY <1>2, <2>1, <2>2
  <2>4. \A j \in DOMAIN f.orders : f.orders[j].id = l.orders[j + 1].id
    <3> TAKE j \in DOMAIN f.orders
    <3>1. j + 1 \in DOMAIN l.orders /\ j + 1 # 1
      BY <1>1, <2>3
    <3>2. QED
      BY <1>2, <2>3, <3>1
  <2>5. QED
    BY <1>3, <1>4, <2>3, <2>4 DEF f
<1>5. CASE Head(l.orders).remaining_qty # q
  <2>1. f = g
    BY <1>5 DEF FilledLevel
  <2>2. g.orders[1].id = l.orders[1].id
    BY <1>1, <1>2 DEF Order
  <2> HIDE DEF f, g
  <2>3. \A j \in DOMAIN f.orders : f.orders[j].id = l.orders[j].id
    BY <1>2, <2>1, <2>2
  <2>4. QED
    BY <1>2, <1>3, <1>5, <2>1, <2>3 DEF f
<1>6. QED
  BY <1>4, <1>5

(* The maker that FillMaker fills, and by how much. *)
LEMMA FillMakerFacts ==
    ASSUME BookInv, NEW p \in Prices, FillMaker(p)
    PROVE  \E s \in Sides : \E q \in Nat :
              /\ s = Opposite(incoming.side)
              /\ p \in DOMAIN book[s] /\ IsBest(s, p)
              /\ book[s][p] \in PriceLevel /\ book[s][p].orders # <<>>
              /\ q <= Head(book[s][p].orders).remaining_qty
              /\ book' = [book EXCEPT ![s] = PutLevel(@, p, FilledLevel(book[s][p], q))]
              /\ order_locations' =
                    IF Head(book[s][p].orders).remaining_qty = q
                    THEN Drop(order_locations, Head(book[s][p].orders).id)
                    ELSE order_locations
<1>1. PICK s \in Sides : s = Opposite(incoming.side)
  BY DEF Opposite, Sides
<1>2. incoming \in Order /\ incoming.remaining_qty \in Nat
  BY DEF BookInv, TypeOK, FillMaker, Matchable, Idle, Order
<1>3. IsBest(s, p) /\ p \in DOMAIN book[s]
  BY <1>1 DEF FillMaker, Matchable, IsBest
<1>4. book[s][p] \in PriceLevel /\ book[s][p].orders # <<>>
  BY <1>3 DEF BookInv, TypeOK, IsMap, LevelsWellFormed
<1>5. PICK maker \in Order : maker = Head(book[s][p].orders)
  BY <1>4 DEF PriceLevel
<1>6. maker.remaining_qty \in Nat
  BY DEF Order
<1>7. PICK q \in Nat : /\ q = Smaller(incoming.remaining_qty, maker.remaining_qty)
                       /\ q <= maker.remaining_qty
  BY <1>2, <1>6 DEF Smaller
<1>8. /\ book' = [book EXCEPT ![s] = PutLevel(@, p, FilledLevel(book[s][p], q))]
      /\ order_locations' = IF maker.remaining_qty = q THEN Drop(order_locations, maker.id)
                                                       ELSE order_locations
  BY <1>1, <1>5, <1>7 DEF FillMaker, IndexWithout, FilledLevel
<1>9. QED
  BY <1>1, <1>3, <1>4, <1>5, <1>7, <1>8

(* A fill, that leaves something of the maker or nothing. *)
LEMMA FillIndex ==
    ASSUME BookInv, QueuesIndexed, IndexFound, NEW p \in Prices, FillMaker(p)
    PROVE  QueuesIndexed' /\ IndexFound'
<1>1. PICK s \in Sides : \E q \in Nat :
         /\ p \in DOMAIN book[s]
         /\ book[s][p] \in PriceLevel /\ book[s][p].orders # <<>>
         /\ q <= Head(book[s][p].orders).remaining_qty
         /\ book' = [book EXCEPT ![s] = PutLevel(@, p, FilledLevel(book[s][p], q))]
         /\ order_locations' =
               IF Head(book[s][p].orders).remaining_qty = q
               THEN Drop(order_locations, Head(book[s][p].orders).id)
               ELSE order_locations
  BY FillMakerFacts
<1>2. PICK q \in Nat :
         /\ p \in DOMAIN book[s]
         /\ book[s][p] \in PriceLevel /\ book[s][p].orders # <<>>
         /\ q <= Head(book[s][p].orders).remaining_qty
         /\ book' = [book EXCEPT ![s] = PutLevel(@, p, FilledLevel(book[s][p], q))]
         /\ order_locations' =
               IF Head(book[s][p].orders).remaining_qty = q
               THEN Drop(order_locations, Head(book[s][p].orders).id)
               ELSE order_locations
  BY <1>1
<1>3. PICK l \in PriceLevel :
         /\ l = FilledLevel(book[s][p], q)
         /\ Head(book[s][p].orders).remaining_qty = q =>
               /\ DOMAIN l.orders = 1 .. Len(book[s][p].orders) - 1
               /\ \A j \in DOMAIN l.orders : l.orders[j].id = book[s][p].orders[j + 1].id
         /\ Head(book[s][p].orders).remaining_qty # q =>
               /\ DOMAIN l.orders = DOMAIN book[s][p].orders
               /\ \A j \in DOMAIN l.orders : l.orders[j].id = book[s][p].orders[j].id
  BY <1>2, FilledLevelIds
<1>4. 1 \in DOMAIN book[s][p].orders /\ Head(book[s][p].orders) = book[s][p].orders[1]
  BY <1>2 DEF PriceLevel
<1>5. TypeOK /\ book' = [book EXCEPT ![s] = PutLevel(@, p, l)]
  BY <1>2, <1>3 DEF BookInv
<1>6. CASE Head(book[s][p].orders).remaining_qty = q
  <2>1. order_locations' = Drop(order_locations, book[s][p].orders[1].id)
    BY <1>2, <1>4, <1>6
  <2>2. \A j \in DOMAIN l.orders :
           l.orders[j].id = IF j < 1 THEN book[s][p].orders[j].id
                                     ELSE book[s][p].orders[j + 1].id
    <3> TAKE j \in DOMAIN l.orders
    <3>1. ~(j < 1)
      BY DEF PriceLevel
    <3>2. QED
      BY <1>3, <1>6, <3>1
  <2>3. p \in DOMAIN book[s] /\ DOMAIN l.orders = 1 .. Len(book[s][p].orders) - 1
    BY <1>2, <1>3, <1>6
  <2>4. QED
    BY <1>4, <1>5, <2>1, <2>2, <2>3, OrderLeaves, Zenon
<1>7. CASE Head(book[s][p].orders).remaining_qty # q
  <2>1. /\ p \in DOMAIN book[s] /\ order_locations' = order_locations
        /\ DOMAIN l.orders = DOMAIN book[s][p].orders
        /\ \A j \in DOMAIN l.orders : l.orders[j].id = book[s][p].orders[j].id
    BY <1>2, <1>3, <1>7
  <2>2. QED
    BY <1>5, <2>1, OrdersStay, Zenon
<1>8. QED
  BY <1>6, <1>7

(* A cancel takes the order out of both, or is refused and takes nothing. *)
LEMMA CancelIndex ==
    ASSUME BookInv, QueuesIndexed, IndexFound, NEW id \in 0 .. MaxOrders,
           NEW a \in Accounts, NEW s \in Sides, NEW p \in DOMAIN book[s],
           NEW i \in DOMAIN book[s][p].orders, CancelFound(id, a, s, p, i)
    PROVE  QueuesIndexed' /\ IndexFound'
<1>1. TypeOK /\ p \in Prices /\ book[s][p] \in PriceLevel
  BY DEF BookInv, TypeOK, IsMap
<1>2. PICK l \in PriceLevel :
         /\ l = RemoveFromLevel(book[s][p], i)
         /\ DOMAIN l.orders = 1 .. Len(book[s][p].orders) - 1
         /\ \A j \in DOMAIN l.orders :
               l.orders[j] = IF j < i THEN book[s][p].orders[j] ELSE book[s][p].orders[j + 1]
  BY <1>1, RemoveFromLevelType
<1>3. CASE book[s][p].orders[i].account_id = a
  <2>1. /\ book' = [book EXCEPT ![s] = PutLevel(@, p, l)]
        /\ order_locations' = Drop(order_locations, book[s][p].orders[i].id)
    BY <1>2, <1>3 DEF CancelFound, FoundAt, IndexWithout
  <2>2. \A j \in DOMAIN l.orders :
           l.orders[j].id = IF j < i THEN book[s][p].orders[j].id
                                     ELSE book[s][p].orders[j + 1].id
    BY <1>2
  <2>3. DOMAIN l.orders = 1 .. Len(book[s][p].orders) - 1
    BY <1>2
  <2>4. QED
    BY <1>1, <2>1, <2>2, <2>3, OrderLeaves, Zenon
<1>4. CASE book[s][p].orders[i].account_id # a
  <2>1. UNCHANGED <<book, order_locations>>
    BY <1>4 DEF CancelFound
  <2>2. QED
    BY <2>1 DEF QueuesIndexed, IndexFound, Located
<1>5. QED
  BY <1>3, <1>4

(* The inductive invariant. *)
IndexInv == BookInv /\ QueuesIndexed /\ IndexFound

(* Every step of the engine preserves it. *)
LEMMA NextIndexInv == IndexInv /\ [Next]_vars => IndexInv'
<1> SUFFICES ASSUME IndexInv, [Next]_vars
             PROVE  QueuesIndexed' /\ IndexFound'
  BY NextBookInv DEF IndexInv
<1>1. BookInv /\ QueuesIndexed /\ IndexFound
  BY DEF IndexInv
<1>2. CASE UNCHANGED <<book, order_locations>>
  BY <1>1, <1>2 DEF QueuesIndexed, IndexFound, Located
<1>3. ASSUME NEW a \in Accounts, NEW s \in Sides, NEW t \in OrderTypes, NEW p \in Prices,
             NEW q \in Quantities, NEW post \in BOOLEAN, Submit(a, s, t, p, q, post)
      PROVE  UNCHANGED <<book, order_locations>>
  BY <1>3 DEF Submit
<1>4. ASSUME NEW p \in Prices, FillMaker(p)
      PROVE  QueuesIndexed' /\ IndexFound'
  BY <1>1, <1>4, FillIndex
<1>5. CASE FinishMatch
  <2>1. CASE MayRest(incoming)
    <3>1. ~Idle /\ Rest
      BY <1>5, <2>1 DEF FinishMatch
    <3>2. QED
      BY <1>1, <3>1, OrderRests
  <2>2. CASE ~MayRest(incoming)
    BY <1>2, <1>5, <2>2 DEF FinishMatch
  <2>3. QED
    BY <2>1, <2>2
<1>6. ASSUME NEW id \in 0 .. MaxOrders, NEW a \in Accounts, CancelKnown(id, a)
      PROVE  QueuesIndexed' /\ IndexFound'
  <2>1. PICK s \in Sides : \E p \in DOMAIN book[s] : \E i \in DOMAIN book[s][p].orders :
                               CancelFound(id, a, s, p, i)
    BY <1>6 DEF CancelKnown
  <2>2. PICK p \in DOMAIN book[s] : \E i \in DOMAIN book[s][p].orders :
                                        CancelFound(id, a, s, p, i)
    BY <2>1
  <2>3. PICK i \in DOMAIN book[s][p].orders : CancelFound(id, a, s, p, i)
    BY <2>2
  <2>4. QED
    BY <1>1, <2>3, CancelIndex
<1>7. CASE RejectPostOnly \/ UNCHANGED vars \/ \E id \in 0 .. MaxOrders : CancelUnknown(id)
  BY <1>2, <1>7 DEF RejectPostOnly, CancelUnknown, vars
<1>8. QED
  BY <1>2, <1>3, <1>4, <1>5, <1>6, <1>7 DEF Next, Match, Cancel

(* It holds in every reachable state. *)
LEMMA IndexInvAlways == Spec => []IndexInv
<1>1. Init => IndexInv
  <2>1. Init => QueuesIndexed /\ IndexFound
    BY DEF Init, QueuesIndexed, IndexFound, Sides
  <2>2. QED
    BY <2>1, InitBookInv DEF IndexInv
<1>2. QED
  BY <1>1, NextIndexInv, PTL DEF Spec

-----------------------------------------------------------------------------

(* The index and the levels agree, in the middle of a match too: cancel_order
   finds every resting order, and no level has one that it would not find. *)
THEOREM IndexAlwaysMatches == Spec => []IndexMatchesBook
<1>1. IndexInv => IndexMatchesBook
  BY IndexSplit DEF IndexInv, BookInv
<1>2. QED
  BY <1>1, IndexInvAlways, PTL

(* A fill is made with the front of the best level, and the front of a level is
   its oldest order. *)
LEMMA FillInPriority ==
    ASSUME IndexInv, NEW p \in Prices, FillMaker(p)
    PROVE  LET f == fills'[Len(fills')]
           IN  FirstInPriority(f.maker_order_id, Opposite(f.taker_side))
<1>1. BookInv /\ QueuesIndexed
  BY DEF IndexInv
<1>2. PICK s \in Sides :
         /\ s = Opposite(incoming.side)
         /\ p \in DOMAIN book[s] /\ IsBest(s, p)
         /\ book[s][p] \in PriceLevel /\ book[s][p].orders # <<>>
  BY <1>1, FillMakerFacts
<1> DEFINE queue == book[s][p].orders
           m     == queue[1].id
<1>3. queue \in Seq(Order) /\ DOMAIN queue = 1 .. Len(queue) /\ Len(queue) \in Nat
      /\ 1 \in DOMAIN queue /\ Head(queue) = queue[1]
  <2>1. queue \in Seq(Order)
    BY <1>2 DEF PriceLevel
  <2>2. QED
    BY <1>2, <2>1
<1>4. \A j \in DOMAIN queue : m <= queue[j].id
  <2> TAKE j \in DOMAIN queue
  <2>1. queue[1] \in Order /\ queue[j] \in Order
    BY <1>3
  <2>2. queue[1].id \in Nat /\ queue[j].id \in Nat
    BY <2>1 DEF Order
  <2>3. TimeOrdered(queue)
    BY <1>1, <1>2 DEF QueuesIndexed
  <2>4. j = 1 \/ 1 < j
    BY <1>3
  <2>5. QED
    BY <1>3, <2>2, <2>3, <2>4 DEF TimeOrdered
<1>5. \A r \in DOMAIN book[s] : r # p => IF s = "Bid" THEN r < p ELSE p < r
  <2> TAKE r \in DOMAIN book[s]
  <2>1. Prices \subseteq Nat
    BY PricesAssumption
  <2>2. r \in Nat /\ p \in Nat
    BY <1>1, <2>1 DEF BookInv, TypeOK, IsMap
  <2>3. IF s = "Bid" THEN r <= p ELSE p <= r
    BY <1>2 DEF IsBest
  <2>4. QED
    BY <2>2, <2>3
<1>6. FirstInPriority(m, s)
  <2>1. \E i \in DOMAIN book[s][p].orders : book[s][p].orders[i].id = m
    BY <1>3
  <2>2. ASSUME NEW r \in DOMAIN book[s], NEW j \in DOMAIN book[s][r].orders
        PROVE  \/ r = p /\ m <= book[s][r].orders[j].id
               \/ IF s = "Bid" THEN r < p ELSE p < r
    <3>1. CASE r = p
      BY <1>4, <3>1
    <3>2. CASE r # p
      BY <1>5, <3>2
    <3>3. QED
      BY <3>1, <3>2
  <2> HIDE DEF m
  <2>3. QED
    BY <1>2, <2>1, <2>2 DEF FirstInPriority
<1>7. /\ fills'[Len(fills')].maker_order_id = Head(queue).id
      /\ fills'[Len(fills')].taker_side = incoming.side
  <2>1. fills \in Seq(Fill)
    BY <1>1 DEF BookInv, TypeOK
  <2> DEFINE maker == Head(book[Opposite(incoming.side)][p].orders)
             f == [maker_order_id   |-> maker.id,
                   taker_order_id   |-> incoming.id,
                   maker_account_id |-> maker.account_id,
                   taker_account_id |-> incoming.account_id,
                   taker_side       |-> incoming.side,
                   price            |-> p,
                   quantity         |-> Smaller(incoming.remaining_qty, maker.remaining_qty)]
  <2>2. fills' = Append(fills, f)
    BY DEF FillMaker
  <2>3. f.maker_order_id = maker.id /\ f.taker_side = incoming.side
    OBVIOUS
  <2>4. maker = Head(queue)
    BY <1>2
  <2> HIDE DEF f, maker, queue
  <2>5. fills'[Len(fills')] = f
    BY <2>1, <2>2
  <2>6. QED
    BY <2>3, <2>4, <2>5
<1>8. QED
  BY <1>2, <1>3, <1>6, <1>7

(* No fill is made with a maker while an order of its side with a better price,
   or with the same price and an earlier id, rests. *)
THEOREM AlwaysPriceTimePriority == Spec => PriceTimePriority
<1> DEFINE A == fills' # fills /\ fills' # <<>> =>
                    LET f == fills'[Len(fills')]
                    IN  FirstInPriority(f.maker_order_id, Opposite(f.taker_side))
<1>1. IndexInv /\ [Next]_vars => [A]_vars
  <2> SUFFICES ASSUME IndexInv, [Next]_vars, fills' # fills, fills' # <<>>
               PROVE  LET f == fills'[Len(fills')]
                      IN  FirstInPriority(f.maker_order_id, Opposite(f.taker_side))
    OBVIOUS
  <2>1. \E p \in Prices : FillMaker(p)
    BY DEF Next, Match, Submit, RejectPostOnly, FinishMatch, Cancel, CancelUnknown,
       CancelKnown, CancelFound, vars
  <2>2. QED
    BY <2>1, FillInPriority
<1>2. QED
  BY <1>1, IndexInvAlways, PTL DEF Spec, PriceTimePriority

-----------------------------------------------------------------------------
(* The orders as a set *)

(* The orders of a queue, and the resting orders that are not in (s, p). *)
OrdersOf(l)    == {l.orders[i] : i \in DOMAIN l.orders}
Elsewhere(s, p) == {o \in RestingOrders : ~(o.side = s /\ o.price = p)}

(* An order rests when it stands in some level. *)
LEMMA RestingIff ==
    ASSUME NEW o
    PROVE  o \in RestingOrders <=>
              \E s \in Sides : \E p \in DOMAIN book[s] : o \in OrdersOf(book[s][p])
BY DEF RestingOrders, OrdersOf

(* The same of the next state. *)
LEMMA RestingAfterIff ==
    ASSUME NEW o
    PROVE  o \in RestingOrders' <=>
              \E s \in Sides : \E p \in DOMAIN book'[s] : o \in OrdersOf(book'[s][p])
BY DEF RestingOrders, OrdersOf

(* An order rests in the level of its side and price. *)
LEMMA RestingFacts ==
    ASSUME BookInv, NEW o \in RestingOrders
    PROVE  /\ o \in Order /\ o.side \in Sides /\ o.price \in Prices
           /\ o.order_type = "Limit" /\ 0 < o.remaining_qty
           /\ o.price \in DOMAIN book[o.side] /\ o \in OrdersOf(book[o.side][o.price])
<1>1. PICK s \in Sides : \E p \in DOMAIN book[s] : o \in OrdersOf(book[s][p])
  BY RestingIff
<1>2. PICK p \in DOMAIN book[s] : o \in OrdersOf(book[s][p])
  BY <1>1
<1>3. PICK i \in DOMAIN book[s][p].orders : o = book[s][p].orders[i]
  BY <1>2 DEF OrdersOf
<1>4. RestsWell(o, s, p)
  BY <1>3 DEF BookInv, LevelsWellFormed
<1>5. book[s][p] \in PriceLevel /\ p \in Prices
  BY DEF BookInv, TypeOK, IsMap
<1>6. o \in Order
  BY <1>3, <1>5 DEF PriceLevel
<1>7. QED
  BY <1>2, <1>4, <1>5, <1>6 DEF RestsWell

(* The orders of a level are those of its side and price. *)
LEMMA RestingSplit ==
    ASSUME BookInv, NEW s \in Sides, NEW p \in Prices
    PROVE  RestingOrders =
              Elsewhere(s, p) \cup (IF p \in DOMAIN book[s] THEN OrdersOf(book[s][p]) ELSE {})
<1>1. ASSUME NEW o \in RestingOrders, o \notin Elsewhere(s, p)
      PROVE  p \in DOMAIN book[s] /\ o \in OrdersOf(book[s][p])
  BY <1>1, RestingFacts DEF Elsewhere
<1>2. ASSUME p \in DOMAIN book[s], NEW o \in OrdersOf(book[s][p])
      PROVE  o \in RestingOrders
  BY <1>2, RestingIff
<1>3. Elsewhere(s, p) \subseteq RestingOrders
  BY DEF Elsewhere
<1>4. QED
  BY <1>1, <1>2, <1>3

(* What rests once the level (s, p) has been replaced by l. *)
LEMMA RestingReplaced ==
    ASSUME BookInv, NEW s \in Sides, NEW p \in Prices, NEW l \in PriceLevel,
           book' = [book EXCEPT ![s] = PutLevel(@, p, l)]
    PROVE  RestingOrders' = Elsewhere(s, p) \cup OrdersOf(l)
<1>1. TypeOK
  BY DEF BookInv
<1>2. LevelReplaced(s, p, l)
  BY <1>1, ReplaceLevel, Zenon
<1>3. LevelsKept(s, p, l)
  BY <1>1, ReplaceLevelKeeps, Zenon
<1>4. ASSUME NEW o \in RestingOrders'
      PROVE  o \in Elsewhere(s, p) \cup OrdersOf(l)
  <2>1. PICK t \in Sides : \E r \in DOMAIN book'[t] : o \in OrdersOf(book'[t][r])
    BY RestingAfterIff
  <2>2. PICK r \in DOMAIN book'[t] : o \in OrdersOf(book'[t][r])
    BY <2>1
  <2>3. CASE t = s /\ r = p /\ book'[t][r] = l
    BY <2>2, <2>3
  <2>4. CASE r \in DOMAIN book[t] /\ <<t, r>> # <<s, p>> /\ book'[t][r] = book[t][r]
    <3>1. o \in RestingOrders
      BY <2>2, <2>4, RestingIff
    <3>2. o.side = t /\ o.price = r
      <4>1. PICK i \in DOMAIN book[t][r].orders : o = book[t][r].orders[i]
        BY <2>2, <2>4 DEF OrdersOf
      <4>2. QED
        BY <2>4, <4>1 DEF BookInv, LevelsWellFormed, RestsWell
    <3>3. QED
      BY <2>4, <3>1, <3>2 DEF Elsewhere
  <2>5. QED
    BY <1>2, <2>3, <2>4 DEF LevelReplaced
<1>5. ASSUME NEW o \in Elsewhere(s, p)
      PROVE  o \in RestingOrders'
  <2>1. o \in RestingOrders /\ ~(o.side = s /\ o.price = p)
    BY DEF Elsewhere
  <2>2. /\ o.side \in Sides /\ o.price \in DOMAIN book[o.side]
        /\ o \in OrdersOf(book[o.side][o.price])
    BY <2>1, RestingFacts
  <2>3. o.price \in DOMAIN book'[o.side] /\ book'[o.side][o.price] = book[o.side][o.price]
    BY <1>3, <2>1, <2>2 DEF LevelsKept
  <2>4. QED
    BY <2>2, <2>3, RestingAfterIff
<1>6. ASSUME NEW o \in OrdersOf(l)
      PROVE  o \in RestingOrders'
  <2>1. l.orders # <<>>
    BY DEF OrdersOf
  <2>2. p \in DOMAIN book'[s] /\ book'[s][p] = l
    BY <1>3, <2>1 DEF LevelsKept
  <2>3. QED
    BY <2>2, RestingAfterIff
<1>7. QED
  BY <1>4, <1>5, <1>6

(* The book has not changed: the same orders rest. *)
LEMMA RestingUnchanged ==
    ASSUME UNCHANGED book PROVE RestingOrders' = RestingOrders
BY DEF RestingOrders

(* Ids tell the resting orders apart: each is indexed, where the queues that have
   it are in the order of their ids. *)
LEMMA IdsUnique ==
    ASSUME IndexInv, NEW o \in RestingOrders, NEW n \in RestingOrders, o.id = n.id
    PROVE  o = n
<1>1. BookInv /\ QueuesIndexed
  BY DEF IndexInv
<1>2. /\ o.side \in Sides /\ o.price \in Prices
      /\ o.price \in DOMAIN book[o.side] /\ o \in OrdersOf(book[o.side][o.price])
  BY <1>1, RestingFacts
<1>3. /\ n.side \in Sides /\ n.price \in Prices
      /\ n.price \in DOMAIN book[n.side] /\ n \in OrdersOf(book[n.side][n.price])
  BY <1>1, RestingFacts
<1>4. PICK i \in DOMAIN book[o.side][o.price].orders : o = book[o.side][o.price].orders[i]
  BY <1>2 DEF OrdersOf
<1>5. PICK j \in DOMAIN book[n.side][n.price].orders : n = book[n.side][n.price].orders[j]
  BY <1>3 DEF OrdersOf
<1>6. Located(o.id, o.side, o.price) /\ Located(n.id, n.side, n.price)
  BY <1>1, <1>2, <1>3, <1>4, <1>5 DEF QueuesIndexed
<1>7. o.side = n.side /\ o.price = n.price
  BY <1>6 DEF Located
<1>8. book[o.side][o.price] \in PriceLevel /\ TimeOrdered(book[o.side][o.price].orders)
  BY <1>1, <1>2 DEF BookInv, TypeOK, IsMap, QueuesIndexed
<1>9. i = j
  BY <1>4, <1>5, <1>7, <1>8, IdsDistinct
<1>10. QED
  BY <1>4, <1>5, <1>7, <1>9

-----------------------------------------------------------------------------
(* What may trade *)

(* The orders that the incoming one may trade with. *)
Tradable == {m \in RestingOrders : Abstract!Crosses(incoming, m)}

(* A matchable price has an order to trade with: every one of its level. *)
LEMMA MatchableCrosses ==
    ASSUME BookInv, NEW p \in Prices, Matchable(p)
    PROVE  /\ Abstract!Candidates = Tradable
           /\ book[Opposite(incoming.side)][p].orders # <<>>
           /\ OrdersOf(book[Opposite(incoming.side)][p]) \subseteq Tradable
<1>1. incoming \in Order /\ incoming # NoOrder /\ incoming.remaining_qty > 0
  BY DEF Matchable, Idle, BookInv, TypeOK
<1>2. Abstract!Candidates = Tradable
  BY <1>1 DEF Abstract!Candidates, Tradable, Order
<1> DEFINE s == Opposite(incoming.side)
<1>3. s \in Sides /\ incoming.side \in Sides /\ incoming.side # s
  BY <1>1 DEF Order, Opposite, Sides
<1>4. p \in DOMAIN book[s] /\ CanTrade(incoming, p)
  BY DEF Matchable, IsBest
<1>5. book[s][p].orders # <<>>
  BY <1>3, <1>4 DEF BookInv, LevelsWellFormed
<1> HIDE DEF s
<1>6. ASSUME NEW m \in OrdersOf(book[s][p])
      PROVE  m \in Tradable
  <2>1. m \in RestingOrders
    BY <1>3, <1>4, RestingIff
  <2>2. PICK i \in DOMAIN book[s][p].orders : m = book[s][p].orders[i]
    BY DEF OrdersOf
  <2>3. m.side = s /\ m.price = p
    BY <1>3, <1>4, <2>2 DEF BookInv, LevelsWellFormed, RestsWell
  <2>4. p \in Nat /\ incoming.price \in Nat
    <3>1. Prices \subseteq Nat
      BY PricesAssumption
    <3>2. QED
      BY <1>1, <3>1 DEF Order
  <2>5. Abstract!Crosses(incoming, m)
    BY <1>3, <1>4, <2>3, <2>4 DEF Abstract!Crosses, CanTrade
  <2>6. QED
    BY <2>1, <2>5 DEF Tradable
<1>7. QED
  BY <1>2, <1>5, <1>6 DEF s

(* When no price is matchable, nothing that rests can trade: the best price
   would be matchable. *)
LEMMA NothingTradable ==
    ASSUME BookInv, ~Idle, ~ \E p \in Prices : Matchable(p)
    PROVE  Abstract!Candidates = {}
<1> SUFFICES ASSUME NEW m \in Abstract!Candidates PROVE FALSE
  OBVIOUS
<1>1. incoming \in Order /\ incoming # NoOrder
  BY DEF Idle, BookInv, TypeOK
<1>2. /\ incoming.remaining_qty > 0
      /\ m \in RestingOrders /\ Abstract!Crosses(incoming, m)
  <2>1. incoming.remaining_qty \in Nat
    BY <1>1 DEF Order
  <2>2. QED
    BY <1>1, <2>1 DEF Abstract!Candidates
<1> DEFINE s == Opposite(incoming.side)
<1>3. /\ m.side \in Sides /\ m.price \in DOMAIN book[m.side]
      /\ incoming.side \in Sides /\ s \in Sides
  BY <1>1, <1>2, RestingFacts DEF Order, Opposite, Sides
<1>4. m.side = s
  BY <1>2, <1>3 DEF Abstract!Crosses, Opposite, Sides
<1> HIDE DEF s
<1>5. IsMap(book[s], Prices, PriceLevel) /\ DOMAIN book[s] # {} /\ m.price \in DOMAIN book[s]
  BY <1>3, <1>4 DEF BookInv, TypeOK
<1>6. PICK p \in Prices : IsBest(s, p)
  BY <1>3, <1>5, BestExists
<1>7. p \in Nat /\ m.price \in Nat /\ incoming.price \in Nat
  <2>1. Prices \subseteq Nat
    BY PricesAssumption
  <2>2. QED
    BY <1>1, <1>5, <1>6, <2>1 DEF Order, IsMap
<1>8. IF s = "Bid" THEN m.price <= p ELSE p <= m.price
  BY <1>5, <1>6 DEF IsBest
<1>9. CanTrade(incoming, p)
  BY <1>2, <1>3, <1>4, <1>7, <1>8 DEF Abstract!Crosses, CanTrade, Opposite, Sides, s
<1>10. Matchable(p)
  BY <1>2, <1>6, <1>9 DEF Matchable, s
<1>11. QED
  BY <1>10

(* The front of the best level comes before every order that can trade. *)
LEMMA FrontFirst ==
    ASSUME IndexInv, NEW p \in Prices, Matchable(p), NEW n \in Tradable
    PROVE  Abstract!Before(book[Opposite(incoming.side)][p].orders[1], n)
<1> DEFINE s == Opposite(incoming.side)
           queue == book[s][p].orders
<1>1. BookInv /\ QueuesIndexed /\ incoming \in Order
  BY DEF IndexInv, BookInv, TypeOK, Matchable, Idle
<1>2. s \in Sides /\ incoming.side \in Sides
  BY <1>1 DEF Order, Opposite, Sides
<1>3. p \in DOMAIN book[s] /\ IsBest(s, p)
  BY DEF Matchable, IsBest
<1>4. queue # <<>> /\ book[s][p] \in PriceLevel
  BY <1>1, <1>2, <1>3 DEF BookInv, LevelsWellFormed, TypeOK, IsMap
<1>5. n \in RestingOrders /\ Abstract!Crosses(incoming, n)
  BY DEF Tradable
<1>6. /\ n.side \in Sides /\ n.price \in Prices
      /\ n.price \in DOMAIN book[n.side] /\ n \in OrdersOf(book[n.side][n.price])
  BY <1>1, <1>5, RestingFacts
<1>7. n.side = s
  BY <1>2, <1>5, <1>6 DEF Abstract!Crosses, Opposite, Sides
<1> HIDE DEF s
<1>8. queue \in Seq(Order) /\ Len(queue) \in Nat /\ DOMAIN queue = 1 .. Len(queue)
      /\ 1 \in DOMAIN queue
  <2>1. queue \in Seq(Order)
    BY <1>4 DEF PriceLevel
  <2>2. QED
    BY <1>4, <2>1
<1>9. queue[1].side = s /\ queue[1].price = p
  BY <1>1, <1>2, <1>3, <1>8 DEF BookInv, LevelsWellFormed, RestsWell
<1>10. p \in Nat /\ n.price \in Nat
  <2>1. Prices \subseteq Nat
    BY PricesAssumption
  <2>2. QED
    BY <1>6, <2>1
<1>11. IF s = "Bid" THEN n.price <= p ELSE p <= n.price
  BY <1>3, <1>6, <1>7 DEF IsBest
<1>12. CASE n.price # p
  BY <1>2, <1>9, <1>10, <1>11, <1>12 DEF Abstract!Before, Sides, s
<1>13. CASE n.price = p
  <2>1. PICK j \in DOMAIN queue : n = queue[j]
    BY <1>6, <1>7, <1>13 DEF OrdersOf
  <2>2. queue[1].id \in Nat /\ queue[j].id \in Nat
    <3>1. queue[1] \in Order /\ queue[j] \in Order
      BY <1>8
    <3>2. QED
      BY <3>1 DEF Order
  <2>3. TimeOrdered(queue)
    BY <1>1, <1>2, <1>3 DEF QueuesIndexed
  <2>4. j = 1 \/ 1 < j
    BY <1>8
  <2>5. queue[1].id <= queue[j].id
    BY <1>8, <2>2, <2>3, <2>4 DEF TimeOrdered
  <2> HIDE DEF queue
  <2>6. Abstract!Before(queue[1], n)
    BY <1>9, <1>13, <2>1, <2>5 DEF Abstract!Before
  <2>7. QED
    BY <2>6 DEF queue, s
<1>14. QED
  BY <1>12, <1>13 DEF s

-----------------------------------------------------------------------------
(* The steps *)

(* An order arrives, or one of quantity zero is turned away. *)
LEMMA SubmitArrives ==
    ASSUME BookInv, NEW a \in Accounts, NEW s \in Sides, NEW t \in OrderTypes,
           NEW p \in Prices, NEW q \in Quantities, NEW post \in BOOLEAN,
           Submit(a, s, t, p, q, post)
    PROVE  Abstract!BookNext
<1> DEFINE o == [id |-> next_order_id, account_id |-> a, side |-> s, order_type |-> t,
                 price |-> p, original_qty |-> q, remaining_qty |-> q, post_only |-> post]
<1>1. q \in Nat
  BY QuantitiesAssumption
<1>2. RestingOrders' = RestingOrders
  BY RestingUnchanged DEF Submit
<1>3. o.id = next_order_id /\ o.remaining_qty = o.original_qty /\ o.original_qty = q
  OBVIOUS
<1>4. /\ incoming = NoOrder /\ next_order_id' = next_order_id + 1 /\ fills' = <<>>
      /\ \/ q = 0 /\ result' = "InvalidOrder" /\ incoming' = NoOrder
         \/ q > 0 /\ result' = "Matching" /\ incoming' = o
  BY <1>1 DEF Submit, Idle
<1> HIDE DEF o
<1>5. Abstract!Arrive(o)
  BY <1>2, <1>3, <1>4 DEF Abstract!Arrive
<1>6. s \in {"Bid", "Ask"} /\ t \in {"Limit", "Market", "Stop"}
  BY DEF Sides, OrderTypes
<1>7. QED
  BY <1>5, <1>6 DEF Abstract!BookNext, o

(* A post-only order that could trade is refused. *)
LEMMA RejectRefuses ==
    ASSUME BookInv, RejectPostOnly
    PROVE  Abstract!Refuse
<1>1. PICK p \in Prices : Matchable(p)
  BY DEF RejectPostOnly
<1> DEFINE level == book[Opposite(incoming.side)][p]
<1>2. Abstract!Candidates = Tradable /\ level.orders # <<>> /\ OrdersOf(level) \subseteq Tradable
  BY <1>1, MatchableCrosses
<1>3. level \in PriceLevel
  <2>1. incoming \in Order
    BY <1>1 DEF Matchable, Idle, BookInv, TypeOK
  <2>2. Opposite(incoming.side) \in Sides
    BY <2>1 DEF Order, Opposite, Sides
  <2>3. QED
    BY <1>1, <2>2 DEF Matchable, IsBest, BookInv, TypeOK, IsMap
<1> HIDE DEF level
<1>4. 1 \in DOMAIN level.orders
  BY <1>2, <1>3 DEF PriceLevel
<1>5. Abstract!Candidates # {}
  BY <1>2, <1>4 DEF OrdersOf
<1>6. RestingOrders' = RestingOrders
  BY RestingUnchanged DEF RejectPostOnly
<1>7. QED
  BY <1>5, <1>6 DEF RejectPostOnly, AfterRefusal, Abstract!Refuse

(* The ids of a queue tell its orders apart. *)
LEMMA OthersOfLevel ==
    ASSUME NEW l \in PriceLevel, TimeOrdered(l.orders), NEW k \in DOMAIN l.orders
    PROVE  OrdersOf(l) \ {l.orders[k]} = {l.orders[i] : i \in DOMAIN l.orders \ {k}}
<1>1. \A i \in DOMAIN l.orders : i # k => l.orders[i] # l.orders[k]
  BY IdsDistinct
<1>2. QED
  BY <1>1 DEF OrdersOf

(* A fill takes the front order out of the level, and puts it back with less. *)
LEMMA FilledOrders ==
    ASSUME NEW l \in PriceLevel, l.orders # <<>>, TimeOrdered(l.orders),
           NEW q \in Nat, q <= Head(l.orders).remaining_qty
    PROVE  /\ FilledLevel(l, q) \in PriceLevel
           /\ OrdersOf(FilledLevel(l, q)) =
                 (OrdersOf(l) \ {l.orders[1]}) \cup
                 {n \in {[l.orders[1] EXCEPT !.remaining_qty = @ - q]} : n.remaining_qty > 0}
<1> DEFINE f == FilledLevel(l, q)
           g == FillFront(l, q)
           n == [l.orders[1] EXCEPT !.remaining_qty = @ - q]
<1>1. l.orders \in Seq(Order) /\ Len(l.orders) \in Nat /\ 1 \in DOMAIN l.orders
      /\ DOMAIN l.orders = 1 .. Len(l.orders) /\ l.orders[1] \in Order
      /\ Head(l.orders) = l.orders[1]
  <2>1. l.orders \in Seq(Order)
    BY DEF PriceLevel
  <2>2. QED
    BY <2>1
<1>2. /\ g \in PriceLevel /\ g.orders # <<>> /\ DOMAIN g.orders = DOMAIN l.orders
      /\ g.orders[1] = n
      /\ \A j \in DOMAIN l.orders : j # 1 => g.orders[j] = l.orders[j]
  BY FillFrontType
<1>3. f \in PriceLevel
  BY AfterFillType
<1>4. OrdersOf(l) \ {l.orders[1]} = {l.orders[i] : i \in DOMAIN l.orders \ {1}}
  BY <1>1, OthersOfLevel
<1>5. n.remaining_qty = l.orders[1].remaining_qty - q /\ l.orders[1].remaining_qty \in Nat
  BY <1>1 DEF Order
<1> HIDE DEF n
<1>6. CASE Head(l.orders).remaining_qty = q
  <2>1. f.orders = Tail(g.orders)
    BY <1>6 DEF FilledLevel, PopFront
  <2>2. g.orders \in Seq(Order) /\ Len(g.orders) = Len(l.orders)
    <3>1. g.orders \in Seq(Order)
      BY <1>2 DEF PriceLevel
    <3>2. QED
      BY <1>1, <1>2, <3>1
  <2>3. ~(n.remaining_qty > 0)
    BY <1>1, <1>5, <1>6
  <2> HIDE DEF f, g
  <2>4. /\ DOMAIN f.orders = 1 .. Len(l.orders) - 1
        /\ \A j \in DOMAIN f.orders : f.orders[j] = g.orders[j + 1]
    BY <1>2, <2>1, <2>2
  <2>5. \A j \in DOMAIN f.orders : j + 1 \in DOMAIN l.orders \ {1} /\ f.orders[j] = l.orders[j + 1]
    <3> TAKE j \in DOMAIN f.orders
    <3>1. j + 1 \in DOMAIN l.orders /\ j + 1 # 1
      BY <1>1, <2>4
    <3>2. QED
      BY <1>2, <2>4, <3>1
  <2>6. \A i \in DOMAIN l.orders \ {1} : i - 1 \in DOMAIN f.orders /\ f.orders[i - 1] = l.orders[i]
    <3> TAKE i \in DOMAIN l.orders \ {1}
    <3>1. i - 1 \in DOMAIN f.orders /\ (i - 1) + 1 = i
      BY <1>1, <2>4
    <3>2. f.orders[i - 1] = l.orders[(i - 1) + 1]
      BY <2>5, <3>1
    <3>3. QED
      BY <3>1, <3>2
  <2>7. OrdersOf(f) = {l.orders[i] : i \in DOMAIN l.orders \ {1}}
    BY <2>5, <2>6 DEF OrdersOf
  <2>8. QED
    BY <1>3, <1>4, <2>3, <2>7 DEF f, n
<1>7. CASE Head(l.orders).remaining_qty # q
  <2>1. f = g
    BY <1>7 DEF FilledLevel
  <2>2. n.remaining_qty > 0
    BY <1>1, <1>5, <1>7
  <2> HIDE DEF f, g
  <2>3. OrdersOf(f) = {l.orders[i] : i \in DOMAIN l.orders \ {1}} \cup {n}
    <3>1. \A i \in DOMAIN l.orders \ {1} : i \in DOMAIN f.orders /\ f.orders[i] = l.orders[i]
      BY <1>2, <2>1
    <3>2. 1 \in DOMAIN f.orders /\ f.orders[1] = n
      BY <1>1, <1>2, <2>1
    <3>3. DOMAIN f.orders = DOMAIN l.orders
      BY <1>2, <2>1
    <3>4. QED
      BY <3>1, <3>2, <3>3 DEF OrdersOf
  <2>4. QED
    BY <1>3, <1>4, <2>2, <2>3 DEF f, n
<1>8. QED
  BY <1>6, <1>7

(* A fill is a trade with the first order that can trade. *)
LEMMA FillTrades ==
    ASSUME IndexInv, NEW p \in Prices, FillMaker(p)
    PROVE  \E m \in Abstract!Candidates : \E q \in 1 .. m.remaining_qty : Abstract!Trade(m, q)
<1>1. BookInv /\ QueuesIndexed /\ Matchable(p)
  BY DEF IndexInv, FillMaker
<1>2. /\ incoming \in Order /\ incoming # NoOrder
      /\ incoming.remaining_qty \in Nat /\ incoming.remaining_qty > 0
  BY <1>1 DEF BookInv, TypeOK, Matchable, Idle, Order
<1>3. PICK s \in Sides : s = Opposite(incoming.side)
  BY DEF Opposite, Sides
<1>4. p \in DOMAIN book[s]
  BY <1>1, <1>3 DEF Matchable, IsBest
<1>5. PICK old \in PriceLevel : old = book[s][p] /\ old.orders # <<>> /\ TimeOrdered(old.orders)
  BY <1>1, <1>4 DEF BookInv, TypeOK, IsMap, LevelsWellFormed, QueuesIndexed
<1>6. 1 \in DOMAIN old.orders /\ Head(old.orders) = old.orders[1] /\ old.orders[1] \in Order
  BY <1>5 DEF PriceLevel
<1>7. PICK m \in Order : m = old.orders[1]
  BY <1>6
<1>8. m.remaining_qty \in Nat /\ 0 < m.remaining_qty /\ m.side = s /\ m.price = p
  BY <1>1, <1>4, <1>5, <1>6, <1>7 DEF Order, BookInv, LevelsWellFormed, RestsWell
<1>9. PICK q \in Nat : /\ q = Smaller(incoming.remaining_qty, m.remaining_qty)
                       /\ q <= m.remaining_qty /\ q <= incoming.remaining_qty /\ 0 < q
                       /\ q = m.remaining_qty \/ q = incoming.remaining_qty
  BY <1>2, <1>8 DEF Smaller
<1>10. /\ FilledLevel(old, q) \in PriceLevel
       /\ OrdersOf(FilledLevel(old, q)) =
             (OrdersOf(old) \ {m}) \cup
             {n \in {[m EXCEPT !.remaining_qty = @ - q]} : n.remaining_qty > 0}
  BY <1>5, <1>6, <1>7, <1>9, FilledOrders
<1>11. /\ book' = [book EXCEPT ![s] = PutLevel(@, p, FilledLevel(old, q))]
       /\ incoming' = [incoming EXCEPT !.remaining_qty = @ - q]
       /\ fills' = Append(fills,
             [maker_order_id |-> m.id, taker_order_id |-> incoming.id,
              maker_account_id |-> m.account_id, taker_account_id |-> incoming.account_id,
              taker_side |-> incoming.side, price |-> m.price, quantity |-> q])
       /\ ~(incoming.post_only /\ fills = <<>>)
       /\ UNCHANGED <<next_order_id, result>>
  BY <1>3, <1>5, <1>6, <1>7, <1>8, <1>9 DEF FillMaker, FilledLevel
<1>12. RestingOrders' = (RestingOrders \ {m}) \cup
          {n \in {[m EXCEPT !.remaining_qty = @ - q]} : n.remaining_qty > 0}
  <2>1. RestingOrders' = Elsewhere(s, p) \cup OrdersOf(FilledLevel(old, q))
    BY <1>1, <1>10, <1>11, RestingReplaced, Zenon
  <2>2. RestingOrders = Elsewhere(s, p) \cup OrdersOf(old)
    BY <1>1, <1>4, <1>5, RestingSplit
  <2>3. m \notin Elsewhere(s, p)
    BY <1>8 DEF Elsewhere
  <2> DEFINE less == {n \in {[m EXCEPT !.remaining_qty = @ - q]} : n.remaining_qty > 0}
  <2>4. OrdersOf(FilledLevel(old, q)) = (OrdersOf(old) \ {m}) \cup less
    BY <1>10
  <2> HIDE DEF less
  <2>5. RestingOrders' = (RestingOrders \ {m}) \cup less
    BY <2>1, <2>2, <2>3, <2>4
  <2>6. QED
    BY <2>5 DEF less
<1>13. m \in Abstract!Candidates /\ \A n \in Abstract!Candidates : Abstract!Before(m, n)
  <2>1. Abstract!Candidates = Tradable /\ OrdersOf(old) \subseteq Tradable
    BY <1>1, <1>3, <1>5, MatchableCrosses
  <2>2. m \in OrdersOf(old)
    BY <1>6, <1>7 DEF OrdersOf
  <2>3. \A n \in Tradable : Abstract!Before(m, n)
    BY <1>1, <1>3, <1>5, <1>7, FrontFirst
  <2>4. QED
    BY <2>1, <2>2, <2>3
<1>14. Abstract!Trade(m, q)
  BY <1>9, <1>11, <1>12, <1>13 DEF Abstract!Trade
<1>15. q \in 1 .. m.remaining_qty
  BY <1>8, <1>9
<1>16. QED
  BY <1>13, <1>14, <1>15

(* The loop ends when nothing can trade, and what is left of a limit order rests. *)
LEMMA FinishIsDone ==
    ASSUME BookInv, FinishMatch
    PROVE  Abstract!Done
<1>1. ~Idle /\ incoming # NoOrder /\ incoming \in Order
  BY DEF FinishMatch, Idle, BookInv, TypeOK
<1>2. Abstract!Candidates = {}
  BY <1>1, NothingTradable DEF FinishMatch
<1>3. RestingOrders' = RestingOrders \cup
         {o \in {incoming} : o.remaining_qty > 0 /\ o.order_type = "Limit"}
  <2>1. CASE MayRest(incoming)
    <3>1. PICK o \in Order : o = incoming
      BY <1>1
    <3>2. PICK s \in Sides, p \in Prices : s = o.side /\ p = o.price
      BY DEF Order
    <3>3. PICK old \in PriceLevel : old = IF p \in DOMAIN book[s] THEN book[s][p] ELSE EmptyLevel
      <4>1. EmptyLevel \in PriceLevel
        <5>1. <<>> \in Seq(Order)
          OBVIOUS
        <5>2. QED
          BY <5>1 DEF EmptyLevel, PriceLevel
      <4>2. p \in DOMAIN book[s] => book[s][p] \in PriceLevel
        BY DEF BookInv, TypeOK, IsMap
      <4>3. QED
        BY <4>1, <4>2
    <3>4. PICK l \in PriceLevel :
             /\ l = AddToLevel(old, o)
             /\ l.orders # <<>>
             /\ DOMAIN l.orders = 1 .. Len(old.orders) + 1
             /\ \A i \in DOMAIN l.orders :
                   l.orders[i] = IF i <= Len(old.orders) THEN old.orders[i] ELSE o
      BY AddToLevelType
    <3>5. book' = [book EXCEPT ![s] = PutLevel(@, p, l)]
      BY <2>1, <3>1, <3>2, <3>3, <3>4 DEF FinishMatch, Rest, PutLevel
    <3>6. RestingOrders' = Elsewhere(s, p) \cup OrdersOf(l)
      BY <3>5, RestingReplaced, Zenon
    <3>7. OrdersOf(l) = OrdersOf(old) \cup {o}
      <4>1. DOMAIN old.orders = 1 .. Len(old.orders) /\ Len(old.orders) \in Nat
        BY DEF PriceLevel
      <4>2. \A i \in DOMAIN old.orders : i \in DOMAIN l.orders /\ l.orders[i] = old.orders[i]
        BY <3>4, <4>1
      <4>3. \A i \in DOMAIN l.orders :
               \/ i \in DOMAIN old.orders /\ l.orders[i] = old.orders[i]
               \/ l.orders[i] = o
        BY <3>4, <4>1
      <4>4. Len(old.orders) + 1 \in DOMAIN l.orders /\ l.orders[Len(old.orders) + 1] = o
        BY <3>4, <4>1
      <4>5. QED
        BY <4>2, <4>3, <4>4 DEF OrdersOf
    <3>8. RestingOrders = Elsewhere(s, p) \cup OrdersOf(old)
      <4>1. RestingOrders =
               Elsewhere(s, p) \cup (IF p \in DOMAIN book[s] THEN OrdersOf(book[s][p]) ELSE {})
        BY RestingSplit
      <4>2. OrdersOf(EmptyLevel) = {}
        BY DEF OrdersOf, EmptyLevel
      <4>3. QED
        BY <3>3, <4>1, <4>2
    <3>9. {u \in {incoming} : u.remaining_qty > 0 /\ u.order_type = "Limit"} = {o}
      BY <2>1, <3>1 DEF MayRest
    <3>10. QED
      BY <3>6, <3>7, <3>8, <3>9
  <2>2. CASE ~MayRest(incoming)
    <3>1. RestingOrders' = RestingOrders
      BY <2>2, RestingUnchanged DEF FinishMatch
    <3>2. {o \in {incoming} : o.remaining_qty > 0 /\ o.order_type = "Limit"} = {}
      BY <2>2 DEF MayRest
    <3>3. QED
      BY <3>1, <3>2
  <2>3. QED
    BY <2>1, <2>2
<1>4. QED
  BY <1>1, <1>2, <1>3 DEF FinishMatch, Abstract!Done

(* A cancel by the owner withdraws the order, any other is declined. *)
LEMMA CancelWithdraws ==
    ASSUME IndexInv, NEW id \in 0 .. MaxOrders, NEW a \in Accounts, NEW s \in Sides,
           NEW p \in DOMAIN book[s], NEW i \in DOMAIN book[s][p].orders,
           CancelFound(id, a, s, p, i)
    PROVE  IF book[s][p].orders[i].account_id = a
           THEN Abstract!Withdraw(book[s][p].orders[i])
           ELSE Abstract!Decline
<1>1. BookInv /\ QueuesIndexed /\ p \in Prices
  BY DEF IndexInv, BookInv, TypeOK, IsMap
<1>2. PICK old \in PriceLevel : old = book[s][p] /\ TimeOrdered(old.orders)
  BY <1>1 DEF BookInv, TypeOK, IsMap, QueuesIndexed
<1> DEFINE m == old.orders[i]
<1>3. m \in RestingOrders
  BY <1>2, RestingIff DEF OrdersOf
<1>4. CASE book[s][p].orders[i].account_id = a
  <2>1. PICK l \in PriceLevel :
           /\ l = RemoveFromLevel(old, i)
           /\ DOMAIN l.orders = 1 .. Len(old.orders) - 1
           /\ \A j \in DOMAIN l.orders :
                 l.orders[j] = IF j < i THEN old.orders[j] ELSE old.orders[j + 1]
    BY <1>2, RemoveFromLevelType
  <2>2. book' = [book EXCEPT ![s] = PutLevel(@, p, l)]
    BY <1>2, <1>4, <2>1 DEF CancelFound
  <2>3. RestingOrders' = Elsewhere(s, p) \cup OrdersOf(l)
    BY <1>1, <2>2, RestingReplaced, Zenon
  <2>4. RestingOrders = Elsewhere(s, p) \cup OrdersOf(old)
    BY <1>1, <1>2, RestingSplit
  <2>5. m \notin Elsewhere(s, p)
    BY <1>1, <1>2 DEF Elsewhere, BookInv, LevelsWellFormed, RestsWell
  <2>6. OrdersOf(old) \ {m} = {old.orders[k] : k \in DOMAIN old.orders \ {i}}
    BY <1>2, OthersOfLevel
  <2>7. OrdersOf(l) = {old.orders[k] : k \in DOMAIN old.orders \ {i}}
    <3>1. DOMAIN old.orders = 1 .. Len(old.orders) /\ Len(old.orders) \in Nat
          /\ i \in 1 .. Len(old.orders)
      BY <1>2 DEF PriceLevel
    <3> DEFINE From(j) == IF j < i THEN j ELSE j + 1
               To(k)   == IF k < i THEN k ELSE k - 1
    <3>2. \A j \in DOMAIN l.orders : From(j) \in DOMAIN old.orders \ {i}
                                     /\ l.orders[j] = old.orders[From(j)]
      BY <2>1, <3>1
    <3>3. \A k \in DOMAIN old.orders \ {i} : To(k) \in DOMAIN l.orders /\ From(To(k)) = k
      BY <2>1, <3>1
    <3> HIDE DEF From, To
    <3>4. \A k \in DOMAIN old.orders \ {i} : l.orders[To(k)] = old.orders[k]
      BY <3>2, <3>3
    <3>5. QED
      BY <3>2, <3>3, <3>4 DEF OrdersOf
  <2>8. RestingOrders' = RestingOrders \ {m}
    BY <2>3, <2>4, <2>5, <2>6, <2>7
  <2>9. Abstract!Withdraw(m)
    BY <1>3, <1>4, <2>8 DEF CancelFound, Idle, Abstract!Withdraw
  <2>10. QED
    BY <1>2, <1>4, <2>9
<1>5. CASE book[s][p].orders[i].account_id # a
  <2>1. RestingOrders' = RestingOrders
    BY <1>5, RestingUnchanged DEF CancelFound
  <2>2. Abstract!Decline
    BY <1>5, <2>1 DEF CancelFound, Idle, Abstract!Decline
  <2>3. QED
    BY <1>5, <2>2
<1>6. QED
  BY <1>4, <1>5

(* A cancel of an order that is not found is declined. *)
LEMMA CancelUnknownDeclines ==
    ASSUME NEW id \in 0 .. MaxOrders, CancelUnknown(id)
    PROVE  Abstract!Decline
<1>1. RestingOrders' = RestingOrders
  BY RestingUnchanged DEF CancelUnknown
<1>2. QED
  BY <1>1 DEF CancelUnknown, Idle, Abstract!Decline

-----------------------------------------------------------------------------

(* Every step of the engine on levels, queues and index is a step of the set of
   orders that PriorityBook serves by price, then id: refusals, fills, the rest
   of an order and cancels do what a market promises. *)
THEOREM OrderBookImplementsPriorityBook == Spec => ImplementsPriorityBook
<1>1. Init => Abstract!BookInit
  <2> SUFFICES ASSUME Init PROVE Abstract!BookInit
    OBVIOUS
  <2>1. \A s \in Sides : DOMAIN book[s] = {}
    BY DEF Init
  <2>2. RestingOrders = {}
    BY <2>1 DEF RestingOrders
  <2>3. QED
    BY <2>2 DEF Init, Abstract!BookInit
<1>2. IndexInv /\ [Next]_vars => [Abstract!BookNext]_(Abstract!bookVars)
  <2> SUFFICES ASSUME IndexInv, [Next]_vars
               PROVE  Abstract!BookNext \/ UNCHANGED Abstract!bookVars
    OBVIOUS
  <2>1. BookInv
    BY DEF IndexInv
  <2>2. ASSUME NEW a \in Accounts, NEW s \in Sides, NEW t \in OrderTypes, NEW p \in Prices,
               NEW q \in Quantities, NEW post \in BOOLEAN, Submit(a, s, t, p, q, post)
        PROVE  Abstract!BookNext
    BY <2>1, <2>2, SubmitArrives
  <2>3. CASE RejectPostOnly
    BY <2>1, <2>3, RejectRefuses DEF Abstract!BookNext
  <2>4. ASSUME NEW p \in Prices, FillMaker(p)
        PROVE  Abstract!BookNext
    BY <2>4, FillTrades DEF Abstract!BookNext
  <2>5. CASE FinishMatch
    BY <2>1, <2>5, FinishIsDone DEF Abstract!BookNext
  <2>6. ASSUME NEW id \in 0 .. MaxOrders, CancelUnknown(id)
        PROVE  Abstract!BookNext
    BY <2>6, CancelUnknownDeclines DEF Abstract!BookNext
  <2>7. ASSUME NEW id \in 0 .. MaxOrders, NEW a \in Accounts, CancelKnown(id, a)
        PROVE  Abstract!BookNext
    <3>1. PICK s \in Sides : \E p \in DOMAIN book[s] : \E i \in DOMAIN book[s][p].orders :
                                 CancelFound(id, a, s, p, i)
      BY <2>7 DEF CancelKnown
    <3>2. PICK p \in DOMAIN book[s] : \E i \in DOMAIN book[s][p].orders :
                                          CancelFound(id, a, s, p, i)
      BY <3>1
    <3>3. PICK i \in DOMAIN book[s][p].orders : CancelFound(id, a, s, p, i)
      BY <3>2
    <3>4. CASE book[s][p].orders[i].account_id = a
      <4>1. Abstract!Withdraw(book[s][p].orders[i])
        BY <3>3, <3>4, CancelWithdraws
      <4>2. book[s][p].orders[i] \in RestingOrders
        BY RestingIff DEF OrdersOf
      <4>3. QED
        BY <4>1, <4>2 DEF Abstract!BookNext
    <3>5. CASE book[s][p].orders[i].account_id # a
      BY <3>3, <3>5, CancelWithdraws DEF Abstract!BookNext
    <3>6. QED
      BY <3>4, <3>5
  <2>8. CASE UNCHANGED vars
    <3>1. RestingOrders' = RestingOrders
      BY <2>8, RestingUnchanged DEF vars
    <3>2. QED
      BY <2>8, <3>1 DEF vars, Abstract!bookVars
  <2>9. QED
    BY <2>2, <2>3, <2>4, <2>5, <2>6, <2>7, <2>8 DEF Next, Match, Cancel
<1>3. QED
  BY <1>1, <1>2, IndexInvAlways, PTL DEF Spec, ImplementsPriorityBook, Abstract!BookSpec

-----------------------------------------------------------------------------
(* The fills of a match *)

(* The incoming order agreed to the price. *)
Agreed(o, p) == o.order_type # "Market" => IF o.side = "Bid" THEN o.price >= p ELSE o.price <= p

(* While an order is matched: its fills so far are at prices it agreed to, of two
   fills in a row at one price the earlier has the older maker, and no maker that
   is left at the price of the latest fill is older than that fill's. *)
FillsInOrder ==
    ~Idle =>
        /\ \A k \in DOMAIN fills : Agreed(incoming, fills[k].price)
        /\ \A k \in DOMAIN fills : k > 1 /\ fills[k - 1].price = fills[k].price =>
               fills[k - 1].maker_order_id <= fills[k].maker_order_id
        /\ fills # <<>> => \A n \in RestingOrders :
               n.side # incoming.side /\ n.price = fills[Len(fills)].price =>
                   fills[Len(fills)].maker_order_id <= n.id

(* A trade keeps the fills in order: its maker is the oldest at the best price,
   and what is left of the maker keeps its id. *)
LEMMA TradeKeepsOrder ==
    ASSUME IndexInv, FillsInOrder, NEW m \in Abstract!Candidates, NEW q \in Nat,
           Abstract!Trade(m, q)
    PROVE  FillsInOrder'
<1>1. BookInv /\ fills \in Seq(Fill)
  BY DEF IndexInv, BookInv, TypeOK
<1>2. /\ ~Idle /\ m \in RestingOrders /\ Abstract!Crosses(incoming, m)
      /\ incoming \in Order
  BY <1>1 DEF Abstract!Candidates, Idle, BookInv, TypeOK
<1>3. m \in Order /\ m.id \in Nat /\ m.price \in Nat /\ m.side \in Sides
      /\ incoming.price \in Nat /\ incoming.side \in Sides
  BY <1>1, <1>2, RestingFacts, PricesAssumption DEF Order
<1> DEFINE f == [maker_order_id |-> m.id, taker_order_id |-> incoming.id,
                 maker_account_id |-> m.account_id, taker_account_id |-> incoming.account_id,
                 taker_side |-> incoming.side, price |-> m.price, quantity |-> q]
           rest == [m EXCEPT !.remaining_qty = @ - q]
<1>4. f.price = m.price /\ f.maker_order_id = m.id
  OBVIOUS
<1>5. /\ rest.id = m.id /\ rest.side = m.side /\ rest.price = m.price
  BY <1>3 DEF Order
<1>6. /\ incoming'.side = incoming.side /\ incoming'.price = incoming.price
      /\ incoming'.order_type = incoming.order_type
  BY <1>2 DEF Abstract!Trade, Order
<1>7. fills' = Append(fills, f) /\ RestingOrders' \subseteq RestingOrders \cup {rest}
  BY DEF Abstract!Trade
<1> HIDE DEF f, rest
<1>8. /\ DOMAIN fills' = 1 .. Len(fills) + 1 /\ Len(fills') = Len(fills) + 1
      /\ fills'[Len(fills) + 1] = f /\ \A k \in 1 .. Len(fills) : fills'[k] = fills[k]
      /\ DOMAIN fills = 1 .. Len(fills) /\ Len(fills) \in Nat
  BY <1>1, <1>7
<1>9. Agreed(incoming, m.price)
  BY <1>2, <1>3 DEF Abstract!Crosses, Agreed, Sides
<1>10. ASSUME NEW k \in DOMAIN fills' PROVE Agreed(incoming', fills'[k].price)
  <2>1. Agreed(incoming, fills'[k].price)
    BY <1>2, <1>4, <1>8, <1>9 DEF FillsInOrder
  <2>2. QED
    BY <1>6, <2>1 DEF Agreed
<1>11. ASSUME NEW n \in RestingOrders, n.side # incoming.side, n.price = m.price
       PROVE  m.id <= n.id
  <2>1. n \in Abstract!Candidates
    BY <1>2, <1>11 DEF Abstract!Candidates, Abstract!Crosses
  <2>2. QED
    BY <1>3, <1>11, <2>1 DEF Abstract!Trade, Abstract!Before
<1>12. ASSUME NEW k \in DOMAIN fills', k > 1, fills'[k - 1].price = fills'[k].price
       PROVE  fills'[k - 1].maker_order_id <= fills'[k].maker_order_id
  <2>1. CASE k = Len(fills) + 1
    <3>1. fills'[k - 1] = fills[Len(fills)] /\ fills # <<>> /\ fills'[k] = f
      BY <1>8, <1>12, <2>1
    <3>2. m.side # incoming.side /\ m.price = fills[Len(fills)].price
      BY <1>2, <1>4, <1>12, <3>1 DEF Abstract!Crosses
    <3>3. fills[Len(fills)].maker_order_id <= m.id
      BY <1>2, <3>1, <3>2 DEF FillsInOrder
    <3>4. QED
      BY <1>4, <3>1, <3>3
  <2>2. CASE k # Len(fills) + 1
    <3>1. k \in DOMAIN fills /\ fills'[k] = fills[k] /\ fills'[k - 1] = fills[k - 1]
      BY <1>8, <1>12, <2>2
    <3>2. QED
      BY <1>2, <1>12, <3>1 DEF FillsInOrder
  <2>3. QED
    BY <2>1, <2>2
<1>13. ASSUME NEW n \in RestingOrders', n.side # incoming'.side,
              n.price = fills'[Len(fills')].price
       PROVE  fills'[Len(fills')].maker_order_id <= n.id
  <2>1. CASE n = rest
    BY <1>3, <1>4, <1>5, <1>8, <2>1
  <2>2. CASE n \in RestingOrders
    BY <1>4, <1>6, <1>8, <1>11, <1>13, <2>2
  <2>3. QED
    BY <1>7, <2>1, <2>2
<1>14. QED
  BY <1>10, <1>12, <1>13 DEF FillsInOrder

(* Every step of the book keeps them in order. *)
LEMMA NextFillsInOrder == IndexInv /\ FillsInOrder /\ [Next]_vars => FillsInOrder'
<1> SUFFICES ASSUME IndexInv, FillsInOrder, [Next]_vars PROVE FillsInOrder'
  OBVIOUS
<1>1. ASSUME NEW p \in Prices, FillMaker(p) PROVE FillsInOrder'
  <2>1. PICK m \in Abstract!Candidates : \E q \in 1 .. m.remaining_qty : Abstract!Trade(m, q)
    BY <1>1, FillTrades
  <2>2. PICK q \in 1 .. m.remaining_qty : Abstract!Trade(m, q)
    BY <2>1
  <2>3. QED
    BY <2>2, TradeKeepsOrder
<1>2. ASSUME NEW a \in Accounts, NEW s \in Sides, NEW t \in OrderTypes, NEW p \in Prices,
             NEW q \in Quantities, NEW post \in BOOLEAN, Submit(a, s, t, p, q, post)
      PROVE  FillsInOrder'
  BY <1>2 DEF Submit, FillsInOrder
<1>3. CASE RejectPostOnly \/ FinishMatch
  BY <1>3 DEF RejectPostOnly, AfterRefusal, FinishMatch, FillsInOrder, Idle
<1>4. ASSUME NEW id \in 0 .. MaxOrders, NEW a \in Accounts, Cancel(id, a)
      PROVE  FillsInOrder'
  BY <1>4 DEF Cancel, CancelUnknown, CancelKnown, CancelFound, FillsInOrder, Idle
<1>5. CASE UNCHANGED vars
  BY <1>5 DEF vars, FillsInOrder, Idle, RestingOrders
<1>6. QED
  BY <1>1, <1>2, <1>3, <1>4, <1>5 DEF Next, Match

(* The fills of a match are always in order. *)
LEMMA FillsAlwaysInOrder == Spec => [](IndexInv /\ FillsInOrder)
<1>1. Init => FillsInOrder
  BY DEF Init, FillsInOrder, Idle
<1>2. QED
  BY <1>1, NextFillsInOrder, IndexInvAlways, PTL DEF Spec
=============================================================================

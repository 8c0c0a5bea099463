----------------------------- MODULE OrderBook -----------------------------
(***************************************************************************)
(* One market's order book and the matching engine that works on it        *)
(* (crates/orderbook/src/book.rs, matching.rs and core/types/order.rs).    *)
(*                                                                         *)
(* `match_order` holds `&mut OrderBook` for the whole of a match, so no    *)
(* other operation interleaves with it; its two nested loops are unrolled  *)
(* into one step per fill, between which only the match itself can move    *)
(* (`incoming` holds the order being matched).  Every invariant below is   *)
(* thus also checked in the middle of a match.                             *)
(*                                                                         *)
(* Abstracted: timestamps and time_in_force (stored, never read), fees and *)
(* average price (derived from the fills), the market id.                  *)
(***************************************************************************)
EXTENDS Integers, Sequences, FiniteSets, Functions

CONSTANTS
    Accounts,      \* account ids
    MaxPrice,      \* the largest price (u64::MAX)
    Prices,        \* prices an order may carry
    Quantities,    \* quantities an order may ask for, zero included (u128)
    MaxOrders,     \* bound on the orders ever submitted: the id counter
    NoOrder        \* "no order is being matched"

Sides      == {"Bid", "Ask"}

\* "Stop" stands for StopLoss and TakeProfit, which the engine treats alike.
OrderTypes == {"Limit", "Market", "Stop"}

Order == [id: Nat, account_id: Accounts, side: Sides, order_type: OrderTypes,
          price: Prices, original_qty: Nat, remaining_qty: Nat, post_only: BOOLEAN]

PriceLevel == [orders: Seq(Order), total_quantity: Int]

Fill == [maker_order_id: Nat, taker_order_id: Nat, maker_account_id: Accounts,
         taker_account_id: Accounts, taker_side: Sides, price: Prices, quantity: Nat]

OrderLocation == [side: Sides, price: Prices]

Results == {"None", "Matching", "Ok", "InvalidOrder", "PostOnlyWouldTake", "OrderNotFound"}

ASSUME PricesAssumption     == MaxPrice \in Nat /\ Prices \subseteq 0 .. MaxPrice
ASSUME QuantitiesAssumption == Quantities \subseteq Nat
ASSUME MaxOrdersAssumption  == MaxOrders \in Nat
ASSUME NoOrderAssumption    == NoOrder \notin Order

VARIABLES
    book,             \* the BTreeMaps bids and asks: side -> (price -> level)
    order_locations,  \* the HashMap id -> location of the resting orders
    next_order_id,    \* SystemState.next_order_id
    incoming,         \* the order `match_order` is working on, or NoOrder
    fills,            \* the fills of the current or latest match
    result            \* what the latest call returned

vars == <<book, order_locations, next_order_id, incoming, fills, result>>

-----------------------------------------------------------------------------
(* Helpers on maps, levels and prices *)

Opposite(s) == IF s = "Bid" THEN "Ask" ELSE "Bid"

Larger(a, b)  == IF a <= b THEN b ELSE a                   \* mutant of Smaller
Smaller(a, b) == IF a <= b THEN a ELSE b

\* f is a map with keys in S and values in T.
IsMap(f, S, T) == DOMAIN f \subseteq S /\ f \in [DOMAIN f -> T]

\* A map with the key k set to v, and a map without the key k.
Put(f, k, v) == [x \in DOMAIN f \cup {k} |-> IF x = k THEN v ELSE f[x]]
Drop(f, k)   == [x \in DOMAIN f \ {k} |-> f[x]]

EmptyLevel == [orders |-> <<>>, total_quantity |-> 0]

\* PriceLevel::add_order: at the back, the lowest time priority.
AddToLevelUncounted(level, o) == [level EXCEPT !.orders = Append(@, o)]          \* mutant
AddToLevel(level, o) ==
    [orders         |-> Append(level.orders, o),
     total_quantity |-> level.total_quantity + o.remaining_qty]

\* PriceLevel::remove_order of the order at position i.
RemoveFromLevel(level, i) ==
    [orders         |-> SubSeq(level.orders, 1, i - 1)
                          \o SubSeq(level.orders, i + 1, Len(level.orders)),
     total_quantity |-> level.total_quantity - level.orders[i].remaining_qty]

\* PriceLevel::pop_front.
PopFront(level) ==
    [orders         |-> Tail(level.orders),
     total_quantity |-> level.total_quantity - Head(level.orders).remaining_qty]

\* maker.fill(q) on the front order, in place: the level's total is not told.
FillFront(level, q) ==
    [level EXCEPT !.orders[1].remaining_qty = @ - q]

\* Store a level, or remove its key when it has become empty.
PutLevelAlways(side_of_book, p, level) == Put(side_of_book, p, level)            \* mutant
PutLevel(side_of_book, p, level) ==
    IF level.orders = <<>> THEN Drop(side_of_book, p)
                           ELSE Put(side_of_book, p, level)

\* best_bid is the highest key of bids, best_ask the lowest key of asks.
IsWorst(s, p) ==                                                                 \* mutant
    /\ p \in DOMAIN book[s]
    /\ \A r \in DOMAIN book[s] : IF s = "Bid" THEN p <= r ELSE r <= p
IsBest(s, p) ==
    /\ p \in DOMAIN book[s]
    /\ \A r \in DOMAIN book[s] : IF s = "Bid" THEN r <= p ELSE p <= r

\* can_trade: does order o trade at price p of the other side?
CanTradeStrict(o, p) ==                                                          \* mutant
    \/ o.order_type = "Market"
    \/ o.side = "Bid" /\ o.price > p
    \/ o.side = "Ask" /\ o.price < p
CanTrade(o, p) ==
    \/ o.order_type = "Market"
    \/ o.side = "Bid" /\ o.price >= p
    \/ o.side = "Ask" /\ o.price <= p

-----------------------------------------------------------------------------
(* The loop of match_order *)

Idle == incoming = NoOrder

\* The loop goes on at price p: quantity is left and the best price crosses.
Matchable(p) ==
    /\ ~Idle
    /\ incoming.remaining_qty > 0
    /\ IsBest(Opposite(incoming.side), p)
    /\ CanTrade(incoming, p)

Init ==
    /\ book = [s \in Sides |-> [p \in {} |-> {}]]
    /\ order_locations = [i \in {} |-> {}]
    /\ next_order_id = 0
    /\ incoming = NoOrder
    /\ fills = <<>>
    /\ result = "None"

\* allocate_order_id, to_order and the entry of match_order.
Submit(a, s, t, p, q, post) ==
    /\ Idle
    /\ next_order_id < MaxOrders
    /\ next_order_id' = next_order_id + 1
    /\ fills' = <<>>
    /\ IF q = 0
       THEN /\ result' = "InvalidOrder"
            /\ UNCHANGED incoming
       ELSE /\ result' = "Matching"
            /\ incoming' = [id |-> next_order_id, account_id |-> a, side |-> s,
                            order_type |-> t, price |-> p, original_qty |-> q,
                            remaining_qty |-> q, post_only |-> post]
    /\ UNCHANGED <<book, order_locations>>

\* What the index is once an order has left the book.
IndexUnchanged(id) == order_locations                                            \* mutant
IndexWithout(id) == Drop(order_locations, id)

\* What is left to match once a post-only order has been refused: the call
\* returns.
AfterRefusalLoops == incoming                                                    \* mutant
AfterRefusal == NoOrder

\* A post-only order that would trade at once is refused as a whole.
RejectPostOnly ==
    /\ \E p \in Prices : Matchable(p)
    /\ incoming.post_only
    /\ fills = <<>>
    /\ incoming' = AfterRefusal
    /\ result' = "PostOnlyWouldTake"
    /\ UNCHANGED <<book, order_locations, next_order_id, fills>>

\* One turn of the inner loop: the order at the front of the best level is
\* filled, and leaves the level, the index and the map when it is done.
FillMaker(p) ==
    /\ Matchable(p)
    /\ ~(incoming.post_only /\ fills = <<>>)
    /\ LET s      == Opposite(incoming.side)
           level  == book[s][p]
           maker  == Head(level.orders)
           q      == Smaller(incoming.remaining_qty, maker.remaining_qty)
           filled == FillFront(level, q)
       IN  /\ fills' = Append(fills,
                          [maker_order_id   |-> maker.id,
                           taker_order_id   |-> incoming.id,
                           maker_account_id |-> maker.account_id,
                           taker_account_id |-> incoming.account_id,
                           taker_side       |-> incoming.side,
                           price            |-> p,
                           quantity         |-> q])
           /\ incoming' = [incoming EXCEPT !.remaining_qty = @ - q]
           /\ book' = [book EXCEPT ![s] = PutLevel(@, p,
                         IF maker.remaining_qty = q THEN PopFront(filled) ELSE filled)]
           /\ order_locations' = IF maker.remaining_qty = q
                                 THEN IndexWithout(maker.id)
                                 ELSE order_locations
    /\ UNCHANGED <<next_order_id, result>>

\* OrderBook::add_order, of what the loop has left of a limit order.
Rest ==
    LET s == incoming.side
        p == incoming.price
        level == IF p \in DOMAIN book[s] THEN book[s][p] ELSE EmptyLevel
    IN  /\ book' = [book EXCEPT ![s] = Put(@, p, AddToLevel(level, incoming))]
        /\ order_locations' = Put(order_locations, incoming.id, [side |-> s, price |-> p])

\* Only the rest of a limit order stays in the book.
MayRestUnlessMarket(o) == o.remaining_qty > 0 /\ o.order_type # "Market"         \* mutant
MayRest(o) == o.remaining_qty > 0 /\ o.order_type = "Limit"

\* The loop is over: rest what is left of a limit order, drop any other rest.
FinishMatch ==
    /\ ~Idle
    /\ ~ \E p \in Prices : Matchable(p)
    /\ IF MayRest(incoming)
       THEN Rest
       ELSE UNCHANGED <<book, order_locations>>
    /\ incoming' = NoOrder
    /\ result' = "Ok"
    /\ UNCHANGED <<next_order_id, fills>>

Match == RejectPostOnly \/ FinishMatch \/ \E p \in Prices : FillMaker(p)

-----------------------------------------------------------------------------
(* Cancelling *)

\* get_order: the index leads to position i of the level (s, p).
FoundAt(id, s, p, i) ==
    /\ id \in DOMAIN order_locations
    /\ order_locations[id] = [side |-> s, price |-> p]
    /\ p \in DOMAIN book[s]
    /\ i \in DOMAIN book[s][p].orders
    /\ book[s][p].orders[i].id = id

CancelUnknown(id) ==
    /\ Idle
    /\ ~ \E s \in Sides, p \in Prices :
            p \in DOMAIN book[s] /\ \E i \in DOMAIN book[s][p].orders : FoundAt(id, s, p, i)
    /\ result' = "OrderNotFound"
    /\ UNCHANGED <<book, order_locations, next_order_id, incoming, fills>>

\* MatchingEngine::cancel_order of an order that is found at (s, p, i): only
\* its owner takes it out of the index, the level and an emptied map key.
CancelFound(id, a, s, p, i) ==
    /\ Idle
    /\ FoundAt(id, s, p, i)
    /\ IF book[s][p].orders[i].account_id = a
       THEN /\ book' = [book EXCEPT ![s] = PutLevel(@, p, RemoveFromLevel(@[p], i))]
            /\ order_locations' = IndexWithout(id)
            /\ result' = "Ok"
       ELSE /\ result' = "InvalidOrder"
            /\ UNCHANGED <<book, order_locations>>
    /\ UNCHANGED <<next_order_id, incoming, fills>>

CancelKnown(id, a) ==
    \E s \in Sides : \E p \in DOMAIN book[s] : \E i \in DOMAIN book[s][p].orders :
        CancelFound(id, a, s, p, i)

Cancel(id, a) == CancelUnknown(id) \/ CancelKnown(id, a)

Next ==
    \/ \E a \in Accounts, s \in Sides, t \in OrderTypes, p \in Prices,
          q \in Quantities, post \in BOOLEAN : Submit(a, s, t, p, q, post)
    \/ Match
    \/ \E id \in 0 .. MaxOrders, a \in Accounts : Cancel(id, a)

Spec == Init /\ [][Next]_vars

\* match_order runs to its end once it is called.
FairSpec == Spec /\ WF_vars(Match)
-----------------------------------------------------------------------------
(* Properties *)

\* Every variable has the shape of the Rust value it stands for.
TypeOK ==
    /\ book = [s \in Sides |-> book[s]]
    /\ \A s \in Sides : IsMap(book[s], Prices, PriceLevel)
    /\ IsMap(order_locations, Nat, OrderLocation)
    /\ next_order_id \in Nat
    /\ incoming \in Order \cup {NoOrder}
    /\ fills \in Seq(Fill)
    /\ result \in Results

\* Order o may rest in level (s, p).
RestsWell(o, s, p) ==
    /\ o.side = s
    /\ o.price = p
    /\ o.order_type = "Limit"
    /\ 0 < o.remaining_qty
    /\ o.id < next_order_id
    /\ ~Idle => o.id < incoming.id

\* No level is left empty in the map (best_bid and best_ask read its keys, and
\* match_order unwraps the front of the level it finds there), and a level
\* holds only live limit orders of its own side and price, older than the
\* order that is being matched.
LevelsWellFormed ==
    \A s \in Sides : \A p \in DOMAIN book[s] :
        /\ book[s][p].orders # <<>>
        /\ \A i \in DOMAIN book[s][p].orders : RestsWell(book[s][p].orders[i], s, p)

\* The order being matched has been given the latest id.
IncomingIsNewest == ~Idle => incoming.id < next_order_id

\* Within a level the orders stand in the order of their ids, hence of arrival,
\* and none stands there twice.
TimeOrdered(orders) ==
    \A i, j \in DOMAIN orders : i < j => orders[i].id < orders[j].id

\* The index and the levels agree both ways, through fills, rests and cancels:
\* a resting order is found where the index says, once and nowhere else, behind
\* those that came before it.
IndexMatchesBook ==
    /\ \A s \in Sides : \A p \in DOMAIN book[s] :
         /\ TimeOrdered(book[s][p].orders)
         /\ \A i \in DOMAIN book[s][p].orders :
              LET o == book[s][p].orders[i]
              IN  /\ o.id \in DOMAIN order_locations
                  /\ order_locations[o.id] = [side |-> s, price |-> p]
    /\ \A id \in DOMAIN order_locations :
         LET l == order_locations[id]
         IN  /\ l.side \in Sides
             /\ l.price \in DOMAIN book[l.side]
             /\ \E i \in DOMAIN book[l.side][l.price].orders :
                   book[l.side][l.price].orders[i].id = id

\* The best bid is always below the best ask: what match_order leaves to rest
\* could not trade any more, also when the book changed under a partial fill.
NoCrossedBook ==
    \A b \in DOMAIN book["Bid"], a \in DOMAIN book["Ask"] : b < a

RestingQuantity(level) ==
    SumFunction([i \in DOMAIN level.orders |-> level.orders[i].remaining_qty])

\* A level's total never falls below what rests in it, so that the unsigned
\* subtractions of remove_order and pop_front cannot underflow.
LevelTotalCovers ==
    \A s \in Sides : \A p \in DOMAIN book[s] :
        book[s][p].total_quantity >= RestingQuantity(book[s][p])

\* Price-time priority: no fill is made with a maker while a resting order of
\* the same side has a better price, or the same price and an earlier id.
FirstInPriority(m, s) ==
    \E p \in DOMAIN book[s] :
        /\ \E i \in DOMAIN book[s][p].orders : book[s][p].orders[i].id = m
        /\ \A r \in DOMAIN book[s] : \A j \in DOMAIN book[s][r].orders :
             \/ r = p /\ m <= book[s][r].orders[j].id
             \/ IF s = "Bid" THEN r < p ELSE p < r

PriceTimePriority ==
    [][ fills' # fills /\ fills' # <<>> =>
          LET f == fills'[Len(fills')]
          IN  FirstInPriority(f.maker_order_id, Opposite(f.taker_side)) ]_vars

RestingOrders ==
    UNION {UNION {{book[s][p].orders[i] : i \in DOMAIN book[s][p].orders}
                    : p \in DOMAIN book[s]} : s \in Sides}

\* The levels, queues and index implement a plain set of orders served by
\* price, then time: every step of the engine is a step of PriorityBook.
Abstract == INSTANCE PriorityBook WITH resting <- RestingOrders
ImplementsPriorityBook == Abstract!BookSpec

\* Every call of match_order returns: each turn of its loops consumes quantity.
MatchTerminates == ~Idle ~> Idle
=============================================================================

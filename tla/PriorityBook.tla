---------------------------- MODULE PriorityBook ----------------------------
(***************************************************************************)
(* What a market promises its traders, without levels, queues, maps or an  *)
(* index: the resting orders are a set; an arriving order trades with the  *)
(* resting order of the other side that has the best price and, at that    *)
(* price, the earliest id, again and again until nothing left in the set   *)
(* can trade with it; only then may the rest of a limit order join the     *)
(* set.  OrderBook is shown to implement this specification.               *)
(***************************************************************************)
EXTENDS Integers, Sequences

CONSTANTS Accounts, Prices, Quantities, NoOrder

VARIABLES
    resting,        \* the set of orders that wait in the book
    next_order_id,  \* ids are given out in the order of arrival
    incoming,       \* the order that is trading, or NoOrder
    fills,          \* its trades so far
    result          \* the answer to the latest request

bookVars == <<resting, next_order_id, incoming, fills, result>>

Crosses(o, m) ==
    /\ o.side # m.side
    /\ \/ o.order_type = "Market"
       \/ o.side = "Bid" /\ m.price <= o.price
       \/ o.side = "Ask" /\ o.price <= m.price

\* Order m is served before order n of the same side.
Before(m, n) ==
    \/ m.side = "Bid" /\ n.price < m.price
    \/ m.side = "Ask" /\ m.price < n.price
    \/ m.price = n.price /\ m.id <= n.id

Candidates == IF incoming = NoOrder \/ incoming.remaining_qty = 0 THEN {}
              ELSE {m \in resting : Crosses(incoming, m)}

BookInit ==
    /\ resting = {}
    /\ next_order_id = 0
    /\ incoming = NoOrder
    /\ fills = <<>>
    /\ result = "None"

Arrive(o) ==
    /\ incoming = NoOrder
    /\ o.id = next_order_id
    /\ o.remaining_qty = o.original_qty
    /\ next_order_id' = next_order_id + 1
    /\ fills' = <<>>
    /\ \/ o.original_qty = 0 /\ result' = "InvalidOrder" /\ incoming' = NoOrder
       \/ o.original_qty > 0 /\ result' = "Matching" /\ incoming' = o
    /\ UNCHANGED resting

Refuse ==
    /\ Candidates # {}
    /\ incoming.post_only /\ fills = <<>>
    /\ incoming' = NoOrder
    /\ result' = "PostOnlyWouldTake"
    /\ UNCHANGED <<resting, next_order_id, fills>>

\* A trade at the maker's price that exhausts one of the two orders.
Trade(m, q) ==
    /\ m \in Candidates
    /\ \A n \in Candidates : Before(m, n)
    /\ ~(incoming.post_only /\ fills = <<>>)
    /\ q <= m.remaining_qty /\ q <= incoming.remaining_qty
    /\ q = m.remaining_qty \/ q = incoming.remaining_qty
    /\ resting' = (resting \ {m}) \cup
          {n \in {[m EXCEPT !.remaining_qty = @ - q]} : n.remaining_qty > 0}
    /\ incoming' = [incoming EXCEPT !.remaining_qty = @ - q]
    /\ fills' = Append(fills,
          [maker_order_id |-> m.id, taker_order_id |-> incoming.id,
           maker_account_id |-> m.account_id, taker_account_id |-> incoming.account_id,
           taker_side |-> incoming.side, price |-> m.price, quantity |-> q])
    /\ UNCHANGED <<next_order_id, result>>

Done ==
    /\ incoming # NoOrder
    /\ Candidates = {}
    /\ resting' = resting \cup
          {o \in {incoming} : o.remaining_qty > 0 /\ o.order_type = "Limit"}
    /\ incoming' = NoOrder
    /\ result' = "Ok"
    /\ UNCHANGED <<next_order_id, fills>>

Withdraw(m) ==
    /\ incoming = NoOrder
    /\ m \in resting
    /\ resting' = resting \ {m}
    /\ result' = "Ok"
    /\ UNCHANGED <<next_order_id, incoming, fills>>

Decline ==
    /\ incoming = NoOrder
    /\ result' \in {"InvalidOrder", "OrderNotFound"}
    /\ UNCHANGED <<resting, next_order_id, incoming, fills>>

BookNext ==
    \/ \E a \in Accounts, s \in {"Bid", "Ask"}, t \in {"Limit", "Market", "Stop"},
          p \in Prices, q \in Quantities, b \in BOOLEAN :
          Arrive([id |-> next_order_id, account_id |-> a, side |-> s, order_type |-> t,
                  price |-> p, original_qty |-> q, remaining_qty |-> q, post_only |-> b])
    \/ Refuse
    \/ \E m \in Candidates : \E q \in 1 .. m.remaining_qty : Trade(m, q)
    \/ Done
    \/ \E m \in resting : Withdraw(m)
    \/ Decline

BookSpec == BookInit /\ [][BookNext]_bookVars
=============================================================================

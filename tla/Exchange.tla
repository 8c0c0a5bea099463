------------------------------ MODULE Exchange ------------------------------
(***************************************************************************)
(* GlobalState (state/src/lib.rs) of one market: accounts with a USDC      *)
(* balance and a nonce, positions and the oracle price around the order    *)
(* book of module OrderBook, and the account leaves of the hypertree.      *)
(*                                                                         *)
(* A transaction holds `&mut GlobalState` until it returns.  All but       *)
(* process_place_order are one step; that one locks the margin, matches    *)
(* step by step in the book, settles one fill per step and finishes, and   *)
(* `placing` keeps every other transaction out meanwhile.  A transaction   *)
(* that is refused before it has changed anything is no step.              *)
(*                                                                         *)
(* Decimals are abstracted to the units they are divided by.  PnL that a   *)
(* decrease returns is dropped by every caller; leverage, funding and the  *)
(* liquidation price are stored and never read.                            *)
(***************************************************************************)
EXTENDS Integers, Sequences, FiniteSets, Functions

CONSTANTS
    Accounts, MaxPrice, Prices, Quantities, MaxOrders, NoOrder,  \* as in OrderBook
    Requests,         \* the orders that clients send
    Amounts,          \* amounts of deposits and withdrawals
    MaxNonce,         \* bound on the transactions of an account
    BpsUnit,          \* 10_000: one, in basis points
    QtyUnit,          \* 10^18: one, in quantities
    PnlUnit,          \* 10^26, what unrealized_pnl divides by
    InitialMarginBps,
    MaintenanceMarginBps,
    RebateBps,        \* what a maker is paid
    TakerFeeBps,
    NoOne             \* no order is being placed

VARIABLES
    book, order_locations, next_order_id, incoming, fills, result,  \* OrderBook
    balances,        \* account -> Balance in USDC, once there is one
    nonces,          \* account -> nonce, of the accounts created so far
    positions,       \* account -> Position, once it has taken an order
    oracle_price,
    tree_accounts,   \* the account leaves of the hypertree
    tree_positions,  \* its position leaves
    placing,         \* the account whose process_place_order runs, or NoOne
    settled,         \* how many of its fills process_fill has settled
    net_taken        \* history: signed quantity taken since the last liquidation

bookVars == <<book, order_locations, next_order_id, incoming, fills, result>>
treeVars == <<tree_accounts, tree_positions>>
vars     == <<bookVars, balances, nonces, positions, oracle_price, treeVars,
              placing, settled, net_taken>>

Book == INSTANCE OrderBook

Request == [side : Book!Sides, order_type : Book!OrderTypes, price : Prices,
            quantity : Quantities, post_only : BOOLEAN]

ASSUME BookAssumption     ==
    /\ MaxPrice \in Nat /\ Prices \subseteq 0 .. MaxPrice
    /\ Quantities \subseteq Nat /\ MaxOrders \in Nat
    /\ NoOrder \notin Book!Order
ASSUME RequestsAssumption == Requests \subseteq Request
ASSUME AmountsAssumption  == Amounts \subseteq Nat /\ MaxNonce \in Nat
ASSUME UnitsAssumption    == {BpsUnit, QtyUnit, PnlUnit} \subseteq Nat \ {0}
ASSUME RatesAssumption    ==
    {InitialMarginBps, MaintenanceMarginBps, RebateBps, TakerFeeBps} \subseteq Nat
ASSUME NoOneAssumption    == NoOne \notin Accounts

-----------------------------------------------------------------------------
(* Market: margin and fees *)

MarginRoundedUp(q, p) ==  \* mutant
    (q * p * InitialMarginBps + BpsUnit * QtyUnit - 1) \div (BpsUnit * QtyUnit)
Margin(q, p) == (q * p * InitialMarginBps) \div (BpsUnit * QtyUnit)

Notional(q, p)    == (q * p) \div QtyUnit
MakerRebate(q, p) == (Notional(q, p) * RebateBps) \div BpsUnit
TakerFee(q, p)    == (Notional(q, p) * TakerFeeBps) \div BpsUnit

-----------------------------------------------------------------------------
(* Balance: an amount that is not there leaves the balance as it is *)

EmptyBalance == [free |-> 0, locked |-> 0]

BalanceOf(bs, a) == IF a \in DOMAIN bs THEN bs[a] ELSE EmptyBalance

Credit(b, m)       == [b EXCEPT !.free = @ + m]
DebitUnchecked(b, m) == [b EXCEPT !.free = @ - m]  \* mutant
Debit(b, m)        == IF b.free >= m THEN [b EXCEPT !.free = @ - m] ELSE b
Lock(b, m)         == [free |-> b.free - m, locked |-> b.locked + m]
Unlock(b, m)       == IF b.locked >= m THEN [free |-> b.free + m, locked |-> b.locked - m]
                                       ELSE b
DeductLocked(b, m) == IF b.locked >= m THEN [b EXCEPT !.locked = @ - m] ELSE b

Total(b) == b.free + b.locked

-----------------------------------------------------------------------------
(* Position *)

NoPosition == [side |-> "None", size |-> 0, entry_price |-> 0, margin |-> 0]

Open(pos, side, q, p) == [pos EXCEPT !.side = side, !.size = q, !.entry_price = p]

\* increase, at the weighted average price, with no margin added.
IncreaseOldSize(pos, q, p) ==  \* mutant
    [pos EXCEPT !.size = @ + q, !.entry_price = (pos.size * @ + q * p) \div pos.size]
Increase(pos, q, p) ==
    [pos EXCEPT !.size = @ + q,
                !.entry_price = (pos.size * @ + q * p) \div (pos.size + q)]

\* decrease: the margin shrinks with the size; size zero closes.
Decrease(pos, q) ==
    IF q >= pos.size
    THEN NoPosition
    ELSE [pos EXCEPT !.size = @ - q, !.margin = @ - (@ * q) \div pos.size]

\* update_position_from_fill: open, increase, reduce, close or flip.
TradeNoFlip(pos, side, q, p) ==  \* mutant
    IF pos.side = "None" THEN Open(pos, side, q, p)
    ELSE IF pos.side = side THEN Increase(pos, q, p)
    ELSE Decrease(pos, q)
Trade(pos, side, q, p) ==
    IF pos.side = "None" THEN Open(pos, side, q, p)
    ELSE IF pos.side = side THEN Increase(pos, q, p)
    ELSE IF q > pos.size THEN Open(NoPosition, side, q - pos.size, p)
    ELSE Decrease(pos, q)

\* How far the position is in profit at a price, before it is scaled.
Gain(pos, mark) ==
    IF pos.side = "Long" THEN (mark - pos.entry_price) * pos.size
                         ELSE (pos.entry_price - mark) * pos.size

Equity(pos, mark) ==
    IF Gain(pos, mark) >= 0
    THEN pos.margin + Gain(pos, mark) \div PnlUnit
    ELSE LET loss == (-Gain(pos, mark)) \div PnlUnit
         IN  IF pos.margin >= loss THEN pos.margin - loss ELSE 0

\* margin_ratio, cast to u16.
MarginRatioOfNothing(pos, mark) ==  \* mutant
    IF pos.side = "None" \/ pos.size = 0 \/ Notional(pos.size, mark) = 0
    THEN 0
    ELSE ((Equity(pos, mark) * BpsUnit) \div Notional(pos.size, mark)) % 2^16
MarginRatio(pos, mark) ==
    IF pos.side = "None" \/ pos.size = 0 \/ Notional(pos.size, mark) = 0
    THEN BpsUnit
    ELSE ((Equity(pos, mark) * BpsUnit) \div Notional(pos.size, mark)) % 2^16

IsLiquidatable(pos, mark) == MarginRatio(pos, mark) < MaintenanceMarginBps

-----------------------------------------------------------------------------

Init ==
    /\ Book!Init
    /\ balances = [a \in {} |-> EmptyBalance]
    /\ nonces = [a \in {} |-> 0]
    /\ positions = [a \in {} |-> NoPosition]
    /\ oracle_price \in Prices
    /\ tree_accounts = [a \in {} |-> EmptyBalance]
    /\ tree_positions = [a \in {} |-> NoPosition]
    /\ placing = NoOne
    /\ settled = 0
    /\ net_taken = [a \in Accounts |-> 0]

Ready == placing = NoOne

\* verify_nonce and increment_nonce of a transaction that is not refused.
NextNonce(a) == [nonces EXCEPT ![a] = @ + 1]

MaySend(a) == Ready /\ a \in DOMAIN nonces /\ nonces[a] < MaxNonce

\* hypertree.insert_account for the accounts in S, of their new state.
Leaf(a) == [nonce |-> nonces'[a], balance |-> BalanceOf(balances', a)]
InsertAccounts(S) ==
    tree_accounts' = [a \in DOMAIN tree_accounts \cup S |->
                        IF a \in S THEN Leaf(a) ELSE tree_accounts[a]]

\* allocate_account_id gives out 0, 1, 2, ...
CreateAccount(a) ==
    /\ Ready
    /\ a = Cardinality(DOMAIN nonces)
    /\ nonces' = Book!Put(nonces, a, 0)
    /\ UNCHANGED balances
    /\ InsertAccounts({a})
    /\ UNCHANGED <<bookVars, positions, tree_positions, oracle_price, placing, settled, net_taken>>

Deposit(a, m) ==
    /\ MaySend(a)
    /\ balances' = Book!Put(balances, a, Credit(BalanceOf(balances, a), m))
    /\ nonces' = NextNonce(a)
    /\ InsertAccounts({a})
    /\ UNCHANGED <<bookVars, positions, tree_positions, oracle_price, placing, settled, net_taken>>

Withdraw(a, m) ==
    /\ MaySend(a)
    /\ a \in DOMAIN balances
    /\ balances[a].free >= m
    /\ balances' = [balances EXCEPT ![a] = Debit(@, m)]
    /\ nonces' = NextNonce(a)
    /\ InsertAccounts({a})
    /\ UNCHANGED <<bookVars, positions, tree_positions, oracle_price, placing, settled, net_taken>>

-----------------------------------------------------------------------------
(* process_place_order *)

\* The margin is locked at the order's own price, then match_order is entered.
\* An order of quantity zero is refused there, with its id spent.
PlaceOrder(a, r) ==
    LET required == Margin(r.quantity, r.price)
    IN  /\ MaySend(a)
        /\ a \in DOMAIN balances
        /\ balances[a].free >= required
        /\ balances' = [balances EXCEPT ![a] = Lock(@, required)]
        /\ Book!Submit(a, r.side, r.order_type, r.price, r.quantity, r.post_only)
        /\ placing' = IF result' = "Matching" THEN a ELSE NoOne
        /\ settled' = 0
        /\ UNCHANGED <<nonces, positions, oracle_price, treeVars, net_taken>>

MatchFill ==
    /\ \E p \in Prices : Book!FillMaker(p)
    /\ UNCHANGED <<balances, nonces, positions, oracle_price, treeVars, placing,
                   settled, net_taken>>

\* MatchingError: process_place_order returns, the margin stays locked.
MatchRefused ==
    /\ Book!RejectPostOnly
    /\ placing' = NoOne
    /\ UNCHANGED <<balances, nonces, positions, oracle_price, treeVars, settled,
                   net_taken>>

MatchDone ==
    /\ Book!FinishMatch
    /\ UNCHANGED <<balances, nonces, positions, oracle_price, treeVars, placing,
                   settled, net_taken>>

Settling == ~Ready /\ Book!Idle

\* process_fill: the maker gets margin and rebate, the taker pays the fee and
\* gets the position.
Settled(f) ==
    LET m == [balances EXCEPT ![f.maker_account_id] =
                Credit(Unlock(@, Margin(f.quantity, f.price)), MakerRebate(f.quantity, f.price))]
    IN  [m EXCEPT ![f.taker_account_id] = Debit(@, TakerFee(f.quantity, f.price))]

PositionOf(a) == IF a \in DOMAIN positions THEN positions[a] ELSE NoPosition

TakenSide(f) == IF f.taker_side = "Bid" THEN "Long" ELSE "Short"
Signed(side, q) == IF side = "Long" THEN q ELSE -q

\* hypertree.insert_position and remove_position.
InsertPosition(a) == tree_positions' = Book!Put(tree_positions, a, positions'[a])
RemovePosition(a) == tree_positions' = Book!Drop(tree_positions, a)

SettleFill ==
    LET f == fills[settled + 1]
        t == f.taker_account_id
    IN  /\ Settling
        /\ settled < Len(fills)
        /\ balances' = Settled(f)
        /\ positions' = Book!Put(positions, t,
                                 Trade(PositionOf(t), TakenSide(f), f.quantity, f.price))
        /\ InsertPosition(t)
        /\ net_taken' = [net_taken EXCEPT ![t] = @ + Signed(TakenSide(f), f.quantity)]
        /\ settled' = settled + 1
        /\ UNCHANGED <<bookVars, nonces, oracle_price, tree_accounts, placing>>

\* The accounts whose leaves are written when an order has been placed.
AffectedTaker == {placing}  \* mutant
Affected == {placing} \cup {fills[i].maker_account_id : i \in DOMAIN fills}

FinishPlace ==
    /\ Settling
    /\ settled = Len(fills)
    /\ nonces' = NextNonce(placing)
    /\ UNCHANGED balances
    /\ InsertAccounts(Affected)
    /\ placing' = NoOne
    /\ UNCHANGED <<bookVars, positions, tree_positions, oracle_price, settled, net_taken>>

-----------------------------------------------------------------------------
(* The other transactions *)

\* What a cancelled order releases.
Released(o) == Margin(o.remaining_qty, o.price)

CancelOrder(a, id) ==
    /\ MaySend(a)
    /\ a \in DOMAIN balances
    /\ \E s \in Book!Sides : \E p \in DOMAIN book[s] : \E i \in DOMAIN book[s][p].orders :
          /\ book[s][p].orders[i].account_id = a
          /\ Book!CancelFound(id, a, s, p, i)
          /\ balances' = [balances EXCEPT ![a] = Unlock(@, Released(book[s][p].orders[i]))]
    /\ nonces' = NextNonce(a)
    /\ InsertAccounts({a})
    /\ UNCHANGED <<positions, tree_positions, oracle_price, placing, settled, net_taken>>

\* The position is closed first; margin and bonus are what that has left of it.
\* No nonce is checked, and any liquidator will do.
Liquidate(l, a) ==
    /\ Ready
    /\ l \in DOMAIN nonces => nonces[l] < MaxNonce
    /\ a \in DOMAIN positions
    /\ IsLiquidatable(positions[a], oracle_price)
    /\ LET closed == Decrease(positions[a], positions[a].size)
           bonus  == closed.margin \div 10
           lost   == closed.margin - bonus
           after  == [balances EXCEPT ![a] = DeductLocked(@, lost)]
       IN  /\ positions' = [positions EXCEPT ![a] = closed]
           /\ IF l \in DOMAIN nonces
              THEN /\ balances' = Book!Put(after, l, Credit(BalanceOf(after, l), bonus))
                   /\ nonces' = NextNonce(l)
              ELSE /\ balances' = after
                   /\ UNCHANGED nonces
    /\ InsertAccounts({a, l} \cap DOMAIN nonces)
    /\ RemovePosition(a)
    /\ net_taken' = [net_taken EXCEPT ![a] = 0]
    /\ UNCHANGED <<bookVars, oracle_price, placing, settled>>

\* The oracle price is in no tree.
UpdateOracle(p) ==
    /\ Ready
    /\ oracle_price' = p
    /\ UNCHANGED <<bookVars, balances, nonces, positions, treeVars, placing, settled,
                   net_taken>>

Next ==
    \/ \E a \in Accounts :
          \/ CreateAccount(a)
          \/ \E m \in Amounts : Deposit(a, m) \/ Withdraw(a, m)
          \/ \E r \in Requests : PlaceOrder(a, r)
          \/ \E id \in 0 .. MaxOrders : CancelOrder(a, id)
          \/ \E l \in Accounts : Liquidate(l, a)
    \/ MatchFill \/ MatchRefused \/ MatchDone \/ SettleFill \/ FinishPlace
    \/ \E p \in Prices : UpdateOracle(p)

Spec == Init /\ [][Next]_vars
-----------------------------------------------------------------------------
(* What holds *)

Balance  == [free : Nat, locked : Nat]
Position == [side : {"None", "Long", "Short"}, size : Nat, entry_price : Nat, margin : Nat]

\* Every variable has the shape of the Rust value it stands for.
TypeOK ==
    /\ Book!TypeOK
    /\ DOMAIN nonces \subseteq Accounts /\ nonces \in [DOMAIN nonces -> 0 .. MaxNonce]
    /\ DOMAIN balances \subseteq DOMAIN nonces /\ balances \in [DOMAIN balances -> Balance]
    /\ DOMAIN positions \subseteq DOMAIN balances
    /\ positions \in [DOMAIN positions -> Position]
    /\ oracle_price \in Prices
    /\ tree_accounts \in [DOMAIN nonces -> [nonce : 0 .. MaxNonce, balance : Balance]]
    /\ tree_positions \in [DOMAIN tree_positions -> Position]
    /\ placing \in DOMAIN nonces \cup {NoOne}
    /\ settled \in 0 .. Len(fills)
    /\ net_taken \in [Accounts -> Int]

\* The orders in the book and the one that is being matched.
Live == Book!RestingOrders \cup (IF Book!Idle THEN {} ELSE {incoming})

\* The margin of account a's live orders, and of those of its fills as a maker
\* that process_fill has not come to.
MarginOfOrders(a) ==
    SumFunction([o \in {n \in Live : n.account_id = a} |-> Margin(o.remaining_qty, o.price)])
MarginOfFills(a) ==
    SumFunction([i \in {j \in settled + 1 .. Len(fills) :
                            ~Ready /\ fills[j].maker_account_id = a}
                    |-> Margin(fills[i].quantity, fills[i].price)])

\* The locked balance covers the margin of all open orders, in the middle of a
\* match too: rounding the margin of every part of an order on its own never
\* releases more than was locked for the whole, so that no unlock is ever
\* refused - process_fill and process_cancel_order do not look at the answer.
LockedCoversOrders ==
    \A a \in DOMAIN balances :
        balances[a].locked >= MarginOfOrders(a) + MarginOfFills(a)

NetPosition(a) ==
    LET pos == PositionOf(a)
    IN  IF pos.side = "None" THEN 0 ELSE Signed(pos.side, pos.size)

\* A position is the net of what its account took from the book since it was
\* last liquidated, through opening, increasing, reducing, closing and flipping.
PositionIsNetTaken ==
    \A a \in Accounts : NetPosition(a) = net_taken[a]

\* A position without a side has no size, entry price or margin, and an open one
\* has a size, by which decrease divides, and an entry price in the range of
\* the prices.
PositionsWellFormed ==
    \A a \in DOMAIN positions :
        IF positions[a].side = "None"
        THEN positions[a] = NoPosition
        ELSE /\ positions[a].size > 0
             /\ \E p, r \in Prices : p <= positions[a].entry_price /\ positions[a].entry_price <= r

\* Between transactions the hypertree has the nonce and the whole balance of
\* every account, also of the makers that an order traded with, and every open
\* position as it is.  Only how much of a balance is locked may be out of date,
\* by the margin of a refused order, and a position that was closed by a trade
\* keeps an empty leaf.
TreeHasTotals ==
    Ready =>
        /\ \A a \in DOMAIN nonces :
              /\ tree_accounts[a].nonce = nonces[a]
              /\ Total(tree_accounts[a].balance) = Total(BalanceOf(balances, a))
        /\ \A a \in DOMAIN tree_positions : tree_positions[a] = positions[a]
        /\ \A a \in DOMAIN positions \ DOMAIN tree_positions : positions[a] = NoPosition
=============================================================================

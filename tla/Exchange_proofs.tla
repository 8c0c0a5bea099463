--------------------------- MODULE Exchange_proofs ---------------------------
(***************************************************************************)
(* Proofs about Exchange and about the guest that verifies it, for any     *)
(* accounts, requests, prices, quantities and rates: types, the positions, *)
(* the leaves of the hypertree, and the locked balances, which cover the   *)
(* margin of what is still open; and in the last part that the guest       *)
(* passes whatever the exchange executes and asks for no less than the     *)
(* exchange does.  The order book of the exchange is the one of OrderBook, *)
(* so that what OrderBook_proofs shows of its steps is used here as it     *)
(* stands.                                                                 *)
(***************************************************************************)
EXTENDS Guest, Sums_proofs, TLAPS

(* The proofs about the book, of the book's variables here. *)
BookProofs == INSTANCE OrderBook_proofs

(* What a division of a natural by a positive number gives. *)
LEMMA QuotientIsNat ==
    ASSUME NEW x \in Nat, NEW n \in Nat \ {0}
    PROVE  x \div n \in Nat
  OBVIOUS

(* Products of naturals, which the solver is told one at a time. *)
LEMMA ProductIsNat ==
    ASSUME NEW x \in Nat, NEW y \in Nat
    PROVE  x * y \in Nat
  OBVIOUS

LEMMA ProductIsPositive ==
    ASSUME NEW x \in Nat \ {0}, NEW y \in Nat \ {0}
    PROVE  x * y \in Nat \ {0}
  OBVIOUS

(* A quotient lies between two bounds if the dividend lies between their
   products with the divisor. *)
LEMMA QuotientBetween ==
    ASSUME NEW x \in Nat, NEW n \in Nat \ {0}, NEW lo \in Nat, NEW hi \in Nat,
           lo * n <= x, x <= hi * n
    PROVE  lo <= x \div n /\ x \div n <= hi
<1>1. x \div n \in Nat
  BY QuotientIsNat
<1> DEFINE d == x \div n
<1>2. d * n <= x /\ x < d * n + n
  OBVIOUS
<1> HIDE DEF d
<1>3. d \in Nat
  BY <1>1 DEF d
<1>4. ASSUME d + 1 <= lo PROVE FALSE
  <2>1. (d + 1) * n <= lo * n
    BY <1>3, <1>4
  <2>2. QED
    BY <1>2, <1>3, <2>1
<1>5. ASSUME hi + 1 <= d PROVE FALSE
  <2>1. (hi + 1) * n <= d * n
    BY <1>3, <1>5
  <2>2. QED
    BY <1>2, <1>3, <2>1
<1>6. QED
  BY <1>3, <1>4, <1>5 DEF d

(* The weighted average of two prices, rounded down, lies between any bounds of
   the two: the entry price after Position::increase. *)
LEMMA WeightedAverage ==
    ASSUME NEW s \in Nat \ {0}, NEW e \in Nat, NEW q \in Nat, NEW p \in Nat,
           NEW lo \in Nat, NEW hi \in Nat, lo <= e, e <= hi, lo <= p, p <= hi
    PROVE  LET avg == (s * e + q * p) \div (s + q)
           IN  avg \in Nat /\ lo <= avg /\ avg <= hi
<1>1. s * lo <= s * e /\ s * e <= s * hi
  OBVIOUS
<1>2. q * lo <= q * p /\ q * p <= q * hi
  OBVIOUS
<1>3. lo * (s + q) = s * lo + q * lo /\ hi * (s + q) = s * hi + q * hi
  OBVIOUS
<1>4. s * e \in Nat /\ q * p \in Nat /\ s + q \in Nat \ {0} /\ s * lo \in Nat /\ q * lo \in Nat
      /\ s * hi \in Nat /\ q * hi \in Nat
  OBVIOUS
<1> DEFINE x == s * e + q * p
<1>5. x \in Nat /\ lo * (s + q) <= x /\ x <= hi * (s + q)
  BY <1>1, <1>2, <1>3, <1>4
<1> HIDE DEF x
<1>6. x \div (s + q) \in Nat /\ lo <= x \div (s + q) /\ x \div (s + q) <= hi
  BY <1>4, <1>5, QuotientIsNat, QuotientBetween
<1>7. QED
  BY <1>6 DEF x

LEMMA PricesAreNat == Prices \subseteq Nat
  BY BookAssumption

(* Margin, rebate and fee of any trade are amounts. *)
LEMMA MoneyIsNat ==
    ASSUME NEW q \in Nat, NEW p \in Nat
    PROVE  Margin(q, p) \in Nat /\ MakerRebate(q, p) \in Nat /\ TakerFee(q, p) \in Nat
<1>1. /\ BpsUnit \in Nat \ {0} /\ QtyUnit \in Nat \ {0}
      /\ InitialMarginBps \in Nat /\ RebateBps \in Nat /\ TakerFeeBps \in Nat
  BY UnitsAssumption, RatesAssumption
<1>2. q * p \in Nat
  BY ProductIsNat
<1>3. Margin(q, p) \in Nat
  <2>1. q * p * InitialMarginBps \in Nat /\ BpsUnit * QtyUnit \in Nat \ {0}
    BY <1>1, <1>2, ProductIsNat, ProductIsPositive
  <2>2. QED
    BY <2>1, QuotientIsNat DEF Margin
<1>4. Notional(q, p) \in Nat
  BY <1>1, <1>2, QuotientIsNat DEF Notional
<1>5. Notional(q, p) * RebateBps \in Nat /\ Notional(q, p) * TakerFeeBps \in Nat
  BY <1>1, <1>4, ProductIsNat
<1>6. QED
  BY <1>1, <1>3, <1>5, QuotientIsNat DEF MakerRebate, TakerFee

(* No operation on a balance makes a part of it negative, and locking and
   unlocking keep the whole. *)
LEMMA BalanceOperations ==
    ASSUME NEW b \in Balance, NEW m \in Nat
    PROVE  /\ Credit(b, m) \in Balance
           /\ Debit(b, m) \in Balance
           /\ Unlock(b, m) \in Balance /\ Total(Unlock(b, m)) = Total(b)
           /\ DeductLocked(b, m) \in Balance
           /\ b.free >= m => Lock(b, m) \in Balance /\ Total(Lock(b, m)) = Total(b)
  BY DEF Balance, Credit, Debit, Unlock, DeductLocked, Lock, Total

(* A position as PositionsWellFormed wants it.  None ever gets a margin, which
   decrease would have to divide. *)
WellFormed(pos) ==
    /\ pos \in Position
    /\ pos.margin = 0
    /\ IF pos.side = "None"
       THEN pos = NoPosition
       ELSE /\ pos.size > 0
            /\ \E p, r \in Prices : p <= pos.entry_price /\ pos.entry_price <= r

(* The signed size of a position. *)
Net(pos) == IF pos.side = "None" THEN 0 ELSE Signed(pos.side, pos.size)

LEMMA NoPositionWellFormed == WellFormed(NoPosition) /\ Net(NoPosition) = 0
  BY DEF WellFormed, NoPosition, Position, Net

(* A trade keeps a position well formed and moves its net size by what was
   traded, whether it opens, increases, reduces, closes or flips. *)
LEMMA TradeNetsOut ==
    ASSUME NEW pos, WellFormed(pos), NEW side \in {"Long", "Short"},
           NEW q \in Nat \ {0}, NEW p \in Prices
    PROVE  WellFormed(Trade(pos, side, q, p))
           /\ Net(Trade(pos, side, q, p)) = Net(pos) + Signed(side, q)
<1> DEFINE new == Trade(pos, side, q, p)
<1>1. p \in Nat /\ pos \in Position /\ pos.size \in Nat /\ pos.entry_price \in Nat
      /\ pos.side \in {"None", "Long", "Short"} /\ pos.margin = 0
  BY PricesAreNat DEF WellFormed, Position
<1>2. CASE pos.side = "None"
  <2>1. new = [side |-> side, size |-> q, entry_price |-> p, margin |-> 0]
    BY <1>1, <1>2 DEF Trade, Open, Position
  <2>2. Net(pos) = 0
    BY <1>2 DEF Net
  <2> HIDE DEF new
  <2>3. QED
    BY <1>1, <2>1, <2>2 DEF WellFormed, Position, Net, Signed, new
<1>3. CASE pos.side # "None" /\ pos.side = side
  <2> DEFINE e == (pos.size * pos.entry_price + q * p) \div (pos.size + q)
  <2>1. new = [side |-> side, size |-> pos.size + q, entry_price |-> e, margin |-> 0]
    BY <1>1, <1>3 DEF Trade, Increase, Position
  <2>2. PICK a, b \in Prices : a <= pos.entry_price /\ pos.entry_price <= b
    BY <1>3 DEF WellFormed
  <2>3. a \in Nat /\ b \in Nat /\ pos.size \in Nat \ {0}
    BY <1>1, <1>3, PricesAreNat DEF WellFormed
  <2>4. PICK lo, hi \in Prices : /\ lo <= pos.entry_price /\ pos.entry_price <= hi
                                 /\ lo <= p /\ p <= hi
    <3>1. \E lo \in Prices : lo <= pos.entry_price /\ lo <= p
      BY <1>1, <2>2, <2>3
    <3>2. \E hi \in Prices : pos.entry_price <= hi /\ p <= hi
      BY <1>1, <2>2, <2>3
    <3>3. QED
      BY <3>1, <3>2
  <2>5. lo \in Nat /\ hi \in Nat
    BY PricesAreNat
  <2>6. e \in Nat /\ lo <= e /\ e <= hi
    BY <1>1, <2>3, <2>4, <2>5, WeightedAverage
  <2>7. Net(pos) = Signed(side, pos.size)
    BY <1>3 DEF Net
  <2> HIDE DEF e, new
  <2>8. WellFormed(new)
    <3>1. pos.size + q \in Nat /\ pos.size + q > 0
      BY <1>1
    <3>2. QED
      BY <2>1, <2>6, <3>1 DEF WellFormed, Position
  <2>9. Net(new) = Net(pos) + Signed(side, q)
    BY <1>1, <2>1, <2>7 DEF Net, Signed
  <2>10. QED
    BY <2>8, <2>9 DEF new
<1>4. CASE pos.side # "None" /\ pos.side # side /\ q > pos.size
  <2>1. new = [side |-> side, size |-> q - pos.size, entry_price |-> p, margin |-> 0]
    BY <1>1, <1>4 DEF Trade, Open, NoPosition
  <2>2. Net(pos) = Signed(pos.side, pos.size)
    BY <1>4 DEF Net
  <2>3. q - pos.size \in Nat /\ q - pos.size > 0
    BY <1>1, <1>4
  <2> HIDE DEF new
  <2>4. WellFormed(new)
    BY <1>1, <2>1, <2>3 DEF WellFormed, Position
  <2>5. Net(new) = Net(pos) + Signed(side, q)
    BY <1>1, <1>4, <2>1, <2>2 DEF Net, Signed
  <2>6. QED
    BY <2>4, <2>5 DEF new
<1>5. CASE pos.side # "None" /\ pos.side # side /\ q = pos.size
  <2>1. new = NoPosition
    BY <1>1, <1>5 DEF Trade, Decrease
  <2>2. Net(pos) + Signed(side, q) = 0
    BY <1>1, <1>5 DEF Net, Signed
  <2>3. QED
    BY <2>1, <2>2, NoPositionWellFormed
<1>6. CASE pos.side # "None" /\ pos.side # side /\ q < pos.size
  <2>1. pos.margin - (pos.margin * q) \div pos.size = 0
    <3>1. pos.margin * q = 0 /\ 0 \div pos.size = 0
      BY <1>1, <1>6
    <3>2. QED
      BY <1>1, <3>1
  <2>2. new = [pos EXCEPT !.size = @ - q, !.margin = 0]
    <3>1. new = [pos EXCEPT !.size = @ - q, !.margin = @ - (@ * q) \div pos.size]
      BY <1>1, <1>6 DEF Trade, Decrease
    <3>2. [pos EXCEPT !.size = @ - q, !.margin = @ - (@ * q) \div pos.size]
             = [pos EXCEPT !.size = @ - q, !.margin = 0]
      BY <2>1
    <3>3. QED
      BY <3>1, <3>2
  <2>3. pos.size - q \in Nat /\ pos.size - q > 0
    BY <1>1, <1>6
  <2> HIDE DEF new
  <2>4. WellFormed(new)
    BY <1>1, <1>6, <2>2, <2>3 DEF WellFormed, Position
  <2>5. Net(new) = Net(pos) + Signed(side, q)
    BY <1>1, <1>6, <2>2 DEF Net, Signed, Position
  <2>6. QED
    BY <2>4, <2>5 DEF new
<1>7. QED
  BY <1>1, <1>2, <1>3, <1>4, <1>5, <1>6

-----------------------------------------------------------------------------

(* The book, and the order that is being placed: its fills are trades of the
   account that places it with accounts that have a balance, and nothing is
   settled before the match is over. *)
MatchInv ==
    /\ BookProofs!BookInv
    /\ BookProofs!OwnedIn(DOMAIN balances)
    /\ \A i \in DOMAIN fills : /\ fills[i].quantity > 0
                               /\ fills[i].maker_account_id \in DOMAIN balances
    /\ settled \in 0 .. Len(fills)
    /\ Ready => Book!Idle
    /\ ~Ready => /\ placing \in DOMAIN balances
                 /\ nonces[placing] < MaxNonce
                 /\ \A i \in DOMAIN fills : fills[i].taker_account_id = placing
    /\ ~Book!Idle => incoming.account_id = placing /\ settled = 0

(* What the invariant of the book says in the names of the instance here. *)
LEMMA BookTypes ==
    ASSUME BookProofs!BookInv
    PROVE  /\ Book!TypeOK
           /\ fills \in Seq(Book!Fill)
           /\ incoming \in Book!Order \cup {NoOrder}
<1>1. BookProofs!TypeOK
  BY DEF BookProofs!BookInv
<1>2. Book!TypeOK
  BY <1>1 DEF BookProofs!TypeOK, BookProofs!IsMap, BookProofs!PriceLevel, BookProofs!Order,
       BookProofs!OrderLocation, BookProofs!Fill, BookProofs!Results, BookProofs!Sides,
       BookProofs!OrderTypes, Book!TypeOK, Book!IsMap, Book!PriceLevel, Book!Order,
       Book!OrderLocation, Book!Fill, Book!Results, Book!Sides, Book!OrderTypes
<1>3. QED
  BY <1>2 DEF Book!TypeOK

(* The assumptions of the book's proofs follow from those of Exchange. *)
LEMMA BookAssumed ==
    /\ MaxPrice \in Nat /\ Prices \subseteq 0 .. MaxPrice
    /\ Quantities \subseteq Nat /\ MaxOrders \in Nat
    /\ NoOrder \notin BookProofs!Order
  BY BookAssumption DEF Book!Order, Book!Sides, Book!OrderTypes, BookProofs!Order,
                        BookProofs!Sides, BookProofs!OrderTypes

(* The operations of the book, as the transactions call them, are those that the
   proofs about the book are about. *)
LEMMA SameSubmit ==
    ASSUME NEW a, NEW r \in Request,
           Book!Submit(a, r.side, r.order_type, r.price, r.quantity, r.post_only)
    PROVE  \E s \in BookProofs!Sides, t \in BookProofs!OrderTypes, p \in Prices,
              q \in Quantities, post \in BOOLEAN :
              /\ s = r.side /\ t = r.order_type /\ p = r.price /\ q = r.quantity
              /\ BookProofs!Submit(a, s, t, p, q, post)
<1>1. PICK s \in BookProofs!Sides, t \in BookProofs!OrderTypes, p \in Prices,
           q \in Quantities, post \in BOOLEAN :
         s = r.side /\ t = r.order_type /\ p = r.price /\ q = r.quantity /\ post = r.post_only
  BY DEF Request, Book!Sides, Book!OrderTypes, BookProofs!Sides, BookProofs!OrderTypes
<1>2. BookProofs!Submit(a, s, t, p, q, post)
  BY <1>1 DEF Book!Submit, Book!Idle, BookProofs!Submit, BookProofs!Idle
<1>3. QED
  BY <1>1, <1>2

LEMMA SameReject == Book!RejectPostOnly => BookProofs!RejectPostOnly
  BY DEF Book!RejectPostOnly, Book!Matchable, Book!Idle, Book!IsBest, Book!Opposite,
         Book!CanTrade, Book!AfterRefusal, BookProofs!RejectPostOnly, BookProofs!Matchable,
         BookProofs!Idle, BookProofs!IsBest, BookProofs!Opposite, BookProofs!CanTrade,
         BookProofs!AfterRefusal

LEMMA SameFill ==
    ASSUME NEW p \in Prices, Book!FillMaker(p)
    PROVE  BookProofs!FillMaker(p)
  BY DEF Book!FillMaker, Book!Matchable, Book!Idle, Book!IsBest, Book!Opposite,
         Book!CanTrade, Book!PutLevel, Book!Put, Book!Drop, Book!FillFront, Book!PopFront,
         Book!Smaller, Book!IndexWithout, BookProofs!FillMaker, BookProofs!Matchable,
         BookProofs!Idle, BookProofs!IsBest, BookProofs!Opposite, BookProofs!CanTrade,
         BookProofs!PutLevel, BookProofs!Put, BookProofs!Drop, BookProofs!FillFront,
         BookProofs!PopFront, BookProofs!Smaller, BookProofs!IndexWithout

LEMMA SameFinish == Book!FinishMatch => BookProofs!FinishMatch
  BY DEF Book!FinishMatch, Book!Matchable, Book!Idle, Book!IsBest, Book!Opposite,
         Book!CanTrade, Book!MayRest, Book!Rest, Book!Put, Book!AddToLevel,
         Book!EmptyLevel, BookProofs!FinishMatch, BookProofs!Matchable, BookProofs!Idle,
         BookProofs!IsBest, BookProofs!Opposite, BookProofs!CanTrade, BookProofs!MayRest,
         BookProofs!Rest, BookProofs!Put, BookProofs!AddToLevel, BookProofs!EmptyLevel

LEMMA SameCancel ==
    ASSUME NEW id, NEW a, NEW s \in Book!Sides, NEW p, NEW i, Book!CancelFound(id, a, s, p, i)
    PROVE  BookProofs!CancelFound(id, a, s, p, i) /\ s \in BookProofs!Sides
  BY DEF Book!CancelFound, Book!Idle, Book!FoundAt, Book!PutLevel, Book!Put, Book!Drop,
         Book!RemoveFromLevel, Book!IndexWithout, Book!Sides, BookProofs!CancelFound,
         BookProofs!Idle, BookProofs!FoundAt, BookProofs!PutLevel, BookProofs!Put,
         BookProofs!Drop, BookProofs!RemoveFromLevel, BookProofs!IndexWithout,
         BookProofs!Sides

(* What the transactions thus keep of the book. *)
LEMMA BookStutters ==
    ASSUME BookProofs!BookInv, UNCHANGED bookVars
    PROVE  BookProofs!BookInv'
  BY BookAssumed, BookProofs!NextBookInv DEF BookProofs!vars, bookVars

LEMMA BookSubmits ==
    ASSUME BookProofs!BookInv, NEW a \in Accounts, NEW r \in Request,
           Book!Submit(a, r.side, r.order_type, r.price, r.quantity, r.post_only)
    PROVE  BookProofs!BookInv'
<1>1. PICK s \in BookProofs!Sides, t \in BookProofs!OrderTypes, p \in Prices,
           q \in Quantities, post \in BOOLEAN : BookProofs!Submit(a, s, t, p, q, post)
  BY SameSubmit
<1>2. QED
  BY <1>1, BookAssumed, BookProofs!SubmitStep

LEMMA BookRefuses ==
    ASSUME BookProofs!BookInv, Book!RejectPostOnly
    PROVE  BookProofs!BookInv'
  BY SameReject, BookAssumed, BookProofs!RejectStep

LEMMA BookFills ==
    ASSUME BookProofs!BookInv, NEW S, BookProofs!OwnedIn(S), NEW p \in Prices,
           Book!FillMaker(p)
    PROVE  BookProofs!BookInv' /\ BookProofs!FillTaken(S)
<1>1. BookProofs!FillMaker(p)
  BY SameFill
<1>2. BookProofs!BookInv'
  BY <1>1, BookAssumed, BookProofs!FillStep
<1>3. BookProofs!FillTaken(S)
  BY <1>1, BookAssumed, BookProofs!FillMakerTakes
<1>4. QED
  BY <1>2, <1>3

LEMMA BookFinishes ==
    ASSUME BookProofs!BookInv, NEW S, BookProofs!OwnedIn(S), incoming.account_id \in S,
           Book!FinishMatch
    PROVE  BookProofs!BookInv' /\ BookProofs!OwnedIn(S)'
<1>1. BookProofs!FinishMatch
  BY SameFinish
<1>2. BookProofs!BookInv'
  BY <1>1, BookAssumed, BookProofs!FinishStep
<1>3. BookProofs!OwnedIn(S)'
  BY <1>1, BookAssumed, BookProofs!OwnersAfterFinish
<1>4. QED
  BY <1>2, <1>3

LEMMA BookCancels ==
    ASSUME BookProofs!BookInv, NEW S, BookProofs!OwnedIn(S), NEW a \in Accounts,
           NEW id \in 0 .. MaxOrders, NEW s \in Book!Sides, NEW p \in DOMAIN book[s],
           NEW i \in DOMAIN book[s][p].orders, Book!CancelFound(id, a, s, p, i)
    PROVE  BookProofs!BookInv' /\ BookProofs!OwnedIn(S)'
<1>1. BookProofs!CancelFound(id, a, s, p, i) /\ s \in BookProofs!Sides
  BY SameCancel
<1>2. BookProofs!BookInv'
  BY <1>1, BookAssumed, BookProofs!CancelFoundStep
<1>3. BookProofs!OwnedIn(S)'
  BY <1>1, BookAssumed, BookProofs!OwnersAfterCancel
<1>4. QED
  BY <1>2, <1>3

(* Steps that leave the book alone keep it when accounts only gain balances. *)
LEMMA MatchKept ==
    ASSUME MatchInv, UNCHANGED bookVars, DOMAIN balances \subseteq DOMAIN balances',
           settled' \in 0 .. Len(fills), Book!Idle \/ settled' = settled,
           \/ placing' = NoOne /\ Book!Idle
           \/ placing' = placing /\ (Ready \/ UNCHANGED nonces)
    PROVE  MatchInv'
<1>1. UNCHANGED <<book, incoming, fills>>
  BY DEF bookVars
<1>2. BookProofs!BookInv'
  BY BookStutters DEF MatchInv
<1>3. BookProofs!OwnedIn(DOMAIN balances)'
  BY <1>1 DEF MatchInv, BookProofs!OwnedIn
<1>4. QED
  BY <1>1, <1>2, <1>3 DEF MatchInv, Ready, Book!Idle

(* The entry of process_place_order: no fills yet, and the account that waits for
   the match is the one whose order is in flight. *)
LEMMA MatchPlaces ==
    ASSUME MatchInv, NEW a \in Accounts, NEW r \in Requests, PlaceOrder(a, r)
    PROVE  MatchInv'
<1>1. /\ a \in DOMAIN balances /\ nonces[a] < MaxNonce
      /\ Book!Submit(a, r.side, r.order_type, r.price, r.quantity, r.post_only)
      /\ placing' = IF result' = "Matching" THEN a ELSE NoOne
      /\ settled' = 0 /\ DOMAIN balances' = DOMAIN balances /\ UNCHANGED nonces
  BY DEF PlaceOrder, MaySend
<1>2. r \in Request
  BY RequestsAssumption
<1>3. BookProofs!BookInv'
  BY <1>1, <1>2, BookSubmits DEF MatchInv
<1>4. UNCHANGED book /\ fills' = <<>>
  BY <1>1 DEF Book!Submit
<1>5. BookProofs!OwnedIn(DOMAIN balances)'
  BY <1>1, <1>4 DEF MatchInv, BookProofs!OwnedIn
<1>6. /\ Ready' => Book!Idle'
      /\ ~Book!Idle' => incoming'.account_id = placing'
  <2>1. CASE r.quantity = 0
    BY <1>1, <2>1 DEF Book!Submit, Book!Idle
  <2>2. CASE r.quantity # 0
    <3>1. placing' = a /\ incoming'.account_id = a
      BY <1>1, <2>2 DEF Book!Submit
    <3>2. a # NoOne
      BY NoOneAssumption
    <3>3. QED
      BY <3>1, <3>2 DEF Ready
  <2>3. QED
    BY <2>1, <2>2
<1>7. ~Ready' => placing' = a
  BY <1>1 DEF Ready
<1>8. DOMAIN fills' = {} /\ Len(fills') = 0
  BY <1>4
<1>9. QED
  BY <1>1, <1>3, <1>5, <1>6, <1>7, <1>8 DEF MatchInv

(* A fill is of a positive quantity, with a maker that has a balance, for the
   account that is placing. *)
LEMMA MatchFills ==
    ASSUME MatchInv, MatchFill
    PROVE  MatchInv'
<1>1. PICK p \in Prices : Book!FillMaker(p)
  BY DEF MatchFill
<1>2. UNCHANGED <<balances, nonces, placing, settled>>
  BY DEF MatchFill
<1>3. PICK S : S = DOMAIN balances
  OBVIOUS
<1>4. BookProofs!BookInv /\ BookProofs!OwnedIn(S)
  BY <1>3 DEF MatchInv
<1>5. BookProofs!BookInv' /\ BookProofs!FillTaken(S)
  BY <1>1, <1>4, BookFills
<1>6. BookProofs!OwnedIn(DOMAIN balances)'
  BY <1>2, <1>3, <1>5 DEF BookProofs!FillTaken, BookProofs!OwnedIn
<1>7. ~Book!Idle
  BY <1>1 DEF Book!FillMaker, Book!Matchable
<1>8. ~Ready /\ settled = 0 /\ placing = incoming.account_id
  BY <1>7 DEF MatchInv
<1>9. ~Ready'
  BY <1>2, <1>8 DEF Ready
<1>10. incoming'.account_id = placing
  BY <1>5, <1>8 DEF BookProofs!FillTaken
<1>11. PICK f \in Book!Fill : /\ fills' = Append(fills, f)
                              /\ f.quantity > 0 /\ f.maker_account_id \in S
                              /\ f.taker_account_id = placing
  BY <1>5, <1>8 DEF BookProofs!FillTaken, BookProofs!Fill, BookProofs!Sides, Book!Fill, Book!Sides
<1>12. fills \in Seq(Book!Fill)
  BY BookTypes DEF MatchInv
<1>13. /\ \A i \in DOMAIN fills' : (i \in DOMAIN fills /\ fills'[i] = fills[i]) \/ fills'[i] = f
       /\ Len(fills') \in Nat
  BY <1>11, <1>12
<1>14. \A i \in DOMAIN fills' : /\ fills'[i].quantity > 0
                                /\ fills'[i].maker_account_id \in DOMAIN balances
                                /\ fills'[i].taker_account_id = placing
  BY <1>3, <1>8, <1>11, <1>13 DEF MatchInv
<1>15. QED
  BY <1>2, <1>5, <1>6, <1>8, <1>9, <1>10, <1>13, <1>14 DEF MatchInv

(* The end of a match, refused or done, and a cancel. *)
LEMMA MatchIsRefused ==
    ASSUME MatchInv, MatchRefused
    PROVE  MatchInv'
<1>1. Book!RejectPostOnly /\ placing' = NoOne /\ UNCHANGED <<balances, settled>>
  BY DEF MatchRefused
<1>2. UNCHANGED <<book, fills>> /\ Book!Idle'
  BY <1>1 DEF Book!RejectPostOnly, Book!AfterRefusal, Book!Idle
<1>3. BookProofs!BookInv'
  BY <1>1, BookRefuses DEF MatchInv
<1>4. BookProofs!OwnedIn(DOMAIN balances)'
  BY <1>1, <1>2 DEF MatchInv, BookProofs!OwnedIn
<1>5. QED
  BY <1>1, <1>2, <1>3, <1>4 DEF MatchInv, Ready

LEMMA MatchIsDone ==
    ASSUME MatchInv, MatchDone
    PROVE  MatchInv'
<1>1. Book!FinishMatch /\ UNCHANGED <<balances, nonces, placing, settled>>
  BY DEF MatchDone
<1>2. ~Book!Idle /\ Book!Idle' /\ UNCHANGED fills
  BY <1>1 DEF Book!FinishMatch, Book!Idle
<1>3. PICK S : S = DOMAIN balances
  OBVIOUS
<1>4. /\ BookProofs!BookInv /\ BookProofs!OwnedIn(S)
      /\ ~Ready /\ incoming.account_id = placing /\ placing \in S
  BY <1>2, <1>3 DEF MatchInv
<1>5. BookProofs!BookInv' /\ BookProofs!OwnedIn(S)'
  BY <1>1, <1>4, BookFinishes
<1>6. BookProofs!OwnedIn(DOMAIN balances)'
  BY <1>1, <1>3, <1>5 DEF BookProofs!OwnedIn
<1>7. QED
  BY <1>1, <1>2, <1>4, <1>5, <1>6 DEF MatchInv, Ready

LEMMA MatchCancels ==
    ASSUME MatchInv, NEW a \in Accounts, NEW id \in 0 .. MaxOrders, NEW s \in Book!Sides,
           NEW p \in DOMAIN book[s], NEW i \in DOMAIN book[s][p].orders, Ready,
           Book!CancelFound(id, a, s, p, i), DOMAIN balances' = DOMAIN balances,
           UNCHANGED <<placing, settled>>
    PROVE  MatchInv'
<1>1. PICK S : S = DOMAIN balances
  OBVIOUS
<1>2. BookProofs!BookInv /\ BookProofs!OwnedIn(S)
  BY <1>1 DEF MatchInv
<1>3. BookProofs!BookInv' /\ BookProofs!OwnedIn(S)'
  BY <1>2, BookCancels
<1>4. BookProofs!OwnedIn(DOMAIN balances)'
  BY <1>1, <1>3 DEF BookProofs!OwnedIn
<1>5. Book!Idle /\ UNCHANGED <<incoming, fills>>
  BY DEF Book!CancelFound
<1>6. QED
  BY <1>3, <1>4, <1>5 DEF MatchInv, Ready, Book!Idle

-----------------------------------------------------------------------------

(* The leaf of an account has its nonce and the whole of its balance. *)
LeafMatches(a) ==
    /\ tree_accounts[a].nonce = nonces[a]
    /\ Total(tree_accounts[a].balance) = Total(BalanceOf(balances, a))

(* Accounts and their leaves.  Until the first fill is settled every leaf matches,
   and after that those of the accounts that will be written at the end may not. *)
LedgerInv ==
    /\ DOMAIN nonces \subseteq Accounts /\ nonces \in [DOMAIN nonces -> 0 .. MaxNonce]
    /\ DOMAIN balances \subseteq DOMAIN nonces /\ balances \in [DOMAIN balances -> Balance]
    /\ tree_accounts \in [DOMAIN nonces -> [nonce : 0 .. MaxNonce, balance : Balance]]
    /\ \A a \in DOMAIN nonces : Ready \/ settled = 0 \/ a \notin Affected => LeafMatches(a)

LEMMA BalanceIsBalance ==
    ASSUME NEW bs, bs \in [DOMAIN bs -> Balance], NEW a
    PROVE  BalanceOf(bs, a) \in Balance
  BY DEF BalanceOf, EmptyBalance, Balance

(* Writing the leaves of the accounts in S keeps the ledger, if those of the
   others match and nothing of theirs changed. *)
LEMMA LedgerWritten ==
    ASSUME LedgerInv, NEW S, InsertAccounts(S),
           DOMAIN nonces' = DOMAIN nonces \cup S, DOMAIN nonces' \subseteq Accounts,
           nonces' \in [DOMAIN nonces' -> 0 .. MaxNonce],
           DOMAIN balances' \subseteq DOMAIN nonces',
           balances' \in [DOMAIN balances' -> Balance],
           \A a \in DOMAIN nonces \ S :
              /\ LeafMatches(a)
              /\ nonces'[a] = nonces[a]
              /\ BalanceOf(balances', a) = BalanceOf(balances, a)
    PROVE  LedgerInv'
<1>1. PICK bs, ns : bs = balances' /\ ns = nonces'
  OBVIOUS
<1>2. tree_accounts' = [a \in DOMAIN tree_accounts \cup S |->
                          IF a \in S THEN [nonce |-> ns[a], balance |-> BalanceOf(bs, a)]
                                     ELSE tree_accounts[a]]
  BY <1>1 DEF InsertAccounts, Leaf
<1>3. /\ DOMAIN tree_accounts = DOMAIN nonces
      /\ \A a \in DOMAIN nonces : tree_accounts[a] \in [nonce : 0 .. MaxNonce, balance : Balance]
  BY DEF LedgerInv
<1>4. \A a \in S : BalanceOf(bs, a) \in Balance /\ ns[a] \in 0 .. MaxNonce
  BY <1>1, BalanceIsBalance
<1>5. tree_accounts' \in [DOMAIN ns -> [nonce : 0 .. MaxNonce, balance : Balance]]
  BY <1>1, <1>2, <1>3, <1>4
<1>6. ASSUME NEW a \in DOMAIN ns
      PROVE  /\ tree_accounts'[a].nonce = ns[a]
             /\ Total(tree_accounts'[a].balance) = Total(BalanceOf(bs, a))
  <2>1. CASE a \in S
    BY <1>1, <1>2, <2>1
  <2>2. CASE a \notin S
    <3>1. a \in DOMAIN nonces /\ tree_accounts'[a] = tree_accounts[a]
      BY <1>1, <1>2, <1>3, <2>2
    <3>2. LeafMatches(a) /\ ns[a] = nonces[a] /\ BalanceOf(bs, a) = BalanceOf(balances, a)
      BY <1>1, <2>2, <3>1
    <3>3. QED
      BY <3>1, <3>2 DEF LeafMatches
  <2>3. QED
    BY <2>1, <2>2
<1>7. \A a \in DOMAIN nonces' : LeafMatches(a)'
  BY <1>1, <1>6 DEF LeafMatches
<1>8. QED
  BY <1>1, <1>5, <1>7 DEF LedgerInv

LEMMA LedgerAllMatch ==
    ASSUME LedgerInv, Ready \/ settled = 0
    PROVE  \A a \in DOMAIN nonces : LeafMatches(a)
  BY DEF LedgerInv

(* The transactions of the ledger write the leaf of their account. *)
LEMMA LedgerCreates ==
    ASSUME LedgerInv, NEW a \in Accounts, CreateAccount(a)
    PROVE  LedgerInv'
<1>1. Ready /\ nonces' = Book!Put(nonces, a, 0) /\ UNCHANGED balances /\ InsertAccounts({a})
  BY DEF CreateAccount
<1>2. /\ DOMAIN nonces' = DOMAIN nonces \cup {a}
      /\ \A x \in DOMAIN nonces' : nonces'[x] = IF x = a THEN 0 ELSE nonces[x]
      /\ nonces' \in [DOMAIN nonces' -> 0 .. MaxNonce]
  BY <1>1, AmountsAssumption DEF Book!Put, LedgerInv
<1>3. \A x \in DOMAIN nonces \ {a} : LeafMatches(x)
  BY <1>1, LedgerAllMatch
<1>4. /\ DOMAIN balances \subseteq DOMAIN nonces'
      /\ balances \in [DOMAIN balances -> Balance] /\ DOMAIN nonces' \subseteq Accounts
  BY <1>2 DEF LedgerInv
<1>5. PICK S : S = {a}
  OBVIOUS
<1>6. InsertAccounts(S)
  BY <1>1, <1>5
<1>7. QED
  BY <1>1, <1>2, <1>3, <1>4, <1>5, <1>6, LedgerWritten

LEMMA NonceIncremented ==
    ASSUME LedgerInv, NEW a \in DOMAIN nonces, nonces[a] < MaxNonce, nonces' = NextNonce(a)
    PROVE  /\ DOMAIN nonces' = DOMAIN nonces /\ DOMAIN nonces' \subseteq Accounts
           /\ nonces' \in [DOMAIN nonces' -> 0 .. MaxNonce]
           /\ \A x \in DOMAIN nonces \ {a} : nonces'[x] = nonces[x]
  BY AmountsAssumption DEF LedgerInv, NextNonce

LEMMA LedgerDeposits ==
    ASSUME LedgerInv, NEW a \in Accounts, NEW m \in Amounts, Deposit(a, m)
    PROVE  LedgerInv'
<1>1. /\ Ready /\ a \in DOMAIN nonces /\ nonces[a] < MaxNonce /\ nonces' = NextNonce(a)
      /\ balances' = Book!Put(balances, a, Credit(BalanceOf(balances, a), m))
      /\ InsertAccounts({a})
  BY DEF Deposit, MaySend
<1>2. PICK b \in Balance : b = Credit(BalanceOf(balances, a), m)
  <2>1. BalanceOf(balances, a) \in Balance /\ m \in Nat
    BY BalanceIsBalance, AmountsAssumption DEF LedgerInv
  <2>2. QED
    BY <2>1, BalanceOperations
<1>3. /\ DOMAIN balances' = DOMAIN balances \cup {a}
      /\ balances' \in [DOMAIN balances' -> Balance]
      /\ \A x \in DOMAIN nonces \ {a} : BalanceOf(balances', x) = BalanceOf(balances, x)
  BY <1>1, <1>2 DEF Book!Put, LedgerInv, BalanceOf
<1>4. \A x \in DOMAIN nonces \ {a} : LeafMatches(x)
  BY <1>1, LedgerAllMatch
<1>5. /\ DOMAIN nonces' = DOMAIN nonces /\ DOMAIN nonces' \subseteq Accounts
      /\ nonces' \in [DOMAIN nonces' -> 0 .. MaxNonce]
      /\ \A x \in DOMAIN nonces \ {a} : nonces'[x] = nonces[x]
  BY <1>1, NonceIncremented
<1>6. DOMAIN balances' \subseteq DOMAIN nonces'
  BY <1>1, <1>3, <1>5 DEF LedgerInv
<1>7. PICK S : S = {a}
  OBVIOUS
<1>8. InsertAccounts(S)
  BY <1>1, <1>7
<1>9. QED
  BY <1>1, <1>3, <1>4, <1>5, <1>6, <1>7, <1>8, LedgerWritten

(* Any change of the balance of one account, whose leaf is written. *)
LEMMA LedgerUpdates ==
    ASSUME LedgerInv, NEW a \in DOMAIN balances, Ready, nonces[a] < MaxNonce,
           nonces' = NextNonce(a), NEW b \in Balance, balances' = [balances EXCEPT ![a] = b],
           InsertAccounts({a})
    PROVE  LedgerInv'
<1>1. a \in DOMAIN nonces
  BY DEF LedgerInv
<1>2. /\ DOMAIN balances' = DOMAIN balances
      /\ balances' \in [DOMAIN balances' -> Balance]
      /\ \A x \in DOMAIN nonces \ {a} : BalanceOf(balances', x) = BalanceOf(balances, x)
  BY DEF LedgerInv, BalanceOf
<1>3. \A x \in DOMAIN nonces \ {a} : LeafMatches(x)
  BY LedgerAllMatch
<1>4. /\ DOMAIN nonces' = DOMAIN nonces /\ DOMAIN nonces' \subseteq Accounts
      /\ nonces' \in [DOMAIN nonces' -> 0 .. MaxNonce]
      /\ \A x \in DOMAIN nonces \ {a} : nonces'[x] = nonces[x]
  BY <1>1, NonceIncremented
<1>5. DOMAIN balances' \subseteq DOMAIN nonces'
  BY <1>1, <1>2, <1>4 DEF LedgerInv
<1>6. PICK S : S = {a}
  OBVIOUS
<1>7. InsertAccounts(S)
  BY <1>6
<1>8. QED
  BY <1>1, <1>2, <1>3, <1>4, <1>5, <1>6, <1>7, LedgerWritten

LEMMA LedgerWithdraws ==
    ASSUME LedgerInv, NEW a \in Accounts, NEW m \in Amounts, Withdraw(a, m)
    PROVE  LedgerInv'
<1>1. /\ Ready /\ a \in DOMAIN balances /\ nonces[a] < MaxNonce /\ nonces' = NextNonce(a)
      /\ balances' = [balances EXCEPT ![a] = Debit(@, m)] /\ InsertAccounts({a})
  BY DEF Withdraw, MaySend
<1>2. PICK b \in Balance : b = Debit(balances[a], m)
  BY <1>1, BalanceOperations, AmountsAssumption DEF LedgerInv
<1>3. balances' = [balances EXCEPT ![a] = b]
  BY <1>1, <1>2
<1>4. QED
  BY <1>1, <1>3, LedgerUpdates

LEMMA LedgerCancels ==
    ASSUME LedgerInv, MatchInv, NEW a \in Accounts, NEW s \in Book!Sides,
           NEW p \in DOMAIN book[s], NEW i \in DOMAIN book[s][p].orders,
           Ready, a \in DOMAIN balances, nonces[a] < MaxNonce, nonces' = NextNonce(a),
           balances' = [balances EXCEPT ![a] = Unlock(@, Released(book[s][p].orders[i]))],
           InsertAccounts({a})
    PROVE  LedgerInv'
<1>1. book[s][p].orders[i] \in Book!Order
  <2>1. Book!TypeOK
    BY BookTypes DEF MatchInv
  <2>2. book[s][p].orders \in Seq(Book!Order)
    BY <2>1 DEF Book!TypeOK, Book!IsMap, Book!PriceLevel
  <2>3. QED
    BY <2>2
<1>2. PICK m \in Nat : m = Released(book[s][p].orders[i])
  BY <1>1, MoneyIsNat, PricesAreNat DEF Book!Order, Released
<1>3. PICK b \in Balance : b = Unlock(balances[a], m)
  BY BalanceOperations DEF LedgerInv
<1>4. balances' = [balances EXCEPT ![a] = b]
  BY <1>2, <1>3
<1>5. QED
  BY <1>4, LedgerUpdates

LEMMA LedgerKept ==
    ASSUME LedgerInv, UNCHANGED <<balances, nonces, tree_accounts>>, Ready \/ settled = 0
    PROVE  LedgerInv'
<1>1. \A a \in DOMAIN nonces' : LeafMatches(a)'
  BY LedgerAllMatch DEF LeafMatches
<1>2. QED
  BY <1>1 DEF LedgerInv

(* Locking the margin changes no total, so that the leaves still match although
   none is written. *)
LEMMA LedgerPlaces ==
    ASSUME LedgerInv, NEW a \in Accounts, NEW r \in Requests, PlaceOrder(a, r)
    PROVE  LedgerInv'
<1>1. /\ Ready /\ a \in DOMAIN balances /\ UNCHANGED <<nonces, tree_accounts>>
      /\ balances[a].free >= Margin(r.quantity, r.price)
      /\ balances' = [balances EXCEPT ![a] = Lock(@, Margin(r.quantity, r.price))]
  BY DEF PlaceOrder, MaySend, treeVars
<1>2. r.quantity \in Nat /\ r.price \in Nat
  BY RequestsAssumption, BookAssumption, PricesAreNat DEF Request
<1>3. PICK m \in Nat : m = Margin(r.quantity, r.price)
  BY <1>2, MoneyIsNat
<1>4. PICK b \in Balance : b = Lock(balances[a], m) /\ Total(b) = Total(balances[a])
  BY <1>1, <1>3, BalanceOperations DEF LedgerInv
<1>5. /\ DOMAIN balances' = DOMAIN balances
      /\ balances' \in [DOMAIN balances' -> Balance]
      /\ \A x \in DOMAIN nonces : Total(BalanceOf(balances', x)) = Total(BalanceOf(balances, x))
  BY <1>1, <1>3, <1>4 DEF LedgerInv, BalanceOf
<1>6. \A x \in DOMAIN nonces' : LeafMatches(x)'
  BY <1>1, <1>5, LedgerAllMatch DEF LeafMatches
<1>7. QED
  BY <1>1, <1>5, <1>6 DEF LedgerInv

(* The fill that process_fill comes to: its parties have balances, and their
   leaves will be written. *)
LEMMA NextFill ==
    ASSUME MatchInv, SettleFill
    PROVE  LET f == fills[settled + 1]
           IN  /\ f \in Book!Fill /\ f.quantity \in Nat \ {0} /\ f.price \in Prices
               /\ f.maker_account_id \in DOMAIN balances
               /\ f.taker_account_id = placing /\ placing \in DOMAIN balances
               /\ {f.maker_account_id, f.taker_account_id} \subseteq Affected
<1>1. fills \in Seq(Book!Fill) /\ settled \in 0 .. Len(fills)
  BY BookTypes DEF MatchInv
<1>2. settled < Len(fills) /\ ~Ready
  BY DEF SettleFill, Settling
<1>3. settled + 1 \in DOMAIN fills
  BY <1>1, <1>2
<1>4. PICK f \in Book!Fill : f = fills[settled + 1]
  BY <1>1, <1>3
<1>5. f.quantity \in Nat \ {0} /\ f.price \in Prices /\ f.maker_account_id \in DOMAIN balances
      /\ f.taker_account_id = placing /\ placing \in DOMAIN balances
  BY <1>2, <1>3, <1>4 DEF MatchInv, Book!Fill
<1>6. {f.maker_account_id, f.taker_account_id} \subseteq Affected
  BY <1>3, <1>4, <1>5 DEF Affected
<1>7. QED
  BY <1>4, <1>5, <1>6

(* A settled fill touches the balances of its two parties only. *)
LEMMA LedgerSettles ==
    ASSUME LedgerInv, MatchInv, SettleFill
    PROVE  LedgerInv' /\ DOMAIN balances' = DOMAIN balances
<1>1. PICK f \in Book!Fill :
         /\ f = fills[settled + 1] /\ f.quantity \in Nat /\ f.price \in Nat
         /\ f.maker_account_id \in DOMAIN balances
         /\ f.taker_account_id \in DOMAIN balances
         /\ {f.maker_account_id, f.taker_account_id} \subseteq Affected
  BY NextFill, PricesAreNat
<1>2. /\ balances' = Settled(f) /\ ~Ready
      /\ UNCHANGED <<nonces, tree_accounts, placing, fills>> /\ settled' = settled + 1
  BY <1>1 DEF SettleFill, Settling, bookVars
<1> DEFINE k == f.maker_account_id
           t == f.taker_account_id
<1>3. PICK b \in Balance : b = Credit(Unlock(balances[k], Margin(f.quantity, f.price)),
                                      MakerRebate(f.quantity, f.price))
  BY <1>1, MoneyIsNat, BalanceOperations DEF LedgerInv
<1>4. PICK m : m = [balances EXCEPT ![k] = b]
  OBVIOUS
<1>5. m \in [DOMAIN balances -> Balance]
      /\ \A x \in DOMAIN balances \ {k} : m[x] = balances[x]
  BY <1>4 DEF LedgerInv
<1>6. PICK c \in Balance : c = Debit(m[t], TakerFee(f.quantity, f.price))
  BY <1>1, <1>5, MoneyIsNat, BalanceOperations
<1>7. balances' = [m EXCEPT ![t] = c]
  BY <1>2, <1>3, <1>4, <1>6 DEF Settled
<1>8. balances' \in [DOMAIN balances -> Balance]
      /\ \A x \in DOMAIN balances \ {k, t} : balances'[x] = balances[x]
  BY <1>5, <1>7
<1>9. ASSUME NEW a \in DOMAIN nonces, a \notin Affected
      PROVE  LeafMatches(a)'
  <2>1. LeafMatches(a)
    BY <1>9 DEF LedgerInv
  <2>2. a # k /\ a # t
    BY <1>1, <1>9
  <2>3. BalanceOf(balances', a) = BalanceOf(balances, a)
    BY <1>8, <2>2 DEF BalanceOf
  <2>4. QED
    BY <1>2, <2>1, <2>3 DEF LeafMatches
<1>10. ~Ready' /\ Affected' = Affected
  BY <1>2 DEF Ready, Affected
<1>11. settled' # 0
  BY <1>2 DEF MatchInv
<1>12. QED
  BY <1>2, <1>8, <1>9, <1>10, <1>11 DEF LedgerInv

(* When the order is settled the leaves of all who took part are written. *)
LEMMA LedgerFinishes ==
    ASSUME LedgerInv, MatchInv, FinishPlace
    PROVE  LedgerInv'
<1>1. /\ ~Ready /\ nonces' = NextNonce(placing) /\ UNCHANGED balances
      /\ InsertAccounts(Affected)
  BY DEF FinishPlace, Settling
<1>2. placing \in DOMAIN nonces /\ nonces[placing] < MaxNonce
  BY <1>1 DEF MatchInv, LedgerInv
<1>3. PICK S : S = Affected
  OBVIOUS
<1>4. placing \in S /\ S \subseteq DOMAIN nonces
  BY <1>2, <1>3 DEF Affected, MatchInv, LedgerInv
<1>5. /\ DOMAIN nonces' = DOMAIN nonces /\ DOMAIN nonces' \subseteq Accounts
      /\ nonces' \in [DOMAIN nonces' -> 0 .. MaxNonce]
      /\ \A x \in DOMAIN nonces \ {placing} : nonces'[x] = nonces[x]
  BY <1>1, <1>2, NonceIncremented
<1>6. DOMAIN balances' \subseteq DOMAIN nonces' /\ balances' \in [DOMAIN balances' -> Balance]
  BY <1>1, <1>5 DEF LedgerInv
<1>7. \A x \in DOMAIN nonces \ S : /\ LeafMatches(x)
                                   /\ nonces'[x] = nonces[x]
                                   /\ BalanceOf(balances', x) = BalanceOf(balances, x)
  BY <1>1, <1>3, <1>4, <1>5 DEF LedgerInv
<1>8. InsertAccounts(S)
  BY <1>1, <1>3
<1>9. DOMAIN nonces' = DOMAIN nonces \cup S
  BY <1>4, <1>5
<1>10. QED
  BY <1>5, <1>6, <1>7, <1>8, <1>9, LedgerWritten

-----------------------------------------------------------------------------

(* Positions, what they are the net of, and their leaves. *)
PositionsInv ==
    /\ positions \in [DOMAIN positions -> Position]
    /\ \A a \in DOMAIN positions : WellFormed(positions[a])
    /\ net_taken \in [Accounts -> Int]
    /\ \A a \in Accounts : Net(PositionOf(a)) = net_taken[a]
    /\ DOMAIN tree_positions \subseteq DOMAIN positions
    /\ tree_positions \in [DOMAIN tree_positions -> Position]
    /\ \A a \in DOMAIN tree_positions : tree_positions[a] = positions[a]
    /\ \A a \in DOMAIN positions \ DOMAIN tree_positions : positions[a] = NoPosition

LEMMA PositionsKept ==
    ASSUME PositionsInv, UNCHANGED <<positions, tree_positions, net_taken>>
    PROVE  PositionsInv'
<1>1. \A a : PositionOf(a)' = PositionOf(a)
  BY DEF PositionOf
<1>2. QED
  BY <1>1 DEF PositionsInv

LEMMA SignedIsInt ==
    ASSUME NEW side, NEW q \in Nat
    PROVE  Signed(side, q) \in Int
  BY DEF Signed

(* A settled fill trades the taker's position, and writes its leaf. *)
LEMMA PositionsSettle ==
    ASSUME PositionsInv, MatchInv, LedgerInv, SettleFill
    PROVE  PositionsInv' /\ DOMAIN positions' = DOMAIN positions \cup {placing}
<1>1. PICK f \in Book!Fill :
         /\ f = fills[settled + 1] /\ f.quantity \in Nat \ {0} /\ f.price \in Prices
         /\ f.taker_account_id = placing /\ placing \in DOMAIN balances
  BY NextFill
<1>2. PICK t \in Accounts : t = placing
  BY <1>1 DEF LedgerInv
<1>3. PICK side \in {"Long", "Short"} : side = TakenSide(f)
  BY DEF TakenSide
<1>4. WellFormed(PositionOf(t))
  BY NoPositionWellFormed DEF PositionsInv, PositionOf
<1>5. PICK new : /\ new = Trade(PositionOf(t), side, f.quantity, f.price)
                 /\ WellFormed(new)
                 /\ Net(new) = Net(PositionOf(t)) + Signed(side, f.quantity)
  BY <1>1, <1>4, TradeNetsOut
<1>6. /\ positions' = Book!Put(positions, t, new)
      /\ net_taken' = [net_taken EXCEPT ![t] = @ + Signed(side, f.quantity)]
      /\ tree_positions' = Book!Put(tree_positions, t, positions'[t])
  BY <1>1, <1>2, <1>3, <1>5 DEF SettleFill, InsertPosition
<1>7. /\ DOMAIN positions' = DOMAIN positions \cup {t}
      /\ \A x \in DOMAIN positions' : positions'[x] = IF x = t THEN new ELSE positions[x]
      /\ positions' = [x \in DOMAIN positions' |-> positions'[x]]
  BY <1>6 DEF Book!Put
<1>8. /\ DOMAIN tree_positions' = DOMAIN tree_positions \cup {t}
      /\ \A x \in DOMAIN tree_positions' :
            tree_positions'[x] = IF x = t THEN new ELSE tree_positions[x]
      /\ tree_positions' = [x \in DOMAIN tree_positions' |-> tree_positions'[x]]
  BY <1>6, <1>7 DEF Book!Put
<1>9. new \in Position
  BY <1>5 DEF WellFormed
<1>10. positions' \in [DOMAIN positions' -> Position]
       /\ \A x \in DOMAIN positions' : WellFormed(positions[x])'
  <2>1. \A x \in DOMAIN positions' : positions'[x] \in Position
    BY <1>7, <1>9 DEF PositionsInv
  <2>2. \A x \in DOMAIN positions' : WellFormed(positions'[x])
    BY <1>5, <1>7 DEF PositionsInv
  <2>3. QED
    BY <1>7, <2>1, <2>2 DEF WellFormed
<1>11. ASSUME NEW a \in Accounts
       PROVE  Net(PositionOf(a))' = net_taken'[a]
  <2>1. CASE a = t
    <3>1. PositionOf(a)' = new
      BY <1>7, <2>1 DEF PositionOf
    <3>2. Net(PositionOf(t)) = net_taken[t] /\ t \in DOMAIN net_taken
      BY DEF PositionsInv
    <3>3. net_taken'[a] = net_taken[t] + Signed(side, f.quantity)
      BY <1>6, <2>1, <3>2
    <3>4. Net(PositionOf(a))' = Net(new)
      BY <3>1 DEF Net
    <3>5. QED
      BY <1>5, <3>2, <3>3, <3>4
  <2>2. CASE a # t
    <3>1. PositionOf(a)' = PositionOf(a)
      BY <1>7, <2>2 DEF PositionOf
    <3>2. Net(PositionOf(a)) = net_taken[a] /\ net_taken'[a] = net_taken[a]
      BY <1>6, <2>2 DEF PositionsInv
    <3>3. QED
      BY <3>1, <3>2 DEF Net
  <2>3. QED
    BY <2>1, <2>2
<1>12. net_taken' \in [Accounts -> Int]
  <2>1. Signed(side, f.quantity) \in Int
    BY <1>1, SignedIsInt
  <2>2. QED
    BY <1>6, <2>1 DEF PositionsInv
<1>13. /\ DOMAIN tree_positions' \subseteq DOMAIN positions'
       /\ tree_positions' \in [DOMAIN tree_positions' -> Position]
       /\ \A a \in DOMAIN tree_positions' : tree_positions'[a] = positions'[a]
       /\ \A a \in DOMAIN positions' \ DOMAIN tree_positions' : positions'[a] = NoPosition
  BY <1>7, <1>8, <1>9 DEF PositionsInv
<1>14. QED
  BY <1>2, <1>7, <1>10, <1>11, <1>12, <1>13 DEF PositionsInv

(* Closing a whole position leaves nothing of it, so that the bonus is zero. *)
LEMMA ClosedIsEmpty ==
    ASSUME NEW pos, WellFormed(pos)
    PROVE  LET closed == Decrease(pos, pos.size)
           IN  closed = NoPosition /\ closed.margin \div 10 = 0
  BY DEF WellFormed, Position, Decrease, NoPosition

(* A liquidation leaves an empty position without a leaf. *)
LEMMA PositionsLiquidate ==
    ASSUME PositionsInv, NEW a \in Accounts, NEW l \in Accounts, Liquidate(l, a)
    PROVE  PositionsInv' /\ DOMAIN positions' = DOMAIN positions
<1>1. a \in DOMAIN positions /\ WellFormed(positions[a])
  BY DEF PositionsInv, Liquidate
<1>2. /\ positions' = [positions EXCEPT ![a] = NoPosition]
      /\ tree_positions' = Book!Drop(tree_positions, a)
      /\ net_taken' = [net_taken EXCEPT ![a] = 0]
  BY <1>1, ClosedIsEmpty DEF Liquidate, RemovePosition
<1>3. /\ DOMAIN positions' = DOMAIN positions
      /\ \A x \in DOMAIN positions : positions'[x] = IF x = a THEN NoPosition ELSE positions[x]
      /\ positions' = [x \in DOMAIN positions' |-> positions'[x]]
  BY <1>2 DEF PositionsInv
<1>4. /\ DOMAIN tree_positions' = DOMAIN tree_positions \ {a}
      /\ \A x \in DOMAIN tree_positions' : tree_positions'[x] = tree_positions[x]
      /\ tree_positions' = [x \in DOMAIN tree_positions' |-> tree_positions'[x]]
  BY <1>2 DEF Book!Drop
<1>5. NoPosition \in Position
  BY NoPositionWellFormed DEF WellFormed
<1>6. positions' \in [DOMAIN positions' -> Position]
      /\ \A x \in DOMAIN positions' : WellFormed(positions[x])'
  <2>1. \A x \in DOMAIN positions' : positions'[x] \in Position
    BY <1>3, <1>5 DEF PositionsInv
  <2>2. \A x \in DOMAIN positions' : WellFormed(positions'[x])
    BY <1>3, NoPositionWellFormed DEF PositionsInv
  <2>3. QED
    BY <1>3, <2>1, <2>2 DEF WellFormed
<1>7. ASSUME NEW x \in Accounts
      PROVE  Net(PositionOf(x))' = net_taken'[x]
  <2>1. CASE x = a
    <3>1. PositionOf(x)' = NoPosition
      BY <1>1, <1>3, <2>1 DEF PositionOf
    <3>2. net_taken'[x] = 0
      BY <1>2, <2>1 DEF PositionsInv
    <3>3. QED
      BY <3>1, <3>2, NoPositionWellFormed DEF Net
  <2>2. CASE x # a
    <3>1. PositionOf(x)' = PositionOf(x)
      BY <1>3, <2>2 DEF PositionOf
    <3>2. Net(PositionOf(x)) = net_taken[x] /\ net_taken'[x] = net_taken[x]
      BY <1>2, <2>2 DEF PositionsInv
    <3>3. QED
      BY <3>1, <3>2 DEF Net
  <2>3. QED
    BY <2>1, <2>2
<1>8. net_taken' \in [Accounts -> Int]
  BY <1>2 DEF PositionsInv
<1>9. /\ DOMAIN tree_positions' \subseteq DOMAIN positions'
      /\ tree_positions' \in [DOMAIN tree_positions' -> Position]
      /\ \A x \in DOMAIN tree_positions' : tree_positions'[x] = positions'[x]
      /\ \A x \in DOMAIN positions' \ DOMAIN tree_positions' : positions'[x] = NoPosition
  BY <1>3, <1>4 DEF PositionsInv
<1>10. QED
  BY <1>3, <1>6, <1>7, <1>8, <1>9 DEF PositionsInv

(* It moves nothing between balances, as positions carry no margin. *)
LEMMA LedgerLiquidates ==
    ASSUME LedgerInv, PositionsInv, DOMAIN positions \subseteq DOMAIN balances,
           NEW a \in Accounts, NEW l \in Accounts, Liquidate(l, a)
    PROVE  LedgerInv' /\ DOMAIN balances \subseteq DOMAIN balances'
<1>1. /\ Ready /\ a \in DOMAIN positions /\ a \in DOMAIN balances /\ a \in DOMAIN nonces
      /\ l \in DOMAIN nonces => nonces[l] < MaxNonce
      /\ WellFormed(positions[a])
  BY DEF Liquidate, PositionsInv, LedgerInv
<1>2. PICK closed : /\ closed = Decrease(positions[a], positions[a].size)
                    /\ closed.margin = 0 /\ closed.margin \div 10 = 0
  BY <1>1, ClosedIsEmpty DEF NoPosition
<1>3. closed.margin - closed.margin \div 10 = 0
  BY <1>2
<1>4. PICK b \in Balance : b = DeductLocked(balances[a], 0)
  BY <1>1, BalanceOperations DEF LedgerInv
<1>5. PICK after : after = [balances EXCEPT ![a] = b]
  OBVIOUS
<1>6. /\ after \in [DOMAIN balances -> Balance]
      /\ \A x \in DOMAIN balances \ {a} : after[x] = balances[x]
  BY <1>5 DEF LedgerInv
<1>7. after = [balances EXCEPT ![a] =
                 DeductLocked(@, closed.margin - closed.margin \div 10)]
  BY <1>3, <1>4, <1>5
<1>8. PICK S : S = {a, l} \cap DOMAIN nonces
  OBVIOUS
<1>9. InsertAccounts(S)
  BY <1>8 DEF Liquidate
<1>10. \A x \in DOMAIN nonces \ S : LeafMatches(x) /\ x # a /\ x # l
  BY <1>1, <1>8, LedgerAllMatch
<1>11. CASE l \in DOMAIN nonces
  <2>1. /\ balances' = Book!Put(after, l, Credit(BalanceOf(after, l), closed.margin \div 10))
        /\ nonces' = NextNonce(l)
    BY <1>2, <1>7, <1>11 DEF Liquidate
  <2>2. PICK c \in Balance : c = Credit(BalanceOf(after, l), 0)
    <3>1. BalanceOf(after, l) \in Balance
      BY <1>6, BalanceIsBalance
    <3>2. QED
      BY <3>1, BalanceOperations
  <2>3. balances' = Book!Put(after, l, c)
    BY <1>2, <2>1, <2>2
  <2>4. /\ DOMAIN balances' = DOMAIN balances \cup {l}
        /\ balances' \in [DOMAIN balances' -> Balance]
        /\ \A x \in DOMAIN nonces \ S : BalanceOf(balances', x) = BalanceOf(balances, x)
    BY <1>6, <1>10, <2>3 DEF Book!Put, BalanceOf
  <2>5. /\ DOMAIN nonces' = DOMAIN nonces /\ DOMAIN nonces' \subseteq Accounts
        /\ nonces' \in [DOMAIN nonces' -> 0 .. MaxNonce]
        /\ \A x \in DOMAIN nonces \ {l} : nonces'[x] = nonces[x]
    BY <1>1, <1>11, <2>1, NonceIncremented
  <2>6. DOMAIN balances' \subseteq DOMAIN nonces' /\ DOMAIN nonces' = DOMAIN nonces \cup S
    BY <1>8, <1>11, <2>4, <2>5 DEF LedgerInv
  <2>7. \A x \in DOMAIN nonces \ S : /\ LeafMatches(x)
                                     /\ nonces'[x] = nonces[x]
                                     /\ BalanceOf(balances', x) = BalanceOf(balances, x)
    BY <1>10, <2>4, <2>5
  <2>8. QED
    BY <1>9, <2>4, <2>5, <2>6, <2>7, LedgerWritten
<1>12. CASE l \notin DOMAIN nonces
  <2>1. balances' = after /\ UNCHANGED nonces
    BY <1>2, <1>7, <1>12 DEF Liquidate
  <2>2. /\ DOMAIN balances' = DOMAIN balances
        /\ balances' \in [DOMAIN balances' -> Balance]
        /\ \A x \in DOMAIN nonces \ S : BalanceOf(balances', x) = BalanceOf(balances, x)
    BY <1>6, <1>10, <2>1 DEF BalanceOf
  <2>3. /\ DOMAIN nonces' = DOMAIN nonces \cup S /\ DOMAIN nonces' \subseteq Accounts
        /\ nonces' \in [DOMAIN nonces' -> 0 .. MaxNonce]
        /\ DOMAIN balances' \subseteq DOMAIN nonces'
    BY <1>8, <2>1, <2>2 DEF LedgerInv
  <2>4. QED
    BY <1>9, <1>10, <2>1, <2>2, <2>3, LedgerWritten
<1>13. QED
  BY <1>11, <1>12

-----------------------------------------------------------------------------

(* The inductive invariant. *)
ExchangeInv ==
    /\ MatchInv
    /\ LedgerInv
    /\ PositionsInv
    /\ DOMAIN positions \subseteq DOMAIN balances
    /\ oracle_price \in Prices

(* The empty state satisfies the invariant. *)
LEMMA InitExchangeInv == Init => ExchangeInv
<1> SUFFICES ASSUME Init PROVE ExchangeInv
  OBVIOUS
<1>1. Book!Init /\ fills = <<>> /\ incoming = NoOrder /\ \A s \in Book!Sides : DOMAIN book[s] = {}
  BY DEF Init, Book!Init
<1>2. BookProofs!BookInv
  <2>1. BookProofs!Init
    BY <1>1 DEF Book!Init, BookProofs!Init, Book!Sides, BookProofs!Sides
  <2>2. QED
    BY <2>1, BookAssumed, BookProofs!InitBookInv
<1>3. MatchInv
  <2>1. BookProofs!OwnedIn(DOMAIN balances)
    BY <1>1 DEF BookProofs!OwnedIn, BookProofs!Sides, Book!Sides
  <2>2. DOMAIN fills = {} /\ Len(fills) = 0
    BY <1>1
  <2>3. Book!Idle /\ Ready /\ settled = 0
    BY <1>1 DEF Init, Ready, Book!Idle
  <2>4. QED
    BY <1>2, <2>1, <2>2, <2>3 DEF MatchInv
<1>4. LedgerInv
  BY DEF Init, LedgerInv
<1>5. PositionsInv
  <2>1. positions = [a \in {} |-> NoPosition] /\ tree_positions = [a \in {} |-> NoPosition]
        /\ net_taken = [a \in Accounts |-> 0]
    BY DEF Init
  <2>2. \A a \in Accounts : PositionOf(a) = NoPosition /\ net_taken[a] = 0
    BY <2>1 DEF PositionOf
  <2>3. QED
    BY <2>1, <2>2, NoPositionWellFormed DEF PositionsInv
<1>6. QED
  BY <1>3, <1>4, <1>5 DEF Init, ExchangeInv

(* The transactions that leave the book alone. *)
LEMMA LedgerSteps ==
    ASSUME ExchangeInv, NEW a \in Accounts,
           \/ CreateAccount(a)
           \/ \E m \in Amounts : Deposit(a, m) \/ Withdraw(a, m)
    PROVE  ExchangeInv'
<1>1. MatchInv /\ LedgerInv /\ PositionsInv
  BY DEF ExchangeInv
<1>2. LedgerInv'
  BY <1>1, LedgerCreates, LedgerDeposits, LedgerWithdraws
<1>3. /\ UNCHANGED <<bookVars, positions, tree_positions, net_taken, placing, settled,
                     oracle_price>>
      /\ Ready /\ DOMAIN balances \subseteq DOMAIN balances'
  BY DEF CreateAccount, Deposit, Withdraw, MaySend, Book!Put
<1>4. settled \in 0 .. Len(fills)
  BY <1>1 DEF MatchInv
<1>5. MatchInv'
  BY <1>1, <1>3, <1>4, MatchKept
<1>6. PositionsInv'
  BY <1>1, <1>3, PositionsKept
<1>7. QED
  BY <1>2, <1>3, <1>5, <1>6 DEF ExchangeInv

(* Each of the other steps preserves it. *)
LEMMA LiquidateStep ==
    ASSUME ExchangeInv, NEW a \in Accounts, NEW l \in Accounts, Liquidate(l, a)
    PROVE  ExchangeInv'
<1>1. /\ MatchInv /\ LedgerInv /\ PositionsInv /\ DOMAIN positions \subseteq DOMAIN balances
      /\ settled \in 0 .. Len(fills)
  BY DEF ExchangeInv, MatchInv
<1>2. LedgerInv' /\ DOMAIN balances \subseteq DOMAIN balances'
  BY <1>1, LedgerLiquidates
<1>3. PositionsInv' /\ DOMAIN positions' = DOMAIN positions
  BY <1>1, PositionsLiquidate
<1>4. Ready /\ UNCHANGED <<bookVars, oracle_price, placing, settled>>
  BY DEF Liquidate
<1>5. MatchInv'
  BY <1>1, <1>2, <1>4, MatchKept
<1>6. QED
  BY <1>1, <1>2, <1>3, <1>4, <1>5 DEF ExchangeInv

LEMMA CancelStep ==
    ASSUME ExchangeInv, NEW a \in Accounts, NEW id \in 0 .. MaxOrders, CancelOrder(a, id)
    PROVE  ExchangeInv'
<1>1. /\ MatchInv /\ LedgerInv /\ PositionsInv
  BY DEF ExchangeInv
<1>2. PICK s \in Book!Sides : \E p \in DOMAIN book[s] : \E i \in DOMAIN book[s][p].orders :
          /\ Book!CancelFound(id, a, s, p, i)
          /\ balances' = [balances EXCEPT ![a] = Unlock(@, Released(book[s][p].orders[i]))]
  BY DEF CancelOrder
<1>3. PICK p \in DOMAIN book[s] : \E i \in DOMAIN book[s][p].orders :
          /\ Book!CancelFound(id, a, s, p, i)
          /\ balances' = [balances EXCEPT ![a] = Unlock(@, Released(book[s][p].orders[i]))]
  BY <1>2
<1>4. PICK i \in DOMAIN book[s][p].orders :
          /\ Book!CancelFound(id, a, s, p, i)
          /\ balances' = [balances EXCEPT ![a] = Unlock(@, Released(book[s][p].orders[i]))]
  BY <1>3
<1>5. /\ Ready /\ a \in DOMAIN balances /\ nonces[a] < MaxNonce /\ nonces' = NextNonce(a)
      /\ InsertAccounts({a})
      /\ UNCHANGED <<positions, tree_positions, oracle_price, placing, settled, net_taken>>
  BY DEF CancelOrder, MaySend
<1>6. LedgerInv'
  BY <1>1, <1>4, <1>5, LedgerCancels
<1>7. DOMAIN balances' = DOMAIN balances
  BY <1>4
<1>8. MatchInv'
  BY <1>1, <1>4, <1>5, <1>7, MatchCancels
<1>9. PositionsInv'
  BY <1>1, <1>5, PositionsKept
<1>10. QED
  BY <1>5, <1>6, <1>7, <1>8, <1>9 DEF ExchangeInv

LEMMA PlaceStep ==
    ASSUME ExchangeInv, NEW a \in Accounts, NEW r \in Requests, PlaceOrder(a, r)
    PROVE  ExchangeInv'
<1>1. MatchInv /\ LedgerInv /\ PositionsInv
  BY DEF ExchangeInv
<1>2. MatchInv' /\ LedgerInv'
  BY <1>1, MatchPlaces, LedgerPlaces
<1>3. UNCHANGED <<positions, tree_positions, net_taken, oracle_price>>
      /\ DOMAIN balances' = DOMAIN balances
  BY DEF PlaceOrder, treeVars
<1>4. PositionsInv'
  BY <1>1, <1>3, PositionsKept
<1>5. QED
  BY <1>2, <1>3, <1>4 DEF ExchangeInv

(* The steps of a match: the book changes, and the state around it does not. *)
LEMMA MatchSteps ==
    ASSUME ExchangeInv, MatchFill \/ MatchRefused \/ MatchDone
    PROVE  ExchangeInv'
<1>1. MatchInv /\ LedgerInv /\ PositionsInv
  BY DEF ExchangeInv
<1>2. MatchInv'
  BY <1>1, MatchFills, MatchIsRefused, MatchIsDone
<1>3. UNCHANGED <<balances, nonces, tree_accounts, tree_positions, positions, net_taken,
                  oracle_price>>
  BY DEF MatchFill, MatchRefused, MatchDone, treeVars
<1>4. ~Book!Idle
  BY DEF MatchFill, MatchRefused, MatchDone, Book!FillMaker, Book!RejectPostOnly,
         Book!Matchable, Book!FinishMatch
<1>5. settled = 0
  BY <1>1, <1>4 DEF MatchInv
<1>6. LedgerInv'
  BY <1>1, <1>3, <1>5, LedgerKept
<1>7. PositionsInv'
  BY <1>1, <1>3, PositionsKept
<1>8. QED
  BY <1>2, <1>3, <1>6, <1>7 DEF ExchangeInv

LEMMA SettleStep ==
    ASSUME ExchangeInv, SettleFill
    PROVE  ExchangeInv'
<1>1. /\ MatchInv /\ LedgerInv /\ PositionsInv /\ DOMAIN positions \subseteq DOMAIN balances
      /\ settled \in 0 .. Len(fills) /\ Len(fills) \in Nat
  <2>1. fills \in Seq(Book!Fill)
    BY BookTypes DEF ExchangeInv, MatchInv
  <2>2. QED
    BY <2>1 DEF ExchangeInv, MatchInv
<1>2. LedgerInv' /\ DOMAIN balances' = DOMAIN balances
  BY <1>1, LedgerSettles
<1>3. PositionsInv' /\ DOMAIN positions' = DOMAIN positions \cup {placing}
  BY <1>1, PositionsSettle
<1>4. /\ Book!Idle /\ ~Ready /\ settled < Len(fills) /\ settled' = settled + 1
      /\ UNCHANGED <<bookVars, nonces, oracle_price, placing>>
  BY DEF SettleFill, Settling
<1>5. settled' \in 0 .. Len(fills) /\ placing \in DOMAIN balances
  BY <1>1, <1>4 DEF MatchInv
<1>6. MatchInv'
  BY <1>1, <1>2, <1>4, <1>5, MatchKept
<1>7. QED
  BY <1>1, <1>2, <1>3, <1>4, <1>5, <1>6 DEF ExchangeInv

LEMMA FinishStep ==
    ASSUME ExchangeInv, FinishPlace
    PROVE  ExchangeInv'
<1>1. MatchInv /\ LedgerInv /\ PositionsInv /\ settled \in 0 .. Len(fills)
  BY DEF ExchangeInv, MatchInv
<1>2. LedgerInv'
  BY <1>1, LedgerFinishes
<1>3. /\ Book!Idle /\ placing' = NoOne
      /\ UNCHANGED <<bookVars, balances, positions, tree_positions, oracle_price, settled,
                     net_taken>>
  BY DEF FinishPlace, Settling
<1>4. MatchInv'
  BY <1>1, <1>3, MatchKept
<1>5. PositionsInv'
  BY <1>1, <1>3, PositionsKept
<1>6. QED
  BY <1>2, <1>3, <1>4, <1>5 DEF ExchangeInv

LEMMA UpdateOracleStep ==
    ASSUME ExchangeInv, NEW p \in Prices, UpdateOracle(p)
    PROVE  ExchangeInv'
<1>1. MatchInv /\ LedgerInv /\ PositionsInv /\ settled \in 0 .. Len(fills)
  BY DEF ExchangeInv, MatchInv
<1>2. /\ Ready /\ oracle_price' = p
      /\ UNCHANGED <<bookVars, balances, nonces, positions, tree_accounts, tree_positions,
                     placing, settled, net_taken>>
  BY DEF UpdateOracle, treeVars
<1>3. MatchInv' /\ LedgerInv' /\ PositionsInv'
  BY <1>1, <1>2, MatchKept, LedgerKept, PositionsKept
<1>4. QED
  BY <1>2, <1>3 DEF ExchangeInv

LEMMA StutterStep ==
    ASSUME ExchangeInv, UNCHANGED vars
    PROVE  ExchangeInv'
<1>1. MatchInv /\ LedgerInv /\ PositionsInv /\ settled \in 0 .. Len(fills)
  BY DEF ExchangeInv, MatchInv
<1>2. UNCHANGED <<bookVars, balances, nonces, positions, tree_accounts, tree_positions,
                  oracle_price, placing, settled, net_taken, fills>>
  BY DEF vars, bookVars, treeVars
<1>3. MatchInv' /\ PositionsInv'
  BY <1>1, <1>2, MatchKept, PositionsKept
<1>4. LedgerInv'
  BY <1>1, <1>2 DEF LedgerInv, LeafMatches, Ready, Affected
<1>5. QED
  BY <1>2, <1>3, <1>4 DEF ExchangeInv

(* Every step of the exchange preserves the invariant. *)
LEMMA NextExchangeInv == ExchangeInv /\ [Next]_vars => ExchangeInv'
<1> SUFFICES ASSUME ExchangeInv, [Next]_vars PROVE ExchangeInv'
  OBVIOUS
<1>1. ASSUME NEW a \in Accounts, NEW r \in Requests, PlaceOrder(a, r)
      PROVE  ExchangeInv'
  BY <1>1, PlaceStep
<1>2. ASSUME NEW a \in Accounts, NEW id \in 0 .. MaxOrders, CancelOrder(a, id)
      PROVE  ExchangeInv'
  BY <1>2, CancelStep
<1>3. ASSUME NEW a \in Accounts, NEW l \in Accounts, Liquidate(l, a)
      PROVE  ExchangeInv'
  BY <1>3, LiquidateStep
<1>4. ASSUME NEW a \in Accounts,
             \/ CreateAccount(a)
             \/ \E m \in Amounts : Deposit(a, m) \/ Withdraw(a, m)
      PROVE  ExchangeInv'
  BY <1>4, LedgerSteps
<1>5. CASE MatchFill \/ MatchRefused \/ MatchDone
  BY <1>5, MatchSteps
<1>6. CASE SettleFill
  BY <1>6, SettleStep
<1>7. CASE FinishPlace
  BY <1>7, FinishStep
<1>8. ASSUME NEW p \in Prices, UpdateOracle(p)
      PROVE  ExchangeInv'
  BY <1>8, UpdateOracleStep
<1>9. CASE UNCHANGED vars
  BY <1>9, StutterStep
<1>10. QED
  BY <1>1, <1>2, <1>3, <1>4, <1>5, <1>6, <1>7, <1>8, <1>9 DEF Next

(* Every variable keeps the shape of its Rust value: no balance is ever negative,
   and no account is without a nonce or a leaf. *)
THEOREM ExchangeTypeCorrect == Spec => []TypeOK
<1>1. ExchangeInv => TypeOK
  <2> SUFFICES ASSUME ExchangeInv PROVE TypeOK
    OBVIOUS
  <2>1. Book!TypeOK
    BY BookTypes DEF ExchangeInv, MatchInv
  <2>2. placing \in DOMAIN nonces \cup {NoOne} /\ settled \in 0 .. Len(fills)
    BY DEF ExchangeInv, MatchInv, LedgerInv, Ready
  <2>3. QED
    BY <2>1, <2>2 DEF ExchangeInv, LedgerInv, PositionsInv, TypeOK
<1>2. QED
  BY <1>1, InitExchangeInv, NextExchangeInv, PTL DEF Spec

(* A position is always the net of what its account took since it was last
   liquidated, for any orders, prices and quantities. *)
THEOREM PositionsAlwaysNet == Spec => []PositionIsNetTaken
<1>1. ExchangeInv => PositionIsNetTaken
  BY DEF ExchangeInv, PositionsInv, PositionIsNetTaken, NetPosition, Net
<1>2. QED
  BY <1>1, InitExchangeInv, NextExchangeInv, PTL DEF Spec

(* An open position always has a size, by which decrease divides, and an entry
   price within the range of the prices, through any number of averages. *)
THEOREM PositionsAlwaysWellFormed == Spec => []PositionsWellFormed
<1>1. ExchangeInv => PositionsWellFormed
  BY DEF ExchangeInv, PositionsInv, WellFormed, PositionsWellFormed
<1>2. QED
  BY <1>1, InitExchangeInv, NextExchangeInv, PTL DEF Spec

(* Between transactions the hypertree always has every nonce, every whole balance
   and every position, the makers' of a sweep included. *)
THEOREM TreeAlwaysHasTotals == Spec => []TreeHasTotals
<1>1. ExchangeInv => TreeHasTotals
  BY DEF ExchangeInv, LedgerInv, LeafMatches, PositionsInv, TreeHasTotals
<1>2. QED
  BY <1>1, InitExchangeInv, NextExchangeInv, PTL DEF Spec

-----------------------------------------------------------------------------
(* The book inside the exchange *)

(* Whatever the transactions do, the book of the exchange takes a step of the
   order book or none. *)
LEMMA StepOfBook ==
    ASSUME [Next]_vars
    PROVE  BookProofs!Next \/ UNCHANGED BookProofs!vars
<1>1. ASSUME UNCHANGED bookVars
      PROVE  UNCHANGED BookProofs!vars
  BY <1>1 DEF bookVars, BookProofs!vars
<1>2. ASSUME NEW a \in Accounts, NEW r \in Requests, PlaceOrder(a, r)
      PROVE  BookProofs!Next
  <2>1. r \in Request /\ Book!Submit(a, r.side, r.order_type, r.price, r.quantity, r.post_only)
    BY <1>2, RequestsAssumption DEF PlaceOrder
  <2>2. PICK s \in BookProofs!Sides, t \in BookProofs!OrderTypes, p \in Prices,
             q \in Quantities, post \in BOOLEAN : BookProofs!Submit(a, s, t, p, q, post)
    BY <2>1, SameSubmit
  <2>3. QED
    BY <2>2 DEF BookProofs!Next
<1>3. ASSUME NEW a \in Accounts, NEW id \in 0 .. MaxOrders, CancelOrder(a, id)
      PROVE  BookProofs!Next
  <2>1. PICK s \in Book!Sides : \E p \in DOMAIN book[s] : \E i \in DOMAIN book[s][p].orders :
                                   Book!CancelFound(id, a, s, p, i)
    BY <1>3 DEF CancelOrder
  <2>2. PICK p \in DOMAIN book[s] : \E i \in DOMAIN book[s][p].orders :
                                       Book!CancelFound(id, a, s, p, i)
    BY <2>1
  <2>3. PICK i \in DOMAIN book[s][p].orders : Book!CancelFound(id, a, s, p, i)
    BY <2>2
  <2>4. BookProofs!CancelFound(id, a, s, p, i) /\ s \in BookProofs!Sides
    BY <2>3, SameCancel
  <2>5. BookProofs!CancelKnown(id, a)
    BY <2>4 DEF BookProofs!CancelKnown
  <2>6. QED
    BY <2>5 DEF BookProofs!Next, BookProofs!Cancel
<1>4. ASSUME MatchFill \/ MatchRefused \/ MatchDone
      PROVE  BookProofs!Next
  <2>1. CASE MatchFill
    <3>1. PICK p \in Prices : Book!FillMaker(p)
      BY <2>1 DEF MatchFill
    <3>2. BookProofs!FillMaker(p)
      BY <3>1, SameFill
    <3>3. QED
      BY <3>2 DEF BookProofs!Next, BookProofs!Match
  <2>2. CASE MatchRefused
    BY <2>2, SameReject DEF MatchRefused, BookProofs!Next, BookProofs!Match
  <2>3. CASE MatchDone
    BY <2>3, SameFinish DEF MatchDone, BookProofs!Next, BookProofs!Match
  <2>4. QED
    BY <1>4, <2>1, <2>2, <2>3
<1>5. QED
  BY <1>1, <1>2, <1>3, <1>4
     DEF Next, CreateAccount, Deposit, Withdraw, Liquidate, SettleFill, FinishPlace,
         UpdateOracle, vars

(* The book of the exchange behaves as the order book does on its own, so that all
   that is proved of the latter holds in the midst of deposits, settlements and
   liquidations. *)
THEOREM ExchangeRunsOrderBook == Spec => BookProofs!Spec
<1>1. Init => BookProofs!Init
  BY DEF Init, Book!Init, BookProofs!Init, Book!Sides, BookProofs!Sides
<1>2. [Next]_vars => [BookProofs!Next]_(BookProofs!vars)
  BY StepOfBook
<1>3. QED
  BY <1>1, <1>2, PTL DEF Spec, BookProofs!Spec

-----------------------------------------------------------------------------
(* The margin of orders and fills *)

(* Rounding down parts gives no more than rounding down the whole. *)
LEMMA QuotientsAdd ==
    ASSUME NEW x \in Nat, NEW y \in Nat, NEW n \in Nat \ {0}
    PROVE  x \div n + y \div n <= (x + y) \div n
<1> DEFINE c == x \div n
           d == y \div n
           e == (x + y) \div n
<1>1. c \in Nat /\ d \in Nat /\ e \in Nat
  BY QuotientIsNat
<1>2. c * n <= x /\ d * n <= y /\ x + y < e * n + n
  OBVIOUS
<1> HIDE DEF c, d, e
<1>3. ASSUME e + 1 <= c + d PROVE FALSE
  <2>1. (e + 1) * n <= (c + d) * n
    BY <1>1, <1>3
  <2>2. (c + d) * n = c * n + d * n /\ (e + 1) * n = e * n + n
    BY <1>1
  <2>3. c * n \in Nat /\ d * n \in Nat /\ e * n \in Nat
    BY <1>1
  <2>4. QED
    BY <1>2, <2>1, <2>2, <2>3
<1>4. QED
  BY <1>1, <1>3 DEF c, d, e

(* The margins of two parts of an order do not exceed that of the whole, and an
   order that is used up needs none. *)
LEMMA MarginOfParts ==
    ASSUME NEW q \in Nat, NEW r \in Nat, NEW p \in Nat
    PROVE  /\ Margin(q, p) + Margin(r, p) <= Margin(q + r, p)
           /\ Margin(0, p) = 0
<1> DEFINE u == BpsUnit * QtyUnit
           m == InitialMarginBps
<1>1. u \in Nat \ {0} /\ m \in Nat
  BY UnitsAssumption, RatesAssumption, ProductIsPositive
<1>2. q * p \in Nat /\ r * p \in Nat /\ (q + r) * p = q * p + r * p
  OBVIOUS
<1> DEFINE x == q * p
           y == r * p
<1> HIDE DEF u, m, x, y
<1>3. x \in Nat /\ y \in Nat /\ x * m \in Nat /\ y * m \in Nat /\ (x + y) * m = x * m + y * m
  BY <1>1, <1>2 DEF x, y
<1>4. (x * m) \div u + (y * m) \div u <= (x * m + y * m) \div u
  BY <1>1, <1>3, QuotientsAdd
<1>5. (0 * p) * m = 0 /\ 0 \div u = 0
  BY <1>1
<1>6. Margin(0, p) = 0
  BY <1>5 DEF Margin, u, m
<1>7. Margin(q + r, p) = (x * m + y * m) \div u
  BY <1>2, <1>3 DEF Margin, u, m, x, y
<1>8. QED
  BY <1>4, <1>6, <1>7 DEF Margin, u, m, x, y

(* Orders that have a margin. *)
Sized(S) == IsFiniteSet(S) /\ \A o \in S : o.remaining_qty \in Nat /\ o.price \in Nat

MarginOf(S) == SumFunction([o \in S |-> Margin(o.remaining_qty, o.price)])

LEMMA MarginOfSome ==
    ASSUME NEW S, Sized(S)
    PROVE  /\ MarginOf(S) \in Nat
           /\ \A o \in S : /\ Sized(S \ {o}) /\ Margin(o.remaining_qty, o.price) \in Nat
                           /\ MarginOf(S) = Margin(o.remaining_qty, o.price) + MarginOf(S \ {o})
<1> DEFINE M(T) == [o \in T |-> Margin(o.remaining_qty, o.price)]
<1>1. \A o \in S : M(S)[o] = Margin(o.remaining_qty, o.price) /\ M(S)[o] \in Nat
  BY MoneyIsNat DEF Sized
<1>2. IsFiniteSet(S)
  BY DEF Sized
<1>3. MarginOf(S) = SumFunctionOnSet(M(S), S)
  BY DEF MarginOf, SumFunction
<1>4. MarginOf(S) \in Nat
  <2> DEFINE f == M(S)
  <2> HIDE DEF f
  <2>1. SumFunctionOnSet(f, S) \in Nat
    BY <1>1, <1>2, SumIsNat DEF f
  <2>2. QED
    BY <1>3, <2>1 DEF f
<1>5. ASSUME NEW o \in S
      PROVE  /\ Sized(S \ {o}) /\ Margin(o.remaining_qty, o.price) \in Nat
             /\ MarginOf(S) = Margin(o.remaining_qty, o.price) + MarginOf(S \ {o})
  <2>1. IsFiniteSet(S \ {o})
    BY <1>2, FS_Subset
  <2>2. Sized(S \ {o})
    BY <2>1 DEF Sized
  <2>3. MarginOf(S \ {o}) = SumFunctionOnSet(M(S \ {o}), S \ {o})
    BY DEF MarginOf, SumFunction
  <2>4. \A n \in S \ {o} : M(S)[n] \in Nat /\ M(S \ {o})[n] = M(S)[n]
    BY <1>1
  <2> DEFINE f == M(S)
             g == M(S \ {o})
  <2> HIDE DEF f, g
  <2>5. SumFunctionOnSet(f, S \ {o}) = SumFunctionOnSet(g, S \ {o})
    BY <2>1, <2>4, SumSame DEF f, g
  <2>6. SumFunctionOnSet(f, S) = f[o] + SumFunctionOnSet(f, S \ {o})
    BY <1>1, <1>2, SumTakes DEF f
  <2>7. QED
    BY <1>1, <1>3, <2>2, <2>3, <2>5, <2>6 DEF f, g
<1>6. QED
  BY <1>4, <1>5

LEMMA MarginOfNone == MarginOf({}) = 0
<1>1. MarginOf({}) = SumFunctionOnSet([o \in {} |-> Margin(o.remaining_qty, o.price)], {})
  BY DEF MarginOf, SumFunction
<1>2. IsFiniteSet({})
  BY FS_EmptySet
<1>3. QED
  BY <1>1, <1>2, SumUnfolds

(* What an account owes for the orders of a set, and for one order. *)
Owed(a, S)    == MarginOf({n \in S : n.account_id = a})
OwedFor(a, o) == IF o.account_id = a THEN Margin(o.remaining_qty, o.price) ELSE 0

LEMMA OwedIsNat ==
    ASSUME NEW S, Sized(S), NEW a
    PROVE  Owed(a, S) \in Nat
<1>1. Sized({n \in S : n.account_id = a})
  BY FS_Subset DEF Sized
<1>2. QED
  BY <1>1, MarginOfSome DEF Owed

(* One order more. *)
LEMMA OwedAdds ==
    ASSUME NEW S, Sized(S), NEW o, o \notin S, o.remaining_qty \in Nat, o.price \in Nat, NEW a
    PROVE  /\ Sized(S \cup {o})
           /\ Owed(a, S) \in Nat /\ OwedFor(a, o) \in Nat
           /\ Owed(a, S \cup {o}) = Owed(a, S) + OwedFor(a, o)
<1>1. Sized(S \cup {o})
  <2>1. IsFiniteSet(S \cup {o})
    BY FS_AddElement DEF Sized
  <2>2. QED
    BY <2>1 DEF Sized
<1>2. Owed(a, S) \in Nat
  BY OwedIsNat
<1>3. Margin(o.remaining_qty, o.price) \in Nat
  BY MoneyIsNat
<1>4. CASE o.account_id = a
  <2> DEFINE T == {n \in S \cup {o} : n.account_id = a}
  <2>1. o \in T /\ T \ {o} = {n \in S : n.account_id = a} /\ T \in SUBSET (S \cup {o})
    BY <1>4
  <2> HIDE DEF T
  <2>2. Sized(T)
    BY <1>1, <2>1, FS_Subset DEF Sized
  <2>3. MarginOf(T) = Margin(o.remaining_qty, o.price) + MarginOf(T \ {o})
    BY <2>1, <2>2, MarginOfSome
  <2>4. Owed(a, S) = MarginOf(T \ {o})
    BY <2>1 DEF Owed
  <2>5. Owed(a, S \cup {o}) = MarginOf(T)
    BY DEF Owed, T
  <2>6. OwedFor(a, o) = Margin(o.remaining_qty, o.price)
    BY <1>4 DEF OwedFor
  <2>7. QED
    BY <1>1, <1>2, <1>3, <2>3, <2>4, <2>5, <2>6
<1>5. CASE o.account_id # a
  <2>1. {n \in S \cup {o} : n.account_id = a} = {n \in S : n.account_id = a}
    BY <1>5
  <2>2. Owed(a, S \cup {o}) = Owed(a, S) /\ OwedFor(a, o) = 0
    BY <1>5, <2>1 DEF Owed, OwedFor
  <2>3. QED
    BY <1>1, <1>2, <2>2
<1>6. QED
  BY <1>4, <1>5

-----------------------------------------------------------------------------
(* What is owed to account a for the fills of fs after the first k, as their maker. *)
DueIn(a, fs, k) == {j \in k + 1 .. Len(fs) : fs[j].maker_account_id = a}
DueFor(a, fs, k) == SumFunction([i \in DueIn(a, fs, k) |-> Margin(fs[i].quantity, fs[i].price)])
DueOf(a, f)      == IF f.maker_account_id = a THEN Margin(f.quantity, f.price) ELSE 0

LEMMA FillMargin ==
    ASSUME NEW f \in Book!Fill, NEW a
    PROVE  Margin(f.quantity, f.price) \in Nat /\ DueOf(a, f) \in Nat
<1>1. f.quantity \in Nat /\ f.price \in Nat
  BY PricesAreNat DEF Book!Fill
<1>2. Margin(f.quantity, f.price) \in Nat
  BY <1>1, MoneyIsNat
<1>3. QED
  BY <1>2 DEF DueOf

LEMMA DueInFinite ==
    ASSUME NEW a, NEW fs \in Seq(Book!Fill), NEW k \in 0 .. Len(fs)
    PROVE  /\ IsFiniteSet(DueIn(a, fs, k))
           /\ \A i \in DueIn(a, fs, k) : Margin(fs[i].quantity, fs[i].price) \in Nat
<1>1. Len(fs) \in Nat /\ k \in Nat /\ DueIn(a, fs, k) \in SUBSET (k + 1 .. Len(fs))
  BY DEF DueIn
<1>2. IsFiniteSet(k + 1 .. Len(fs))
  BY <1>1, IntervalIsFinite
<1>3. IsFiniteSet(DueIn(a, fs, k))
  BY <1>1, <1>2, FS_Subset
<1>4. \A i \in DueIn(a, fs, k) : fs[i] \in Book!Fill
  BY <1>1
<1>5. QED
  BY <1>3, <1>4, FillMargin

LEMMA DueIsNat ==
    ASSUME NEW a, NEW fs \in Seq(Book!Fill), NEW k \in 0 .. Len(fs)
    PROVE  DueFor(a, fs, k) \in Nat
<1> DEFINE f == [i \in DueIn(a, fs, k) |-> Margin(fs[i].quantity, fs[i].price)]
<1>1. \A i \in DueIn(a, fs, k) : f[i] \in Nat
  BY DueInFinite
<1>2. DueFor(a, fs, k) = SumFunctionOnSet(f, DueIn(a, fs, k))
  BY DEF DueFor, SumFunction
<1> HIDE DEF f
<1>3. QED
  BY <1>1, <1>2, SumIsNat, DueInFinite

(* Nothing is owed when all is settled. *)
LEMMA NothingDue ==
    ASSUME NEW a, NEW fs \in Seq(Book!Fill)
    PROVE  DueFor(a, fs, Len(fs)) = 0
<1>1. DueIn(a, fs, Len(fs)) = {}
  BY DEF DueIn
<1> DEFINE f == [i \in DueIn(a, fs, Len(fs)) |-> Margin(fs[i].quantity, fs[i].price)]
<1>2. DueFor(a, fs, Len(fs)) = SumFunctionOnSet(f, {})
  BY <1>1 DEF DueFor, SumFunction
<1> HIDE DEF f
<1>3. QED
  BY <1>2, SumUnfolds, FS_EmptySet

(* Settling a fill. *)
LEMMA DueNext ==
    ASSUME NEW a, NEW fs \in Seq(Book!Fill), NEW k \in 0 .. Len(fs), k < Len(fs)
    PROVE  DueFor(a, fs, k) = DueOf(a, fs[k + 1]) + DueFor(a, fs, k + 1)
<1>1. Len(fs) \in Nat /\ k \in Nat /\ k + 1 \in 0 .. Len(fs) /\ k + 1 \in DOMAIN fs
      /\ fs[k + 1] \in Book!Fill
  OBVIOUS
<1>2. DueFor(a, fs, k + 1) \in Nat
  BY <1>1, DueIsNat
<1>3. CASE fs[k + 1].maker_account_id = a
  <2> DEFINE f == [i \in DueIn(a, fs, k) |-> Margin(fs[i].quantity, fs[i].price)]
             g == [i \in DueIn(a, fs, k + 1) |-> Margin(fs[i].quantity, fs[i].price)]
             S == DueIn(a, fs, k)
  <2>1. k + 1 \in S /\ S \ {k + 1} = DueIn(a, fs, k + 1)
    BY <1>1, <1>3 DEF DueIn
  <2>2. DOMAIN f = S /\ IsFiniteSet(S) /\ (\A y \in S : f[y] \in Nat)
    BY DueInFinite
  <2>3. DOMAIN g = S \ {k + 1} /\ (\A y \in S \ {k + 1} : g[y] = f[y])
    BY <2>1
  <2>4. f[k + 1] = Margin(fs[k + 1].quantity, fs[k + 1].price)
    BY <2>1
  <2>5. DueFor(a, fs, k) = SumFunction(f) /\ DueFor(a, fs, k + 1) = SumFunction(g)
    BY DEF DueFor
  <2> HIDE DEF f, g, S
  <2>6. IsFiniteSet(S \ {k + 1}) /\ \A y \in S \ {k + 1} : f[y] \in Nat /\ g[y] = f[y]
    BY <2>2, <2>3, FS_Subset
  <2>7. SumFunctionOnSet(f, S) = f[k + 1] + SumFunctionOnSet(f, S \ {k + 1})
    BY <2>1, <2>2, SumTakes
  <2>8. SumFunctionOnSet(f, S \ {k + 1}) = SumFunctionOnSet(g, S \ {k + 1})
    BY <2>6, SumSame
  <2>9. SumFunction(f) = SumFunctionOnSet(f, S)
        /\ SumFunction(g) = SumFunctionOnSet(g, S \ {k + 1})
    BY <2>2, <2>3 DEF SumFunction
  <2>10. SumFunction(f) = f[k + 1] + SumFunction(g)
    BY <2>7, <2>8, <2>9
  <2>11. QED
    BY <1>3, <2>4, <2>5, <2>10 DEF DueOf
<1>4. CASE fs[k + 1].maker_account_id # a
  <2>1. DueIn(a, fs, k) = DueIn(a, fs, k + 1)
    BY <1>1, <1>4 DEF DueIn
  <2>2. DueFor(a, fs, k) = DueFor(a, fs, k + 1)
    BY <2>1 DEF DueFor
  <2>3. QED
    BY <1>2, <1>4, <2>2 DEF DueOf
<1>5. QED
  BY <1>3, <1>4

(* One fill more. *)
LEMMA DueAppends ==
    ASSUME NEW a, NEW fs \in Seq(Book!Fill), NEW k \in 0 .. Len(fs), NEW n \in Book!Fill
    PROVE  DueFor(a, Append(fs, n), k) = DueFor(a, fs, k) + DueOf(a, n)
<1> DEFINE e == Len(fs) + 1
<1>1. PICK gs \in Seq(Book!Fill) : gs = Append(fs, n)
  <2>1. Append(fs, n) \in Seq(Book!Fill)
    OBVIOUS
  <2>2. QED
    BY <2>1
<1>2. /\ Len(fs) \in Nat /\ k \in Nat /\ Len(gs) = e /\ gs[e] = n /\ k \in 0 .. Len(gs)
      /\ \A i \in 1 .. Len(fs) : gs[i] = fs[i]
  BY <1>1
<1>3. DueFor(a, fs, k) \in Nat
  BY DueIsNat
<1>4. DueIn(a, gs, k) \ {e} = DueIn(a, fs, k) /\ e \notin DueIn(a, fs, k)
  BY <1>2 DEF DueIn
<1>5. \A i \in DueIn(a, fs, k) : gs[i] = fs[i]
  BY <1>2 DEF DueIn
<1> DEFINE f == [i \in DueIn(a, gs, k) |-> Margin(gs[i].quantity, gs[i].price)]
           g == [i \in DueIn(a, fs, k) |-> Margin(fs[i].quantity, fs[i].price)]
           S == DueIn(a, gs, k)
<1>6. DueFor(a, gs, k) = SumFunction(f) /\ DueFor(a, fs, k) = SumFunction(g)
  BY DEF DueFor
<1>7. CASE n.maker_account_id = a
  <2>1. e \in S
    BY <1>2, <1>7 DEF DueIn
  <2>2. DOMAIN f = S /\ IsFiniteSet(S) /\ (\A y \in S : f[y] \in Nat)
    BY <1>2, DueInFinite
  <2>3. DOMAIN g = S \ {e} /\ IsFiniteSet(S \ {e})
        /\ (\A y \in S \ {e} : f[y] \in Nat /\ g[y] = f[y])
    BY <1>4, <1>5, <2>2, DueInFinite
  <2>4. f[e] = Margin(n.quantity, n.price)
    BY <1>2, <2>1
  <2>5. DueOf(a, n) = f[e] /\ DueOf(a, n) \in Nat
    BY <1>7, <2>4, FillMargin DEF DueOf
  <2> HIDE DEF f, g, S, e
  <2>6. SumFunctionOnSet(f, S) = f[e] + SumFunctionOnSet(f, S \ {e})
    BY <2>1, <2>2, SumTakes
  <2>7. SumFunctionOnSet(f, S \ {e}) = SumFunctionOnSet(g, S \ {e})
    BY <2>3, SumSame
  <2>8. SumFunction(f) = SumFunctionOnSet(f, S)
        /\ SumFunction(g) = SumFunctionOnSet(g, S \ {e})
    BY <2>2, <2>3 DEF SumFunction
  <2>9. SumFunction(f) = f[e] + SumFunction(g)
    BY <2>6, <2>7, <2>8
  <2>10. QED
    BY <1>1, <1>3, <1>6, <2>5, <2>9
<1>8. CASE n.maker_account_id # a
  <2>1. e \notin S
    BY <1>2, <1>8 DEF DueIn
  <2>2. f = g
    BY <1>4, <1>5, <2>1
  <2>3. DueOf(a, n) = 0
    BY <1>8 DEF DueOf
  <2>4. DueFor(a, gs, k) = DueFor(a, fs, k)
    BY <1>6, <2>2
  <2> HIDE DEF f, g, S
  <2>5. QED
    BY <1>1, <1>3, <2>3, <2>4
<1>9. QED
  BY <1>7, <1>8

(* What is owed for fills between transactions, and while an order is placed. *)
DueNow(a, fs, k, ready) ==
    SumFunction([i \in {j \in k + 1 .. Len(fs) : ~ready /\ fs[j].maker_account_id = a}
                    |-> Margin(fs[i].quantity, fs[i].price)])

LEMMA DueNowIs ==
    ASSUME NEW a, NEW fs, NEW k, NEW ready \in BOOLEAN
    PROVE  DueNow(a, fs, k, ready) = IF ready THEN 0 ELSE DueFor(a, fs, k)
<1>1. CASE ~ready
  <2>1. {j \in k + 1 .. Len(fs) : ~ready /\ fs[j].maker_account_id = a} = DueIn(a, fs, k)
    BY <1>1 DEF DueIn
  <2>2. QED
    BY <1>1, <2>1 DEF DueNow, DueFor
<1>2. CASE ready
  <2> DEFINE S == {j \in k + 1 .. Len(fs) : ~ready /\ fs[j].maker_account_id = a}
             f == [i \in S |-> Margin(fs[i].quantity, fs[i].price)]
  <2>1. S = {}
    BY <1>2
  <2>2. DueNow(a, fs, k, ready) = SumFunctionOnSet(f, S)
    BY DEF DueNow, SumFunction
  <2> HIDE DEF f, S
  <2>3. QED
    BY <1>2, <2>1, <2>2, SumUnfolds, FS_EmptySet
<1>3. QED
  BY <1>1, <1>2

(* Taking an order away, and adding one that may be there already. *)
LEMMA OwedTakes ==
    ASSUME NEW S, Sized(S), NEW o \in S, NEW a
    PROVE  /\ Sized(S \ {o})
           /\ Owed(a, S \ {o}) \in Nat /\ OwedFor(a, o) \in Nat
           /\ Owed(a, S) = Owed(a, S \ {o}) + OwedFor(a, o)
<1>1. PICK T : T = S \ {o}
  OBVIOUS
<1>2. S = T \cup {o} /\ o \notin T /\ o.remaining_qty \in Nat /\ o.price \in Nat
  BY <1>1 DEF Sized
<1>3. Sized(T)
  BY <1>1, FS_Subset DEF Sized
<1>4. Owed(a, T) \in Nat /\ OwedFor(a, o) \in Nat /\ Owed(a, S) = Owed(a, T) + OwedFor(a, o)
  BY <1>2, <1>3, OwedAdds
<1>5. QED
  BY <1>1, <1>3, <1>4

LEMMA OwedAtMost ==
    ASSUME NEW S, Sized(S), NEW o, o.remaining_qty \in Nat, o.price \in Nat, NEW a
    PROVE  /\ Sized(S \cup {o})
           /\ Owed(a, S) \in Nat /\ OwedFor(a, o) \in Nat /\ Owed(a, S \cup {o}) \in Nat
           /\ Owed(a, S) <= Owed(a, S \cup {o})
           /\ Owed(a, S \cup {o}) <= Owed(a, S) + OwedFor(a, o)
<1>1. CASE o \notin S
  <2>1. /\ Sized(S \cup {o}) /\ Owed(a, S) \in Nat /\ OwedFor(a, o) \in Nat
        /\ Owed(a, S \cup {o}) = Owed(a, S) + OwedFor(a, o)
    BY <1>1, OwedAdds
  <2> DEFINE x == Owed(a, S)
             y == Owed(a, S \cup {o})
             z == OwedFor(a, o)
  <2> HIDE DEF x, y, z
  <2>2. x \in Nat /\ z \in Nat /\ y = x + z
    BY <2>1 DEF x, y, z
  <2>3. y \in Nat /\ x <= y /\ y <= x + z
    BY <2>2
  <2>4. QED
    BY <2>1, <2>3 DEF x, y, z
<1>2. CASE o \in S
  <2>1. S \cup {o} = S
    BY <1>2
  <2>2. Owed(a, S) \in Nat /\ OwedFor(a, o) \in Nat
    BY <1>2, OwedTakes, OwedIsNat
  <2>3. Sized(S \cup {o}) /\ Owed(a, S \cup {o}) = Owed(a, S)
    BY <2>1
  <2> DEFINE x == Owed(a, S)
             y == Owed(a, S \cup {o})
             z == OwedFor(a, o)
  <2> HIDE DEF x, y, z
  <2>4. x \in Nat /\ z \in Nat /\ y = x
    BY <2>2, <2>3 DEF x, y, z
  <2>5. y \in Nat /\ x <= y /\ y <= x + z
    BY <2>4
  <2>6. QED
    BY <2>2, <2>3, <2>5 DEF x, y, z
<1>3. QED
  BY <1>1, <1>2

(* An account without orders owes nothing. *)
LEMMA OwedByNobody ==
    ASSUME NEW S, NEW a, \A o \in S : o.account_id # a
    PROVE  Owed(a, S) = 0
<1>1. {n \in S : n.account_id = a} = {}
  OBVIOUS
<1>2. QED
  BY <1>1, MarginOfNone DEF Owed

(* An order of which q is filled owes less by the margin of the fill at least, however
   the parts are rounded. *)
LEMMA FilledOwesLess ==
    ASSUME NEW o \in BookProofs!Order, NEW q \in Nat, q <= o.remaining_qty, NEW a
    PROVE  LET n == [o EXCEPT !.remaining_qty = @ - q]
           IN  /\ n.remaining_qty \in Nat /\ n.price \in Nat /\ n.account_id = o.account_id
               /\ OwedFor(a, n) \in Nat /\ OwedFor(a, o) \in Nat
               /\ OwedFor(a, n) <= OwedFor(a, o)
               /\ o.account_id = a => OwedFor(a, n) + Margin(q, o.price) <= OwedFor(a, o)
               /\ n.remaining_qty = 0 => OwedFor(a, n) = 0
<1>1. o.price \in Nat /\ o.remaining_qty \in Nat
  BY PricesAreNat DEF BookProofs!Order
<1>2. PICK r \in Nat : r = o.remaining_qty - q /\ r + q = o.remaining_qty
  BY <1>1
<1>3. PICK n : n = [o EXCEPT !.remaining_qty = @ - q]
  OBVIOUS
<1>4. n.remaining_qty = r /\ n.price = o.price /\ n.account_id = o.account_id
  BY <1>2, <1>3 DEF BookProofs!Order
<1>5. /\ Margin(r, o.price) + Margin(q, o.price) <= Margin(o.remaining_qty, o.price)
      /\ Margin(0, o.price) = 0
  BY <1>1, <1>2, MarginOfParts
<1>6. /\ Margin(r, o.price) \in Nat /\ Margin(q, o.price) \in Nat
      /\ Margin(o.remaining_qty, o.price) \in Nat
  BY <1>1, MoneyIsNat
<1>7. QED
  BY <1>1, <1>3, <1>4, <1>5, <1>6 DEF OwedFor

-----------------------------------------------------------------------------
(* The locked balances *)

(* What account a may have released for its fills as a maker, and the property in the
   terms of the above. *)
FillsDue(a) == IF Ready THEN 0 ELSE DueFor(a, fills, settled)

Funded == \A a \in DOMAIN balances : balances[a].locked >= Owed(a, Live) + FillsDue(a)

LEMMA FundedIs == LockedCoversOrders <=> Funded
<1>1. ASSUME NEW a
      PROVE  MarginOfOrders(a) = Owed(a, Live) /\ MarginOfFills(a) = FillsDue(a)
  <2>1. MarginOfOrders(a) = Owed(a, Live)
    BY DEF MarginOfOrders, Owed, MarginOf
  <2>2. Ready \in BOOLEAN /\ MarginOfFills(a) = DueNow(a, fills, settled, Ready)
    BY DEF MarginOfFills, DueNow, Ready
  <2>3. QED
    BY <2>1, <2>2, DueNowIs DEF FillsDue
<1>2. QED
  BY <1>1 DEF LockedCoversOrders, Funded

(* The resting orders under the names of the book's proofs. *)
Resting == BookProofs!RestingOrders

LEMMA SameResting == Book!RestingOrders = Resting /\ Book!RestingOrders' = Resting'
  BY DEF Resting, Book!RestingOrders, BookProofs!RestingOrders, Book!Sides, BookProofs!Sides

LEMMA LiveIs ==
    /\ Live  = Resting  \cup (IF Book!Idle  THEN {} ELSE {incoming})
    /\ Live' = Resting' \cup (IF Book!Idle' THEN {} ELSE {incoming'})
<1>1. Live = Book!RestingOrders \cup (IF Book!Idle THEN {} ELSE {incoming})
  BY DEF Live
<1>2. Live' = Book!RestingOrders' \cup (IF Book!Idle' THEN {} ELSE {incoming'})
  BY DEF Live, Book!Idle
<1>3. QED
  BY <1>1, <1>2, SameResting

(* With it, the book's invariants and the finiteness of the sets that are summed, the
   property is inductive. *)
FundsInv ==
    /\ ExchangeInv
    /\ BookProofs!IndexInv
    /\ IsFiniteSet(Resting)
    /\ Funded

(* What rests and what is in flight, as the sums need it: the order in flight is newer
   than any that rests, and the owners of those have balances. *)
LEMMA LiveFacts ==
    ASSUME ExchangeInv, BookProofs!IndexInv, IsFiniteSet(Resting)
    PROVE  /\ Sized(Resting) /\ Sized(Live)
           /\ Resting \subseteq BookProofs!Order
           /\ \A o \in Resting : o.account_id \in DOMAIN balances /\ o.id < next_order_id
           /\ Book!Idle => Live = Resting
           /\ ~Book!Idle => /\ Live = Resting \cup {incoming} /\ incoming \notin Resting
                            /\ incoming \in BookProofs!Order
                            /\ incoming.remaining_qty \in Nat /\ incoming.price \in Nat
<1>1. BookProofs!BookInv /\ MatchInv
  BY DEF BookProofs!IndexInv, ExchangeInv
<1>2. ASSUME NEW o \in Resting
      PROVE  /\ o \in BookProofs!Order /\ o.price \in Nat /\ o.remaining_qty \in Nat
             /\ o.account_id \in DOMAIN balances /\ o.id < next_order_id
             /\ ~Book!Idle => o.id < incoming.id
  <2>1. /\ o \in BookProofs!Order /\ o.side \in BookProofs!Sides
        /\ o.price \in DOMAIN book[o.side]
        /\ o \in BookProofs!OrdersOf(book[o.side][o.price])
    BY <1>1, <1>2, BookAssumed, BookProofs!RestingFacts DEF Resting
  <2>2. PICK i \in DOMAIN book[o.side][o.price].orders : o = book[o.side][o.price].orders[i]
    BY <2>1 DEF BookProofs!OrdersOf
  <2>3. BookProofs!RestsWell(o, o.side, o.price)
    BY <1>1, <2>1, <2>2 DEF BookProofs!BookInv, BookProofs!LevelsWellFormed
  <2>4. o.account_id \in DOMAIN balances
    BY <1>1, <2>1, <2>2 DEF MatchInv, BookProofs!OwnedIn
  <2>5. QED
    BY <2>1, <2>3, <2>4, PricesAreNat
       DEF BookProofs!Order, BookProofs!RestsWell, BookProofs!Idle, Book!Idle
<1>3. Sized(Resting)
  BY <1>2 DEF Sized
<1>4. Book!Idle => Live = Resting
  BY LiveIs
<1>5. ASSUME ~Book!Idle
      PROVE  /\ Live = Resting \cup {incoming} /\ incoming \notin Resting
             /\ incoming \in BookProofs!Order
             /\ incoming.remaining_qty \in Nat /\ incoming.price \in Nat
             /\ Sized(Live)
  <2>1. Live = Resting \cup {incoming}
    BY <1>5, LiveIs
  <2>2. incoming \in BookProofs!Order
    BY <1>1, <1>5 DEF BookProofs!BookInv, BookProofs!TypeOK, Book!Idle
  <2>3. incoming.remaining_qty \in Nat /\ incoming.price \in Nat /\ incoming.id \in Nat
    BY <2>2, PricesAreNat DEF BookProofs!Order
  <2>4. incoming \notin Resting
    BY <1>2, <1>5, <2>3
  <2>5. Sized(Resting \cup {incoming})
    BY <1>3, <2>3, <2>4, OwedAdds
  <2>6. QED
    BY <2>1, <2>2, <2>3, <2>4, <2>5
<1>6. QED
  BY <1>2, <1>3, <1>4, <1>5

LEMMA FillsDueIsNat ==
    ASSUME MatchInv, NEW a
    PROVE  FillsDue(a) \in Nat
<1>1. fills \in Seq(Book!Fill) /\ settled \in 0 .. Len(fills)
  BY BookTypes DEF MatchInv
<1>2. DueFor(a, fills, settled) \in Nat
  BY <1>1, DueIsNat
<1>3. QED
  BY <1>2 DEF FillsDue

(* Steps that leave the orders alone and lock no less. *)
LEMMA FundsKept ==
    ASSUME FundsInv, UNCHANGED <<bookVars, placing, settled>>,
           \A a \in DOMAIN balances' :
              IF a \in DOMAIN balances THEN balances'[a].locked = balances[a].locked
                                       ELSE Ready /\ balances'[a].locked = 0
    PROVE  IsFiniteSet(Resting)' /\ Funded'
<1>1. Live' = Live /\ Resting' = Resting /\ Ready' = Ready
  <2>1. UNCHANGED <<book, incoming>>
    BY DEF bookVars
  <2>2. QED
    BY <2>1 DEF Live, Resting, Book!RestingOrders, BookProofs!RestingOrders, Book!Idle, Ready
<1>2. \A a : FillsDue(a)' = FillsDue(a)
  BY <1>1 DEF FillsDue, DueFor, DueIn, bookVars
<1>3. ASSUME NEW a \in DOMAIN balances'
      PROVE  balances'[a].locked >= Owed(a, Live) + FillsDue(a)
  <2>1. CASE a \in DOMAIN balances
    BY <2>1 DEF FundsInv, Funded
  <2>2. CASE a \notin DOMAIN balances
    <3>1. Ready /\ Book!Idle /\ balances'[a].locked = 0
      BY <2>2 DEF FundsInv, ExchangeInv, MatchInv
    <3>2. \A o \in Live : o.account_id # a
      BY <2>2, <3>1, LiveFacts DEF FundsInv
    <3>3. Owed(a, Live) = 0 /\ FillsDue(a) = 0
      BY <3>1, <3>2, OwedByNobody DEF FillsDue
    <3>4. QED
      BY <3>1, <3>3
  <2>3. QED
    BY <2>1, <2>2
<1>4. ASSUME NEW a \in DOMAIN balances'
      PROVE  balances'[a].locked >= Owed(a, Live') + FillsDue(a)'
  BY <1>1, <1>2, <1>3
<1>5. Funded'
  BY <1>4 DEF Funded, Owed, MarginOf
<1>6. QED
  BY <1>1, <1>5 DEF FundsInv

(* Placing an order locks its margin, and the order that is matched then owes just
   that. *)
LEMMA FundsPlace ==
    ASSUME FundsInv, NEW a \in Accounts, NEW r \in Requests, PlaceOrder(a, r)
    PROVE  IsFiniteSet(Resting)' /\ Funded'
<1>1. /\ Ready /\ a \in DOMAIN balances
      /\ balances' = [balances EXCEPT ![a] = Lock(@, Margin(r.quantity, r.price))]
      /\ Book!Submit(a, r.side, r.order_type, r.price, r.quantity, r.post_only)
      /\ placing' = IF result' = "Matching" THEN a ELSE NoOne
      /\ settled' = 0
  BY DEF PlaceOrder, MaySend
<1>2. r \in Request /\ r.quantity \in Nat /\ r.price \in Nat
  BY RequestsAssumption, BookAssumption, PricesAreNat DEF Request
<1>3. PICK m \in Nat : m = Margin(r.quantity, r.price)
  BY <1>2, MoneyIsNat
<1>4. Resting' = Resting /\ fills' = <<>>
  BY <1>1 DEF Book!Submit, Resting, BookProofs!RestingOrders
<1>5. Book!Idle /\ Live = Resting /\ Sized(Resting)
      /\ \A o \in Resting : o.id < next_order_id /\ o \in BookProofs!Order
  BY <1>1, LiveFacts DEF FundsInv, ExchangeInv, MatchInv
<1>6. \A x : FillsDue(x)' = 0
  <2>1. <<>> \in Seq(Book!Fill) /\ Len(<<>>) = 0
    OBVIOUS
  <2>2. \A x : DueFor(x, <<>>, 0) = 0
    BY <2>1, NothingDue
  <2>3. \A x : DueFor(x, fills, settled)' = DueFor(x, <<>>, 0)
    BY <1>1, <1>4 DEF DueFor, DueIn
  <2>4. QED
    BY <2>2, <2>3 DEF FillsDue
<1>7. \A x \in DOMAIN balances : /\ balances[x].locked \in Nat /\ Owed(x, Resting) \in Nat
                                 /\ balances[x].locked >= Owed(x, Resting)
  <2>1. \A x \in DOMAIN balances : FillsDue(x) = 0 /\ balances[x] \in Balance
    BY <1>1 DEF FillsDue, FundsInv, ExchangeInv, LedgerInv
  <2>2. \A x \in DOMAIN balances : Owed(x, Resting) \in Nat
    BY <1>5, OwedIsNat
  <2>3. \A x \in DOMAIN balances : balances[x].locked >= Owed(x, Resting) + FillsDue(x)
    BY <1>5 DEF FundsInv, Funded
  <2>4. QED
    BY <2>1, <2>2, <2>3 DEF Balance
<1>8. /\ DOMAIN balances' = DOMAIN balances
      /\ \A x \in DOMAIN balances :
            balances'[x].locked = balances[x].locked + (IF x = a THEN m ELSE 0)
  BY <1>1, <1>3, <1>7 DEF Lock
<1>9. \A x \in DOMAIN balances : Owed(x, Live') <= balances'[x].locked
  <2>1. CASE r.quantity = 0
    <3>1. Live' = Resting
      BY <1>1, <1>4, <1>5, <2>1, LiveIs DEF Book!Submit, Book!Idle
    <3>2. QED
      BY <1>7, <1>8, <3>1
  <2>2. CASE r.quantity # 0
    <3>1. PICK o : /\ o = incoming' /\ o.id = next_order_id /\ o.account_id = a
                   /\ o.remaining_qty = r.quantity /\ o.price = r.price
      BY <1>1, <2>2 DEF Book!Submit
    <3>2. Live' \subseteq Resting \cup {o} /\ (Book!Idle' => Live' = Resting)
          /\ (~Book!Idle' => Live' = Resting \cup {o})
      BY <1>4, <3>1, LiveIs
    <3>3. ASSUME NEW x \in DOMAIN balances
          PROVE  Owed(x, Live') <= balances'[x].locked
      <4>1. /\ OwedFor(x, o) = IF x = a THEN m ELSE 0
            /\ Owed(x, Resting \cup {o}) <= Owed(x, Resting) + OwedFor(x, o)
            /\ Owed(x, Resting \cup {o}) \in Nat
        BY <1>2, <1>3, <1>5, <3>1, OwedAtMost DEF OwedFor
      <4>2. Live' = Resting \/ Live' = Resting \cup {o}
        BY <3>2
      <4>3. PICK k \in Nat : k = (IF x = a THEN m ELSE 0) /\ k = OwedFor(x, o)
        BY <4>1
      <4>4. balances'[x].locked = balances[x].locked + k
        BY <1>8, <4>3
      <4>5. Owed(x, Resting \cup {o}) <= balances'[x].locked
        BY <1>7, <4>1, <4>3, <4>4
      <4>6. Owed(x, Resting) <= balances'[x].locked
        BY <1>7, <4>4
      <4>7. QED
        BY <4>2, <4>5, <4>6
    <3>4. QED
      BY <3>3
  <2>3. QED
    BY <2>1, <2>2
<1>10. ASSUME NEW x \in DOMAIN balances
       PROVE  balances'[x].locked >= Owed(x, Live)' + FillsDue(x)'
  <2>1. Live' = Resting \/ Live' = Resting \cup {incoming'}
    BY <1>4, LiveIs
  <2>2. Owed(x, Live)' = Owed(x, Live')
    BY DEF Owed, MarginOf
  <2>3. Owed(x, Live') \in Nat
    <3>1. Sized(Live')
      <4>1. CASE Book!Idle'
        BY <1>4, <1>5, <4>1, LiveIs
      <4>2. CASE ~Book!Idle'
        <5>1. incoming'.remaining_qty = r.quantity /\ incoming'.price = r.price
          BY <1>1, <1>5, <4>2 DEF Book!Submit, Book!Idle
        <5>2. PICK o : o = incoming' /\ o.remaining_qty \in Nat /\ o.price \in Nat
          BY <1>2, <5>1
        <5>3. Sized(Resting \cup {o})
          BY <1>5, <5>2, OwedAtMost
        <5>4. Live' = Resting \cup {o}
          BY <1>4, <4>2, <5>2, LiveIs
        <5>5. QED
          BY <5>3, <5>4
      <4>3. QED
        BY <4>1, <4>2
    <3>2. QED
      BY <3>1, OwedIsNat
  <2>4. balances'[x].locked \in Nat
    BY <1>7, <1>8
  <2>5. QED
    BY <1>6, <1>9, <2>2, <2>3, <2>4
<1>11. QED
  BY <1>4, <1>8, <1>10 DEF Funded, FundsInv

(* A fill of quantity q: what the taker and the maker owe less is at least what the
   fill will release for the maker. *)
LEMMA FundsFill ==
    ASSUME FundsInv, MatchFill
    PROVE  IsFiniteSet(Resting)' /\ Funded'
<1>1. PICK p \in Prices : Book!FillMaker(p)
  BY DEF MatchFill
<1>2. UNCHANGED <<balances, placing, settled>>
  BY DEF MatchFill
<1>3. BookProofs!FillMaker(p)
  BY <1>1, SameFill
<1>4. PICK m \in BookProofs!Abstract!Candidates : \E q \in 1 .. m.remaining_qty :
         BookProofs!Abstract!Trade(m, q)
  BY <1>3, BookAssumed, BookProofs!FillTrades DEF FundsInv
<1>5. PICK q \in 1 .. m.remaining_qty : BookProofs!Abstract!Trade(m, q)
  BY <1>4
<1>6. ~Book!Idle /\ ~Ready /\ settled = 0
  BY <1>1 DEF Book!FillMaker, Book!Matchable, FundsInv, ExchangeInv, MatchInv
<1>7. PICK f : /\ f.maker_account_id = m.account_id /\ f.price = m.price /\ f.quantity = q
               /\ fills' = Append(fills, f)
  BY <1>5 DEF BookProofs!Abstract!Trade
<1>8. PICK w : w = [m EXCEPT !.remaining_qty = @ - q]
  OBVIOUS
<1>9. PICK v : v = [incoming EXCEPT !.remaining_qty = @ - q]
  OBVIOUS
<1>10. /\ m \in Resting /\ q <= incoming.remaining_qty
       /\ Resting' = (Resting \ {m}) \cup {n \in {w} : n.remaining_qty > 0}
       /\ incoming' = v
  BY <1>4, <1>5, <1>8, <1>9 DEF BookProofs!Abstract!Trade, BookProofs!Abstract!Candidates, Resting
<1>11. /\ Sized(Resting) /\ Sized(Live) /\ Live = Resting \cup {incoming}
       /\ incoming \notin Resting
       /\ incoming \in BookProofs!Order /\ m \in BookProofs!Order
       /\ incoming.remaining_qty \in Nat /\ incoming.price \in Nat
  BY <1>6, <1>10, LiveFacts DEF FundsInv
<1>12. q \in Nat /\ q <= m.remaining_qty /\ m.price \in Nat /\ m.remaining_qty \in Nat
  <2>1. m.remaining_qty \in Nat /\ m.price \in Nat
    BY <1>11, PricesAreNat DEF BookProofs!Order
  <2>2. QED
    BY <2>1
<1>13. PICK S : S = Resting \ {m}
  OBVIOUS
<1>14. ASSUME NEW a
       PROVE  /\ Sized(Live') /\ Sized(Resting')
              /\ Owed(a, Live') + (IF m.account_id = a THEN Margin(q, m.price) ELSE 0)
                    <= Owed(a, Live)
              /\ Owed(a, Live') \in Nat
              /\ Owed(a, Live) \in Nat /\ Margin(q, m.price) \in Nat
  <2>1. /\ Sized(S) /\ Owed(a, S) \in Nat /\ OwedFor(a, m) \in Nat
        /\ Owed(a, Resting) = Owed(a, S) + OwedFor(a, m)
    BY <1>10, <1>11, <1>13, OwedTakes
  <2>2. /\ OwedFor(a, incoming) \in Nat
        /\ Owed(a, Live) = Owed(a, Resting) + OwedFor(a, incoming)
    BY <1>11, OwedAdds
  <2>3. /\ w.remaining_qty \in Nat /\ w.price \in Nat
        /\ OwedFor(a, w) \in Nat
        /\ OwedFor(a, w) <= OwedFor(a, m)
        /\ m.account_id = a => OwedFor(a, w) + Margin(q, m.price) <= OwedFor(a, m)
        /\ w.remaining_qty = 0 => OwedFor(a, w) = 0
    BY <1>8, <1>11, <1>12, FilledOwesLess
  <2>4. /\ v.remaining_qty \in Nat /\ v.price \in Nat
        /\ OwedFor(a, v) \in Nat
        /\ OwedFor(a, v) <= OwedFor(a, incoming)
    BY <1>9, <1>10, <1>11, <1>12, FilledOwesLess
  <2>5. Sized(Resting') /\ Owed(a, Resting') \in Nat
        /\ Owed(a, Resting') <= Owed(a, S) + OwedFor(a, w)
    <3>1. CASE w.remaining_qty > 0
      <4>1. Resting' = S \cup {w}
        BY <1>10, <1>13, <3>1
      <4>2. Sized(S \cup {w}) /\ Owed(a, S \cup {w}) \in Nat
            /\ Owed(a, S \cup {w}) <= Owed(a, S) + OwedFor(a, w)
        BY <2>1, <2>3, OwedAtMost
      <4>3. QED
        BY <4>1, <4>2
    <3>2. CASE ~(w.remaining_qty > 0)
      <4>1. Resting' = S /\ OwedFor(a, w) = 0
        BY <1>10, <1>13, <2>3, <3>2
      <4>2. QED
        BY <2>1, <4>1
    <3>3. QED
      BY <3>1, <3>2
  <2>6. PICK T : T = Resting'
    OBVIOUS
  <2>7. Sized(T \cup {v}) /\ Owed(a, T \cup {v}) \in Nat
        /\ Owed(a, T \cup {v}) <= Owed(a, T) + OwedFor(a, v) /\ Owed(a, T) \in Nat
        /\ Owed(a, T) <= Owed(a, T \cup {v})
    BY <2>4, <2>5, <2>6, OwedAtMost
  <2>8. Live' = T \/ Live' = T \cup {v}
    BY <1>10, <2>6, LiveIs
  <2>9. Sized(Live') /\ Owed(a, Live') \in Nat /\ Owed(a, Live') <= Owed(a, T) + OwedFor(a, v)
    <3>1. CASE Live' = T
      BY <2>4, <2>5, <2>6, <2>7, <3>1
    <3>2. CASE Live' = T \cup {v}
      BY <2>7, <3>2
    <3>3. QED
      BY <2>8, <3>1, <3>2
  <2>10. Margin(q, m.price) \in Nat
    BY <1>12, MoneyIsNat
  <2>11. Owed(a, T) <= Owed(a, S) + OwedFor(a, w)
    BY <2>5, <2>6
  <2>12. Owed(a, Live) \in Nat
    BY <1>11, OwedIsNat
  <2> DEFINE l == Owed(a, Live)  l2 == Owed(a, Live')  t == Owed(a, T)  s == Owed(a, S)
             g == Margin(q, m.price)  i == OwedFor(a, incoming)  j == OwedFor(a, v)
             b == OwedFor(a, m)  c == OwedFor(a, w)
  <2>13. /\ l \in Nat /\ l2 \in Nat /\ t \in Nat /\ s \in Nat /\ g \in Nat
         /\ i \in Nat /\ j \in Nat /\ b \in Nat /\ c \in Nat
         /\ l = (s + b) + i /\ l2 <= t + j /\ t <= s + c /\ j <= i
    BY <2>1, <2>2, <2>3, <2>4, <2>7, <2>9, <2>10, <2>11, <2>12
  <2>14. c <= b /\ (m.account_id = a => c + g <= b)
    BY <2>3
  <2> HIDE DEF l, l2, t, s, g, i, j, b, c
  <2>15. l2 + (IF m.account_id = a THEN g ELSE 0) <= l
    BY <2>13, <2>14
  <2>16. QED
    BY <2>5, <2>9, <2>10, <2>12, <2>15 DEF l, l2, g
<1>15. fills \in Seq(Book!Fill) /\ 0 \in 0 .. Len(fills) /\ f \in Book!Fill
  <2>1. fills \in Seq(Book!Fill)
    BY BookTypes DEF FundsInv, ExchangeInv, MatchInv
  <2>2. BookProofs!BookInv'
    <3>1. MatchInv
      BY DEF FundsInv, ExchangeInv
    <3>2. QED
      BY <3>1, MatchFills DEF MatchInv
  <2>3. BookProofs!TypeOK'
    BY <2>2 DEF BookProofs!BookInv
  <2>4. fills' \in Seq(Book!Fill)
    BY <2>3 DEF BookProofs!TypeOK, BookProofs!Fill, BookProofs!Sides, Book!Fill, Book!Sides
  <2>5. Len(fills') = Len(fills) + 1 /\ fills'[Len(fills) + 1] = f /\ Len(fills) \in Nat
    BY <1>7, <2>1
  <2>6. f \in Book!Fill
    BY <2>4, <2>5
  <2>7. QED
    BY <2>1, <2>5, <2>6
<1>16. ASSUME NEW a
       PROVE  FillsDue(a)' = FillsDue(a) + (IF m.account_id = a THEN Margin(q, m.price) ELSE 0)
              /\ FillsDue(a) \in Nat
  <2>1. FillsDue(a) = DueFor(a, fills, 0) /\ DueFor(a, fills, 0) \in Nat
    BY <1>6, <1>15, DueIsNat DEF FillsDue
  <2>2. FillsDue(a)' = DueFor(a, Append(fills, f), 0)
    BY <1>2, <1>6, <1>7 DEF FillsDue, Ready, DueFor, DueIn
  <2>3. DueFor(a, Append(fills, f), 0) = DueFor(a, fills, 0) + DueOf(a, f)
    BY <1>15, DueAppends
  <2>4. DueOf(a, f) = IF m.account_id = a THEN Margin(q, m.price) ELSE 0
    BY <1>7 DEF DueOf
  <2>5. QED
    BY <2>1, <2>2, <2>3, <2>4
<1>17. ASSUME NEW a \in DOMAIN balances
       PROVE  balances[a].locked >= Owed(a, Live') + FillsDue(a)'
  <2>1. balances[a].locked \in Nat /\ balances[a].locked >= Owed(a, Live) + FillsDue(a)
    BY DEF FundsInv, Funded, ExchangeInv, LedgerInv, Balance
  <2> DEFINE l == Owed(a, Live)  l2 == Owed(a, Live')  d == FillsDue(a)
             g == IF m.account_id = a THEN Margin(q, m.price) ELSE 0
             b == balances[a].locked
  <2>2. l \in Nat /\ l2 \in Nat /\ d \in Nat /\ g \in Nat /\ b \in Nat
        /\ l2 + g <= l /\ l + d <= b
    BY <1>14, <1>16, <2>1
  <2>3. FillsDue(a)' = d + g
    BY <1>16
  <2> HIDE DEF l, l2, d, g, b
  <2>4. l2 + (d + g) <= b
    BY <2>2
  <2>5. QED
    BY <2>3, <2>4 DEF l2, b
<1>18. Funded'
  BY <1>2, <1>17 DEF Funded, Owed, MarginOf
<1>19. IsFiniteSet(Resting')
  BY <1>14 DEF Sized
<1>20. QED
  BY <1>18, <1>19

(* Steps after which no more is live, of what was, keep the funds. *)
LEMMA FundsFewer ==
    ASSUME FundsInv, Live' \subseteq Live, Resting' \subseteq Live,
           DOMAIN balances' = DOMAIN balances,
           \A a \in DOMAIN balances : balances'[a].locked = balances[a].locked,
           \A a \in DOMAIN balances : FillsDue(a)' \in Nat /\ FillsDue(a)' <= FillsDue(a),
           \A a \in DOMAIN balances : Owed(a, Live') <= Owed(a, Live)
    PROVE  IsFiniteSet(Resting)' /\ Funded'
<1>1. Sized(Live) /\ Sized(Live') /\ IsFiniteSet(Resting')
  BY LiveFacts, FS_Subset DEF FundsInv, Sized
<1>2. ASSUME NEW a \in DOMAIN balances
      PROVE  balances'[a].locked >= Owed(a, Live') + FillsDue(a)'
  <2>1. balances[a].locked \in Nat /\ balances[a].locked >= Owed(a, Live) + FillsDue(a)
    BY DEF FundsInv, Funded, ExchangeInv, LedgerInv, Balance
  <2>2. FillsDue(a) \in Nat
    BY FillsDueIsNat DEF FundsInv, ExchangeInv
  <2>3. Owed(a, Live) \in Nat /\ Owed(a, Live') \in Nat
    BY <1>1, OwedIsNat
  <2> DEFINE l == Owed(a, Live)  l2 == Owed(a, Live')  d == FillsDue(a)  e == FillsDue(a)'
             b == balances[a].locked
  <2>4. l \in Nat /\ l2 \in Nat /\ d \in Nat /\ e \in Nat /\ b \in Nat
        /\ l2 <= l /\ e <= d /\ l + d <= b
    BY <2>1, <2>2, <2>3
  <2> HIDE DEF l, l2, d, e, b
  <2>5. l2 + e <= b
    BY <2>4
  <2>6. QED
    BY <2>5 DEF l2, e, b
<1>3. Funded'
  BY <1>2 DEF Funded, Owed, MarginOf
<1>4. QED
  BY <1>1, <1>3

(* What is left of a refused order owes nothing; its margin stays locked. *)
LEMMA FundsRefused ==
    ASSUME FundsInv, MatchRefused
    PROVE  IsFiniteSet(Resting)' /\ Funded'
<1>1. /\ Book!RejectPostOnly /\ placing' = NoOne /\ UNCHANGED <<balances, settled>>
  BY DEF MatchRefused
<1>2. ~Book!Idle /\ Book!Idle' /\ Resting' = Resting
  BY <1>1 DEF Book!RejectPostOnly, Book!AfterRefusal, Book!Matchable, Book!Idle, Resting,
              BookProofs!RestingOrders
<1>3. Live = Resting \cup {incoming} /\ Live' = Resting /\ Sized(Resting)
      /\ incoming.remaining_qty \in Nat /\ incoming.price \in Nat
  BY <1>2, LiveFacts, LiveIs DEF FundsInv
<1>4. \A a : Owed(a, Live') <= Owed(a, Live)
  BY <1>3, OwedAtMost
<1>5. \A a : FillsDue(a)' = 0
  BY <1>1 DEF FillsDue, Ready
<1>6. \A a : FillsDue(a) \in Nat
  BY FillsDueIsNat DEF FundsInv, ExchangeInv
<1>7. \A a \in DOMAIN balances : FillsDue(a)' \in Nat /\ FillsDue(a)' <= FillsDue(a)
  BY <1>5, <1>6
<1>8. Live' \subseteq Live /\ Resting' \subseteq Live
  BY <1>2, <1>3
<1>9. QED
  BY <1>1, <1>4, <1>7, <1>8, FundsFewer

(* The end of a match lets the order rest, or drops it. *)
LEMMA FundsDone ==
    ASSUME FundsInv, MatchDone
    PROVE  IsFiniteSet(Resting)' /\ Funded'
<1>1. Book!FinishMatch /\ UNCHANGED <<balances, placing, settled>>
  BY DEF MatchDone
<1>2. BookProofs!FinishMatch /\ BookProofs!BookInv
  BY <1>1, SameFinish DEF FundsInv, BookProofs!IndexInv
<1>3. BookProofs!Abstract!Done
  BY <1>2, BookAssumed, BookProofs!FinishIsDone
<1>4. /\ Resting' = Resting \cup
            {o \in {incoming} : o.remaining_qty > 0 /\ o.order_type = "Limit"}
      /\ fills' = fills
  BY <1>3 DEF BookProofs!Abstract!Done, Resting
<1>5. ~Book!Idle /\ Book!Idle'
  BY <1>1 DEF Book!FinishMatch, Book!Idle
<1>6. Live = Resting \cup {incoming} /\ Live' = Resting' /\ Sized(Resting)
      /\ incoming.remaining_qty \in Nat /\ incoming.price \in Nat
  BY <1>5, LiveFacts, LiveIs DEF FundsInv
<1>7. Live' = Resting \/ Live' = Live
  BY <1>4, <1>6
<1>8. ASSUME NEW a PROVE Owed(a, Live') <= Owed(a, Live)
  <2>1. Owed(a, Resting) <= Owed(a, Live) /\ Owed(a, Live) \in Nat
    BY <1>6, OwedAtMost
  <2>2. QED
    BY <1>7, <2>1
<1>9. \A a : FillsDue(a)' = FillsDue(a)
  BY <1>1, <1>4 DEF FillsDue, Ready, DueFor, DueIn
<1>10. \A a : FillsDue(a) \in Nat
  BY FillsDueIsNat DEF FundsInv, ExchangeInv
<1>11. \A a \in DOMAIN balances : FillsDue(a)' \in Nat /\ FillsDue(a)' <= FillsDue(a)
  BY <1>9, <1>10
<1>12. Live' \subseteq Live /\ Resting' \subseteq Live
  BY <1>4, <1>6
<1>13. QED
  BY <1>1, <1>8, <1>11, <1>12, FundsFewer

(* What process_fill releases for the maker is there, and no longer due afterwards. *)
LEMMA FundsSettle ==
    ASSUME FundsInv, SettleFill
    PROVE  IsFiniteSet(Resting)' /\ Funded'
<1>1. PICK f \in Book!Fill :
         /\ f = fills[settled + 1] /\ f.quantity \in Nat /\ f.price \in Nat
         /\ f.maker_account_id \in DOMAIN balances
         /\ f.taker_account_id \in DOMAIN balances
  BY NextFill, PricesAreNat DEF FundsInv, ExchangeInv
<1>2. /\ balances' = Settled(f) /\ ~Ready /\ Book!Idle /\ settled < Len(fills)
      /\ settled' = settled + 1 /\ UNCHANGED <<bookVars, placing>>
  BY <1>1 DEF SettleFill, Settling
<1>3. UNCHANGED <<book, incoming, fills>>
  BY <1>2 DEF bookVars
<1>4. Live' = Live /\ Resting' = Resting
  BY <1>3 DEF Live, Resting, Book!RestingOrders, BookProofs!RestingOrders, Book!Idle
<1>5. fills \in Seq(Book!Fill) /\ settled \in 0 .. Len(fills)
  BY BookTypes DEF FundsInv, ExchangeInv, MatchInv
<1>6. ASSUME NEW a
      PROVE  FillsDue(a) = DueOf(a, f) + FillsDue(a)' /\ FillsDue(a)' \in Nat
             /\ DueOf(a, f) \in Nat
  <2>1. settled + 1 \in 0 .. Len(fills)
    BY <1>2, <1>5
  <2>2. DueFor(a, fills, settled) = DueOf(a, f) + DueFor(a, fills, settled + 1)
    BY <1>1, <1>2, <1>5, DueNext
  <2>3. DueFor(a, fills, settled + 1) \in Nat /\ DueOf(a, f) \in Nat
    BY <1>5, <2>1, DueIsNat, FillMargin
  <2>4. FillsDue(a)' = DueFor(a, fills, settled + 1)
    BY <1>2, <1>3 DEF FillsDue, Ready, DueFor, DueIn
  <2>5. FillsDue(a) = DueFor(a, fills, settled)
    BY <1>2 DEF FillsDue
  <2>6. QED
    BY <2>2, <2>3, <2>4, <2>5
<1> DEFINE k == f.maker_account_id
           t == f.taker_account_id
<1>7. PICK g \in Nat : g = Margin(f.quantity, f.price)
  BY <1>1, MoneyIsNat
<1>8. balances \in [DOMAIN balances -> Balance]
  BY DEF FundsInv, ExchangeInv, LedgerInv
<1>9. \A a \in DOMAIN balances : /\ Owed(a, Live) \in Nat
                                 /\ balances[a].locked >= Owed(a, Live) + FillsDue(a)
                                 /\ balances[a].locked \in Nat
  <2>1. \A a : Owed(a, Live) \in Nat
    BY LiveFacts, OwedIsNat DEF FundsInv
  <2>2. QED
    BY <1>8, <2>1 DEF FundsInv, Funded, Balance
<1>10. PICK b : b = Credit(Unlock(balances[k], Margin(f.quantity, f.price)),
                           MakerRebate(f.quantity, f.price))
  OBVIOUS
<1>11. b.locked = balances[k].locked - g
  <2>1. DueOf(k, f) = g
    BY <1>7 DEF DueOf
  <2>2. balances[k].locked >= g
    BY <1>1, <1>6, <1>7, <1>9, <2>1
  <2>3. balances[k] \in Balance
    BY <1>1, <1>8
  <2>4. QED
    BY <1>7, <1>10, <2>2, <2>3 DEF Unlock, Credit, Balance
<1>12. PICK m : m = [balances EXCEPT ![k] = b]
  OBVIOUS
<1>13. PICK c : c = Debit(m[t], TakerFee(f.quantity, f.price))
  OBVIOUS
<1>14. balances' = [m EXCEPT ![t] = c]
  BY <1>2, <1>10, <1>12, <1>13 DEF Settled
<1>15. c.locked = m[t].locked
  BY <1>13 DEF Debit
<1>16. /\ DOMAIN balances' = DOMAIN balances
       /\ \A a \in DOMAIN balances :
             balances'[a].locked = IF a = k THEN balances[a].locked - g ELSE balances[a].locked
  BY <1>8, <1>11, <1>12, <1>14, <1>15
<1>17. ASSUME NEW a \in DOMAIN balances
       PROVE  balances'[a].locked >= Owed(a, Live) + FillsDue(a)'
  <2>1. DueOf(a, f) = IF a = k THEN g ELSE 0
    BY <1>7 DEF DueOf
  <2>2. balances'[a].locked = balances[a].locked - DueOf(a, f)
    BY <1>9, <1>16, <2>1
  <2> DEFINE l == Owed(a, Live)  d == DueOf(a, f)  e == FillsDue(a)'  o == balances[a].locked
             n == balances'[a].locked
  <2>3. l \in Nat /\ d \in Nat /\ e \in Nat /\ o \in Nat /\ o >= l + (d + e) /\ n = o - d
    BY <1>6, <1>9, <2>2
  <2> HIDE DEF l, d, e, o, n
  <2>4. n >= l + e
    BY <2>3
  <2>5. QED
    BY <2>4 DEF l, e, n
<1>18. Funded'
  BY <1>4, <1>16, <1>17 DEF Funded, Owed, MarginOf
<1>19. QED
  BY <1>4, <1>18 DEF FundsInv

(* When all fills are settled none is due. *)
LEMMA FundsFinish ==
    ASSUME FundsInv, FinishPlace
    PROVE  IsFiniteSet(Resting)' /\ Funded'
<1>1. ~Ready /\ settled = Len(fills) /\ placing' = NoOne /\ UNCHANGED <<bookVars, balances>>
  BY DEF FinishPlace, Settling
<1>2. fills \in Seq(Book!Fill)
  BY BookTypes DEF FundsInv, ExchangeInv, MatchInv
<1>3. \A a : FillsDue(a) = 0 /\ FillsDue(a)' = 0
  BY <1>1, <1>2, NothingDue DEF FillsDue, Ready
<1>4. UNCHANGED <<book, incoming>>
  BY <1>1 DEF bookVars
<1>5. Live' = Live /\ Resting' = Resting
  BY <1>4 DEF Live, Resting, Book!RestingOrders, BookProofs!RestingOrders, Book!Idle
<1>6. \A a \in DOMAIN balances : balances[a].locked >= Owed(a, Live) + FillsDue(a)'
  BY <1>3 DEF FundsInv, Funded
<1>7. Funded'
  BY <1>1, <1>5, <1>6 DEF Funded, Owed, MarginOf
<1>8. QED
  BY <1>5, <1>7 DEF FundsInv

(* A cancel releases the margin of what is left of the order, which is there. *)
LEMMA FundsCancel ==
    ASSUME FundsInv, NEW a \in Accounts, NEW id \in 0 .. MaxOrders, CancelOrder(a, id)
    PROVE  IsFiniteSet(Resting)' /\ Funded'
<1>1. PICK s \in Book!Sides : \E p \in DOMAIN book[s] : \E i \in DOMAIN book[s][p].orders :
          /\ book[s][p].orders[i].account_id = a
          /\ Book!CancelFound(id, a, s, p, i)
          /\ balances' = [balances EXCEPT ![a] = Unlock(@, Released(book[s][p].orders[i]))]
  BY DEF CancelOrder
<1>2. PICK p \in DOMAIN book[s] : \E i \in DOMAIN book[s][p].orders :
          /\ book[s][p].orders[i].account_id = a
          /\ Book!CancelFound(id, a, s, p, i)
          /\ balances' = [balances EXCEPT ![a] = Unlock(@, Released(book[s][p].orders[i]))]
  BY <1>1
<1>3. PICK i \in DOMAIN book[s][p].orders :
          /\ book[s][p].orders[i].account_id = a
          /\ Book!CancelFound(id, a, s, p, i)
          /\ balances' = [balances EXCEPT ![a] = Unlock(@, Released(book[s][p].orders[i]))]
  BY <1>2
<1>4. Ready /\ Book!Idle /\ a \in DOMAIN balances /\ UNCHANGED <<placing, incoming>>
  BY <1>3 DEF CancelOrder, MaySend, Book!CancelFound
<1>5. PICK o : o = book[s][p].orders[i]
  OBVIOUS
<1>6. BookProofs!CancelFound(id, a, s, p, i) /\ s \in BookProofs!Sides
  BY <1>3, SameCancel
<1>7. BookProofs!Abstract!Withdraw(o)
  <2>1. IF book[s][p].orders[i].account_id = a
        THEN BookProofs!Abstract!Withdraw(book[s][p].orders[i])
        ELSE BookProofs!Abstract!Decline
    BY <1>6, BookAssumed, BookProofs!CancelWithdraws DEF FundsInv
  <2>2. QED
    BY <1>3, <1>5, <2>1
<1>8. o \in Resting /\ Resting' = Resting \ {o} /\ o.account_id = a
  BY <1>3, <1>5, <1>7 DEF BookProofs!Abstract!Withdraw, Resting
<1>9. Sized(Resting) /\ Live = Resting /\ Live' = Resting \ {o}
  BY <1>4, <1>8, LiveFacts, LiveIs DEF FundsInv, Book!Idle
<1>10. ASSUME NEW x
       PROVE  /\ Owed(x, Live') \in Nat /\ OwedFor(x, o) \in Nat
              /\ Owed(x, Live) = Owed(x, Live') + OwedFor(x, o)
  BY <1>8, <1>9, OwedTakes
<1>11. PICK g \in Nat : g = Released(o) /\ g = OwedFor(a, o)
  BY <1>8, <1>10 DEF Released, OwedFor
<1>12. \A x : FillsDue(x) = 0 /\ FillsDue(x)' = 0
  BY <1>4 DEF FillsDue, Ready
<1>13. \A x \in DOMAIN balances : /\ balances[x] \in Balance /\ balances[x].locked \in Nat
                                  /\ balances[x].locked >= Owed(x, Live)
  <2>1. \A x \in DOMAIN balances : /\ balances[x] \in Balance /\ balances[x].locked \in Nat
                                   /\ balances[x].locked >= Owed(x, Live) + FillsDue(x)
    BY DEF FundsInv, Funded, ExchangeInv, LedgerInv, Balance
  <2>2. \A x : Owed(x, Live) \in Nat
    BY <1>10
  <2>3. QED
    BY <1>12, <2>1, <2>2
<1>14. /\ DOMAIN balances' = DOMAIN balances
       /\ \A x \in DOMAIN balances :
             balances'[x].locked = IF x = a THEN balances[x].locked - g ELSE balances[x].locked
  <2>1. balances[a].locked >= g
    BY <1>4, <1>10, <1>11, <1>13
  <2>2. Unlock(balances[a], g).locked = balances[a].locked - g
    BY <2>1 DEF Unlock
  <2>3. balances' = [balances EXCEPT ![a] = Unlock(balances[a], g)]
    BY <1>3, <1>5, <1>11
  <2>4. QED
    BY <2>2, <2>3
<1>15. ASSUME NEW x \in DOMAIN balances
       PROVE  balances'[x].locked >= Owed(x, Live') + FillsDue(x)'
  <2>1. CASE x = a
    <3>1. balances'[x].locked = balances[x].locked - OwedFor(x, o)
      BY <1>11, <1>14, <2>1
    <3>2. QED
      BY <1>10, <1>12, <1>13, <3>1
  <2>2. CASE x # a
    BY <1>10, <1>12, <1>13, <1>14, <2>2
  <2>3. QED
    BY <2>1, <2>2
<1>16. Funded'
  BY <1>14, <1>15 DEF Funded, Owed, MarginOf
<1>17. IsFiniteSet(Resting')
  BY <1>8, FS_Subset DEF FundsInv
<1>18. QED
  BY <1>16, <1>17

(* A liquidation locks and releases nothing. *)
LEMMA FundsLiquidate ==
    ASSUME FundsInv, NEW a \in Accounts, NEW l \in Accounts, Liquidate(l, a)
    PROVE  IsFiniteSet(Resting)' /\ Funded'
<1>1. Ready /\ UNCHANGED <<bookVars, placing, settled>>
  BY DEF Liquidate
<1>2. /\ a \in DOMAIN positions /\ a \in DOMAIN balances /\ WellFormed(positions[a])
      /\ balances \in [DOMAIN balances -> Balance]
  BY DEF Liquidate, FundsInv, ExchangeInv, PositionsInv, LedgerInv
<1>3. PICK closed : /\ closed = Decrease(positions[a], positions[a].size)
                    /\ closed.margin = 0 /\ closed.margin \div 10 = 0
  BY <1>2, ClosedIsEmpty DEF NoPosition
<1>4. closed.margin - closed.margin \div 10 = 0
  BY <1>3
<1>5. PICK after : after = [balances EXCEPT ![a] = DeductLocked(@, 0)]
  OBVIOUS
<1>6. /\ DOMAIN after = DOMAIN balances
      /\ \A x \in DOMAIN balances : after[x].locked = balances[x].locked
  BY <1>2, <1>5 DEF DeductLocked, Balance
<1>7. after = [balances EXCEPT ![a] =
                 DeductLocked(@, closed.margin - closed.margin \div 10)]
  BY <1>4, <1>5
<1>8. balances' = after \/ balances' = Book!Put(after, l, Credit(BalanceOf(after, l), 0))
  BY <1>3, <1>7 DEF Liquidate
<1>9. Credit(BalanceOf(after, l), 0).locked = BalanceOf(after, l).locked
  BY DEF Credit
<1>10. ASSUME NEW x \in DOMAIN balances'
       PROVE  IF x \in DOMAIN balances THEN balances'[x].locked = balances[x].locked
                                       ELSE Ready /\ balances'[x].locked = 0
  <2>1. CASE balances' = after
    BY <1>6, <2>1
  <2>2. CASE balances' = Book!Put(after, l, Credit(BalanceOf(after, l), 0))
    <3>1. CASE x = l
      <4>1. balances'[x].locked = BalanceOf(after, l).locked
        BY <1>9, <2>2, <3>1 DEF Book!Put
      <4>2. QED
        BY <1>1, <1>6, <3>1, <4>1 DEF BalanceOf, EmptyBalance
    <3>2. CASE x # l
      BY <1>6, <2>2, <3>2 DEF Book!Put
    <3>3. QED
      BY <3>1, <3>2
  <2>3. QED
    BY <1>8, <2>1, <2>2
<1>11. QED
  BY <1>1, <1>10, FundsKept

(* Deposits and withdrawals move free money. *)
LEMMA FundsMove ==
    ASSUME FundsInv, NEW a \in Accounts,
           \/ CreateAccount(a)
           \/ \E m \in Amounts : Deposit(a, m) \/ Withdraw(a, m)
    PROVE  IsFiniteSet(Resting)' /\ Funded'
<1>1. UNCHANGED <<bookVars, placing, settled>> /\ Ready
  BY DEF CreateAccount, Deposit, Withdraw, MaySend
<1>2. \/ UNCHANGED balances
      \/ \E m \in Amounts : balances' = Book!Put(balances, a, Credit(BalanceOf(balances, a), m))
      \/ \E m \in Amounts : balances' = [balances EXCEPT ![a] = Debit(@, m)]
  BY DEF CreateAccount, Deposit, Withdraw
<1>3. ASSUME NEW x \in DOMAIN balances'
      PROVE  IF x \in DOMAIN balances THEN balances'[x].locked = balances[x].locked
                                      ELSE Ready /\ balances'[x].locked = 0
  <2>1. CASE UNCHANGED balances
    BY <2>1
  <2>2. ASSUME NEW m \in Amounts,
               balances' = Book!Put(balances, a, Credit(BalanceOf(balances, a), m))
        PROVE  IF x \in DOMAIN balances THEN balances'[x].locked = balances[x].locked
                                        ELSE Ready /\ balances'[x].locked = 0
    <3>1. Credit(BalanceOf(balances, a), m).locked = BalanceOf(balances, a).locked
      BY DEF Credit
    <3>2. QED
      BY <1>1, <2>2, <3>1 DEF Book!Put, BalanceOf, EmptyBalance
  <2>3. ASSUME NEW m \in Amounts, balances' = [balances EXCEPT ![a] = Debit(@, m)]
        PROVE  IF x \in DOMAIN balances THEN balances'[x].locked = balances[x].locked
                                        ELSE Ready /\ balances'[x].locked = 0
    BY <2>3 DEF Debit
  <2>4. QED
    BY <1>2, <2>1, <2>2, <2>3
<1>4. QED
  BY <1>1, <1>3, FundsKept

(* Every step keeps the funds. *)
LEMMA NextFundsInv == FundsInv /\ [Next]_vars => FundsInv'
<1> SUFFICES ASSUME FundsInv, [Next]_vars PROVE FundsInv'
  OBVIOUS
<1>1. ExchangeInv'
  BY NextExchangeInv DEF FundsInv
<1>2. BookProofs!IndexInv'
  BY StepOfBook, BookAssumed, BookProofs!NextIndexInv DEF FundsInv
<1>3. IsFiniteSet(Resting)' /\ Funded'
  <2>1. ASSUME NEW a \in Accounts, NEW r \in Requests, PlaceOrder(a, r)
        PROVE  IsFiniteSet(Resting)' /\ Funded'
    BY <2>1, FundsPlace
  <2>2. ASSUME NEW a \in Accounts, NEW id \in 0 .. MaxOrders, CancelOrder(a, id)
        PROVE  IsFiniteSet(Resting)' /\ Funded'
    BY <2>2, FundsCancel
  <2>3. ASSUME NEW a \in Accounts, NEW l \in Accounts, Liquidate(l, a)
        PROVE  IsFiniteSet(Resting)' /\ Funded'
    BY <2>3, FundsLiquidate
  <2>4. ASSUME NEW a \in Accounts,
               \/ CreateAccount(a)
               \/ \E m \in Amounts : Deposit(a, m) \/ Withdraw(a, m)
        PROVE  IsFiniteSet(Resting)' /\ Funded'
    BY <2>4, FundsMove
  <2>5. CASE MatchFill \/ MatchRefused \/ MatchDone \/ SettleFill \/ FinishPlace
    BY <2>5, FundsFill, FundsRefused, FundsDone, FundsSettle, FundsFinish
  <2>6. CASE UNCHANGED <<bookVars, placing, settled, balances>>
    BY <2>6, FundsKept
  <2>7. ASSUME NEW p \in Prices, UpdateOracle(p)
        PROVE  UNCHANGED <<bookVars, placing, settled, balances>>
    BY <2>7 DEF UpdateOracle
  <2>8. UNCHANGED vars => UNCHANGED <<bookVars, placing, settled, balances>>
    BY DEF vars
  <2>9. QED
    BY <2>1, <2>2, <2>3, <2>4, <2>5, <2>6, <2>7, <2>8 DEF Next
<1>4. QED
  BY <1>1, <1>2, <1>3 DEF FundsInv

LEMMA FundsInvAlways == Spec => []FundsInv
<1>1. Init => FundsInv
  <2> SUFFICES ASSUME Init PROVE FundsInv
    OBVIOUS
  <2>1. ExchangeInv
    BY InitExchangeInv
  <2>2. BookProofs!Init /\ \A s \in BookProofs!Sides : DOMAIN book[s] = {}
    BY DEF Init, Book!Init, BookProofs!Init, Book!Sides, BookProofs!Sides
  <2>3. BookProofs!IndexInv
    <3>1. BookProofs!BookInv
      BY <2>1 DEF ExchangeInv, MatchInv
    <3>2. QED
      BY <2>2, <3>1 DEF BookProofs!Init, BookProofs!IndexInv, BookProofs!QueuesIndexed,
                        BookProofs!IndexFound
  <2>4. Resting = {}
    BY <2>2 DEF Resting, BookProofs!RestingOrders
  <2>5. IsFiniteSet(Resting)
    BY <2>4, FS_EmptySet
  <2>6. Funded
    BY DEF Init, Funded
  <2>7. QED
    BY <2>1, <2>3, <2>5, <2>6 DEF FundsInv
<1>2. QED
  BY <1>1, NextFundsInv, PTL DEF Spec

(* The locked balance of an account always covers the margin of its open orders and of
   its unsettled fills, whatever the rates, units and prices: an unlock is never refused. *)
THEOREM LockedAlwaysCovers == Spec => []LockedCoversOrders
<1>1. FundsInv => LockedCoversOrders
  BY FundedIs DEF FundsInv
<1>2. QED
  BY <1>1, FundsInvAlways, PTL

-----------------------------------------------------------------------------
(* The guest *)

(* The guest's margin, a notional divided and then divided again, covers that of the
   market, whatever the two round off. *)
LEMMA GuestMarginCovers ==
    ASSUME NEW q \in Nat, NEW p \in Nat
    PROVE  Margin(q, p) <= ((q * p) \div GuestUnit) \div GuestLeverage
<1>1. PICK x \in Nat, i \in Nat, u \in Nat \ {0}, l \in Nat \ {0}, b \in Nat \ {0},
           k \in Nat \ {0} :
         /\ x = q * p /\ i = InitialMarginBps /\ u = GuestUnit /\ l = GuestLeverage
         /\ b = BpsUnit /\ k = QtyUnit
  BY GuestAssumption, UnitsAssumption, RatesAssumption, ProductIsNat
<1>2. PICK d \in Nat \ {0} : d = b * k
  BY ProductIsPositive
<1>3. PICK g \in Nat \ {0} : g = u * l
  BY ProductIsPositive
<1>4. i * g <= d
  <2>1. i * u * l <= d
    BY <1>1, <1>2, GuestAssumption
  <2>2. i * u * l = i * (u * l)
    OBVIOUS
  <2>3. QED
    BY <1>3, <2>1, <2>2
<1>5. PICK n \in Nat : n = x \div u /\ x < (n + 1) * u
  BY <1>1, QuotientIsNat
<1>6. PICK r \in Nat : r = n \div l /\ n + 1 <= (r + 1) * l
  BY <1>1, QuotientIsNat
<1>7. x < (r + 1) * g
  <2>1. (n + 1) * u <= ((r + 1) * l) * u
    BY <1>6
  <2>2. ((r + 1) * l) * u = (r + 1) * (u * l)
    OBVIOUS
  <2>3. QED
    BY <1>3, <1>5, <2>1, <2>2
<1>8. PICK y \in Nat : y = x * i
  BY ProductIsNat
<1>9. PICK m \in Nat : m = y \div d /\ m * d <= y
  BY <1>8, QuotientIsNat
<1>10. ASSUME r + 1 <= m PROVE FALSE
  <2>1. (r + 1) * d <= y
    <3>1. (r + 1) * d <= m * d
      BY <1>10
    <3>2. QED
      BY <1>9, <3>1
  <2>2. CASE i = 0
    <3>1. y = 0 /\ (r + 1) * d > 0
      BY <1>8, <2>2
    <3>2. QED
      BY <2>1, <3>1
  <2>3. CASE i # 0
    <3>1. x * i < ((r + 1) * g) * i
      BY <1>7, <2>3
    <3>2. ((r + 1) * g) * i = (r + 1) * (i * g)
      OBVIOUS
    <3>3. (r + 1) * (i * g) <= (r + 1) * d
      BY <1>4
    <3>4. QED
      BY <1>8, <2>1, <3>1, <3>2, <3>3
  <2>4. QED
    BY <2>2, <2>3
<1>11. m <= r
  BY <1>10
<1>12. Margin(q, p) = m
  BY <1>1, <1>2, <1>8, <1>9 DEF Margin
<1>13. ((q * p) \div GuestUnit) \div GuestLeverage = r
  BY <1>1, <1>5, <1>6
<1>14. QED
  BY <1>11, <1>12, <1>13

(* With the true account before it, a withdrawal that passes the guest's checks has the
   nonce the exchange waits for, and takes what it says. *)
LEMMA AcceptedWithdrawal ==
    ASSUME FundsInv, NEW a \in DOMAIN nonces, NEW n \in Nat, NEW m, NEW k, NEW f,
           WithdrawOk(AccountOf(a), [id |-> a, nonce |-> k, free |-> f],
                      MoneyTx("Withdraw", a, n, m))
    PROVE  n = nonces[a] + 1 /\ f = Debit(AccountOf(a), m).free
<1>1. nonces[a] \in Nat /\ AccountOf(a).nonce = nonces[a]
  BY AmountsAssumption DEF FundsInv, ExchangeInv, LedgerInv, AccountOf
<1>2. QED
  BY <1>1 DEF WithdrawOk, MoneyTx, NonceOk, Debit, AccountOf

(* And an order that passes has that nonce and finds the margin that it locks. *)
LEMMA AcceptedOrder ==
    ASSUME FundsInv, NEW a \in DOMAIN nonces, NEW n \in Nat, NEW r \in Requests,
           PlaceOrderOk(AccountOf(a), OrderTx(a, n, r), <<>>)
    PROVE  n = nonces[a] + 1 /\ AccountOf(a).free >= Margin(r.quantity, r.price)
<1>1. /\ nonces[a] \in Nat /\ AccountOf(a).nonce = nonces[a]
      /\ AccountOf(a).free \in Nat
  BY AmountsAssumption, BalanceIsBalance
     DEF FundsInv, ExchangeInv, LedgerInv, AccountOf, Balance
<1>2. r.quantity \in Nat /\ r.price \in Nat
  BY RequestsAssumption, BookAssumption, PricesAreNat DEF Request
<1>3. PICK g \in Nat, k \in Nat : /\ g = Margin(r.quantity, r.price)
                     /\ k = ((r.quantity * r.price) \div GuestUnit) \div GuestLeverage
  <2>1. r.quantity * r.price \in Nat
    BY <1>2, ProductIsNat
  <2>2. ((r.quantity * r.price) \div GuestUnit) \div GuestLeverage \in Nat
    BY <2>1, GuestAssumption, QuotientIsNat
  <2>3. QED
    BY <1>2, <2>2, MoneyIsNat
<1>4. g <= k
  BY <1>2, <1>3, GuestMarginCovers
<1>5. OrderTx(a, n, r).nonce = n /\ RequiredMargin(OrderTx(a, n, r)) = k
  BY <1>3 DEF OrderTx, RequiredMargin
<1>6. AccountOf(a).nonce + 1 = n /\ AccountOf(a).free >= k
  BY <1>5 DEF PlaceOrderOk, NonceOk
<1>7. QED
  BY <1>1, <1>3, <1>4, <1>6

(* A withdrawal or an order that passes the guest's checks, with the true account before
   it, can be executed: it has the nonce the exchange waits for and the money that it
   takes or locks. *)
THEOREM AcceptedAlwaysExecutable == Spec => []AcceptedIsExecutable
<1>1. FundsInv => AcceptedIsExecutable
  <2>1. ASSUME FundsInv, NEW a \in DOMAIN nonces, NEW n \in 0 .. MaxNonce + 1
        PROVE  /\ \A m, k, f : WithdrawOk(AccountOf(a), [id |-> a, nonce |-> k, free |-> f],
                                          MoneyTx("Withdraw", a, n, m)) =>
                      n = nonces[a] + 1 /\ f = Debit(AccountOf(a), m).free
               /\ \A r \in Requests : PlaceOrderOk(AccountOf(a), OrderTx(a, n, r), <<>>) =>
                      n = nonces[a] + 1 /\ AccountOf(a).free >= Margin(r.quantity, r.price)
    <3>1. n \in Nat
      BY AmountsAssumption
    <3>2. QED
      BY <2>1, <3>1, AcceptedWithdrawal, AcceptedOrder
  <2>2. QED
    BY <2>1 DEF AcceptedIsExecutable
<1>2. QED
  BY <1>1, FundsInvAlways, PTL

-----------------------------------------------------------------------------
(* What the exchange executes *)

(* The fills of a match that ends are in the order that the guest asks for. *)
LEMMA MatchPasses ==
    ASSUME FundsInv, BookProofs!FillsInOrder, MatchDone, incoming.order_type # "Market"
    PROVE  PriorityOk(incoming, Makers)
<1>1. ~BookProofs!Idle
  BY DEF MatchDone, Book!FinishMatch, Book!Idle, BookProofs!Idle
<1>2. fills \in Seq(Book!Fill)
  BY BookTypes DEF FundsInv, ExchangeInv, MatchInv
<1>3. DOMAIN Makers = DOMAIN fills /\ DOMAIN fills = 1 .. Len(fills) /\ Len(fills) \in Nat
  BY <1>2 DEF Makers
<1>4. \A k \in DOMAIN fills : /\ Makers[k].price = fills[k].price
                              /\ Makers[k].timestamp = fills[k].maker_order_id
  BY DEF Makers
<1>5. ASSUME NEW i \in DOMAIN fills
      PROVE  /\ IF incoming.side = "Bid" THEN incoming.price >= Makers[i].price
                                         ELSE incoming.price <= Makers[i].price
             /\ i > 1 /\ Makers[i - 1].price = Makers[i].price =>
                    Makers[i - 1].timestamp <= Makers[i].timestamp
  <2>1. BookProofs!Agreed(incoming, fills[i].price)
    BY <1>1 DEF BookProofs!FillsInOrder
  <2>2. i > 1 => i - 1 \in DOMAIN fills
    BY <1>3
  <2>3. i > 1 /\ fills[i - 1].price = fills[i].price =>
            fills[i - 1].maker_order_id <= fills[i].maker_order_id
    BY <1>1 DEF BookProofs!FillsInOrder
  <2>4. QED
    BY <1>4, <2>1, <2>2, <2>3 DEF BookProofs!Agreed
<1>6. QED
  BY <1>3, <1>5 DEF PriorityOk

(* What a deposit and a withdrawal do to an account is what the guest wants to see. *)
LEMMA MoneyPasses ==
    ASSUME FundsInv, NEW a \in DOMAIN nonces, NEW m \in Amounts
    PROVE  /\ Deposit(a, m) =>
                DepositOk(AccountOf(a), AccountOf(a)', MoneyTx("Deposit", a, nonces'[a], m))
           /\ Withdraw(a, m) =>
                WithdrawOk(AccountOf(a), AccountOf(a)', MoneyTx("Withdraw", a, nonces'[a], m))
<1>1. /\ nonces = [x \in DOMAIN nonces |-> nonces[x]]
      /\ BalanceOf(balances, a) \in Balance /\ balances = [x \in DOMAIN balances |-> balances[x]]
  BY BalanceIsBalance DEF FundsInv, ExchangeInv, LedgerInv
<1>2. ASSUME Deposit(a, m)
      PROVE  DepositOk(AccountOf(a), AccountOf(a)', MoneyTx("Deposit", a, nonces'[a], m))
  <2>1. nonces'[a] = nonces[a] + 1
    BY <1>1, <1>2 DEF Deposit, NextNonce
  <2>2. BalanceOf(balances', a) = Credit(BalanceOf(balances, a), m)
    BY <1>2 DEF Deposit, Book!Put, BalanceOf
  <2>3. BalanceOf(balances', a).free = BalanceOf(balances, a).free + m
    BY <1>1, <2>2 DEF Credit, Balance
  <2>4. QED
    BY <2>1, <2>3 DEF DepositOk, NonceOk, AccountOf, MoneyTx
<1>3. ASSUME Withdraw(a, m)
      PROVE  WithdrawOk(AccountOf(a), AccountOf(a)', MoneyTx("Withdraw", a, nonces'[a], m))
  <2>1. nonces'[a] = nonces[a] + 1
    BY <1>1, <1>3 DEF Withdraw, NextNonce
  <2>2. /\ a \in DOMAIN balances /\ balances[a].free >= m
        /\ balances' = [balances EXCEPT ![a] = Debit(@, m)]
    BY <1>3 DEF Withdraw
  <2>3. BalanceOf(balances, a) = balances[a] /\ BalanceOf(balances', a) = Debit(balances[a], m)
    BY <1>1, <2>2 DEF BalanceOf
  <2>4. /\ BalanceOf(balances, a).free >= m
        /\ BalanceOf(balances', a).free = BalanceOf(balances, a).free - m
    BY <1>1, <2>2, <2>3 DEF Debit, Balance
  <2>5. QED
    BY <2>1, <2>4 DEF WithdrawOk, NonceOk, AccountOf, MoneyTx
<1>4. QED
  BY <1>2, <1>3

(* The order that a cancel takes out is the resting order of that id. *)
LEMMA CancelPasses ==
    ASSUME FundsInv, NEW a \in DOMAIN nonces, NEW id, CancelOrder(a, id)
    PROVE  CancelOrderOk(AccountOf(a), CancelTx(a, nonces'[a], id), <<RestingOrder(id)>>)
<1>1. PICK s \in Book!Sides : \E p \in DOMAIN book[s] : \E i \in DOMAIN book[s][p].orders :
          book[s][p].orders[i].account_id = a /\ Book!CancelFound(id, a, s, p, i)
  BY DEF CancelOrder
<1>2. PICK p \in DOMAIN book[s] : \E i \in DOMAIN book[s][p].orders :
          book[s][p].orders[i].account_id = a /\ Book!CancelFound(id, a, s, p, i)
  BY <1>1
<1>3. PICK i \in DOMAIN book[s][p].orders :
          book[s][p].orders[i].account_id = a /\ Book!CancelFound(id, a, s, p, i)
  BY <1>2
<1>4. PICK o : o = book[s][p].orders[i]
  OBVIOUS
<1>5. Book!Idle /\ o.id = id /\ o.account_id = a
  BY <1>3, <1>4 DEF Book!CancelFound, Book!FoundAt
<1>6. o \in Live /\ Live = Resting
  <2>1. o \in Book!RestingOrders
    BY <1>4 DEF Book!RestingOrders
  <2>2. QED
    BY <1>5, <2>1, LiveIs, SameResting
<1>7. \A n \in Live : n.id = id => n = o
  BY <1>5, <1>6, BookAssumed, BookProofs!IdsUnique DEF FundsInv, Resting
<1>8. RestingOrder(id) = o
  BY <1>5, <1>6, <1>7 DEF RestingOrder
<1>9. nonces'[a] = nonces[a] + 1
  BY DEF CancelOrder, NextNonce, FundsInv, ExchangeInv, LedgerInv
<1>10. QED
  BY <1>5, <1>8, <1>9 DEF CancelOrderOk, CancelTx, NonceOk, AccountOf

(* What is liquidated has a size: a position without one counts as wholly margined. *)
LEMMA LiquidationPasses ==
    ASSUME FundsInv, NEW a \in DOMAIN nonces, NEW l \in Accounts, Liquidate(l, a)
    PROVE  LiquidateOk([account_id |-> a, size |-> positions[a].size], LiquidateTx(l, a))
<1>1. a \in DOMAIN positions /\ MarginRatio(positions[a], oracle_price) < MaintenanceMarginBps
  BY DEF Liquidate, IsLiquidatable
<1>2. BpsUnit \in Nat /\ MaintenanceMarginBps \in Nat /\ MaintenanceMarginBps <= BpsUnit
  BY UnitsAssumption, RatesAssumption, GuestAssumption
<1>3. positions[a].size # 0
  BY <1>1, <1>2 DEF MarginRatio
<1>4. positions[a] \in Position
  BY <1>1 DEF FundsInv, ExchangeInv, PositionsInv, WellFormed
<1>5. positions[a].size > 0
  BY <1>3, <1>4 DEF Position
<1>6. QED
  BY <1>5 DEF LiquidateOk, LiquidateTx

(* Every deposit, withdrawal, cancel and liquidation that the exchange executes passes the
   guest's checks, and so does the order of the fills of every limit order. *)
THEOREM ExecutedAlwaysPasses == Spec => ExecutedPasses
<1> DEFINE A == /\ MatchDone /\ incoming.order_type # "Market" => PriorityOk(incoming, Makers)
                /\ \A a \in DOMAIN nonces :
                   /\ \A m \in Amounts :
                         /\ Deposit(a, m) =>
                               DepositOk(AccountOf(a), AccountOf(a)',
                                         MoneyTx("Deposit", a, nonces'[a], m))
                         /\ Withdraw(a, m) =>
                               WithdrawOk(AccountOf(a), AccountOf(a)',
                                          MoneyTx("Withdraw", a, nonces'[a], m))
                   /\ \A id \in DOMAIN order_locations :
                         CancelOrder(a, id) =>
                             CancelOrderOk(AccountOf(a), CancelTx(a, nonces'[a], id),
                                           <<RestingOrder(id)>>)
                   /\ \A l \in Accounts :
                         Liquidate(l, a) =>
                             LiquidateOk([account_id |-> a, size |-> positions[a].size],
                                         LiquidateTx(l, a))
<1>1. FundsInv /\ BookProofs!FillsInOrder => A
  BY MatchPasses, MoneyPasses, CancelPasses, LiquidationPasses
<1>2. BookProofs!Spec => []BookProofs!FillsInOrder
  BY BookAssumed, BookProofs!FillsAlwaysInOrder, PTL
<1>3. QED
  BY <1>1, <1>2, FundsInvAlways, ExchangeRunsOrderBook, PTL DEF ExecutedPasses
===============================================================================

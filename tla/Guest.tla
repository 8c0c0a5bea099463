-------------------------------- MODULE Guest --------------------------------
(***************************************************************************)
(* The guest program (methods/guest/src/main.rs) beside the exchange whose *)
(* transactions it verifies again: what it asserts of a transaction and    *)
(* its witness, the state root of the hypertree (core/merkle/hypertree.rs) *)
(* and the witnesses that an honest host can draw from the state.          *)
(*                                                                         *)
(* A panic is a refusal of the whole batch.  A Merkle proof is the root    *)
(* that its siblings lead to; hashes are terms, so that no two of them     *)
(* collide, and a tree's root is its leaves (module SparseMerkle has the   *)
(* tree).  The roots that the checks return are discarded by main.         *)
(***************************************************************************)
EXTENDS Exchange

CONSTANTS
    GuestUnit,      \* 10^8, what the guest divides a notional by
    GuestLeverage,  \* 10
    NoWitness       \* None, where a witness may have an account

\* The guest's rates are no lower than the market's (200 basis points to a tenth),
\* and the market's maintenance margin, 100 basis points, is not above the whole.
ASSUME GuestAssumption ==
    /\ {GuestUnit, GuestLeverage} \subseteq Nat \ {0}
    /\ InitialMarginBps * GuestUnit * GuestLeverage <= BpsUnit * QtyUnit
    /\ MaintenanceMarginBps <= BpsUnit

-----------------------------------------------------------------------------
(* The hypertree's root over six trees, four of which stay empty *)

HashPair(l, r) == [left |-> l, right |-> r]

TreeRoot(id, leaves) == [tree |-> id, leaves |-> leaves]

AccountRoot == TreeRoot("Account", tree_accounts)

StateRoot ==
    LET empty(id) == TreeRoot(id, <<>>)
        l2 == HashPair(AccountRoot, empty("AccountOrder"))
        l3 == HashPair(TreeRoot("Position", tree_positions), empty("Pool"))
    IN  HashPair(HashPair(l2, empty("OrderBook")), HashPair(l3, empty("System")))

-----------------------------------------------------------------------------
(* What the guest asserts.  An account is [id, nonce, free], the latter its *)
(* balance of the asset, 0 when it has none (get_balance).                  *)

NonceOk(account, tx) == account.nonce + 1 = tx.nonce

DepositOk(before, after, tx) ==
    /\ before.id = tx.account_id
    /\ NonceOk(before, tx)
    /\ after.free = before.free + tx.amount
    /\ after.nonce = tx.nonce

WithdrawOk(before, after, tx) ==
    /\ before.free >= tx.amount
    /\ after.free = before.free - tx.amount
    /\ NonceOk(before, tx)

RequiredMarginHalved(tx) ==  \* mutant
    ((tx.quantity * tx.price) \div GuestUnit) \div (4 * GuestLeverage)
RequiredMargin(tx) == ((tx.quantity * tx.price) \div GuestUnit) \div GuestLeverage

\* Every maker's price is one the taker agreed to, and of two makers in a row
\* at one price the older comes first.
PriorityOk(tx, makers) ==
    \A i \in DOMAIN makers :
        /\ IF tx.side = "Bid" THEN tx.price >= makers[i].price
                              ELSE tx.price <= makers[i].price
        /\ i > 1 /\ makers[i - 1].price = makers[i].price =>
               makers[i - 1].timestamp <= makers[i].timestamp

PlaceOrderOk(before, tx, makers) ==
    /\ NonceOk(before, tx)
    /\ before.free >= RequiredMargin(tx)
    /\ PriorityOk(tx, makers)

CancelOrderOk(before, tx, orders) ==
    /\ orders # <<>>
    /\ orders[1].id = tx.order_id
    /\ orders[1].account_id = tx.account_id
    /\ NonceOk(before, tx)

\* Neither the margin ratio nor the liquidator is looked at.
LiquidateOk(position, tx) ==
    /\ position.account_id = tx.liquidatee_account_id
    /\ position.size > 0

\* verify_transaction; the account proof is verified against the root the
\* batch starts from, whichever transaction of the batch it is for.
VerifyTransaction(root, tx, w) ==
    CASE tx.kind = "Deposit"     -> /\ w.after # NoWitness
                                    /\ w.proof = root
                                    /\ DepositOk(w.before, w.after, tx)
      [] tx.kind = "Withdraw"    -> /\ w.after # NoWitness
                                    /\ w.proof = root
                                    /\ WithdrawOk(w.before, w.after, tx)
      [] tx.kind = "PlaceOrder"  -> w.proof = root /\ PlaceOrderOk(w.before, tx, w.orders)
      [] tx.kind = "CancelOrder" -> w.proof = root /\ CancelOrderOk(w.before, tx, w.orders)
      [] tx.kind = "Liquidate"   -> w.position # NoWitness /\ LiquidateOk(w.position, tx)
      [] tx.kind = "UpdateOracle" -> TRUE

\* main: a transaction without an account witness is accepted as it is.
GuestAccepts(input) ==
    \A i \in DOMAIN input.transactions \cap DOMAIN input.witnesses :
        input.witnesses[i].before # NoWitness =>
            VerifyTransaction(input.pre_state_root, input.transactions[i], input.witnesses[i])

-----------------------------------------------------------------------------
(* What an honest host hands it *)

AccountOf(a) == [id |-> a, nonce |-> nonces[a], free |-> BalanceOf(balances, a).free]

\* A transaction that the exchange executes carries the next nonce.
MoneyTx(kind, a, n, m) == [kind |-> kind, account_id |-> a, nonce |-> n, amount |-> m]
OrderTx(a, n, r) ==
    [kind |-> "PlaceOrder", account_id |-> a, nonce |-> n, side |-> r.side,
     price |-> r.price, quantity |-> r.quantity]
CancelTx(a, n, id) == [kind |-> "CancelOrder", account_id |-> a, nonce |-> n, order_id |-> id]
LiquidateTx(l, a) ==
    [kind |-> "Liquidate", liquidator_account_id |-> l, liquidatee_account_id |-> a]

\* prove_account, drawn before the transaction.
ProveAccount(a) == AccountRoot

\* The makers of the fills so far.  Ids are given out in the order of time.
Makers == [i \in DOMAIN fills |-> [price |-> fills[i].price,
                                   timestamp |-> fills[i].maker_order_id]]

RestingOrder(id) ==
    CHOOSE o \in Live : o.id = id

-----------------------------------------------------------------------------
(* What holds *)

\* Two implementations of the same rules agree: whatever deposit, withdrawal,
\* cancel or liquidation the exchange executes passes the guest's checks on the
\* accounts, orders and positions before and after it; and a limit order never
\* trades beyond its price nor, of two makers at one price, with the younger
\* one first.
ExecutedPasses ==
    [][/\ MatchDone /\ incoming.order_type # "Market" => PriorityOk(incoming, Makers)
       /\ \A a \in DOMAIN nonces :
          /\ \A m \in Amounts :
                /\ Deposit(a, m) =>
                      DepositOk(AccountOf(a), AccountOf(a)', MoneyTx("Deposit", a, nonces'[a], m))
                /\ Withdraw(a, m) =>
                      WithdrawOk(AccountOf(a), AccountOf(a)', MoneyTx("Withdraw", a, nonces'[a], m))
          /\ \A id \in DOMAIN order_locations :
                CancelOrder(a, id) =>
                    CancelOrderOk(AccountOf(a), CancelTx(a, nonces'[a], id), <<RestingOrder(id)>>)
          /\ \A l \in Accounts :
                Liquidate(l, a) =>
                    LiquidateOk([account_id |-> a, size |-> positions[a].size], LiquidateTx(l, a))
      ]_vars

\* The guest asks no less than the exchange: with the true account before it, a
\* withdrawal or an order that passes has the nonce the exchange waits for and
\* the money that it would take or lock, whatever the two round differently.
AcceptedIsExecutable ==
    Ready =>
        \A a \in DOMAIN nonces, n \in 0 .. MaxNonce + 1 :
            LET before == AccountOf(a)
            IN  /\ \A m \in Amounts \cup {0} :
                   \A k \in 0 .. n, f \in {before.free, before.free - m} :
                      WithdrawOk(before, [id |-> a, nonce |-> k, free |-> f],
                                 MoneyTx("Withdraw", a, n, m)) =>
                          n = nonces[a] + 1 /\ f = Debit(before, m).free
                /\ \A r \in Requests :
                      PlaceOrderOk(before, OrderTx(a, n, r), <<>>) =>
                          n = nonces[a] + 1 /\ before.free >= Margin(r.quantity, r.price)

-----------------------------------------------------------------------------
(* What the documentation says and the code does not do *)

\* methods/guest/src/main.rs:44, "Full Merkle proof verification can be enabled
\* incrementally by providing proper witnesses": a batch of one executed deposit
\* with the true witness passes.
ProperWitnessesAccepted ==
    [][\A a \in DOMAIN nonces : \A m \in Amounts :
          Deposit(a, m) =>
              GuestAccepts([
                  pre_state_root |-> StateRoot,
                  transactions   |-> <<MoneyTx("Deposit", a, nonces'[a], m)>>,
                  witnesses      |-> <<[before |-> AccountOf(a), after |-> AccountOf(a)',
                                        proof |-> ProveAccount(a)]>>])]_vars
=============================================================================

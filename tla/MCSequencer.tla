---------------------------- MODULE MCSequencer ----------------------------
(* Small instances of Sequencer for TLC. *)
EXTENDS Sequencer

CONSTANTS alice

Deposit(n) == [kind |-> "Checked", signer |-> alice, nonce |-> n]

\* Alice's first two transactions, a liquidation she asks for, and a price.
MixedTxs == {Deposit(1), Deposit(2), [kind |-> "Liquidate", signer |-> alice, nonce |-> 1],
             [kind |-> "UpdateOracle", signer |-> alice, nonce |-> 0]}

TwoTxs == {Deposit(1), Deposit(2)}

\* Requests are alike.
HandlerSymmetry == Permutations(Handlers)
=============================================================================

------------------------------ MODULE MCOracle ------------------------------
(* A small instance of Oracle.  A mock, a simulated oracle and two feeds    *)
(* are four sources, so that the median has an even and an odd number to    *)
(* choose from and one or two of them may be wrong or late.                 *)
EXTENDS Oracle

FeedSymmetry == Permutations(Feeds)
=============================================================================

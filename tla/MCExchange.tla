----------------------------- MODULE MCExchange -----------------------------
(* Small instances of Exchange.  A price of 1 or 3 and quantities of 1 to 3 *)
(* at a margin of one half make margins round down in parts and not as a    *)
(* whole.                                                                   *)
EXTENDS Guest

Ask(type, p, q, post) ==
    [side |-> "Ask", order_type |-> type, price |-> p, quantity |-> q, post_only |-> post]
Bid(type, p, q, post) == [Ask(type, p, q, post) EXCEPT !.side = "Bid"]

\* Makers and takers on both sides, a sweep with a rest, a market order and a
\* post-only order that may be refused.
MCRequests ==
    {Bid("Limit", 1, 3, FALSE), Bid("Limit", 3, 2, FALSE), Ask("Limit", 1, 1, FALSE),
     Ask("Limit", 3, 3, FALSE), Ask("Market", 1, 2, FALSE), Bid("Limit", 3, 1, TRUE),
     Ask("Limit", 1, 0, FALSE)}
=============================================================================

------------------------------ MODULE MCServer ------------------------------
(* Three clients and the batch timer: one sends a price, one another        *)
(* transaction, and one only reads; prices are also updated from two sides. *)
EXTENDS Server

CONSTANTS ann, bob, eve

MCMenu == [c \in Clients |->
    CASE c = ann -> {"/tx UpdateOracle", "/batch"}
      [] c = bob -> {"/tx", "update"}
      [] c = eve -> {"/health", "update", "/accounts"}]
=============================================================================

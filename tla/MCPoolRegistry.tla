--------------------------- MODULE MCPoolRegistry ---------------------------
(* Model-checking instance of PoolRegistry: one creator, two currencies,  *)
(* a holder with funds in each, a whitelisted and a foreign origin.       *)
EXTENDS PoolRegistry

CONSTANTS alice, bob, coordinator, stranger, n1, cfg, usd, pallet, none

MCGenesis == [c \in {cfg, usd} |-> [h \in {alice, bob} |-> IF h = alice THEN 2 ELSE 1]]
=============================================================================

-------------------------- MODULE MCTranchePricing --------------------------
(* Model-checking instance of TranchePricing: a senior and a junior        *)
(* tranche, ratios over 4 (PriceOne), Perquintill over 100.               *)
EXTENDS TranchePricing

CONSTANTS none
=============================================================================

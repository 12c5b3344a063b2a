------------------------------ MODULE EpochMath ------------------------------
(***************************************************************************)
(* The pure arithmetic of the tinlake investor pool pallet                 *)
(* (src/pallets/tinlake-investor-pool/src/lib.rs): tranche pricing         *)
(* (calculate_tranche_prices), epoch targets (calculate_epoch_transfers)   *)
(* and epoch validation (is_epoch_valid and its two constraint checks).    *)
(*                                                                         *)
(* Tranches, prices, targets and solutions are Vecs indexed by tranche id  *)
(* in the code; here they are functions over 0..n-1, index 0 the most      *)
(* senior tranche.  Fixed-point numbers keep their representation with a   *)
(* scaled-down denominator:                                                *)
(*   - a Perquintill p stands for p / Accuracy;                            *)
(*   - a BalanceRatio (FixedU128) q stands for q / PriceOne;               *)
(*   - a Balance, and the inner value of a BalanceRatio, is an unsigned    *)
(*     integer below BalanceLimit (2^w).                                   *)
(***************************************************************************)
EXTENDS Integers, FiniteSets, Functions, TLC

CONSTANTS
  BalanceLimit,   \* 2^w, one more than the largest T::Balance
  Accuracy,       \* Perquintill::ACCURACY, scaled down
  PriceOne,       \* BalanceRatio::DIV (the fixed-point one), scaled down
  ZeroDenomRatio, \* what Perquintill::from_rational(p, 0) yields in the build
  None            \* Option::None, returned by a checked operation that fails

ASSUME BalanceLimit \in Nat \ {0}
ASSUME Accuracy \in Nat \ {0} /\ PriceOne \in Nat \ {0}
ASSUME ZeroDenomRatio \in {0, Accuracy}

-----------------------------------------------------------------------------
(* Perquintill and BalanceRatio arithmetic used by the pallet.            *)

\* Perquintill::from_percent
FromPercent(pct) == (pct * Accuracy) \div 100

\* Perquintill::mul_floor: the ratio applied to a balance, rounded down.
MulFloor(p, x) == (p * x) \div Accuracy

\* Perquintill::from_rational(p, q): p is clamped to q, a zero q to the
\* build's value for it, rounded down.
FromRational(p, q) ==
  IF q = 0 THEN ZeroDenomRatio
  ELSE ((IF p < q THEN p ELSE q) * Accuracy) \div q

\* BalanceRatio::checked_from_rational(n, d): None on d = 0 or overflow.
CheckedFromRational(n, d) ==
  IF d = 0 THEN None
  ELSE LET r == (n * PriceOne) \div d
       IN IF r < BalanceLimit THEN r ELSE None

\* BalanceRatio::checked_mul_int(n): the balance n scaled by the price,
\* truncated, None when it does not fit a Balance.
CheckedMulInt(price, n) ==
  LET r == (price * n) \div PriceOne
  IN IF r < BalanceLimit THEN r ELSE None

\* Unchecked `a - b` on Balance in the release runtime: wraps modulo 2^w.
WrappingSub(a, b) == (a - b) % BalanceLimit

-----------------------------------------------------------------------------
(* calculate_tranche_prices(pool, nav, reserve, tranches): senior to       *)
(* junior, a tranche whose token has no issuance, or any tranche of a      *)
(* pool without assets, is priced at one; the junior tranche is priced by  *)
(* whatever assets remain; any other tranche by its debt plus reserve,     *)
(* and when that exceeds what remains the code sets the value to zero     *)
(* (not to what remains) and leaves nothing for the tranches below.        *)
(* Tranche debt is taken as already accrued (update_tranche_debt).         *)

\* Mutant: a senior tranche's value is not taken off the remaining assets.
RECURSIVE PricesFromKeepRemaining(_, _, _, _, _)
PricesFromKeepRemaining(t, remaining, poolIsZero, tranches, issuance) ==
  LET last == Cardinality(DOMAIN tranches) - 1
      iss  == issuance[t]
      tv   == tranches[t].debt + tranches[t].reserve
      rest == IF t = last THEN <<>>
              ELSE PricesFromKeepRemaining(t + 1, remaining, poolIsZero, tranches, issuance)
  IN IF poolIsZero \/ iss = 0 THEN (t :> PriceOne) @@ rest
     ELSE IF t = last THEN t :> CheckedFromRational(remaining, iss)
     ELSE IF tv >= BalanceLimit THEN t :> None
     ELSE IF tv > remaining THEN (t :> CheckedFromRational(0, iss)) @@ rest
     ELSE (t :> CheckedFromRational(tv, iss)) @@ rest

RECURSIVE PricesFrom(_, _, _, _, _)
PricesFrom(t, remaining, poolIsZero, tranches, issuance) ==
  LET last == Cardinality(DOMAIN tranches) - 1
      iss  == issuance[t]
      tv   == tranches[t].debt + tranches[t].reserve
  IN
  IF poolIsZero \/ iss = 0 THEN
     (t :> PriceOne) @@
       (IF t = last THEN <<>>
        ELSE PricesFrom(t + 1, remaining, poolIsZero, tranches, issuance))
  ELSE IF t = last THEN
     t :> CheckedFromRational(remaining, iss)
  ELSE IF tv >= BalanceLimit THEN
     t :> None
  ELSE IF tv > remaining THEN
     (t :> CheckedFromRational(0, iss)) @@
       PricesFrom(t + 1, 0, poolIsZero, tranches, issuance)
  ELSE
     (t :> CheckedFromRational(tv, iss)) @@
       PricesFrom(t + 1, remaining - tv, poolIsZero, tranches, issuance)

calculate_tranche_prices(nav, reserve, tranches, issuance) ==
  LET prices == PricesFrom(0, nav + reserve, nav + reserve = 0, tranches, issuance)
  IN IF nav + reserve >= BalanceLimit \/ None \in Range(prices)
     THEN None ELSE prices

\* calculate_epoch_transfers: (supply, redeem) per tranche in pool currency;
\* the redeem order, in tranche tokens, is converted at the tranche price.
calculate_epoch_transfers(prices, tranches) ==
  LET targets == [t \in DOMAIN tranches |->
                    <<tranches[t].epoch_supply,
                      CheckedMulInt(prices[t], tranches[t].epoch_redeem)>>]
  IN IF \E t \in DOMAIN targets : targets[t][2] = None THEN None ELSE targets

-----------------------------------------------------------------------------
(* Epoch validation.  Results are the error names of the pallet, "Ok", or *)
(* "Panic" where the code unwraps a failed checked addition.              *)

validate_core_constraints(currencyAvailable, currencyOut) ==
  IF currencyOut > currencyAvailable THEN "InsufficientCurrency" ELSE "Ok"

\* The value of the tranches strictly more junior than i.
SubordinateValue(values, i) ==
  SumFunction([j \in {k \in DOMAIN values : k > i} |-> values[j]])

validate_pool_constraints(reserve, maxReserve, ratios, values) ==
  IF DOMAIN ratios # DOMAIN values THEN "InvalidData"
  ELSE IF reserve > maxReserve THEN "InsufficientReserve"
  ELSE IF \E i \in DOMAIN values : SubordinateValue(values, i) >= BalanceLimit
       THEN "Panic"
  ELSE IF \E i \in DOMAIN values :
            FromRational(SubordinateValue(values, i), values[i]) < ratios[i]
       THEN "SubordinationRatioViolated"
  ELSE "Ok"

\* The executed (supply, redeem) amounts: the solution's ratios applied to
\* the targets, over the tranches both vectors cover (zip truncates).
Execution(targets, solution) ==
  [t \in DOMAIN targets \cap DOMAIN solution |->
     <<MulFloor(solution[t][1], targets[t][1]),
       MulFloor(solution[t][2], targets[t][2])>>]

is_epoch_valid(totalReserve, maxReserve, tranches, targets, values, solution) ==
  LET exec      == Execution(targets, solution)
      accSupply == SumFunction([t \in DOMAIN exec |-> exec[t][1]])
      accRedeem == SumFunction([t \in DOMAIN exec |-> exec[t][2]])
      available == accSupply + totalReserve
      ratios    == [t \in DOMAIN tranches |-> tranches[t].min_subordination_ratio]
  IN IF accSupply >= BalanceLimit \/ accRedeem >= BalanceLimit
        \/ available >= BalanceLimit THEN "Panic"
     ELSE IF validate_core_constraints(available, accRedeem) # "Ok"
       THEN validate_core_constraints(available, accRedeem)
     ELSE validate_pool_constraints(available - accRedeem, maxReserve, ratios, values)

=============================================================================

---------------------------- MODULE TranchePricing ----------------------------
(***************************************************************************)
(* Interest accrual and tranche pricing of the investor pool pallet        *)
(* (src/pallets/tinlake-investor-pool/src/lib.rs): the pricing step of     *)
(* close_epoch, calculate_tranche_prices, run repeatedly as time passes,   *)
(* with update_tranche_debt compounding each priced tranche's debt.  The  *)
(* pallet itself never writes debt or reserve (both stay 0); here they are *)
(* inputs chosen from small sets, so the algorithm is checked on the       *)
(* values it is written for.                                               *)
(***************************************************************************)
EXTENDS EpochMath

CONSTANTS
  NumTranches,      \* length of the tranche Vec
  InterestChoices,  \* interest_per_sec of a non-junior tranche (Perquintill)
  DebtChoices,      \* initial debt of a non-junior tranche
  ReserveChoices,   \* reserve of a non-junior tranche
  IssuanceChoices,  \* total issuance of a tranche token
  AssetChoices,     \* epoch_reserve (nav is 0 in close_epoch)
  MaxTime           \* bound on T::Time::now(), in seconds

Tranches == 0 .. NumTranches - 1
Junior == NumTranches - 1

VARIABLES
  tranches,     \* the pool's Vec<Tranche>: interest, debt, reserve, timestamp
  issuance,     \* total_issuance of each tranche token
  assets,       \* nav + reserve at close
  now,          \* T::Time::now().as_secs()
  refDebt,      \* the debt accrued as spec.md 4.3 states it (history)
  refUpdated    \* when refDebt was last accrued (history)

vars == <<tranches, issuance, assets, now, refDebt, refUpdated>>

-----------------------------------------------------------------------------
(* update_tranche_debt: total_interest = (1 + rate)^delta by repeated      *)
(* checked multiplication from one, then debt = total_interest * debt.     *)
(* delta counts from last_updated_interest, which nothing ever updates.    *)

\* FixedU128::checked_mul: the product of two ratios, rounded down.
CheckedMul(a, b) ==
  LET r == (a * b) \div PriceOne IN IF r < BalanceLimit THEN r ELSE None

\* The `for _ in 0..delta` loop.
RECURSIVE CompoundFactor(_, _)
CompoundFactor(interest, n) ==
  IF n = 0 THEN PriceOne
  ELSE LET prev == CompoundFactor(interest, n - 1)
       IN IF prev = None THEN None ELSE CheckedMul(interest, prev)

\* Mutant: the per-second factor taken as the rate alone, without `One +`.
CompoundedWithoutOne(debt, ratePq, delta) ==
  LET rate  == CheckedFromRational(ratePq, Accuracy)
      total == IF rate = None THEN None ELSE CompoundFactor(rate, delta)
  IN IF total = None THEN None ELSE CheckedMulInt(total, debt)
\* The debt after compounding `debt` over `delta` seconds at `ratePq`.
Compounded(debt, ratePq, delta) ==
  LET rate  == CheckedFromRational(ratePq, Accuracy)
      total == IF rate = None THEN None ELSE CompoundFactor(PriceOne + rate, delta)
  IN IF total = None THEN None ELSE CheckedMulInt(total, debt)

update_tranche_debt(tranche, time) ==
  LET d == Compounded(tranche.debt, tranche.interest_per_sec,
                      time - tranche.last_updated_interest)
  IN IF d = None THEN None ELSE [tranche EXCEPT !.debt = d]

\* calculate_tranche_prices accrues exactly the tranches it prices by value:
\* not the junior tranche, none of a pool without assets, none without
\* issuance.  A failed accrual fails the whole call.
Accrues(t) == t # Junior /\ assets # 0 /\ issuance[t] # 0

Accrued(time) ==
  LET acc == [t \in Tranches |->
                IF Accrues(t) THEN update_tranche_debt(tranches[t], time)
                ELSE tranches[t]]
  IN IF \E t \in Tranches : acc[t] = None THEN None ELSE acc

\* The prices close_epoch would compute now (None: it fails with Overflow).
PricesNow ==
  IF Accrued(now) = None THEN None
  ELSE calculate_tranche_prices(0, assets, Accrued(now), issuance)

-----------------------------------------------------------------------------
Init ==
  /\ tranches \in {tr \in [Tranches -> [interest_per_sec : InterestChoices,
                                        debt : DebtChoices,
                                        reserve : ReserveChoices,
                                        last_updated_interest : {0}]] :
                     tr[Junior].interest_per_sec = 0}
  /\ issuance \in [Tranches -> IssuanceChoices]
  /\ assets \in AssetChoices
  /\ now = 0
  /\ refDebt = [t \in Tranches |-> tranches[t].debt]
  /\ refUpdated = [t \in Tranches |-> 0]

\* Time passes (other blocks, other extrinsics).
Tick ==
  /\ now < MaxTime
  /\ now' = now + 1
  /\ UNCHANGED <<tranches, issuance, assets, refDebt, refUpdated>>

\* close_epoch's pricing succeeds: the accrued tranches are written back
\* with the pool (a failed pricing aborts close_epoch and writes nothing).
\* The reference accrues the same tranches from their last accrual.
close_epoch_pricing ==
  /\ PricesNow # None
  /\ tranches' = Accrued(now)
  /\ refDebt' = [t \in Tranches |->
                   IF Accrues(t)
                   THEN Compounded(refDebt[t], tranches[t].interest_per_sec,
                                   now - refUpdated[t])
                   ELSE refDebt[t]]
  /\ refUpdated' = [t \in Tranches |-> IF Accrues(t) THEN now ELSE refUpdated[t]]
  /\ UNCHANGED <<issuance, assets, now>>

\* The time bound is reached and pricing overflows: nothing more happens.
Terminating ==
  /\ now = MaxTime
  /\ PricesNow = None
  /\ UNCHANGED vars

Next == Tick \/ close_epoch_pricing \/ Terminating

Spec == Init /\ [][Next]_vars

-----------------------------------------------------------------------------
(* Properties.                                                             *)

\* Accrual only ever adds interest: no close_epoch lowers a tranche's debt,
\* however the compounding loop rounds.
DebtNeverDecreases ==
  [][\A t \in Tranches : tranches'[t].debt >= tranches[t].debt]_tranches

\* The value a price attributes to a tranche: price * issuance.
PricedValue(prices, t) == CheckedMulInt(prices[t], issuance[t])

\* Pricing never hands out more than the pool has: in a pool with assets,
\* the tranche tokens priced by calculate_tranche_prices are together worth
\* at most nav + reserve, whatever the debts have compounded to.  It rests
\* on remaining_assets shrinking by each senior tranche's value before the
\* junior tranche takes the rest.
PricingNeverOverValues ==
  (assets > 0 /\ PricesNow # None) =>
    SumFunction([t \in Tranches |-> PricedValue(PricesNow, t)]) <= assets

-----------------------------------------------------------------------------
(* What spec.md 4.3 says, which the code does not do.                      *)

\* spec.md 4.3: a non-junior tranche's value is min(remaining_assets,
\* debt + reserve).  The code values a tranche exceeding the remaining
\* assets at zero instead.
RECURSIVE RefPricesFrom(_, _, _, _)
RefPricesFrom(t, remaining, poolIsZero, tr) ==
  LET iss   == issuance[t]
      value == IF tr[t].debt + tr[t].reserve < remaining
               THEN tr[t].debt + tr[t].reserve ELSE remaining
      rest(r) == IF t = Junior THEN <<>>
                 ELSE RefPricesFrom(t + 1, r, poolIsZero, tr)
  IN IF poolIsZero \/ iss = 0 THEN (t :> PriceOne) @@ rest(remaining)
     ELSE IF t = Junior THEN t :> CheckedFromRational(remaining, iss)
     ELSE (t :> CheckedFromRational(value, iss)) @@ rest(remaining - value)

ValueCappedAtRemaining ==
  PricesNow # None =>
    PricesNow = RefPricesFrom(0, assets, assets = 0, Accrued(now))

\* spec.md 3 / 4.3: last_updated_interest is the timestamp of the last
\* accrual, and a tranche's debt compounds over the time since then.
\* update_tranche_debt never moves last_updated_interest, so every close
\* compounds the already compounded debt again from pool creation.
InterestAccruedOnce ==
  \A t \in Tranches : tranches[t].debt = refDebt[t]

=============================================================================

---------------------------- MODULE InvestorPool ----------------------------
(***************************************************************************)
(* The tinlake investor pool pallet                                        *)
(* (src/pallets/tinlake-investor-pool/src/lib.rs) for one pool id: the     *)
(* dispatchables create_pool, order_supply, order_redeem, close_epoch,     *)
(* solve_epoch, test_payback and test_borrow, each one atomic step (the   *)
(* ledger serialises extrinsics; a call that returns an error leaves no   *)
(* trace, so it is no step at all).  The orml tokens ledger the pallet     *)
(* moves currency and tranche tokens on is part of the state.             *)
(***************************************************************************)
EXTENDS EpochMath

CONSTANTS
  Investors,          \* accounts placing orders
  Borrower,           \* the account calling test_borrow / test_payback
  PoolAccount,        \* PoolLocator { pool_id }.into_account()
  NumTranches,        \* tranche count of every create_pool input
  TrancheSpecChoices, \* create_pool inputs: Seq of (interest %, subordination %)
  MaxReserveChoices,  \* create_pool max_reserve inputs
  Amounts,            \* order amounts an investor may ask for
  PaybackAmounts,     \* test_borrow / test_payback amounts
  Ratios,             \* Perquintill fulfilment ratios a solver may propose
  CurrencyGenesis,    \* [Investors \cup {Borrower} -> Nat] pool currency
  TokenGenesis,       \* [Tranches -> [Investors -> Nat]] tranche tokens
  MaxEpoch            \* bound on current_epoch

Tranches == 0 .. NumTranches - 1
Accounts == Investors \cup {Borrower, PoolAccount}

\* The length of a Vec modelled as a function over 0..n-1 or 1..n.
Len(s) == Cardinality(DOMAIN s)

ASSUME NumTranches \in Nat \ {0}
ASSUME \A s \in TrancheSpecChoices : Len(s) = NumTranches

VARIABLES
  pool,         \* Pool<T>: None or the PoolDetails record
  orders,       \* Order<T>: (tranche, investor) -> UserOrder (ValueQuery)
  currency,     \* orml balances of the pool currency per account
  tokens,       \* orml balances of each tranche token per account
  epochTargets, \* EpochTargets<T>: None or tranche -> (supply, redeem)
  epochs        \* Epoch<T>: <<tranche, epoch>> -> EpochDetails

vars == <<pool, orders, currency, tokens, epochTargets, epochs>>

TrancheRec == [min_subordination_ratio : Nat, epoch_supply : Nat,
               epoch_redeem : Nat, debt : Nat, reserve : Nat]

\* PoolDetails, without the abstracted owner, currency and last_epoch_closed.
PoolDetails ==
  [tranches : [Tranches -> TrancheRec],
   current_epoch : 1 .. MaxEpoch,
   last_epoch_executed : 0 .. MaxEpoch,
   closing_epoch : {None} \cup (1 .. MaxEpoch),
   max_reserve : Nat,
   available_reserve : 0 .. BalanceLimit - 1,
   total_reserve : 0 .. BalanceLimit - 1]

\* UserOrder, without the epoch field nothing reads.
UserOrder == [supply : Amounts, redeem : Amounts]

\* T::Tokens::total_issuance of a tranche token.
TotalIssuance == [t \in Tranches |-> SumFunction(tokens[t])]

\* The solutions solve_epoch may be given: a Vec of (supply, redeem)
\* ratios, possibly shorter than the tranche list.
Solutions ==
  UNION {[0 .. k - 1 -> Ratios \X Ratios] : k \in 0 .. NumTranches}

-----------------------------------------------------------------------------
(* create_pool: the id must be unused and the last tranche must be         *)
(* (0, 0); tranches start empty, current_epoch at 1.                       *)
create_pool(specs, maxReserve) ==
  /\ pool = None
  /\ specs[NumTranches] = <<0, 0>>
  /\ pool' = [tranches |-> [t \in Tranches |->
                 [min_subordination_ratio |-> FromPercent(specs[t + 1][2]),
                  epoch_supply |-> 0, epoch_redeem |-> 0,
                  debt |-> 0, reserve |-> 0]],
              current_epoch |-> 1,
              last_epoch_executed |-> 0,
              closing_epoch |-> None,
              max_reserve |-> maxReserve,
              available_reserve |-> 0,
              total_reserve |-> 0]
  /\ UNCHANGED <<orders, currency, tokens, epochTargets, epochs>>

\* Order deltas: order_supply / order_redeem replace the standing amount
\* and settle the signed delta d at once, investor -> pool account when
\* positive, back when negative (orml transfer fails on a short balance);
\* the tranche accumulator moves by d with checked arithmetic.
CanSettle(bal, who, d) == bal[who] - d >= 0 /\ bal[PoolAccount] + d >= 0
Settle(bal, who, d) == [bal EXCEPT ![who] = @ - d, ![PoolAccount] = @ + d]
\* Mutant: the accumulator moved without the underflow check.
CheckedShiftNoUnderflow(cur, d) == cur + d < BalanceLimit
CheckedShift(cur, d) == cur + d \in 0 .. BalanceLimit - 1

\* Mutant: orders accepted while the pool is closing.
AcceptsOrdersWhileClosing == pool # None
\* The pool exists (else NoSuchPool) and is not closing (else PoolClosing).
AcceptsOrders == pool # None /\ pool.closing_epoch = None

\* order_supply: rejected while the pool is closing.
order_supply(who, t, amount) ==
  LET d == amount - orders[<<t, who>>].supply IN
  /\ AcceptsOrders
  /\ CheckedShift(pool.tranches[t].epoch_supply, d)
  /\ CanSettle(currency, who, d)
  /\ pool' = [pool EXCEPT !.tranches[t].epoch_supply = @ + d]
  /\ currency' = Settle(currency, who, d)
  /\ orders' = [orders EXCEPT ![<<t, who>>].supply = amount]
  /\ UNCHANGED <<tokens, epochTargets, epochs>>

\* order_redeem: the same, escrowing the tranche's token.
order_redeem(who, t, amount) ==
  LET d == amount - orders[<<t, who>>].redeem IN
  /\ AcceptsOrders
  /\ CheckedShift(pool.tranches[t].epoch_redeem, d)
  /\ CanSettle(tokens[t], who, d)
  /\ pool' = [pool EXCEPT !.tranches[t].epoch_redeem = @ + d]
  /\ tokens' = [tokens EXCEPT ![t] = Settle(@, who, d)]
  /\ orders' = [orders EXCEPT ![<<t, who>>].redeem = amount]
  /\ UNCHANGED <<currency, epochTargets, epochs>>

-----------------------------------------------------------------------------
(* Epoch execution.                                                        *)

\* update_tranche_for_epoch with a given price: the executed amounts leave
\* the accumulators (unchecked `-=`), tokens worth price * (supply - redeem)
\* are minted to / burned from the pool account.  Both differences are
\* unchecked and wrap; mint is zero unless price > 0.
MintAmount(price, exec) ==
  IF price > 0 THEN CheckedMulInt(price, WrappingSub(exec[1], exec[2])) ELSE 0
BurnAmount(price, exec) == CheckedMulInt(price, WrappingSub(exec[2], exec[1]))

\* The pool account's token change for a tranche, None on overflow.
TokenChange(price, exec) ==
  IF MintAmount(price, exec) = None \/ BurnAmount(price, exec) = None THEN None
  ELSE MintAmount(price, exec) - BurnAmount(price, exec)

\* Mutant: the executed supply is not taken off the accumulator.
update_tranche_keep_supply(tranche, exec) ==
  [tranche EXCEPT !.epoch_redeem = WrappingSub(@, exec[2])]
update_tranche_for_epoch(tranche, exec) ==
  [tranche EXCEPT !.epoch_supply = WrappingSub(@, exec[1]),
                  !.epoch_redeem = WrappingSub(@, exec[2])]

\* The EpochDetails stored for one tranche.
EpochDetails(sol, price) ==
  [supply_fulfillment |-> sol[1], redeem_fulfillment |-> sol[2],
   token_price |-> price]

\* do_execute_epoch(p, target, solution): advances last_epoch_executed,
\* applies the solution to every tranche the solution covers (recording
\* the outcome under the new last_epoch_executed, at price Zero as the
\* code passes it), then moves the executed totals into total_reserve.
\* Defines pool', tokens' and epochs' from the pool record p.
ExecPrice == 0

\* Mutant: outcomes recorded under the current epoch counter.
RecordEpochCurrent(p) == p.current_epoch
\* The epoch the outcomes of an execution are recorded under.
RecordEpoch(p) == p.last_epoch_executed + 1

do_execute_epoch(p, targets, solution) ==
  LET executed    == RecordEpoch(p)
      exec        == Execution(targets, solution)
      totalSupply == SumFunction([t \in DOMAIN exec |-> exec[t][1]])
      totalRedeem == SumFunction([t \in DOMAIN exec |-> exec[t][2]])
      change      == [t \in DOMAIN exec |-> TokenChange(ExecPrice, exec[t])]
  IN /\ totalSupply < BalanceLimit
     /\ totalRedeem < BalanceLimit
     /\ \A t \in DOMAIN exec : change[t] # None
     /\ \A t \in DOMAIN exec : tokens[t][PoolAccount] + change[t] \in 0 .. BalanceLimit - 1
     /\ p.total_reserve + totalSupply < BalanceLimit
     /\ p.total_reserve + totalSupply >= totalRedeem
     /\ pool' = [p EXCEPT
                   !.last_epoch_executed = @ + 1,
                   !.tranches = [t \in Tranches |->
                                   IF t \in DOMAIN exec
                                   THEN update_tranche_for_epoch(@[t], exec[t])
                                   ELSE @[t]],
                   !.total_reserve = @ + totalSupply - totalRedeem]
     /\ tokens' = [t \in Tranches |->
                     IF t \in DOMAIN exec
                     THEN [tokens[t] EXCEPT ![PoolAccount] = @ + change[t]]
                     ELSE tokens[t]]
     /\ epochs' = [k \in {<<t, executed>> : t \in DOMAIN exec} |->
                     EpochDetails(solution[k[1]], ExecPrice)] @@ epochs

-----------------------------------------------------------------------------
(* close_epoch: the common prelude advances current_epoch, zeroes          *)
(* available_reserve and prices the tranches with nav = 0 and the total   *)
(* reserve; then one of three outcomes.                                    *)

CanClose ==
  /\ pool # None
  /\ pool.closing_epoch = None
  /\ pool.current_epoch < MaxEpoch

ClosingEpoch == pool.current_epoch
Opened == [pool EXCEPT !.current_epoch = @ + 1, !.available_reserve = 0]
Prices == calculate_tranche_prices(0, pool.total_reserve, pool.tranches, TotalIssuance)
NoPending == \A t \in Tranches : pool.tranches[t].epoch_supply = 0
                                 /\ pool.tranches[t].epoch_redeem = 0
Targets == calculate_epoch_transfers(Prices, pool.tranches)
FullSolution == [t \in Tranches |-> <<Accuracy, Accuracy>>]
ZeroValues == [t \in Tranches |-> 0]

ValidateFull ==
  is_epoch_valid(Opened.total_reserve, Opened.max_reserve, Opened.tranches,
                 Targets, ZeroValues, FullSolution)

\* Mutant: the no-op epoch is not counted as executed.
NoopPoolUncounted == [Opened EXCEPT !.available_reserve = pool.total_reserve]
\* The pool after a no-op epoch: available_reserve restored to the reserve
\* at close, the epoch counted as executed.
NoopPool == [Opened EXCEPT !.available_reserve = pool.total_reserve,
                           !.last_epoch_executed = @ + 1]

\* No order is pending: the epoch is executed on the spot with nothing
\* filled.
close_epoch_noop ==
  /\ CanClose
  /\ Prices # None
  /\ NoPending
  /\ pool' = NoopPool
  /\ epochs' = [k \in Tranches \X {ClosingEpoch} |->
                  EpochDetails(<<0, 0>>, 0)] @@ epochs
  /\ UNCHANGED <<orders, currency, tokens, epochTargets>>

\* Orders are pending, no tranche is priced at zero (else WipedOut) and
\* the full solution passes is_epoch_valid: executed at once.
close_epoch_execute ==
  /\ CanClose
  /\ Prices # None
  /\ ~NoPending
  /\ \A t \in Tranches : Prices[t] # 0
  /\ Targets # None
  /\ ValidateFull = "Ok"
  /\ do_execute_epoch(Opened, Targets, FullSolution)
  /\ UNCHANGED <<orders, currency, epochTargets>>

\* The full solution fails validation: the pool enters Closing and keeps
\* the targets for solve_epoch.
close_epoch_closing ==
  /\ CanClose
  /\ Prices # None
  /\ ~NoPending
  /\ \A t \in Tranches : Prices[t] # 0
  /\ Targets # None
  /\ ValidateFull \notin {"Ok", "Panic"}
  /\ pool' = [Opened EXCEPT !.closing_epoch = ClosingEpoch]
  /\ epochTargets' = Targets
  /\ UNCHANGED <<orders, currency, tokens, epochs>>

\* Mutant: the soft check as spec.md 4.5 words it, tolerating only
\* InsufficientCurrency.
SolutionAcceptedAsSpecified(result) == result \in {"Ok", "InsufficientCurrency"}
\* The soft check of solve_epoch: only InsufficientCurrency (or a panic)
\* stops the solution.
SolutionAccepted(result) == result \notin {"InsufficientCurrency", "Panic"}

\* solve_epoch: needs stored targets (else NoSuchPool) and a closing pool
\* (else NotClosing).  The solution is rejected with InvalidSolution only
\* when validation reports InsufficientCurrency; any other outcome,
\* including a failed reserve or subordination check, is executed.
solve_epoch(solution) ==
  LET result == is_epoch_valid(pool.total_reserve, pool.max_reserve,
                               pool.tranches, epochTargets, ZeroValues, solution)
  IN /\ epochTargets # None
     /\ pool # None
     /\ pool.closing_epoch # None
     /\ SolutionAccepted(result)
     /\ do_execute_epoch([pool EXCEPT !.closing_epoch = None], epochTargets, solution)
     /\ epochTargets' = None
     /\ UNCHANGED <<orders, currency>>

-----------------------------------------------------------------------------
(* Reserve operations.                                                     *)

\* test_payback: total_reserve grows (checked), currency moves to the pool.
test_payback(amount) ==
  /\ pool # None
  /\ pool.total_reserve + amount < BalanceLimit
  /\ currency[Borrower] >= amount
  /\ pool' = [pool EXCEPT !.total_reserve = @ + amount]
  /\ currency' = [currency EXCEPT ![Borrower] = @ - amount, ![PoolAccount] = @ + amount]
  /\ UNCHANGED <<orders, tokens, epochTargets, epochs>>

\* Mutant: test_borrow leaving available_reserve alone.
test_borrow_keep_available(amount) ==
  /\ pool # None
  /\ pool.total_reserve >= amount
  /\ currency[PoolAccount] >= amount
  /\ pool' = [pool EXCEPT !.total_reserve = @ - amount]
  /\ currency' = [currency EXCEPT ![PoolAccount] = @ - amount, ![Borrower] = @ + amount]
  /\ UNCHANGED <<orders, tokens, epochTargets, epochs>>

\* test_borrow: total and available reserve shrink (both checked), currency
\* leaves the pool account.
test_borrow(amount) ==
  /\ pool # None
  /\ pool.total_reserve >= amount
  /\ pool.available_reserve >= amount
  /\ currency[PoolAccount] >= amount
  /\ pool' = [pool EXCEPT !.total_reserve = @ - amount,
                          !.available_reserve = @ - amount]
  /\ currency' = [currency EXCEPT ![PoolAccount] = @ - amount, ![Borrower] = @ + amount]
  /\ UNCHANGED <<orders, tokens, epochTargets, epochs>>

-----------------------------------------------------------------------------
Init ==
  /\ pool = None
  /\ orders = [k \in Tranches \X Investors |-> [supply |-> 0, redeem |-> 0]]
  /\ currency = [a \in Accounts |->
                   IF a = PoolAccount THEN 0 ELSE CurrencyGenesis[a]]
  /\ tokens = [t \in Tranches |-> [a \in Accounts |->
                   IF a \in Investors THEN TokenGenesis[t][a] ELSE 0]]
  /\ epochTargets = None
  /\ epochs = <<>>

Next ==
  \/ \E specs \in TrancheSpecChoices, mr \in MaxReserveChoices : create_pool(specs, mr)
  \/ \E who \in Investors, t \in Tranches, a \in Amounts : order_supply(who, t, a)
  \/ \E who \in Investors, t \in Tranches, a \in Amounts : order_redeem(who, t, a)
  \/ close_epoch_noop
  \/ close_epoch_execute
  \/ close_epoch_closing
  \/ \E sol \in Solutions : solve_epoch(sol)
  \/ \E a \in PaybackAmounts : test_payback(a)
  \/ \E a \in PaybackAmounts : test_borrow(a)

Spec == Init /\ [][Next]_vars

FairSpec == Spec /\ WF_vars(\E sol \in Solutions : solve_epoch(sol))

\* close_epoch, whichever of its three outcomes it takes.
close_epoch == close_epoch_noop \/ close_epoch_execute \/ close_epoch_closing

\* close_epoch takes any signed origin, so a keeper calling it whenever it
\* would succeed is a fair assumption; so is a solver for Closing.
LiveSpec == FairSpec /\ WF_vars(close_epoch)

-----------------------------------------------------------------------------
(* Properties.                                                             *)

TypeOK ==
  /\ pool = None \/ pool \in PoolDetails
  /\ orders \in [Tranches \X Investors -> UserOrder]
  /\ currency \in [Accounts -> Nat]
  /\ tokens \in [Tranches -> [Accounts -> Nat]]
  /\ epochTargets = None \/ epochTargets \in [Tranches -> Nat \X Nat]

\* Escrow solvency: the pool account always holds at least the recorded
\* total_reserve plus every tranche's pending supply escrow.  Orders move
\* currency in and out, executions move pending supply into the reserve,
\* borrow and payback move reserve out and in; any of them getting its
\* bookkeeping wrong leaves the reserve unbacked.
EscrowCoversReserve ==
  pool # None =>
    currency[PoolAccount] >=
      pool.total_reserve + SumFunction([t \in Tranches |-> pool.tranches[t].epoch_supply])

\* Epoch bookkeeping of close_epoch / solve_epoch / do_execute_epoch: an
\* open pool has executed every epoch it closed, a closing pool all but
\* the one it is closing, targets are stored exactly while closing, and
\* outcomes exist only for executed epochs.
EpochBookkeeping ==
  pool # None =>
    /\ pool.closing_epoch = None =>
         /\ pool.last_epoch_executed = pool.current_epoch - 1
         /\ epochTargets = None
    /\ pool.closing_epoch # None =>
         /\ pool.closing_epoch = pool.current_epoch - 1
         /\ pool.last_epoch_executed = pool.current_epoch - 2
         /\ epochTargets # None
    /\ \A k \in DOMAIN epochs : k[2] \in 1 .. pool.last_epoch_executed

\* While an epoch awaits a solution, the supply targets computed at
\* close_epoch still equal the escrow pending in each tranche: nothing
\* executed against stale targets can drain more than was escrowed.
TargetsMatchEscrow ==
  (pool # None /\ pool.closing_epoch # None) =>
    \A t \in Tranches : epochTargets[t][1] = pool.tranches[t].epoch_supply

\* The available reserve never exceeds the total reserve (spec, Pool).
AvailableWithinTotal ==
  pool # None => pool.available_reserve <= pool.total_reserve

\* An EpochDetails record, once written for a (tranche, epoch), is never
\* overwritten or removed: it is the settlement record investors use.
EpochRecordsImmutable ==
  [][\A k \in DOMAIN epochs : k \in DOMAIN epochs' /\ epochs'[k] = epochs[k]]_epochs

\* A closing pool is eventually open again when a solver keeps calling
\* solve_epoch: some solution is always accepted.
ClosingResolves ==
  (pool # None /\ pool.closing_epoch # None) ~> (pool # None /\ pool.closing_epoch = None)

\* Epochs keep advancing while someone keeps calling close_epoch and
\* solve_epoch: no reachable pool is stuck with close_epoch failing every
\* time (WipedOut, Overflow, or a panic in is_epoch_valid's unwraps).
\* spec.md 7 calls WipedOut recoverable, not fatal to the pool.
EpochsAdvance ==
  \A e \in 1 .. MaxEpoch - 1 :
    (pool # None /\ pool.current_epoch = e) ~> (pool # None /\ pool.current_epoch > e)

\* The pool implements the epoch lifecycle of spec.md 4.5: its Open and
\* Closing phases, current_epoch and last_epoch_executed move only as
\* EpochLifecycle allows, so every closed epoch is executed exactly once
\* and in order, whichever path close_epoch and solve_epoch take.
Lifecycle == INSTANCE EpochLifecycle WITH
  phase    <- IF pool = None THEN "none"
              ELSE IF pool.closing_epoch = None THEN "open" ELSE "closing",
  current  <- IF pool = None THEN 0 ELSE pool.current_epoch,
  executed <- IF pool = None THEN 0 ELSE pool.last_epoch_executed

ImplementsLifecycle == Lifecycle!Spec

-----------------------------------------------------------------------------
(* What spec.md and the pallet's tests say, which the code does not do.    *)

\* spec.md 3: an order's supply is the "cumulative escrowed currency
\* pending mint" and a tranche's epoch_supply the "pending escrowed
\* currency awaiting mint", so per tranche the investors' standing supply
\* orders add up to the tranche's pending supply.  do_execute_epoch lowers
\* epoch_supply by what it executed but never the orders.
OrderBookMatchesEscrow ==
  pool # None =>
    \A t \in Tranches :
      SumFunction([i \in Investors |-> orders[<<t, i>>].supply])
        = pool.tranches[t].epoch_supply

\* spec.md 8 (round trip): a full execution zeroes epoch_redeem, and the
\* pending redeem is made of tranche tokens escrowed in the pool account.
\* update_tranche_for_epoch subtracts the executed redeem in pool currency
\* (price * tokens) from the token-denominated epoch_redeem.
RedeemEscrowCovered ==
  pool # None =>
    \A t \in Tranches : pool.tranches[t].epoch_redeem <= tokens[t][PoolAccount]

\* spec.md 4.5: solve_epoch rejects a solution failing any constraint but
\* the liquidity one, so an executed solution never leaves more than
\* max_reserve in the reserve.  The code's check is the other way round.
SolvedWithinMaxReserve ==
  [][(epochTargets # None /\ epochTargets' = None)
       => pool'.total_reserve <= pool'.max_reserve]_vars

\* tests.rs (epoch, lines 326 and 382): right after close_epoch has
\* executed the orders, available_reserve equals total_reserve.  Only the
\* no-op path restores available_reserve.
AvailableAfterExecution ==
  [][(pool # None /\ pool'.current_epoch > pool.current_epoch
        /\ pool'.closing_epoch = None)
       => pool'.available_reserve = pool'.total_reserve]_vars

\* spec.md 3 / 4.6: each executed tranche's EpochOutcome records the token
\* price the epoch was settled at (never zero: a zero price is WipedOut)
\* and tokens are minted or burned at that price.  do_execute_epoch passes
\* Zero as the price.
ExecutionRecordsPrice ==
  \A k \in DOMAIN epochs :
    (epochs[k].supply_fulfillment > 0 \/ epochs[k].redeem_fulfillment > 0)
      => epochs[k].token_price > 0

\* spec.md 3: an EpochOutcome is created for every tranche of every
\* executed epoch.  solve_epoch zips the tranches with the solution and a
\* short solution leaves the remaining tranches without one.
EveryExecutedEpochRecorded ==
  pool # None =>
    \A t \in Tranches, e \in 1 .. pool.last_epoch_executed : <<t, e>> \in DOMAIN epochs

=============================================================================

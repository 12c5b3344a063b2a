# TLA+ models of centrifuge-chain

This directory models the state machines of the Centrifuge chain code under
`src/` in TLA+ and checks them with TLC. The modelled parts are:
- the tinlake investor pool pallet, with its epochs, its pricing arithmetic
  and interest accrual;
- the pool registry pallet;
- the NFT pallet, and the runtime's older nfts module;
- the balances part of the chain spec's `testnet_genesis`.

`PROJECT.json` lists the components, the runs, a mutant for every checked
property, the map from each definition to the source lines it translates, the
findings and the hazards.

## The system

| Part | Source | What it does | Status |
|---|---|---|---|
| Investor pool: orders, epochs, reserve | `pallets/tinlake-investor-pool/src/lib.rs` | pools of tranches; investors escrow supply (currency) and redeem (tranche tokens) orders; epochs are closed, solved and executed | partly modelled (`InvestorPool`, `EpochLifecycle`): one pool, debt kept at 0 as the code does |
| Investor pool: pricing and validation | same file, 585-734 | tranche prices, interest compounding, epoch targets, core and pool constraints | modelled (`EpochMath`, `TranchePricing`) |
| Investor pool tests | `.../tests.rs` | unit tests, partly stale (`fake_nav`, `test_nav_up`, a 3-argument `is_epoch_valid`) | used as statements only |
| Pool pallet | `pallets/pool/src/lib.rs` | pool registry with a nonce; currency withdraw/deposit for whitelisted callers | modelled (`PoolRegistry`) |
| NFT pallet | `pallets/nft/src/lib.rs` | registry transfer and mint; `validate_mint` (anchor, proofs, event, fee burn, bridge transfer) | modelled (`NftRegistry`) |
| Runtime nfts | `runtime/src/nfts.rs` | older decl_module `validate_mint` with `NFT_FEE` and static proofs | modelled (`NftRegistry`, `validate_mint_runtime`) |
| Runtime fees and ids | `runtime/common/src/impls.rs` | fees to the block author, the weight-to-fee polynomial, `AssetId` | not modelled: configuration arithmetic; `AssetId` is a model value |
| Common traits | `libs/common-traits/src/lib.rs` | trait declarations | not modelled: no behaviour (their documentation is used as statements) |
| Proofs mock | `libs/proofs/src/mock.rs` | test runtime | not modelled: test code |
| Chain spec | `src/chain_spec.rs` | genesis builders | partly modelled (`NftRegistry` Init): the pallet_balances list and the TotalIssuance it sets; the other sections configure pallets outside `src/` |
| Proxy weights | `runtime/altair/src/weights/pallet_proxy.rs` | generated weights | not modelled: constants |

The parts share no state except balances. Other pallets call the pool
pallet's `withdraw`/`deposit` and the NFT pallet's `Mintable::mint`. Those
callers are not in `src/`, so each module quantifies over their arguments.

### How the investor pool works

A pool has a Vec of tranches, with index 0 the most senior and the last one
the junior. Investors call `order_supply` and `order_redeem`. Each call:
- replaces the investor's standing order;
- transfers the difference into or out of the pool account at once;
- moves the tranche's `epoch_supply` or `epoch_redeem` by the same amount,
  with checked arithmetic.

Orders are refused while the pool is closing.

`close_epoch` advances `current_epoch` and zeroes `available_reserve`. It
then prices the tranches with NAV = 0 (`calculate_tranche_prices`, which
compounds each priced senior tranche's debt in `update_tranche_debt`). One of
three outcomes follows:
- no pending order: a no-op execution is recorded;
- a tranche priced 0 aborts the call (`WipedOut`);
- otherwise the full solution is executed if `is_epoch_valid` accepts it. If
  not, the pool enters Closing and `EpochTargets` is stored.

`solve_epoch` executes a proposed solution unless it fails with
`InsufficientCurrency`.

### How the pool and NFT pallets work

`create_pool` stores `PoolData` and the currency under the id `PoolNonce`,
then advances the nonce with an unchecked `+ 1`. `withdraw` and `deposit`
need a whitelisted origin and a pool currency. They move that currency
between an account and the one pallet account that all pools share.

`validate_mint` writes nothing until the anchor is found and the proofs
verify. It then does three things in order:
1. deposits `DepositAsset`;
2. burns the fee (fails on a short balance);
3. asks chainbridge for a generic transfer (fails for a chain that is not
   whitelisted).

The pallet is written against a FRAME version without `#[transactional]`
dispatch: it uses `pallet::metadata`, and `decl_module` in the runtime
module. In that version a failing dispatchable keeps what it wrote before
the error, so the module lets each of the two late failures keep the earlier
writes.

### The genesis

`testnet_genesis` gives pallet_balances a list of entries: every endowed
account (the default list of dev accounts and their `//stash` accounts, plus
the multi account) with `ENDOWMENT`, then every authority's stash with
`STASH`. The development and local chains use the authorities Alice (and
Bob), whose stashes `Alice//stash` (and `Bob//stash`) are also in the
default endowed list. The pallet_balances genesis of this FRAME version
inserts the entries in order, so a later entry replaces an earlier one. It
sums all entries into TotalIssuance and has no duplicate check:
`test_create_development_chain_spec` builds this genesis and expects it to
succeed. `NftRegistry` starts from these balances and this TotalIssuance,
and `burn_fee` lowers both.

## Modules

- `EpochMath.tla`: the pure arithmetic as operators. It covers
  `calculate_tranche_prices` (RECURSIVE `PricesFrom`),
  `calculate_epoch_transfers`, `is_epoch_valid` and the two constraint
  validators. Fixed-point values are kept scaled:
  - a Perquintill p is p/`Accuracy`;
  - a price q is q/`PriceOne`;
  - a Balance is below `BalanceLimit` (2^w).

  Checked operations return `None` on failure, and unchecked `-` wraps as in
  the release runtime. A panicking `unwrap` yields `"Panic"`, and the dispatch
  it is in takes no step.
- `InvestorPool.tla`: one pool and the orml ledger. Its variables are `pool`,
  `orders`, `currency`, `tokens`, `epochTargets` and `epochs`.
  - Each dispatchable is one atomic action, because `try_mutate` discards the
    writes of a failing call.
  - `close_epoch` is split into its three outcomes.
  - `do_execute_epoch` is an operator, shared by `close_epoch_execute` and
    `solve_epoch`.
  - Tranche debt is never written by the code, so it stays 0.
- `EpochLifecycle.tla`: the abstract epoch life cycle of spec.md 4.5, in
  phases none / open / closing. Closing either executes at once or waits for
  a solve, and every closed epoch is executed once. `InvestorPool` instances
  it through a refinement mapping (`Lifecycle == INSTANCE EpochLifecycle
  WITH ...`), and the property `ImplementsLifecycle` is `Lifecycle!Spec`.
- `TranchePricing.tla`: the pricing step of `close_epoch`, with debt,
  reserve, interest, issuance and assets drawn from small sets.
  - Time advances (`Tick`), and each successful close writes the accrued
    tranches back (`close_epoch_pricing`).
  - `update_tranche_debt` is translated loop for loop (RECURSIVE
    `CompoundFactor`).
  - History variables `refDebt` / `refUpdated` accrue debt the way spec.md
    4.3 states it.
  - `Terminating` is the state the time bound leaves once pricing overflows.
- `PoolRegistry.tla`: `create_new_pool`, `withdraw`, `deposit` and the orml
  ledger. `PoolIdLimit` is 2^w for the pool id. The history `reserve[p]`
  records what was deposited minus what was withdrawn for each pool.
- `NftRegistry.tla`: `transfer`, `mint`, the pallet's `validate_mint` and
  the runtime's `validate_mint_runtime`. `transfer` reads the owner through
  `owner_of`. The chains the bridge accepts are the genesis whitelist
  (`Whitelisted`, chain 0). Admin calls that change the whitelist belong to
  chainbridge, which is not in this code. The two `validate_mint`s differ in
  their proof check and their fee. They share the steps after it
  (`ValidateMint`), each with its own failure outcomes. Proof verification
  is a constant relation, because the hash internals are not this code's.
  Events and bridge deposits are counts. `balance` and `issuance` start from
  the genesis (`GenesisFree`, `GenesisIssuance`). `Endowed` and
  `Authorities` are sets of model values: an account in both is an account
  the chain spec lists twice.
- `MC*.tla`: the model values and constant definitions TLC uses.

## Runs

| Run | Cfg | Expect | Shows |
|---|---|---|---|
| pool_flow | `MCInvestorPool.cfg` | pass | Covers pools created with or without a 10% subordination minimum. Escrow covers reserve plus pending supply, and epoch counters, targets and records agree (`EscrowCoversReserve`, `EpochBookkeeping`, `TargetsMatchEscrow`, `AvailableWithinTotal`, `EpochRecordsImmutable`). The pool refines `EpochLifecycle` (`ImplementsLifecycle`). |
| pool_liveness | `MCClosingResolves.cfg` | pass | With two investors and a pool with a subordination minimum, under fairness of `solve_epoch`: a closing pool always reopens (`ClosingResolves`). The mutant that words the soft check as spec.md 4.5 does is caught. |
| order_book | `MCOrderBook.cfg` | violation | Orders are not reduced by executions (lib.rs 355). |
| redeem_units | `MCRedeemUnits.cfg` | violation | `epoch_redeem` (tokens) minus a currency amount wraps (lib.rs 814). Read with lines 647 and 469, this means a later close whose junior price is above one overflows. No call lowers the price or the wrapped value, so the pool never closes again. That takes more epochs than TLC finishes in (see Fairness). |
| short_solution | `MCShortSolution.cfg` | violation | A short solution leaves tranches of an executed epoch unrecorded. |
| pricing | `MCTranchePricing.cfg` | pass | Debt never decreases (`DebtNeverDecreases`). Priced tokens are never worth more than the pool's assets (`PricingNeverOverValues`). |
| pricing_cap | `MCPricingCap.cfg` | violation | A senior tranche worth more than the remaining assets is priced 0, where spec.md 4.3 says min(remaining, value) (lib.rs 609). |
| interest_once | `MCInterestOnce.cfg` | violation | `last_updated_interest` never moves, so every close compounds again from creation (lib.rs 622). Since delta only grows, a pool whose compounding overflows once fails at every later close (lib.rs 632). |
| pool_registry | `MCPoolRegistry.cfg` | pass | The ids handed out are exactly those with a PoolInfo and a PoolCurrency, one per call, under any interleaving with `withdraw` and `deposit` (`RegistryConsistent`). |
| nft_registry | `MCNftRegistry.cfg` | pass | No bridge transfer goes out unpaid (`BridgedOnlyWhenPaid`), even though failed calls keep their writes. The run starts from a genesis whose endowed and authority accounts are distinct. |
| nft_fee | `MCNftFee.cfg` | violation | `validate_mint` is not all-or-nothing (`ValidateMintAtomic`). A short balance leaves the event without a fee (nft lib.rs 361). A chain that is not whitelisted leaves the fee burned without a transfer (372). |
| genesis_issuance | `MCGenesisDev.cfg` | violation | The development genesis lists `Alice//stash` twice. The account keeps `STASH`, while TotalIssuance counts `ENDOWMENT + STASH` (chain_spec.rs 183). |

Every property of a passing run has a mutant in `PROJECT.json`: a plausible
bug in a mapped definition that TLC then finds.

Six further cfgs check statements the code also violates. TLC finds each
violation, but they are not among the project's runs:

| Cfg | Property | What it shows |
|---|---|---|
| `MCSolveMaxReserve.cfg` | `SolvedWithinMaxReserve` | `solve_epoch` executes a solution over `max_reserve`; spec.md 4.5 says it rejects it (lib.rs 522). |
| `MCAvailableReserve.cfg` | `AvailableAfterExecution` | `available_reserve` stays 0 after an executed epoch; tests.rs 326/382 expect the total (lib.rs 418). |
| `MCRecordedPrice.cfg` | `ExecutionRecordsPrice` | Executions are recorded and tokens minted at price Zero (lib.rs 791, a TODO). |
| `MCWipedOut.cfg` | `EpochsAdvance` | With senior tokens at genesis, a partially solved epoch leaves reserve and pending supply, and every later close fails with WipedOut. Tranche debt and reserve are never written, although spec.md 2 has the executor rebalance them, so the senior tranche is priced 0. |
| `MCPoolNonceWrap.cfg` | `PoolsNeverOverwritten` | After 2^w pools the unchecked nonce increment wraps, and `create_pool` overwrites pool 1 (pool lib.rs 146). |
| `MCPoolReserve.cfg` | `PoolReserveIsolated` | `withdraw` for one pool pays out another pool's deposit, because all pools share the pallet account. The common-traits documentation says "from reserve" of the pool. |

### Bounds

- **Investor pool**: two investors, a borrower and two tranches.
  - Balances are below 32, order amounts are {0, 2}, and borrow and payback
    amounts are 1.
  - Solver ratios are {0%, 50%, 100%}, with solutions of length 0, 1 or 2.
  - `max_reserve` is 2, and `MaxEpoch` is 3.
  - These bounds reach every outcome of `close_epoch` and `solve_epoch`,
    partial and short solutions, redeem at prices 1 and 2, and borrow and
    payback.
  - The liveness run has two investors, the subordinated pool spec and
    ratios {0%, 100%}; it ends in under a minute. With ratio 50% or both
    pool specs the fair-cycle search does not finish in 20 minutes. It
    reaches three epochs, Closing, and both outcomes of a solve.
- **Pricing**: two tranches, interest {0, 25%}, debt {0, 4, 8}, reserve
  {0, 2}, issuance {0, 2, 4}, assets {0, 4, 8}, and up to 3 seconds. These
  reach overflow of the compounding, a tranche worth more than the remaining
  assets, and zero issuance.
- **Pool registry**: `PoolIdLimit` 8 with 3 pools, and 4 with 5 pools for
  the wrap. Two currencies and amounts {1, 2} put two pools on one currency.
- **NFT**: two accounts, two assets with two infos, and one anchored and one
  unknown anchor. There is one valid and one invalid proof (and static
  proof). Chain 0 is whitelisted by the bridge genesis, chain 1 is not. The fees are 1
  (pallet) and 2 (runtime). The caller `u1` is endowed with 3. The caller `u2`
  is an authority stash with 1, enough for one pallet fee but never for the
  runtime fee. `MCGenesisDev.cfg` also endows `u2`, as the development
  genesis does with `Alice//stash`. Up to 4
  `DepositAsset` events are deposited. This reaches all three outcomes of
  both `validate_mint`s and a mint attempted over an existing asset.

### Fairness

Nothing in the code schedules extrinsics. `pool_liveness` assumes weak
fairness of `solve_epoch` only (`FairSpec`): Closing waits for a solver.
Under it a closing pool reopens. The mutant that words the soft check as
spec.md 4.5 does leaves a subordinated pool stuck in Closing.

`LiveSpec` adds weak fairness of `close_epoch`. Any signed origin may call
it, so a keeper calling it whenever it would succeed is the intended
operation. `EpochsAdvance` under `LiveSpec` says that epochs keep
advancing. It is not among the runs, because it fails for pools that can
get stuck:
- `MCWipedOut.cfg` shows a pool with senior tokens failing every close
  with WipedOut;
- a redeem that wrapped at lib.rs 814 makes every close with a junior price
  above one overflow.

The second case takes more epochs than TLC finishes in. An invariant
`ENABLED close_epoch` for every open pool found no blocked close with two
investors and four epochs before it was stopped (about 295,000 distinct
states, with states still queued). The bounds at
which `EpochsAdvance` passed were too small to say anything.

## Not modelled, and why

- NAV is hard-coded to 0 in the code, and nothing writes tranche debt or
  reserve. `InvestorPool` keeps debt at 0. `TranchePricing` checks pricing
  and accrual on chosen values instead.
- Multiple investor pools: pools share no state except the ledger, and the
  pool account is per pool.
- Debug-build panics on unchecked arithmetic: the release runtime's wrapping
  is modelled.
- Transaction fees (`DealWithFees`, `WeightToFee`): which calls pay, and
  with what length fee and refund, is decided by pallet_transaction_payment
  and the runtime configuration, neither under `src/`. Crediting the fee to
  the author keeps TotalIssuance, so no property here would tell it apart.
  Proof hashing and the bridge's own nonce and events are outside the
  pallets' logic too.
- In `pallets/pool` the `PoolReserve` implementation names its functions
  `withdraw` / `deposit`, while the trait declares `transfer_to` /
  `transfer_from`. The model follows the implementation's behaviour.
- The chain spec's other genesis sections (session keys, staking, council,
  multi account, bridge chains and relayers, fees) configure pallets outside
  `src/` and have no transitions here. Account derivation from seeds is
  abstracted: two seeds give the same account only where the code names the
  same seed.
- The unit tests in `runtime/src/nfts.rs` (lines 78 onward), the proofs
  mock runtime and the common-traits declarations are test code or
  interfaces with no behaviour of their own. The proof hashing the mock
  configures is a constant relation in `NftRegistry`.
- The weight cost of `update_tranche_debt` is not modelled: its loop runs
  once per second of the pool's age.

## Plan for later work

1. Bring time into `InvestorPool`. The compounding factor `(1+r)^delta`
   overflows once the pool is old enough, whatever the debt. After that,
   every close of a pool with senior tokens fails with Overflow (lib.rs
   632). A violation run needs a free run slot.
2. Check that no accepted solution reaches the final Overflow in
   `do_execute_epoch`, the partial-failure hazard at lib.rs 796.
3. Two pools in `InvestorPool`, sharing the orml ledger.

----------------------------- MODULE PoolRegistry -----------------------------
(***************************************************************************)
(* The pool pallet (src/pallets/pool/src/lib.rs): the create_pool         *)
(* dispatchable (create_new_pool: ids from a nonce starting at 1) and the *)
(* PoolReserve operations withdraw / deposit that other pallets call with *)
(* a whitelisted origin, moving the pool's currency between an account     *)
(* and the pallet's account.  T::PoolId is unsigned with PoolIdLimit = 2^w *)
(* values; the unchecked `pool_id + One` wraps as in a release build.      *)
(***************************************************************************)
EXTENDS Integers, Functions

CONSTANTS
  Creators,         \* signed origins calling create_pool
  Names,            \* pool names (Vec<u8>), as model values
  Currencies,       \* orml currency ids
  Holders,          \* accounts withdraw pays to / deposit takes from
  PalletAccount,    \* T::PoolPalletId::get().into_account()
  Whitelisted,      \* origins T::TransferOrigin accepts
  Callers,          \* origins other pallets call withdraw / deposit with
  Amounts,          \* withdraw / deposit amounts
  Genesis,          \* [Currencies -> [Holders -> Nat]] initial balances
  PoolIdLimit,      \* 2^w for T::PoolId
  MaxPools,         \* bound on the number of create_pool calls
  HistoryBound,     \* bound on |reserve[p]|, the per-pool history
  None              \* an absent storage entry

PoolIds == 0 .. PoolIdLimit - 1
Accounts == Holders \cup {PalletAccount}

VARIABLES
  poolInfo,      \* PoolInfo: PoolId -> PoolData {creator, name} or None
  poolNonce,     \* PoolNonce (ValueQuery, 1 when empty)
  poolCurrency,  \* PoolCurrency: PoolId -> CurrencyId or None
  balance,       \* orml balances: currency -> account -> Nat
  created,       \* how many pools have been created (bounded by MaxPools)
  reserve        \* per pool: deposited minus withdrawn (history)

vars == <<poolInfo, poolNonce, poolCurrency, balance, created, reserve>>

-----------------------------------------------------------------------------
\* PoolData { creator, name }.
PoolData(creator, name) == [creator |-> creator, name |-> name]

\* Mutant: the currency stored under the next id instead of the new one.
create_new_pool_currency_ahead(creator, name, currency) ==
  LET id == poolNonce IN
  /\ created < MaxPools
  /\ poolInfo' = [poolInfo EXCEPT ![id] = PoolData(creator, name)]
  /\ poolNonce' = (id + 1) % PoolIdLimit
  /\ poolCurrency' = [poolCurrency EXCEPT ![(id + 1) % PoolIdLimit] = currency]
  /\ created' = created + 1
  /\ UNCHANGED <<balance, reserve>>

\* create_pool / create_new_pool: the pool id is the nonce; info and
\* currency are inserted under it (overwriting whatever is there) and the
\* nonce advances with an unchecked add.  create_pool cannot fail.
create_new_pool(creator, name, currency) ==
  LET id == poolNonce IN
  /\ created < MaxPools
  /\ poolInfo' = [poolInfo EXCEPT ![id] = PoolData(creator, name)]
  /\ poolNonce' = (id + 1) % PoolIdLimit
  /\ poolCurrency' = [poolCurrency EXCEPT ![id] = currency]
  /\ created' = created + 1
  /\ UNCHANGED <<balance, reserve>>

\* orml MultiCurrency::transfer: fails on a short balance; a transfer to
\* oneself moves nothing.
Transfer(c, from, to, amount) ==
  /\ balance[c][from] >= amount
  /\ balance' = IF from = to THEN balance
                ELSE [balance EXCEPT ![c][from] = @ - amount, ![c][to] = @ + amount]

\* The checks both reserve operations make: a whitelisted origin (else
\* BadOrigin) and a pool with a currency (else ErrMissingPoolCurrency).
ReserveCallOk(pool, caller) ==
  /\ caller \in Whitelisted
  /\ poolCurrency[pool] # None

\* withdraw: the pool's currency from the pallet account to `to`.
withdraw(pool, caller, to, amount) ==
  /\ ReserveCallOk(pool, caller)
  /\ reserve[pool] - amount >= -HistoryBound
  /\ Transfer(poolCurrency[pool], PalletAccount, to, amount)
  /\ reserve' = [reserve EXCEPT ![pool] = @ - amount]
  /\ UNCHANGED <<poolInfo, poolNonce, poolCurrency, created>>

\* deposit: the pool's currency from `from` to the pallet account.
deposit(pool, caller, from, amount) ==
  /\ ReserveCallOk(pool, caller)
  /\ reserve[pool] + amount <= HistoryBound
  /\ Transfer(poolCurrency[pool], from, PalletAccount, amount)
  /\ reserve' = [reserve EXCEPT ![pool] = @ + amount]
  /\ UNCHANGED <<poolInfo, poolNonce, poolCurrency, created>>

-----------------------------------------------------------------------------
Init ==
  /\ poolInfo = [p \in PoolIds |-> None]
  /\ poolNonce = 1 % PoolIdLimit
  /\ poolCurrency = [p \in PoolIds |-> None]
  /\ balance = [c \in Currencies |-> [a \in Accounts |->
                  IF a = PalletAccount THEN 0 ELSE Genesis[c][a]]]
  /\ created = 0
  /\ reserve = [p \in PoolIds |-> 0]

Next ==
  \/ \E cr \in Creators, n \in Names, c \in Currencies : create_new_pool(cr, n, c)
  \/ \E p \in PoolIds, cl \in Callers, a \in Holders, x \in Amounts : withdraw(p, cl, a, x)
  \/ \E p \in PoolIds, cl \in Callers, a \in Holders, x \in Amounts : deposit(p, cl, a, x)

Spec == Init /\ [][Next]_vars

-----------------------------------------------------------------------------
(* Properties.                                                             *)

\* The ids handed out so far: 1 .. nonce - 1 while the nonce has not wrapped.
Issued == {p \in PoolIds : 1 <= p /\ p < poolNonce}

\* The registry is consistent: exactly the ids create_new_pool has handed
\* out have both a PoolInfo and a PoolCurrency entry, each pool from its
\* own create_pool call, and there is one entry per call.
RegistryConsistent ==
  /\ {p \in PoolIds : poolInfo[p] # None} = Issued
  /\ {p \in PoolIds : poolCurrency[p] # None} = Issued
  /\ created = poolNonce - 1

-----------------------------------------------------------------------------
(* What the code's own documentation says, which the code does not do.    *)

\* common-traits PoolReserve: transfer_to "transfers the amount to the
\* account from reserve" of the given pool.  All pools' currency sits in
\* the one pallet account, so withdraw for one pool pays out what was
\* deposited for another pool of the same currency.
PoolReserveIsolated ==
  \A p \in PoolIds : reserve[p] >= 0

\* A pool, once created, keeps its creator, name and currency: create_pool
\* never overwrites an existing pool.  The unchecked nonce increment wraps
\* after 2^w pools and create_new_pool then inserts over pool 1.
PoolsNeverOverwritten ==
  [][\A p \in PoolIds : poolInfo[p] # None =>
        /\ poolInfo'[p] = poolInfo[p]
        /\ poolCurrency'[p] = poolCurrency[p]]_vars

=============================================================================

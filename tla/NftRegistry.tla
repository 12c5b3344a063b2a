----------------------------- MODULE NftRegistry -----------------------------
(***************************************************************************)
(* The NFT pallet (src/pallets/nft/src/lib.rs) and the runtime's older    *)
(* nfts module (src/runtime/src/nfts.rs): the asset registry (Unique::     *)
(* transfer behind the transfer dispatchable, Mintable::mint called by     *)
(* other pallets) and validate_mint, which checks proofs against an       *)
(* anchored document, deposits a DepositAsset event, burns a fee and asks *)
(* chainbridge for a generic transfer.                                     *)
(*                                                                         *)
(* Dispatch semantics: in the FRAME version this code is written against  *)
(* (decl_module, pallet::metadata, no #[transactional]) a dispatchable    *)
(* that returns an error keeps the storage writes it made before the      *)
(* error.  validate_mint's steps therefore end in one of three states.    *)
(***************************************************************************)
EXTENDS Naturals, FiniteSets, Functions

CONSTANTS
  Accounts,        \* signed origins and NFT owners
  AssetIds,        \* (registry id, token id) pairs
  Infos,           \* T::AssetInfo values
  Anchors,         \* anchor ids a caller may name
  Anchored,        \* those pallet_anchors has a document root for
  Proofs,          \* proof vectors a caller may submit
  Verifies,        \* [Anchored -> SUBSET Proofs]: proofs valid for the root
  StaticProofs,    \* the [H256; 3] static proofs a caller may submit
  RuntimeVerifies, \* [Anchored -> SUBSET (Proofs \X StaticProofs)]
  Chains,          \* chainbridge destination chain ids
  PalletFee,       \* T::NftProofValidationFee (nft pallet)
  RuntimeFee,      \* NFT_FEE (runtime nfts module)
  Endowed,         \* testnet_genesis endowed_accounts (multi account included)
  Authorities,     \* the stash accounts of initial_authorities
  Endowment,       \* ENDOWMENT
  Stash,           \* STASH
  MaxEvents,       \* bound on the DepositAsset events deposited
  None             \* no owner / no info

VARIABLES
  owner,          \* AccountForAsset: asset -> account or None
  info,           \* Assets: asset -> AssetInfo or None
  balance,        \* pallet_balances free balance
  issuance,       \* pallet_balances TotalIssuance
  depositEvents,  \* DepositAsset events deposited
  paid,           \* validate_mint calls whose fee was burned
  bridged         \* chainbridge generic transfers made

\* testnet_genesis: PalletBridgeConfig whitelists chain 0 (Ethereum).  The
\* chainbridge admin calls that change the list are not in this code.
Whitelisted == {0}

vars == <<owner, info, balance, issuance, depositEvents, paid, bridged>>

-----------------------------------------------------------------------------
(* The registry.                                                           *)

\* transfer / Unique::transfer: the asset must exist (NonexistentAsset) and
\* the caller must own it (NotAssetOwner); the owner is replaced.
\* Unique::owner_of: the AccountForAsset entry of the asset's registry
\* and token id.
owner_of(asset) == owner[asset]

transfer(who, dest, asset) ==
  /\ owner_of(asset) # None
  /\ who = owner_of(asset)
  /\ owner' = [owner EXCEPT ![asset] = dest]
  /\ UNCHANGED <<info, balance, issuance, depositEvents, paid, bridged>>

\* Mintable::mint: no check on the caller; the asset must not exist
\* (AssetExists); owner and info are inserted.
mint(caller, newOwner, asset, assetInfo) ==
  /\ owner[asset] = None
  /\ owner' = [owner EXCEPT ![asset] = newOwner]
  /\ info' = [info EXCEPT ![asset] = assetInfo]
  /\ UNCHANGED <<balance, issuance, depositEvents, paid, bridged>>

-----------------------------------------------------------------------------
(* validate_mint.  Nothing is written before the anchor and the proofs are *)
(* checked (DocumentNotAnchored / InvalidProofs, no step).  Then the event *)
(* is deposited; burn_fee fails on a short balance (the event stays); the *)
(* bridge transfer fails for a chain that is not whitelisted (the event   *)
(* and the burned fee stay).                                               *)

\* The pallet's checks (its static proofs argument is ignored).
ProofsHold(anchor, proof) == anchor \in Anchored /\ proof \in Verifies[anchor]

\* The runtime module's checks: the anchor must exist, and
\* proofs::validate_proofs checks the proofs with the static proofs.
validate_proofs(anchor, proof, static) ==
  anchor \in Anchored /\ <<proof, static>> \in RuntimeVerifies[anchor]

EventDeposited ==
  /\ depositEvents < MaxEvents
  /\ depositEvents' = depositEvents + 1

\* burn_fee: the fee is withdrawn from the caller (failing on a short
\* balance) and its negative imbalance is dropped, lowering TotalIssuance.
FeeBurned(who, fee) ==
  /\ balance[who] >= fee
  /\ balance' = [balance EXCEPT ![who] = @ - fee]
  /\ issuance' = issuance - fee
  /\ paid' = paid + 1

\* Mutant: the bridge transfer made before the fee is burned.
ValidateMintBridgeFirst(who, proofsOk, dest, fee) ==
  /\ proofsOk
  /\ EventDeposited
  /\ \/ dest \notin Whitelisted /\ UNCHANGED <<balance, issuance, paid, bridged>>
     \/ /\ dest \in Whitelisted
        /\ bridged' = bridged + 1
        /\ \/ FeeBurned(who, fee)
           \/ balance[who] < fee /\ UNCHANGED <<balance, issuance, paid>>
  /\ UNCHANGED <<owner, info>>

\* The steps of validate_mint with the given fee, once the proofs are
\* checked (proofsOk) by the version's own check.
ValidateMint(who, proofsOk, dest, fee) ==
  /\ proofsOk
  /\ EventDeposited
  /\ \/ balance[who] < fee /\ UNCHANGED <<balance, issuance, paid, bridged>>
     \/ /\ FeeBurned(who, fee)
        /\ \/ dest \notin Whitelisted /\ UNCHANGED bridged
           \/ dest \in Whitelisted /\ bridged' = bridged + 1
  /\ UNCHANGED <<owner, info>>

\* The nft pallet's validate_mint, fee T::NftProofValidationFee.
validate_mint(who, anchor, proof, dest) ==
  ValidateMint(who, ProofsHold(anchor, proof), dest, PalletFee)

\* The runtime nfts module's validate_mint, fee NFT_FEE.
validate_mint_runtime(who, anchor, proof, static, dest) ==
  ValidateMint(who, validate_proofs(anchor, proof, static), dest, RuntimeFee)

-----------------------------------------------------------------------------
(* The chain's genesis (src/src/chain_spec.rs, testnet_genesis): the      *)
(* pallet_balances list gives every endowed account ENDOWMENT and then    *)
(* every authority's stash STASH.  Building it inserts the entries in     *)
(* order, a later entry for an account replacing an earlier one, and sets *)
(* TotalIssuance to the sum of all entries.                                *)

GenesisFree ==
  [a \in Accounts |-> IF a \in Authorities THEN Stash
                     ELSE IF a \in Endowed THEN Endowment ELSE 0]

GenesisIssuance ==
  Cardinality(Endowed) * Endowment + Cardinality(Authorities) * Stash

Init ==
  /\ owner = [a \in AssetIds |-> None]
  /\ info = [a \in AssetIds |-> None]
  /\ balance = GenesisFree
  /\ issuance = GenesisIssuance
  /\ depositEvents = 0
  /\ paid = 0
  /\ bridged = 0

Next ==
  \/ \E w, d \in Accounts, a \in AssetIds : transfer(w, d, a)
  \/ \E c, o \in Accounts, a \in AssetIds, i \in Infos : mint(c, o, a, i)
  \/ \E w \in Accounts, an \in Anchors, p \in Proofs, d \in Chains :
       validate_mint(w, an, p, d)
  \/ \E w \in Accounts, an \in Anchors, p \in Proofs, st \in StaticProofs, d \in Chains :
       validate_mint_runtime(w, an, p, st, d)

Spec == Init /\ [][Next]_vars

-----------------------------------------------------------------------------
(* Properties.                                                             *)

\* Every chainbridge transfer validate_mint asks for was paid for: the
\* fee is burned before the bridge is called, so even with the writes of
\* failed calls kept, no transfer goes out unpaid.
BridgedOnlyWhenPaid == bridged <= paid

\* TotalIssuance is the sum of the free balances, which pallet_balances
\* keeps.  testnet_genesis gives an account that is both endowed and an
\* authority stash two entries; the genesis build keeps the later one in
\* the account and adds both to TotalIssuance.
IssuanceMatchesFree == issuance = SumFunction(balance)

-----------------------------------------------------------------------------
(* What the code's documentation says, which the code does not do.        *)

\* validate_mint is one dispatchable: its DepositAsset event (the payload
\* relayers bridge), its fee ("to compensate the current cost of target
\* chains") and its chainbridge transfer go together, all or none, as
\* spec.md 5 says of every operation.  The code deposits the event, then
\* burns the fee, then calls transfer_generic, and a failing dispatchable
\* keeps the writes made before its error: a short balance leaves an event
\* with no fee, a chain not whitelisted a burned fee with no transfer.
ValidateMintAtomic == depositEvents = paid /\ paid = bridged

=============================================================================

CONSTANTS
  alice = alice
  bob = bob
  coordinator = coordinator
  stranger = stranger
  n1 = n1
  cfg = cfg
  usd = usd
  pallet = pallet
  none = none
  Creators = {alice}
  Names = {n1}
  Currencies = {cfg, usd}
  Holders = {alice, bob}
  PalletAccount = pallet
  Whitelisted = {coordinator}
  Callers = {coordinator, stranger}
  Amounts = {1, 2}
  Genesis <- MCGenesis
  PoolIdLimit = 8
  MaxPools = 3
  HistoryBound = 2
  None = none
SPECIFICATION Spec
INVARIANT RegistryConsistent

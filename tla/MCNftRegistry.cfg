CONSTANTS
  u1 = u1  u2 = u2  x1 = x1  x2 = x2  i1 = i1  i2 = i2
  an1 = an1  an2 = an2  pf1 = pf1  pf2 = pf2  st1 = st1  st2 = st2  none = none
  Accounts = {u1, u2}
  AssetIds = {x1, x2}
  Infos = {i1, i2}
  Anchors = {an1, an2}
  Anchored = {an1}
  Proofs = {pf1, pf2}
  Verifies <- MCVerifies
  StaticProofs = {st1, st2}
  RuntimeVerifies <- MCRuntimeVerifies
  Chains = {0, 1}
  PalletFee = 1
  RuntimeFee = 2
  Endowed = {u1}
  Authorities = {u2}
  Endowment = 3
  Stash = 1
  MaxEvents = 4
  None = none
SPECIFICATION Spec
INVARIANT BridgedOnlyWhenPaid

CONSTANTS
  i1 = i1
  i2 = i2
  b = b
  pa = pa
  none = none
  Investors <- MCInvestors
  Borrower <- b
  PoolAccount <- pa
  None <- none
  NumTranches = 2
  TrancheSpecChoices <- MCSubordinated
  MaxReserveChoices = {2}
  Amounts = {0, 2}
  PaybackAmounts = {1}
  Ratios = {0, 100}
  CurrencyGenesis <- MCCurrencyGenesis
  TokenGenesis <- MCTokenFlow
  MaxEpoch = 3
  BalanceLimit = 32
  Accuracy = 100
  PriceOne = 4
  ZeroDenomRatio = 0
SPECIFICATION FairSpec

PROPERTY ClosingResolves

CONSTANTS
  none = none
  None <- none
  NumTranches = 2
  InterestChoices = {0, 25}
  DebtChoices = {0, 4, 8}
  ReserveChoices = {0, 2}
  IssuanceChoices = {0, 2, 4}
  AssetChoices = {0, 4, 8}
  MaxTime = 3
  BalanceLimit = 32
  Accuracy = 100
  PriceOne = 4
  ZeroDenomRatio = 0
SPECIFICATION Spec
INVARIANT ValueCappedAtRemaining

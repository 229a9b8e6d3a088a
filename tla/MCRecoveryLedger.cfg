CONSTANTS
  SplitCount = 3
  BaseStake = 2
  MinStake = 1
  Ratios = {1, 2}
  Par = 2
  Cushion = 1
  Thresholds = {0, 1, 2}
  MaxDebt = 8
  MaxRestarts = 2
SPECIFICATION Spec
INVARIANTS
  TypeOK
  HookHoldsRealTrades
PROPERTIES
  DebtForgivenAfterParts
  PartsAreEqual

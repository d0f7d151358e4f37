SPECIFICATION Spec
CONSTANTS
  MaxLevels = 2
  Losses <- MCLosses
  MaxLoss = 2
  Profits <- MCProfits
  ZoneBudget = 1
INVARIANT StopLossBecomesDebt
CHECK_DEADLOCK FALSE

SPECIFICATION Spec
CONSTANTS
  MaxLevels = 2
  Losses <- MCLosses
  MaxLoss = 2
  Profits <- MCProfits
  ZoneBudget = 1
INVARIANTS LossCountsOnce LossesAreRolled
PROPERTY DebtFallsOnlyByTakeProfit
CHECK_DEADLOCK FALSE

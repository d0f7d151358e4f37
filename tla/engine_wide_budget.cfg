SPECIFICATION Spec
CONSTANTS
  ShortStrike = 14
  ZoneWidth = 2
  LevelCount = 5
  StopNum = 1
  StopDen = 4
  OptionQty = 32
  PremiumCredit = 300
  RecoveryMode = "FULL_NEXT_TP"
  LockPolicy = "UNHEDGED"
  RecoveryTpCount = 1
  Prices <- WidePrices
INVARIANTS
  BudgetRespected

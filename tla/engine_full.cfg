SPECIFICATION Spec
CONSTANTS
  ShortStrike = 16
  ZoneWidth = 4
  LevelCount = 3
  StopNum = 1
  StopDen = 4
  OptionQty = 16
  PremiumCredit = 180
  RecoveryMode = "FULL_NEXT_TP"
  LockPolicy = "BREAKEVEN_FLOOR"
  RecoveryTpCount = 1
  Prices <- NarrowPrices
INVARIANTS
  NoMissedTrigger
  BudgetRespected
  FloorUntilLocked

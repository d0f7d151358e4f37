SPECIFICATION Spec
CONSTANTS
  ShortStrike = 14
  ZoneWidth = 2
  LevelCount = 5
  StopNum = 1
  StopDen = 4
  OptionQty = 32
  PremiumCredit = 300
  RecoveryMode = "DISTRIBUTED"
  LockPolicy = "UNHEDGED"
  RecoveryTpCount = 2
  Prices <- WidePrices
INVARIANTS
  DebtAccounting
  NoStrandedDebt
PROPERTIES
  DebtFallsOnlyByRecovery

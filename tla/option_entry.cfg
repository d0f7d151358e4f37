SPECIFICATION MCSpec
CONSTANTS
  Qty = 2
  MinMatched = 1
  AllowPartial = TRUE
  Attempts = 2
  MaxCycles = 2
  BootAfter = "settlement"
  OptionChains <- MCOptionChains
  MaximumLoss = 5
  OneDollar = 2
  Improvement = 1
  MaxFee = 1
INVARIANTS NoNakedShort OneSpread LossIsBounded
PROPERTIES RunnerComesToRest
CHECK_DEADLOCK FALSE

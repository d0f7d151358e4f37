SPECIFICATION MCSpec
CONSTANTS
  MaxAttempts = 2
  MaxGeneration = 4
  MaxExecutions = 3
  MaxOffset = 2
  MaxUncertainty = 1
  MaxSampleAge = 2
  RequestTimeout = 3
  Skews <- MCSkews
  Epoch = 10
  MaxClockTime = 18
  MaxBookAge = 1
  MaxChanges = 3
  MaxDrops = 1
  MaxPushes = 2
  MaxFeedTime = 2
  MaxFeedWire = 2
  MaxAge = 2
  MaxTradeGeneration = 2
  MaxEvents = 4
  LevelCount = 2
  Entry <- MCEntry
  TakeProfit <- MCTakeProfit
  StopLoss <- MCStopLoss
  Prices = {16, 18, 22}
  Instrument <- MCInstrument
  Limits <- MCLimits
  Desired = 3
  RiskStates <- MCRiskStates
  MaxItems = 4
  PageSize = 1
  WatchPrices = {2, 4, 5, 6}
  Tick = 1
  FixedEntry = 4
  MaxTradeAge = 1
  RefreshAge = 1
  MaxQuoteAge = 2
  MaxWatchGeneration = 2
  MaxTrades = 4
INVARIANTS NoBlindEntries TimestampIsAccurate UsableBook CrossingsAreGenuine
  OrdersAreWithinLimits AnswersCanBeTrusted
PROPERTIES DeadLinkBlocksEntries FeedResumes
CHECK_DEADLOCK FALSE

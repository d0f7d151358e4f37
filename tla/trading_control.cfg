SPECIFICATION MCSpec
CONSTANTS
  NumLevels = 2
  EntryPrice <- MCEntryPrice
  Prices <- MCPrices
  MaxGeneration = 2
  Commands = {"c", "r", "f"}
  HandlerOf <- MCHandlerOf
  First = c1
  Second = c2
  Calls = {c1, c2}
  MaximumAttempts = 2
  MaxEnds = 1
  RunLevels = 2
  LevelLots = 2
  FillAttempts = 2
INVARIANTS PauseStopsEntries CommandRunsOnce ProvedFlatStaysFlat
  ClosedLevelIsExplained EveryLotHasItsStop
PROPERTIES EntryAnswersItsCrossing SwitchOnlyEscalates CallsEnd FilledLevelIsAnswered

SPECIFICATION MCSpec
CONSTANTS
  Writers = {w1, w2}
  entry = entry
  exit = exit
  option = option
  debt = debt
  l1 = l1
  l2 = l2
  e1 = e1
  e2 = e2
  s1 = s1
  s2 = s2
  o1 = o1
  o2 = o2
  c1 = c1
  d1 = d1
  d2 = d2
  Entries = {entry}
  Protections = {exit}
  Options = {option}
  Debts = {debt}
  Links = {l1, l2}
  Executions = {e1, e2, s1, s2, o1, o2, c1}
  Postings = {d1, d2}
  KeyOf <- MCKeyOf
  Quantity <- MCQuantity
  Parent <- MCParent
  None = None
  MaxVersion = 3
  EventIds = {1, 2, 3}
  MaxRebuilds = 4
  Levels = {v1, v2}
  Lots = 2
  MaxTime = 2
  MaxMoves = 1
  MaxOrders = 3
  MaxIncidents = 1
  InitialPrice = 5
  Prices = {3, 7}
  StopAt = 7
  TakeAt = 4
  AmendedTo = 8
  AckDelay = 0
  VisibilityDelay = 1
  FillDelay = 1
  MakerFee = 1
  TakerFee = 2
  Spread = 1
  EntrySlip = 1
  StopSlip = 1
  FundingRate = 1
SYMMETRY MCSymmetry
INVARIANTS ReplayIsExact BooksBalance ExecutionsReachReader UnprotectedClockRuns
PROPERTIES KeepsLedger
CHECK_DEADLOCK FALSE

SPECIFICATION Spec
CONSTANTS
  Qty = 2
  Attempts = 2
INVARIANT
  UnknownStateBlocksTrading
CHECK_DEADLOCK FALSE

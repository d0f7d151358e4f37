SPECIFICATION Spec
CONSTANTS
  Qty = 2
  Attempts = 2
INVARIANT
  NoExecutionCountedTwice
CHECK_DEADLOCK FALSE

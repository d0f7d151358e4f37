SPECIFICATION MCSpec
CONSTANTS
  Qty = 2
  Attempts = 2
INVARIANTS
  StoreIsAhead
  ProtectedMeansStop
  DoneMeansFlat
  AdmittedIsReconciled
PROPERTY
  RunnerComesToRest
CHECK_DEADLOCK FALSE

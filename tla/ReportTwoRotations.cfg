SPECIFICATION Spec
CONSTANTS
  MaxRecords = 6
  Cap = 2
  Keep = 3
  MaxPending = 3
  MaxBatch = 2
  Unusable = {}
  Faults = {}
INVARIANTS
  NothingLost
CHECK_DEADLOCK FALSE

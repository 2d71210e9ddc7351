SPECIFICATION FairSpec
CONSTANTS
  MaxRecords = 5
  Cap = 2
  Keep = 2
  MaxPending = 3
  MaxBatch = 2
  Unusable = {2, 5}
  Faults = {"hub_down", "overlap", "rename_error", "read_error"}
PROPERTIES
  CatchesUp
CHECK_DEADLOCK FALSE

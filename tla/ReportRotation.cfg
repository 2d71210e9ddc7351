SPECIFICATION FairSpec
CONSTANTS
  MaxRecords = 8
  Cap = 4
  Keep = 2
  MaxPending = 3
  MaxBatch = 2
  Unusable = {2, 5}
  Faults = {"hub_down", "hub_reject", "early_crash", "cursor_error"}
INVARIANTS
  NothingLost
  CheckpointAcknowledged
PROPERTIES
  ReportedInOrder
  EventuallyReported
CHECK_DEADLOCK FALSE

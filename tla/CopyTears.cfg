SPECIFICATION SnapSpec
CONSTANTS
  Kids = {"k1"}
  MaxCalls = 1
  MaxOthers = 0
  Faults = {"remove_error"}
INVARIANT FailedCopyKeepsOld
CHECK_DEADLOCK FALSE

SPECIFICATION SnapSpec
CONSTANTS
  Kids = {"k1"}
  MaxCalls = 1
  MaxOthers = 2
  Faults = {"io_error", "remove_error", "crash"}
INVARIANTS
  GuardHolds
  UnseenSurvives
  FailedCallKeepsDestination
  CrashLosesNothing
  PerPathAtomic
CHECK_DEADLOCK FALSE

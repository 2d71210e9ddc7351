SPECIFICATION FairSpec
CONSTANTS
  MaxTerms = 2
  Osc133 = TRUE
  MaxSessions = 2
  MaxWork = 3
  Faults = {"send_error", "cancelled", "ignores"}
INVARIANTS
  NoOverlap
  CompletionIsTrue
  CloseStrandsNothing
PROPERTIES
  BusyEnds
  DeadIsClosed
CHECK_DEADLOCK FALSE

SPECIFICATION FairSpec
CONSTANTS
  j1 = j1
  j2 = j2
  Jobs = {j1, j2}
  Timed = {j1}
  Keys = {k1}
  k1 = k1
  NoKey = NoKey
  NoJob = NoJob
  MaxJobs = 1
  Faults = {"restart", "spawn_error"}
INVARIANTS
  TerminalMeansStopped
  CommandsBounded
PROPERTIES
  TerminalIsStable
  ResultIsFinal
  TaskIsFinal
  TimedJobSettles
  CancelSettles
CHECK_DEADLOCK FALSE

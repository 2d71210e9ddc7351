SPECIFICATION Spec
CONSTANTS
  j1 = j1
  j2 = j2
  Jobs = {j1, j2}
  Timed = {}
  Keys = {k1}
  k1 = k1
  NoKey = NoKey
  NoJob = NoJob
  MaxJobs = 1
  Faults = {"server_crash"}
SYMMETRY Symmetry
INVARIANTS
  ExecutedAtMostOnce
  CleanedKeyIsTombstoned
CHECK_DEADLOCK FALSE

SPECIFICATION Spec
CONSTANTS
  j1 = j1
  Jobs = {j1}
  Timed = {j1}
  Keys = {k1}
  k1 = k1
  NoKey = NoKey
  NoJob = NoJob
  MaxJobs = 1
  Faults = {"server_crash", "worker_kill", "spawn_error", "io_error"}
INVARIANTS
  ResultMeansExited
  CancelIsAuthoritative
  TerminalForgetsCommand
CHECK_DEADLOCK FALSE

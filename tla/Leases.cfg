SPECIFICATION Spec
CONSTANTS
  Servers = {s1, s2}
  Resources = {r1, r2}
  Ttls = {1, 2}
  Capacity = 1
  MaxLeases = 2
  MaxClock = 2
  Faults = {"crash", "io_error", "set_back", "power_loss"}
INVARIANTS
  MutualExclusion
  LeaseHolds
SYMMETRY Symmetry
CHECK_DEADLOCK FALSE

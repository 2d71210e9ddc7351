SPECIFICATION Spec
CONSTANTS
  Kinds = {"shell", "argv", "ssh"}
  Kids = {k1}
  Limit = 2
  PipeSize = 2
  MaxBytes = 3
  CallFaults = {"cancelled", "spawn_error", "deaf", "away", "stdin_closed"}
  MaxOthers = 1
  Faults = {"io_error", "remote_lost"}
INVARIANTS
  NothingStranded
  OutputIsHonest
  DestIsWhole
  SuccessIsDelivered
  NoLocalResidue
PROPERTIES
  KeepsOthers
  EveryCallEnds
CHECK_DEADLOCK FALSE

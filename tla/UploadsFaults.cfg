SPECIFICATION Spec
CONSTANTS
  new = new
  over = over
  Uploads = {new, over}
  Overwrites = {over}
  Size <- Sizes
  MaxChunk = 2
  Faults = {"crash", "io_error", "others"}
INVARIANTS
  AcceptedIsKept
  NoResidue
PROPERTIES
  PublishesAtomically
CHECK_DEADLOCK FALSE

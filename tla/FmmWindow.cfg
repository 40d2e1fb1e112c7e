SPECIFICATION Spec
CONSTANTS
  Areas <- MCAreas
  Apertures <- MCApertures
  Scratch = {"scratch"}
  ApertureOf <- MCApertureOf
  Size <- MCSize
  Handles = {h1}
  QueueMax = 2
  BytesMax = 3
  KernelFaults = FALSE
  NoMem = TRUE
  MaxInFlight = 0
  NoArea = NoArea
INVARIANTS FifoConsistent NoOrphanBO
PROPERTY
  WindowHonoured
CHECK_DEADLOCK FALSE

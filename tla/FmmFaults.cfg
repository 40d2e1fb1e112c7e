SPECIFICATION FairSpec
CONSTANTS
  Areas <- FewAreas
  Apertures <- MCApertures
  Scratch = {"scratch"}
  ApertureOf <- FewApertureOf
  Size <- FewSize
  Handles = {h1, h2}
  QueueMax = 1
  BytesMax = 2
  KernelFaults = TRUE
  NoMem = TRUE
  MaxInFlight = 1
  NoArea = NoArea
INVARIANTS ParkedKeepsBOs NeverPopsEmpty
PROPERTIES
  DrainTerminates
  ScratchTornDown
CHECK_DEADLOCK FALSE

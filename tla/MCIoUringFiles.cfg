SPECIFICATION Spec
CONSTANTS
  Fds = {f1, f2}
  OpenFiles = {x1, x2}
  Holders = {h1, h2, h3}
  None = None
  NoFile = NoFile
  MinSize = 1
  MaxSize = 5
  MaxReserve = 2
  Fails = {"update", "register"}
SYMMETRY Symmetry
INVARIANTS
  HandlesDistinct
  AllocatedCount
  SlotsOwned
  HandleKeepsFile
  NeverTerminates
PROPERTIES
  ReserveEnough

SPECIFICATION AuxFairSpec
CONSTANTS
  p1 = p1
  p2 = p2
  Peers = {p1, p2}
  NoPeer = NoPeer
  Unknown = Unknown
  MaxActive <- TwoOut
  SeparatedFree = FALSE
  OutLimit = 1
  Sizes <- SameSize
  TTLInit = 2
  TTLPing = 2
  COOLDOWN = 1
  Quantity <- NoDrop
  DropOnlyNormal = TRUE
  RemoveWorse = FALSE
  BootLists = {}
  AuxLists = {}
  MayDepart = {}
  MergeModes = {"AVOID", "PERMIT_KILLEND"}
  QT = 1
  TimeDesc = 1
CHECK_DEADLOCK FALSE
INVARIANTS AuxTypeOK RejectedNotServed ServesOnlyParallel
PROPERTIES OnlyParallelMerged MergeDrains

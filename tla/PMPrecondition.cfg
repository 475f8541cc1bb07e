SPECIFICATION Spec
CONSTANTS
  p1 = p1
  p2 = p2
  Peers = {p1, p2}
  NoPeer = NoPeer
  Unknown = Unknown
  MaxActive <- OneEach
  SeparatedFree = FALSE
  OutLimit = 1
  Sizes <- SameSize
  TTLInit = 2
  TTLPing = 1
  COOLDOWN = 1
  Quantity <- NoDrop
  DropOnlyNormal = TRUE
  RemoveWorse = FALSE
  BootLists = {}
  AuxLists = {}
  MayDepart = {}
CHECK_DEADLOCK FALSE
INVARIANT ConnectPeerPrecondition

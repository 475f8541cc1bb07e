SPECIFICATION Spec
CONSTANTS
  p1 = p1
  p2 = p2
  Peers = {p1, p2}
  NoPeer = NoPeer
  Unknown = Unknown
  MaxActive <- OneEach
  SeparatedFree = TRUE
  OutLimit = 1
  Sizes <- EitherList
  TTLInit = 1
  TTLPing = 1
  COOLDOWN = 1
  Quantity <- DropOneOut
  DropOnlyNormal = TRUE
  RemoveWorse = TRUE
  BootLists = {{p1}}
  AuxLists = {{p2}}
  MayDepart = {}
CHECK_DEADLOCK FALSE
INVARIANTS TypeOK Capacity RoomKept InPartnersAlive
PROPERTY EvictsOnlyPoorer

SPECIFICATION FairSpec
CONSTANTS
  BufferSize = 3
  Cycles = 4
  Joined = 3
  LastTip = 4
  InitIDs = {0}
  TipOffset = 2
  MaxAttempts = 1
  MaxFailures = 1
  MaxInFlight = 1
CHECK_DEADLOCK FALSE
INVARIANTS TypeOK RequestsOrdered PlayerNotAhead
PROPERTY RequesterRecovers

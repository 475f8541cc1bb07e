SPECIFICATION Spec
CONSTANTS
  BufferSize = 3
  Cycles = 3
  Joined = 3
  LastTip = 5
  InitIDs = {0}
  TipOffset = 1
  MaxAttempts = 1
  MaxFailures = 1
  MaxInFlight = 1
CHECK_DEADLOCK FALSE
PROPERTY AnswersRequested

\* wadjit.go:199 when responses are under way, servers answer and the buffer is full.
SPECIFICATION EndingSpec
CONSTANTS
  Watchers <- TwoWatchers
  IDs <- TwoIDs
  WatcherID <- DistinctIDs
  None = None
  Workers = {x1, x2}
  BufferSize = 1
  MaxResponses = 3
  InitMayFail = FALSE
  CloseMayFail = FALSE
CHECK_DEADLOCK FALSE
PROPERTY
  CloseReturns

\* All API calls, tasks that fail to initialize or to close, full channels,
\* a consumer that keeps reading; Close may hang (see WadjitCloseHangs.cfg).
SPECIFICATION ConsumedSpec
CONSTANTS
  Watchers <- ThreeWatchers
  IDs <- TwoIDs
  WatcherID <- MixedID
  None = None
  Workers = {x1, x2}
  BufferSize = 1
  MaxResponses = 2
  InitMayFail = TRUE
  CloseMayFail = TRUE
CHECK_DEADLOCK FALSE
INVARIANTS
  TypeOK
  RegisteredIsOpen
  JobsFollowRegistry
  InOrder
PROPERTIES
  ResponsesArrive
  CloseWaitsOnlyFor
  ImplementsStream

\* handleWriteError against the lock Execute holds.
SPECIFICATION FairSpec
CONSTANTS
  Execs = {x1}
  Closer = Closer
  Free = Free
  Modes = {"PersistentJSONRPC"}
  MaxConns = 2
  MaxMsgs = 2
  MayClose = FALSE
  DupAnswers = FALSE
CHECK_DEADLOCK FALSE
PROPERTY
  WriteErrorReported

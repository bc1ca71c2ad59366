\* Two executions that may overlap, in both modes, and Wadjit.Close at any
\* time; the gather channel holds one response.
SPECIFICATION ShutdownSpec
CONSTANTS
  Execs = {x1, x2}
  Closer = Closer
  Free = Free
  Modes = {"OneHitText", "PersistentJSONRPC"}
  MaxConns = 2
  MaxMsgs = 2
  MayClose = TRUE
  DupAnswers = FALSE
  BufferSize = 1
CHECK_DEADLOCK FALSE
INVARIANTS
  ShutdownTypeOK
  OnlyPumpsSendLate
PROPERTY
  CloseHangsOnly

\* Two executions that may overlap; the peer breaks connections, repeats
\* answers and sends junk; Close at any time.
SPECIFICATION FairSpec
CONSTANTS
  Execs = {x1, x2}
  Closer = Closer
  Free = Free
  Modes = {"ModeUnknown", "PersistentJSONRPC"}
  MaxConns = 2
  MaxMsgs = 2
  MayClose = TRUE
  DupAnswers = TRUE
CHECK_DEADLOCK FALSE
INVARIANTS
  SingleReader
  AnsweredOnce
  InflightAccounted
  NoStrayConn
  ConnIsRead
PROPERTIES
  BrokenIsNoticed
  NothingSentAfterClose

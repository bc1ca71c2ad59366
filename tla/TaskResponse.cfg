\* Two consumers of one response, with and without OptReadFast.
SPECIFICATION Spec
CONSTANTS
  Callers = {c1, c2}
  Executor = Executor
  FastModes = {TRUE, FALSE}
  Length = 2
  MaxHops = 3
  MaxCalls = 5
CHECK_DEADLOCK FALSE
INVARIANTS
  TypeOK
  DataAgrees
  CompleteUnlessStreamed
  SourceClosed
  TimesFit

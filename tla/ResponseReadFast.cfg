\* response.go:214 with OptReadFast and a single consumer.
SPECIFICATION Spec
CONSTANTS
  Callers = {c1}
  Executor = Executor
  FastModes = {TRUE}
  Length = 1
  MaxHops = 1
  MaxCalls = 1
CHECK_DEADLOCK FALSE
INVARIANT
  DataFromMemory

\* Two lookups; two servers that fail or answer in every way, zero TTLs,
\* records that are no addresses, a context that ends at any time.
SPECIFICATION Spec
CONSTANTS
  NumServers = 2
  TTLs = {0, 1, 2}
  MaxRRs = 2
  MaxLookups = 2
CHECK_DEADLOCK FALSE
INVARIANTS
  TypeOK
  TTLIsMinimum
  AnswerIsComplete
  FallbackIsLast
PROPERTY
  LookupEnds

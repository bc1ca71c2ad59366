\* Two executions share lookups, overwrite each other's cache entries, fail,
\* succeed and trip the guard rail.  Lookups end and goroutines run; servers
\* may stay silent forever.
SPECIFICATION FairSpec
CONSTANTS
  Requests = {r1, r2}
  Hosts = {h1}
  EndpointHost = h1
  NoHost = NoHost
  Policies <- ConcurrentPolicies
  FastPolicies <- ConcurrentPolicies
  TTLs = {0}
  MaxTime = 2
  MaxRedirects = 0
INVARIANTS
  TypeOK
  FreshAddress
  FlushNotLost
PROPERTIES
  ForcedLookup
  ResolutionEnds

\* README.md:160 against RoundTrip's early return.
SPECIFICATION Spec
CONSTANTS
  Requests = {r1}
  Hosts = {h1}
  EndpointHost = h1
  NoHost = NoHost
  Policies <- OnlyTTL
  TTLs = {1}
  FastPolicies <- OnlyTTL
  MaxTime = 3
  MaxRedirects = 0
INVARIANT
  FallbackCompletes

\* One execution at a time, redirects followed; bodies are read at once
\* except under SingleLookup.
SPECIFICATION Spec
CONSTANTS
  Requests = {r1}
  Hosts = {h1, h2}
  EndpointHost = h1
  NoHost = NoHost
  Policies <- AllModes
  FastPolicies <- FastModes
  TTLs = {1, 3}
  MaxTime = 4
  MaxRedirects = 2
INVARIANT
  ConnFollowsDecision
PROPERTY
  SingleAddress

\* Two goroutines report outcomes; late registrations overtake earlier ones.
SPECIFICATION Spec
CONSTANTS
  Observers = {o1, o2}
  Policies <- RailPolicies
  MaxTime = 5
CHECK_DEADLOCK FALSE
INVARIANTS
  TypeOK
  CountsConsecutive
  CountedInWindow
PROPERTY
  TripsAfterThreshold

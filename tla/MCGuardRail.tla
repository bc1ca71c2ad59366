--------------------------- MODULE MCGuardRail ---------------------------
(* Guard-rail configurations for TLC: thresholds 1 to 3, no window and a  *)
(* window of 1 or 2, both actions, in a mode that takes forceLookup.      *)
EXTENDS GuardRail

Rail(threshold, window, action) ==
  [ Mode |-> "TTL", StaticAddr |-> FALSE, Cadence |-> 0, TTLMin |-> 0, TTLMax |-> 0,
    DisableFallback |-> FALSE,
    Threshold |-> threshold, Window |-> window, Action |-> action ]

RailPolicies ==
  { Rail(1, 0, "Flush"), Rail(2, 0, "ForceLookup"), Rail(2, 2, "Flush"),
    Rail(3, 0, "Flush"), Rail(3, 1, "ForceLookup"), Rail(3, 2, "Flush"),
    Rail(0, 1, "Flush"), Rail(2, 1, "None") }
============================================================================

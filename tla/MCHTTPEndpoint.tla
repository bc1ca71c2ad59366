-------------------------- MODULE MCHTTPEndpoint --------------------------
(* Endpoint configurations for TLC.                                       *)
EXTENDS HTTPEndpoint

DefaultPolicy ==
  [ Mode |-> "Default", StaticAddr |-> FALSE, Cadence |-> 0, TTLMin |-> 0, TTLMax |-> 0,
    DisableFallback |-> FALSE, Threshold |-> 0, Window |-> 0, Action |-> "None" ]

WithRail(p, threshold, action) == [p EXCEPT !.Threshold = threshold, !.Action = action]

StaticPolicy == [DefaultPolicy EXCEPT !.Mode = "Static", !.StaticAddr = TRUE]
SinglePolicy == [DefaultPolicy EXCEPT !.Mode = "SingleLookup"]
TTLPolicy == [DefaultPolicy EXCEPT !.Mode = "TTL", !.TTLMin = 1, !.TTLMax = 2]
CadencePolicy == [DefaultPolicy EXCEPT !.Mode = "Cadence", !.Cadence = 1]
InvalidPolicy == [DefaultPolicy EXCEPT !.Mode = "Cadence"]

(* A TTL of zero that nothing clamps, with a guard rail that trips at     *)
(* once, and a cadence.                                                   *)
ConcurrentPolicies ==
  { WithRail([TTLPolicy EXCEPT !.TTLMin = 0], 1, "ForceLookup"), CadencePolicy,
    InvalidPolicy }

AllModes ==
  { WithRail(DefaultPolicy, 1, "Flush"), StaticPolicy, SinglePolicy,
    WithRail(TTLPolicy, 2, "ForceLookup"),
    WithRail([CadencePolicy EXCEPT !.DisableFallback = TRUE], 2, "Flush"),
    InvalidPolicy }

(* Bodies read late only where the address cannot change.                 *)
FastModes == AllModes \ {SinglePolicy}

OnlyTTL == { TTLPolicy }
============================================================================

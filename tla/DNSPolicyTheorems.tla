------------------------ MODULE DNSPolicyTheorems ------------------------
(***************************************************************************)
(* Facts about the pure operators of DNSPolicy, for the proofs about the  *)
(* modules built from them.                                               *)
(***************************************************************************)
EXTENDS DNSPolicy, TLAPS

(* normalizeTTL keeps every TTL of a policy that Validate accepts within  *)
(* the configured bounds, whatever the resolver returned: never above a   *)
(* set TTLMax, and never below a set TTLMin.                              *)
THEOREM TTLClamped ==
  ASSUME NEW p \in DNSPolicyType, NEW ttl \in Int, p.Mode = "TTL", Validate(p)
  PROVE  /\ normalizeTTL(p, ttl) \in Int
         /\ p.TTLMax > 0 => normalizeTTL(p, ttl) <= p.TTLMax
         /\ p.TTLMin > 0 => normalizeTTL(p, ttl) >= p.TTLMin
BY DEF DNSPolicyType, Validate, normalizeTTL

(* An answer can be cached for a while, never for less than no time: the  *)
(* expiry resolveTTL and resolveCadence store is not in the past.         *)
LEMMA LifetimeNat ==
  ASSUME NEW p \in DNSPolicyType, NEW ttl \in Int,
         p.Mode \in {"TTL", "Cadence"}, Validate(p)
  PROVE  Lifetime(p, ttl) \in Nat
BY DEF DNSPolicyType, Validate, Lifetime, normalizeTTL

(* What one registered failure does to the count.                         *)
LEMMA CountStep ==
  ASSUME NEW p \in DNSPolicyType, NEW g \in GuardRailState, NEW now \in Nat
  PROVE  /\ CountAfter(p, g, now) \in Nat
         /\ CountAfter(p, g, now) \in {1, g.count + 1}
         /\ registerGuardFailure(p, g, now) \in GuardRailState
<1>1. CountAfter(p, g, now) \in Nat /\ CountAfter(p, g, now) \in {1, g.count + 1}
  BY DEF CountAfter, GuardRailState
<1>2. (g.forceLookup \/ p.Action = "ForceLookup") \in BOOLEAN
  OBVIOUS
<1>3. registerGuardFailure(p, g, now) \in GuardRailState
  <2>1. CASE ~Enabled(p)
    BY <2>1 DEF registerGuardFailure
  <2>2. CASE Enabled(p) /\ Trips(p, g, now)
    BY <1>2, <2>2 DEF registerGuardFailure, GuardRailState, ZeroTime
  <2>3. CASE Enabled(p) /\ ~Trips(p, g, now)
    BY <1>1, <2>3 DEF registerGuardFailure, GuardRailState
  <2> QED
    BY <2>1, <2>2, <2>3
<1> QED
  BY <1>1, <1>3

(* The three locked sections that touch the guard keep it well formed.    *)
LEMMA GuardStep ==
  ASSUME NEW g \in GuardRailState
  PROVE  /\ resetGuard(g) \in GuardRailState
         /\ consumeGuardTrigger(g) \in GuardRailState
         /\ [g EXCEPT !.forceLookup = FALSE] \in GuardRailState
BY DEF resetGuard, consumeGuardTrigger, GuardRailState, ZeroTime

(* What the three of them leave alone, and what a failure may change.     *)
LEMMA GuardFlags ==
  ASSUME NEW p \in DNSPolicyType, NEW g \in GuardRailState, NEW now \in Nat
  PROVE  /\ resetGuard(g).triggered = g.triggered
         /\ resetGuard(g).forceLookup = g.forceLookup
         /\ consumeGuardTrigger(g).forceLookup = g.forceLookup
         /\ [g EXCEPT !.forceLookup = FALSE].triggered = g.triggered
         /\ Trips(p, g, now) => registerGuardFailure(p, g, now).triggered
         /\ Trips(p, g, now) /\ p.Action = "ForceLookup"
              => registerGuardFailure(p, g, now).forceLookup
         /\ g.triggered => registerGuardFailure(p, g, now).triggered
         /\ g.forceLookup => registerGuardFailure(p, g, now).forceLookup
<1>1. /\ resetGuard(g).triggered = g.triggered
      /\ resetGuard(g).forceLookup = g.forceLookup
      /\ consumeGuardTrigger(g).forceLookup = g.forceLookup
      /\ [g EXCEPT !.forceLookup = FALSE].triggered = g.triggered
  BY DEF resetGuard, consumeGuardTrigger, GuardRailState
<1>2. CASE Trips(p, g, now)
  BY <1>1, <1>2 DEF registerGuardFailure, Trips
<1>3. CASE ~Trips(p, g, now)
  BY <1>1, <1>3 DEF registerGuardFailure, GuardRailState
<1> QED
  BY <1>2, <1>3
============================================================================

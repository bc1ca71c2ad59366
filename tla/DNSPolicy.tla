---------------------------- MODULE DNSPolicy ----------------------------
(***************************************************************************)
(* The pure part of wadjit's DNS policy: the policy record, its           *)
(* validation, TTL clamping, and the guard-rail bookkeeping as functions  *)
(* from one guard state to the next (dns_policy.go and the guard-rail     *)
(* functions of dns_policy_manager.go).                                   *)
(*                                                                        *)
(* Durations are integers and points in time are naturals; ZeroTime is    *)
(* Go's zero time.Time, which no reading of the clock ever returns.       *)
(***************************************************************************)
EXTENDS Integers

ZeroTime == 0

DNSRefreshMode == {"Default", "Static", "SingleLookup", "TTL", "Cadence"}

DNSGuardRailAction == {"None", "Flush", "ForceLookup"}

(* The policy fields that decide anything.  StaticAddr is abstracted to   *)
(* whether it is set, and the guard-rail sub-record is inlined.           *)
DNSPolicyType ==
  [ Mode            : DNSRefreshMode,
    StaticAddr      : BOOLEAN,
    Cadence         : Int,
    TTLMin          : Int,
    TTLMax          : Int,
    DisableFallback : BOOLEAN,
    Threshold       : Int,
    Window          : Int,
    Action          : DNSGuardRailAction ]

Enabled(p) == p.Threshold > 0 /\ p.Action # "None"

fallbackEnabled(p) == ~p.DisableFallback

Validate(p) ==
  \/ p.Mode \in {"Default", "SingleLookup"}
  \/ p.Mode = "Static"  /\ p.StaticAddr
  \/ p.Mode = "TTL"     /\ ~(p.TTLMax > 0 /\ p.TTLMin > p.TTLMax)
  \/ p.Mode = "Cadence" /\ p.Cadence > 0

normalizeTTL(p, ttl) ==
  IF ttl <= 0 THEN p.TTLMin
  ELSE IF p.TTLMin > 0 /\ ttl < p.TTLMin THEN p.TTLMin
  ELSE IF p.TTLMax > 0 /\ ttl > p.TTLMax THEN p.TTLMax
  ELSE ttl

(* How long after `now` a successful lookup may be served from the cache: *)
(* resolveTTL stores now when the clamped TTL is not positive,            *)
(* resolveCadence adds the cadence.                                       *)
Lifetime(p, ttl) ==
  IF p.Mode = "Cadence" THEN p.Cadence
  ELSE IF normalizeTTL(p, ttl) <= 0 THEN 0 ELSE normalizeTTL(p, ttl)

----------------------------------------------------------------------------
(* Guard rails.  forceLookup is a field of the manager in the code; it is *)
(* kept beside the counters because the same locked sections write it.    *)
(* lastFailure is written and never read, so it is left out.              *)

GuardRailState ==
  [ count        : Nat,
    firstFailure : Nat,
    triggered    : BOOLEAN,
    forceLookup  : BOOLEAN ]

NewGuard ==
  [count |-> 0, firstFailure |-> ZeroTime, triggered |-> FALSE, forceLookup |-> FALSE]

(* A failure opens a new counting window: there is none yet, or Window is *)
(* set and the one in progress began more than Window ago.                *)
OpensWindow(p, g, now) ==
  \/ g.firstFailure = ZeroTime
  \/ p.Window > 0 /\ now - g.firstFailure > p.Window

(* Mutant: an expired window does not restart the count.                  *)
CountAfter_NoRestart(p, g, now) == g.count + 1

(* Mutant: the count runs backwards.                                      *)
CountAfter_Down(p, g, now) == g.count - 1

(* guard.count after the failure.  Without a Window the count is never    *)
(* restarted here.                                                        *)
CountAfter(p, g, now) ==
  IF p.Window > 0 /\ OpensWindow(p, g, now) THEN 1 ELSE g.count + 1

(* Mutant: off by one.                                                    *)
Trips_Early(p, g, now) == Enabled(p) /\ CountAfter(p, g, now) >= p.Threshold - 1

(* This failure reaches the threshold.                                    *)
Trips(p, g, now) == Enabled(p) /\ CountAfter(p, g, now) >= p.Threshold

registerGuardFailure(p, g, now) ==
  IF ~Enabled(p) THEN g
  ELSE IF Trips(p, g, now)
  THEN [ count        |-> 0,
         firstFailure |-> ZeroTime,
         triggered    |-> TRUE,
         forceLookup  |-> g.forceLookup \/ p.Action = "ForceLookup" ]
  ELSE [ g EXCEPT !.count        = CountAfter(p, g, now),
                  !.firstFailure = IF OpensWindow(p, g, now) THEN now ELSE @ ]

(* Mutant: a success forgets that the guard has tripped.                  *)
resetGuard_Untriggers(g) ==
  [g EXCEPT !.count = 0, !.firstFailure = ZeroTime, !.triggered = FALSE]

(* Mutant: a success leaves the count.                                    *)
resetGuard_KeepsCount(g) == [g EXCEPT !.firstFailure = ZeroTime]

resetGuard(g) == [g EXCEPT !.count = 0, !.firstFailure = ZeroTime]

(* consumeGuardTrigger: the flag is cleared; whether the request is to    *)
(* act on it is GuardActs of the state before.                            *)
consumeGuardTrigger(g) == [g EXCEPT !.triggered = FALSE]
GuardActs(p, g) == g.triggered /\ p.Action # "None"
============================================================================

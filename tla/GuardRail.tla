---------------------------- MODULE GuardRail ----------------------------
(***************************************************************************)
(* The guard rail of one endpoint under concurrent requests: the locked   *)
(* sections of dns_policy_manager.go that touch guardRailState and        *)
(* forceLookup, called from any number of goroutines.                     *)
(*                                                                        *)
(* observeResult reads the clock before registerGuardFailure takes the    *)
(* lock, so a failure can be registered with a time older than the one    *)
(* that opened the counting window.                                       *)
(***************************************************************************)
EXTENDS DNSPolicy, Sequences

CONSTANTS
  Observers,   \* goroutines that report a request's outcome
  Policies,    \* the guard-rail configurations considered
  MaxTime      \* bound on the clock

ASSUME PoliciesAssumption == Policies \subseteq DNSPolicyType
ASSUME TimeAssumption == MaxTime \in Nat \ {0}

VARIABLES
  policy,    \* guard.policy: set by newDNSPolicyManager, then constant
  clock,     \* time.Now()
  guard,     \* guardRailState and forceLookup
  pending,   \* per observer: outcome observed, lock not yet taken
  streak     \* history: the failures registered since the last success or
             \* trip, in the order of registration, each with the goroutine
             \* that reported it and the time it was registered with

vars == <<policy, clock, guard, pending, streak>>

(* An observation: outcome says what was seen and is "none" when no       *)
(* observation is in progress, now is the clock reading it carries.       *)
Observation == [outcome : {"none", "failed", "ok"}, now : 0..MaxTime]
Idle == [outcome |-> "none", now |-> 0]

Failure == [by : Observers, at : 1..MaxTime]

TypeOK ==
  /\ policy \in Policies
  /\ clock \in 1..MaxTime
  /\ guard \in GuardRailState
  /\ pending \in [Observers -> Observation]
  /\ streak \in Seq(Failure)

Init ==
  /\ policy \in Policies
  /\ clock = 1
  /\ guard = NewGuard
  /\ pending = [o \in Observers |-> Idle]
  /\ streak = << >>

Tick ==
  /\ clock < MaxTime
  /\ clock' = clock + 1
  /\ UNCHANGED <<policy, guard, pending, streak>>

(* observeResult up to the lock: nothing happens for a disabled policy.   *)
observeResult(o, outcome) ==
  /\ Enabled(policy)
  /\ pending[o] = Idle
  /\ pending' = [pending EXCEPT ![o] = [outcome |-> outcome, now |-> clock]]
  /\ UNCHANGED <<policy, clock, guard, streak>>

RegisterFailure(o) ==
  /\ pending[o].outcome = "failed"
  /\ guard' = registerGuardFailure(policy, guard, pending[o].now)
  /\ streak' = IF Trips(policy, guard, pending[o].now) THEN << >>
               ELSE Append(streak, [by |-> o, at |-> pending[o].now])
  /\ pending' = [pending EXCEPT ![o] = Idle]
  /\ UNCHANGED <<policy, clock>>

RegisterSuccess(o) ==
  /\ pending[o].outcome = "ok"
  /\ guard' = resetGuard(guard)
  /\ streak' = << >>
  /\ pending' = [pending EXCEPT ![o] = Idle]
  /\ UNCHANGED <<policy, clock>>

(* A request being prepared consumes the trigger.                         *)
Consume ==
  /\ guard.triggered
  /\ guard' = consumeGuardTrigger(guard)
  /\ UNCHANGED <<policy, clock, pending, streak>>

(* The locked prologue of resolveTTL and resolveCadence: forceLookup is   *)
(* read and cleared.                                                      *)
TakeForceLookup ==
  /\ policy.Mode \in {"TTL", "Cadence"}
  /\ guard.forceLookup
  /\ guard' = [guard EXCEPT !.forceLookup = FALSE]
  /\ UNCHANGED <<policy, clock, pending, streak>>

Next ==
  \/ Tick
  \/ \E o \in Observers :
       \/ \E outcome \in {"failed", "ok"} : observeResult(o, outcome)
       \/ RegisterFailure(o)
       \/ RegisterSuccess(o)
  \/ Consume
  \/ TakeForceLookup

Spec == Init /\ [][Next]_vars

----------------------------------------------------------------------------
(* The positions of the last n elements of s.                             *)
LastN(s, n) == (Len(s) - n + 1)..Len(s)

(* Every failure the guard is still counting is one of the last           *)
(* uninterrupted failures: guard.count never exceeds the current run of   *)
(* failures and never reaches the threshold (registerGuardFailure resets  *)
(* it when it does), and without a Window it is exactly that run.         *)
CountsConsecutive ==
  /\ guard.count <= Len(streak)
  /\ Enabled(policy) => guard.count < policy.Threshold
  /\ policy.Window <= 0 => guard.count = Len(streak)

(* With a Window, the failures being counted are the one that opened it   *)
(* and those since, none of them more than Window after it (lines         *)
(* 489-493). A late registration may carry an older time, at any          *)
(* distance; how far that goes is TripsAfterThreshold's matter.           *)
CountedInWindow ==
  guard.count > 0 /\ policy.Window > 0 =>
    /\ streak[Len(streak) - guard.count + 1].at = guard.firstFailure
    /\ \A i \in LastN(streak, guard.count) :
         streak[i].at - guard.firstFailure <= policy.Window

(* run[i] lies in the window that run[first] opened.                      *)
InWindow(run, first, i) == run[i].at - run[first].at \in 0..policy.Window

(* run[i] is older than the failure that opened the window and is the     *)
(* first its goroutine reports since: it read the clock before run[first] *)
(* did and took the lock after it.                                        *)
Overtaken(run, first, i) ==
  /\ run[i].at < run[first].at
  /\ \A j \in first..(i - 1) : run[j].by # run[i].by

(* The trigger is raised only by the failure that completes Threshold     *)
(* consecutive failures since the last success or trip. With a Window,    *)
(* each of those failures lies within Window after the first, or carries  *)
(* a time older than the first, at any distance: now.Sub(firstFailure) is *)
(* then negative and line 490 does not restart the window. So the         *)
(* failures of a trip may be further apart than Window, but a goroutine   *)
(* contributes at most one older failure to a trip, the one it had read   *)
(* the clock for when the first was registered.                           *)
TripsAfterThreshold ==
  [][ guard'.triggered /\ ~guard.triggered =>
        \E o \in Observers :
          LET run   == Append(streak, [by |-> o, at |-> pending[o].now])
              first == Len(run) - policy.Threshold + 1
          IN  /\ pending[o].outcome = "failed"
              /\ pending' = [pending EXCEPT ![o] = Idle]
              /\ first >= 1
              /\ policy.Window > 0 =>
                   \A i \in LastN(run, policy.Threshold) :
                     InWindow(run, first, i) \/ Overtaken(run, first, i) ]_vars
============================================================================

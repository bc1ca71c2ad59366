------------------------- MODULE GuardRailProofs -------------------------
(***************************************************************************)
(* The guard rail's invariants and the property of its trips, for any     *)
(* number of goroutines, any policies and any bound on the clock.         *)
(***************************************************************************)
EXTENDS GuardRail, DNSPolicyTheorems, SequenceTheorems, TLAPS

(* An observation in progress was begun under an enabled policy and       *)
(* carries a reading of the clock.                                        *)
PendingOK ==
  \A o \in Observers :
    pending[o].outcome # "none" => Enabled(policy) /\ pending[o].now \in 1..clock

(* No failure is counted outside a counting window.                       *)
WindowOpen == guard.count = 0 => guard.firstFailure = ZeroTime

(* Where the failures being counted begin in the streak.                  *)
First == Len(streak) - guard.count + 1

(* A goroutine that has a failure in the count and observes again read    *)
(* the clock after the window was opened.                                 *)
ReadSince ==
  guard.count > 0 /\ policy.Window > 0 =>
    /\ guard.firstFailure <= clock
    /\ \A i \in LastN(streak, guard.count) :
         pending[streak[i].by].outcome # "none" =>
           guard.firstFailure <= pending[streak[i].by].now

(* A counted failure with a time before the window is the first of its    *)
(* goroutine in the count.                                                *)
OldAreOvertaken ==
  guard.count > 0 /\ policy.Window > 0 =>
    \A i \in LastN(streak, guard.count) :
      InWindow(streak, First, i) \/ Overtaken(streak, First, i)

(* The counting invariants are inductive together with these: without     *)
(* PendingOK a disabled policy could register failures, without           *)
(* WindowOpen the failure at which the count starts need not be the one   *)
(* that opened the window, and without ReadSince a goroutine could        *)
(* register an old time twice.                                            *)
IInv ==
  /\ TypeOK /\ PendingOK /\ WindowOpen
  /\ CountsConsecutive /\ CountedInWindow
  /\ ReadSince /\ OldAreOvertaken

(* The last element of an extended sequence, and the others.              *)
LEMMA AppendAt ==
  ASSUME NEW S, NEW s \in Seq(S), NEW e \in S
  PROVE  /\ Append(s, e) \in Seq(S)
         /\ Len(Append(s, e)) = Len(s) + 1
         /\ \A i \in 1..Len(s) : Append(s, e)[i] = s[i]
         /\ Append(s, e)[Len(s) + 1] = e
BY AppendProperties

(* The invariant holds of a new manager.                                  *)
LEMMA InitIInv == Init => IInv
<1> SUFFICES ASSUME Init PROVE IInv
  OBVIOUS
<1>1. TypeOK
  BY TimeAssumption, EmptySeq DEF Init, TypeOK, NewGuard, GuardRailState, ZeroTime, Idle, Observation
<1>2. PendingOK /\ WindowOpen
  BY DEF Init, PendingOK, WindowOpen, NewGuard, Idle
<1>3. CountsConsecutive
  BY EmptySeq, PoliciesAssumption DEF Init, CountsConsecutive, NewGuard, Enabled, DNSPolicyType
<1>4. CountedInWindow /\ ReadSince /\ OldAreOvertaken
  BY DEF Init, CountedInWindow, ReadSince, OldAreOvertaken, NewGuard
<1> QED
  BY <1>1, <1>2, <1>3, <1>4 DEF IInv

(* A failure under way: what the invariant says of it and of the state it *)
(* meets.                                                                 *)
LEMMA FailurePending ==
  ASSUME IInv, NEW o \in Observers, pending[o].outcome = "failed"
  PROVE  /\ Enabled(policy) /\ policy \in DNSPolicyType
         /\ policy.Window \in Int /\ policy.Threshold \in Int /\ policy.Threshold > 0
         /\ pending[o].now \in 1..MaxTime /\ pending[o].now \in Nat
         /\ clock \in Nat /\ pending[o].now <= clock
         /\ guard \in GuardRailState /\ guard.count \in Nat /\ guard.firstFailure \in Nat
         /\ streak \in Seq(Failure) /\ Len(streak) \in Nat /\ guard.count <= Len(streak)
         /\ [by |-> o, at |-> pending[o].now] \in Failure
         /\ \A i \in 1..Len(streak) : streak[i].by \in Observers /\ streak[i].at \in Nat
<1>1. /\ Enabled(policy) /\ policy \in DNSPolicyType /\ guard \in GuardRailState
      /\ clock \in 1..MaxTime /\ pending[o].now \in 1..clock
      /\ streak \in Seq(Failure) /\ guard.count <= Len(streak)
  BY PoliciesAssumption DEF IInv, TypeOK, PendingOK, CountsConsecutive
<1>2. /\ clock \in Nat /\ pending[o].now \in Nat /\ pending[o].now <= clock
      /\ pending[o].now \in 1..MaxTime
  BY <1>1, TimeAssumption
<1>3. [by |-> o, at |-> pending[o].now] \in Failure
  BY <1>2 DEF Failure
<1>4. /\ policy.Window \in Int /\ policy.Threshold \in Int /\ policy.Threshold > 0
      /\ guard.count \in Nat /\ guard.firstFailure \in Nat
  BY <1>1 DEF DNSPolicyType, Enabled, GuardRailState
<1>5. Len(streak) \in Nat /\ \A i \in 1..Len(streak) : streak[i] \in Failure
  BY <1>1, LenProperties, ElementOfSeq
<1>6. \A i \in 1..Len(streak) : streak[i].by \in Observers /\ streak[i].at \in Nat
  BY <1>5, TimeAssumption DEF Failure
<1> QED
  BY <1>1, <1>2, <1>3, <1>4, <1>5, <1>6

(* The failures counted once one more is registered: they begin with the  *)
(* one that opened the window, and each is in the window or overtaken.    *)
LEMMA CountedRun ==
  ASSUME IInv, NEW o \in Observers, pending[o].outcome = "failed", policy.Window > 0
  PROVE  LET now    == pending[o].now
             run    == Append(streak, [by |-> o, at |-> now])
             c      == CountAfter(policy, guard, now)
             first  == Len(run) - c + 1
             opened == IF OpensWindow(policy, guard, now) THEN now ELSE guard.firstFailure
         IN  /\ run[first].at = opened
             /\ \A i \in LastN(run, c) :
                  /\ run[i].at - opened <= policy.Window
                  /\ InWindow(run, first, i) \/ Overtaken(run, first, i)
<1> DEFINE now    == pending[o].now
           f      == [by |-> o, at |-> now]
           run    == Append(streak, f)
           c      == CountAfter(policy, guard, now)
           first  == Len(run) - c + 1
           opened == IF OpensWindow(policy, guard, now) THEN now ELSE guard.firstFailure
<1> USE DEF IInv
<1>1. /\ policy.Window \in Int /\ now \in Nat
      /\ guard.count \in Nat /\ guard.firstFailure \in Nat
      /\ streak \in Seq(Failure) /\ f \in Failure
      /\ Len(streak) \in Nat /\ guard.count <= Len(streak)
      /\ \A i \in 1..Len(streak) : streak[i].by \in Observers /\ streak[i].at \in Nat
  BY FailurePending
<1>2. /\ Len(run) = Len(streak) + 1
      /\ \A i \in 1..Len(streak) : run[i] = streak[i]
      /\ run[Len(streak) + 1] = f
  BY <1>1, AppendAt
<1>3. f.at = now /\ f.by = o
  OBVIOUS
<1>4. CASE OpensWindow(policy, guard, now)
  <2>1. c = 1 /\ first = Len(streak) + 1 /\ opened = now
    BY <1>1, <1>2, <1>4 DEF CountAfter
  <2>2. \A i \in LastN(run, c) : i = Len(streak) + 1
    BY <1>1, <1>2, <2>1 DEF LastN
  <2>3. now - now = 0 /\ 0 <= policy.Window /\ 0 \in 0..policy.Window
    BY <1>1
  <2> HIDE DEF c, first, opened, run, f
  <2>4. run[first].at = now /\ opened = now
    BY <1>2, <1>3, <2>1
  <2>5. \A i \in LastN(run, c) : i = first
    BY <2>1, <2>2
  <2>6. run[first].at - opened <= policy.Window /\ InWindow(run, first, first)
    BY <2>3, <2>4 DEF InWindow
  <2> QED
    BY <2>4, <2>5, <2>6 DEF c, first, opened, run, f
<1>5. CASE ~OpensWindow(policy, guard, now)
  <2>1. /\ c = guard.count + 1 /\ opened = guard.firstFailure
        /\ now - guard.firstFailure <= policy.Window
    BY <1>1, <1>5 DEF CountAfter, OpensWindow
  <2>2. guard.count > 0
    BY <1>1, <1>5 DEF WindowOpen, OpensWindow
  <2>3. first = First /\ first \in 1..Len(streak)
    <3>1. c = guard.count + 1 /\ Len(run) = Len(streak) + 1
      BY <1>2, <2>1
    <3> HIDE DEF c, run
    <3>2. first = Len(streak) - guard.count + 1
      BY <1>1, <3>1
    <3> QED
      BY <1>1, <2>2, <3>2 DEF First
  <2>4. /\ streak[first].at = guard.firstFailure
        /\ \A i \in LastN(streak, guard.count) :
             streak[i].at - guard.firstFailure <= policy.Window
    BY <2>2, <2>3 DEF CountedInWindow, First
  <2>5. \A i \in LastN(streak, guard.count) :
          InWindow(streak, first, i) \/ Overtaken(streak, first, i)
    BY <2>2, <2>3 DEF OldAreOvertaken
  <2>6. \A i \in LastN(streak, guard.count) :
          pending[streak[i].by].outcome # "none" =>
            guard.firstFailure <= pending[streak[i].by].now
    BY <2>2 DEF ReadSince
  <2>7. \A i \in LastN(run, c) :
          i = Len(streak) + 1 \/ (i \in LastN(streak, guard.count) /\ i \in 1..Len(streak))
    BY <1>1, <1>2, <2>1 DEF LastN
  <2>8. first..Len(streak) = LastN(streak, guard.count) /\ first..Len(streak) \subseteq 1..Len(streak)
    BY <1>1, <2>3 DEF LastN, First
  <2> HIDE DEF c, first, opened, run, f
  <2>9. run[first].at = guard.firstFailure
    BY <1>2, <2>3, <2>4
  <2>10. ASSUME NEW i \in LastN(run, c)
         PROVE  /\ run[i].at - opened <= policy.Window
                /\ InWindow(run, first, i) \/ Overtaken(run, first, i)
    <3>1. CASE i = Len(streak) + 1
      <4>1. run[i].at = now /\ run[i].by = o
        BY <1>2, <1>3, <3>1
      <4>2. CASE now >= guard.firstFailure
        <5>1. now - guard.firstFailure \in 0..policy.Window
          BY <1>1, <2>1, <4>2
        <5> QED
          BY <1>1, <2>1, <2>9, <4>1, <5>1 DEF InWindow
      <4>3. CASE now < guard.firstFailure
        <5>1. ASSUME NEW j \in first..(i - 1) PROVE run[j].by # run[i].by
          <6>1. j \in LastN(streak, guard.count) /\ j \in 1..Len(streak)
            BY <1>1, <2>3, <2>8, <3>1
          <6>2. run[j] = streak[j]
            BY <1>2, <6>1
          <6>3. pending[streak[j].by].outcome # "none" =>
                  guard.firstFailure <= pending[streak[j].by].now
            BY <2>6, <6>1
          <6> QED
            BY <1>1, <4>1, <4>3, <6>2, <6>3
        <5> QED
          BY <1>1, <2>1, <2>9, <4>1, <4>3, <5>1 DEF Overtaken
      <4> QED
        BY <1>1, <4>2, <4>3
    <3>2. CASE i \in LastN(streak, guard.count) /\ i \in 1..Len(streak)
      <4>1. run[i] = streak[i] /\ run[first] = streak[first]
        BY <1>2, <2>3, <3>2
      <4>2. \A j \in first..(i - 1) : run[j] = streak[j]
        BY <1>1, <1>2, <2>3, <3>2
      <4>3. run[i].at - opened <= policy.Window
        BY <2>1, <2>4, <3>2, <4>1
      <4>4. InWindow(streak, first, i) => InWindow(run, first, i)
        BY <4>1 DEF InWindow
      <4>5. Overtaken(streak, first, i) => Overtaken(run, first, i)
        BY <4>1, <4>2 DEF Overtaken
      <4> QED
        BY <2>5, <3>2, <4>3, <4>4, <4>5
    <3> QED
      BY <2>7, <3>1, <3>2
  <2> QED
    BY <2>1, <2>9, <2>10 DEF c, first, opened, run, f
<1> QED
  BY <1>4, <1>5

(* The heart of the matter: registering one failure.                      *)
LEMMA FailureStep ==
  ASSUME IInv, NEW o \in Observers, RegisterFailure(o)
  PROVE  IInv'
<1> DEFINE now == pending[o].now
           f   == [by |-> o, at |-> now]
<1> USE DEF IInv
<1>1. /\ Enabled(policy) /\ policy \in DNSPolicyType /\ policy' = policy /\ clock' = clock
      /\ policy.Window \in Int /\ policy.Threshold \in Int /\ policy.Threshold > 0
      /\ now \in Nat /\ clock \in Nat /\ now <= clock
      /\ guard \in GuardRailState /\ guard.count \in Nat /\ guard.firstFailure \in Nat
      /\ streak \in Seq(Failure) /\ Len(streak) \in Nat /\ guard.count <= Len(streak)
      /\ f \in Failure /\ \A i \in 1..Len(streak) : streak[i].by \in Observers
  BY FailurePending DEF RegisterFailure
<1>2. PendingOK'
  BY DEF RegisterFailure, PendingOK, TypeOK, Idle
<1>3. TypeOK'
  <2>1. guard' \in GuardRailState
    <3>1. registerGuardFailure(policy, guard, now) \in GuardRailState
      BY <1>1, CountStep
    <3> QED
      BY <3>1 DEF RegisterFailure
  <2>2. streak' \in Seq(Failure)
    BY <1>1, AppendAt, EmptySeq DEF RegisterFailure
  <2>3. pending' \in [Observers -> Observation]
    BY TimeAssumption DEF RegisterFailure, TypeOK, Observation, Idle
  <2> QED
    BY <2>1, <2>2, <2>3 DEF RegisterFailure, TypeOK
<1>4. CASE Trips(policy, guard, now)
  <2>1. guard'.count = 0 /\ guard'.firstFailure = ZeroTime /\ streak' = << >>
    BY <1>1, <1>4 DEF RegisterFailure, registerGuardFailure
  <2>2. Len(streak') = 0
    BY <2>1, EmptySeq
  <2> QED
    BY <1>1, <1>2, <1>3, <2>1, <2>2
    DEF WindowOpen, CountsConsecutive, CountedInWindow, ReadSince, OldAreOvertaken, Enabled, DNSPolicyType
<1>5. CASE ~Trips(policy, guard, now)
  <2> DEFINE c == CountAfter(policy, guard, now)
             opened == IF OpensWindow(policy, guard, now) THEN now ELSE guard.firstFailure
  <2>1. guard'.count = c /\ guard'.firstFailure = opened /\ streak' = Append(streak, f)
    BY <1>1, <1>5 DEF RegisterFailure, registerGuardFailure, GuardRailState
  <2>2. /\ Len(streak') = Len(streak) + 1
        /\ \A i \in 1..Len(streak) : streak'[i] = streak[i]
        /\ streak'[Len(streak) + 1] = f
    BY <1>1, <2>1, AppendAt
  <2>3. c \in Nat /\ c \in {1, guard.count + 1} /\ c < policy.Threshold
    <3>1. c \in Nat /\ c \in {1, guard.count + 1}
      BY <1>1, CountStep
    <3> QED
      BY <1>1, <1>5, <3>1 DEF Trips
  <2>4. WindowOpen'
    BY <1>1, <2>1, <2>3 DEF WindowOpen
  <2>5. CountsConsecutive'
    BY <1>1, <2>1, <2>2, <2>3 DEF CountsConsecutive, CountAfter, DNSPolicyType
  <2>6. CountedInWindow' /\ OldAreOvertaken'
    <3> SUFFICES ASSUME policy.Window > 0 PROVE CountedInWindow' /\ OldAreOvertaken'
      BY <1>1 DEF CountedInWindow, OldAreOvertaken
    <3>1. LET first == Len(streak') - c + 1
          IN  /\ streak'[first].at = opened
              /\ \A i \in LastN(streak', c) :
                   /\ streak'[i].at - opened <= policy.Window
                   /\ InWindow(streak', first, i) \/ Overtaken(streak', first, i)
      BY <2>1, CountedRun DEF RegisterFailure
    <3> HIDE DEF c, opened
    <3>2. CountedInWindow'
      BY <1>1, <2>1, <3>1 DEF CountedInWindow
    <3>3. OldAreOvertaken'
      BY <1>1, <2>1, <3>1 DEF OldAreOvertaken, First, InWindow
    <3> QED
      BY <3>2, <3>3
  <2>7. ReadSince'
    <3> SUFFICES ASSUME policy.Window > 0, NEW i \in LastN(streak', c),
                        pending'[streak'[i].by].outcome # "none"
                 PROVE  opened <= pending'[streak'[i].by].now
      <4>1. policy.Window > 0 => opened <= clock
        BY <1>1 DEF ReadSince, WindowOpen, OpensWindow
      <4> HIDE DEF c, opened
      <4> QED
        BY <1>1, <2>1, <4>1 DEF ReadSince
    <3>1. pending'[o].outcome = "none"
      BY DEF RegisterFailure, TypeOK, Idle
    <3>2. i # Len(streak) + 1
      BY <2>2, <3>1
    <3>3. ~OpensWindow(policy, guard, now)
      BY <1>1, <2>2, <3>2 DEF CountAfter, LastN
    <3>4. c = guard.count + 1 /\ opened = guard.firstFailure
      BY <1>1, <3>3 DEF CountAfter
    <3>5. i \in LastN(streak, guard.count) /\ i \in 1..Len(streak) /\ guard.count > 0
      BY <1>1, <2>2, <3>2, <3>4 DEF LastN
    <3>6. streak'[i] = streak[i] /\ streak[i].by \in Observers /\ streak[i].by # o
      BY <1>1, <2>2, <3>1, <3>5
    <3>7. pending'[streak[i].by] = pending[streak[i].by]
      BY <3>6 DEF RegisterFailure, TypeOK
    <3> QED
      BY <3>4, <3>5, <3>6, <3>7 DEF ReadSince
  <2> QED
    BY <1>2, <1>3, <2>4, <2>5, <2>6, <2>7
<1> QED
  BY <1>4, <1>5

(* Every step preserves the invariant.                                    *)
LEMMA NextIInv == IInv /\ [Next]_vars => IInv'
<1> SUFFICES ASSUME IInv, [Next]_vars PROVE IInv'
  OBVIOUS
<1> USE DEF IInv
<1>1. /\ policy \in DNSPolicyType /\ guard \in GuardRailState
      /\ streak \in Seq(Failure) /\ pending \in [Observers -> Observation]
      /\ clock \in Nat /\ clock \in 1..MaxTime /\ guard.count \in Nat /\ guard.firstFailure \in Nat
      /\ Len(streak) \in Nat /\ guard.count <= Len(streak)
  BY PoliciesAssumption, TimeAssumption, LenProperties
  DEF TypeOK, CountsConsecutive, GuardRailState
<1>2. \A i \in LastN(streak, guard.count) : streak[i].by \in Observers
  <2>1. \A i \in LastN(streak, guard.count) : i \in 1..Len(streak)
    BY <1>1 DEF LastN
  <2>2. \A i \in 1..Len(streak) : streak[i] \in Failure
    BY <1>1, ElementOfSeq
  <2> QED
    BY <2>1, <2>2 DEF Failure
<1>3. CASE Tick
  <2>1. UNCHANGED <<policy, guard, pending, streak>> /\ clock' = clock + 1 /\ clock' \in 1..MaxTime
    BY <1>1, <1>3, TimeAssumption DEF Tick
  <2>2. TypeOK' /\ WindowOpen' /\ CountsConsecutive' /\ CountedInWindow' /\ OldAreOvertaken'
    BY <2>1 DEF TypeOK, WindowOpen, CountsConsecutive, CountedInWindow, OldAreOvertaken, First, InWindow
  <2>3. PendingOK'
    BY <1>1, <2>1 DEF PendingOK
  <2>4. ReadSince'
    BY <1>1, <2>1 DEF ReadSince
  <2> QED
    BY <2>2, <2>3, <2>4
<1>4. ASSUME NEW o \in Observers, NEW outcome \in {"failed", "ok"},
             observeResult(o, outcome)
      PROVE  IInv'
  <2>1. UNCHANGED <<policy, clock, guard, streak>>
    BY <1>4 DEF observeResult
  <2>2. pending' \in [Observers -> Observation]
    BY <1>1, <1>4, TimeAssumption DEF observeResult, Observation
  <2>3. PendingOK'
    BY <1>1, <1>4 DEF observeResult, PendingOK
  <2>4. ReadSince'
    <3> SUFFICES ASSUME guard.count > 0, policy.Window > 0,
                        NEW i \in LastN(streak, guard.count),
                        pending'[streak[i].by].outcome # "none"
                 PROVE  guard.firstFailure <= pending'[streak[i].by].now
      BY <2>1 DEF ReadSince
    <3>1. CASE streak[i].by = o
      BY <1>1, <1>4, <3>1 DEF observeResult, ReadSince
    <3>2. CASE streak[i].by # o
      BY <1>1, <1>2, <1>4, <3>2 DEF observeResult, ReadSince
    <3> QED
      BY <3>1, <3>2
  <2>5. TypeOK' /\ WindowOpen' /\ CountsConsecutive' /\ CountedInWindow' /\ OldAreOvertaken'
    BY <2>1, <2>2 DEF TypeOK, WindowOpen, CountsConsecutive, CountedInWindow, OldAreOvertaken, First, InWindow
  <2> QED
    BY <2>3, <2>4, <2>5
<1>5. ASSUME NEW o \in Observers, RegisterFailure(o)
      PROVE  IInv'
  BY <1>5, FailureStep
<1>6. ASSUME NEW o \in Observers, RegisterSuccess(o)
      PROVE  IInv'
  <2>1. /\ guard' \in GuardRailState
        /\ guard'.count = 0 /\ guard'.firstFailure = ZeroTime
    BY <1>1, <1>6 DEF RegisterSuccess, resetGuard, GuardRailState, ZeroTime
  <2>2. streak' = << >> /\ streak' \in Seq(Failure) /\ Len(streak') = 0
    BY <1>6, EmptySeq DEF RegisterSuccess
  <2>3. pending' \in [Observers -> Observation] /\ PendingOK'
    BY <1>1, <1>6, TimeAssumption DEF RegisterSuccess, Observation, Idle, PendingOK
  <2>4. TypeOK'
    BY <1>6, <2>1, <2>2, <2>3 DEF RegisterSuccess, TypeOK
  <2> QED
    BY <1>1, <1>6, <2>1, <2>2, <2>3, <2>4
    DEF RegisterSuccess, WindowOpen, CountsConsecutive, CountedInWindow, ReadSince, OldAreOvertaken,
        Enabled, DNSPolicyType
<1>7. CASE Consume \/ TakeForceLookup
  <2>1. /\ guard' \in GuardRailState
        /\ guard'.count = guard.count /\ guard'.firstFailure = guard.firstFailure
        /\ UNCHANGED <<policy, clock, pending, streak>>
    BY <1>1, <1>7 DEF Consume, TakeForceLookup, consumeGuardTrigger, GuardRailState
  <2> QED
    BY <2>1 DEF TypeOK, PendingOK, WindowOpen, CountsConsecutive, CountedInWindow, ReadSince,
                OldAreOvertaken, First, InWindow
<1>8. CASE UNCHANGED vars
  BY <1>8 DEF vars, TypeOK, PendingOK, WindowOpen, CountsConsecutive, CountedInWindow, ReadSince,
              OldAreOvertaken, First, InWindow
<1> QED
  BY <1>3, <1>4, <1>5, <1>6, <1>7, <1>8 DEF Next

(* The inductive invariant holds of every behaviour of the guard rail.    *)
THEOREM Inductive == Spec => []IInv
BY InitIInv, NextIInv, PTL DEF Spec

(* Every reachable guard state is well formed; in particular the count    *)
(* never runs below zero, whatever the interleaving of observeResult,     *)
(* resetGuard and consumeGuardTrigger.                                    *)
THEOREM TypeCorrect == Spec => []TypeOK
<1>1. IInv => TypeOK
  BY DEF IInv
<1> QED
  BY <1>1, Inductive, PTL

(* registerGuardFailure counts nothing but uninterrupted failures.        *)
THEOREM CountsOnlyConsecutive == Spec => []CountsConsecutive
<1>1. IInv => CountsConsecutive
  BY DEF IInv
<1> QED
  BY <1>1, Inductive, PTL

(* Nothing it counts is more than Window after the failure that opened it. *)
THEOREM CountsWithinWindow == Spec => []CountedInWindow
<1>1. IInv => CountedInWindow
  BY DEF IInv
<1> QED
  BY <1>1, Inductive, PTL

----------------------------------------------------------------------------
(* One step can raise the trigger only by registering the failure that    *)
(* reaches the threshold.                                                 *)
LEMMA OnlyFailuresTrip ==
  ASSUME IInv, [Next]_vars, guard'.triggered, ~guard.triggered
  PROVE  \E o \in Observers : RegisterFailure(o) /\ Trips(policy, guard, pending[o].now)
<1>1. guard \in GuardRailState
  BY DEF IInv, TypeOK
<1>2. \E o \in Observers : RegisterFailure(o)
  <2>1. ASSUME NEW o \in Observers, RegisterSuccess(o) PROVE FALSE
    BY <1>1, <2>1 DEF RegisterSuccess, resetGuard, GuardRailState
  <2>2. ~Consume /\ ~TakeForceLookup
    BY <1>1 DEF Consume, TakeForceLookup, consumeGuardTrigger, GuardRailState
  <2>3. ~Tick /\ ~UNCHANGED vars
    BY DEF Tick, vars
  <2>4. ASSUME NEW o \in Observers, NEW outcome \in {"failed", "ok"},
               observeResult(o, outcome)
        PROVE  FALSE
    BY <2>4 DEF observeResult
  <2> QED
    BY <2>1, <2>2, <2>3, <2>4 DEF Next
<1>3. PICK o \in Observers : RegisterFailure(o)
  BY <1>2
<1>4. Trips(policy, guard, pending[o].now)
  BY <1>1, <1>3 DEF RegisterFailure, registerGuardFailure, GuardRailState
<1> QED
  BY <1>3, <1>4

(* What is known of the run of failures when one more reaches the         *)
(* threshold.                                                             *)
LEMMA RunAtTrip ==
  ASSUME IInv, NEW o \in Observers, pending[o].outcome = "failed",
         Trips(policy, guard, pending[o].now)
  PROVE  LET run   == Append(streak, [by |-> o, at |-> pending[o].now])
             first == Len(run) - policy.Threshold + 1
         IN  /\ first >= 1
             /\ policy.Window > 0 =>
                  \A i \in LastN(run, policy.Threshold) :
                    InWindow(run, first, i) \/ Overtaken(run, first, i)
<1> DEFINE now == pending[o].now
           run == Append(streak, [by |-> o, at |-> now])
           c   == CountAfter(policy, guard, now)
<1>1. /\ Enabled(policy) /\ policy \in DNSPolicyType /\ guard \in GuardRailState
      /\ policy.Threshold \in Int /\ now \in Nat
      /\ streak \in Seq(Failure) /\ Len(streak) \in Nat /\ guard.count \in Nat
      /\ guard.count <= Len(streak) /\ [by |-> o, at |-> now] \in Failure
  BY FailurePending
<1>2. guard.count < policy.Threshold /\ policy.Threshold > 0
  BY <1>1 DEF IInv, CountsConsecutive, Enabled
<1>3. c \in Nat /\ c \in {1, guard.count + 1} /\ c >= policy.Threshold
  BY <1>1, CountStep DEF Trips
<1>4. c = policy.Threshold
  BY <1>1, <1>2, <1>3
<1>5. Len(run) = Len(streak) + 1
  BY <1>1, AppendAt
<1>6. Len(run) - policy.Threshold + 1 >= 1
  BY <1>1, <1>3, <1>4, <1>5
<1>7. ASSUME policy.Window > 0
      PROVE  \A i \in LastN(run, c) :
               InWindow(run, Len(run) - c + 1, i) \/ Overtaken(run, Len(run) - c + 1, i)
  BY <1>7, CountedRun
<1> QED
  BY <1>4, <1>6, <1>7

(* The guard rail trips only on the failure that completes Threshold      *)
(* consecutive failures. With a Window each of them is within Window      *)
(* after the first, or older than the first and overtaken by it, which    *)
(* happens at most once per goroutine: for any number of goroutines       *)
(* whose registrations overtake each other.                               *)
THEOREM NeverTripsEarly == Spec => TripsAfterThreshold
<1>1. ASSUME IInv, [Next]_vars, guard'.triggered, ~guard.triggered
      PROVE  \E o \in Observers :
               LET run   == Append(streak, [by |-> o, at |-> pending[o].now])
                   first == Len(run) - policy.Threshold + 1
               IN  /\ pending[o].outcome = "failed"
                   /\ pending' = [pending EXCEPT ![o] = Idle]
                   /\ first >= 1
                   /\ policy.Window > 0 =>
                        \A i \in LastN(run, policy.Threshold) :
                          InWindow(run, first, i) \/ Overtaken(run, first, i)
  <2>1. PICK o \in Observers : RegisterFailure(o) /\ Trips(policy, guard, pending[o].now)
    BY <1>1, OnlyFailuresTrip
  <2>2. pending[o].outcome = "failed" /\ pending' = [pending EXCEPT ![o] = Idle]
    BY <2>1 DEF RegisterFailure
  <2> QED
    BY <1>1, <2>1, <2>2, RunAtTrip
<1> QED
  BY <1>1, Inductive, PTL DEF Spec, TripsAfterThreshold
============================================================================

------------------------ MODULE HTTPEndpointProofs ------------------------
(***************************************************************************)
(* Type correctness and the safety of the policy manager, for any number  *)
(* of concurrent executions, any hosts, any policies that validate and    *)
(* any bounds.                                                            *)
(***************************************************************************)
EXTENDS HTTPEndpoint, DNSPolicyTheorems, TLAPS

(* What holds of one execution q at time t under policy p.                *)
RequestInv(p, t, q) ==
  /\ q.pc = "wait" => q.conn \in Conn
  /\ q.pc \in {"observe", "report"} /\ q.out # "err" => q.conn \in Conn
  /\ q.pc \in {"resolve", "join", "lookup"} => q.now \in 1..t
  /\ q.pc = "store" => q.addr \in Answer /\ q.now \in 1..q.addr.at
  /\ q.pc \in {"consume", "flush", "send", "wait"} /\ p.Mode \in {"TTL", "Cadence"} =>
       q.addr \in Answer /\ q.now <= q.addr.at + Lifetime(p, q.addr.ttl)

(* A cached answer has an expiry, and not a later one than its own.       *)
CacheInv ==
  cache.ans # NoAnswer =>
    /\ policy.Mode = "TTL" =>
         /\ cache.expiresAt # ZeroTime
         /\ cache.expiresAt <= cache.ans.at + Lifetime(policy, cache.ans.ttl)
    /\ policy.Mode = "Cadence" =>
         /\ cadenceNext # ZeroTime
         /\ cadenceNext <= cache.ans.at + Lifetime(policy, cache.ans.ttl)

IInv ==
  /\ TypeOK
  /\ Validate(policy)
  /\ CacheInv
  /\ \A r \in Requests : RequestInv(policy, clock, req[r])

(* A step of one execution that leaves it in a good state leaves them all *)
(* in one.                                                                *)
LEMMA OneRequest ==
  ASSUME IInv, NEW r \in Requests, NEW v \in Request,
         RequestInv(policy, clock, v), req' = [req EXCEPT ![r] = v],
         UNCHANGED <<policy, clock>>
  PROVE  /\ req' \in [Requests -> Request]
         /\ \A q \in Requests : RequestInv(policy, clock, req[q])'
<1>1. req' \in [Requests -> Request]
  BY DEF IInv, TypeOK
<1>2. ASSUME NEW q \in Requests PROVE RequestInv(policy', clock', req'[q])
  <2>1. req'[q] = IF q = r THEN v ELSE req[q]
    BY DEF IInv, TypeOK
  <2> QED
    BY <2>1 DEF IInv
<1> QED
  BY <1>1, <1>2

(* An execution that has not begun is in a good state.                     *)
LEMMA IdleIsGood ==
  /\ IdleRequest \in Request
  /\ \A p, t : RequestInv(p, t, IdleRequest)
<1>1. IdleRequest \in Request
  BY HostAssumption, BoundAssumption
  DEF IdleRequest, Request, PC, Decision, AnswerOrNone
<1>2. \A p, t : RequestInv(p, t, IdleRequest)
  BY DEF IdleRequest, RequestInv
<1> QED
  BY <1>1, <1>2

(* The invariant holds when the manager is created.                        *)
LEMMA InitIInv == Init => IInv
<1> SUFFICES ASSUME Init PROVE IInv
  OBVIOUS
<1>1. policy \in Policies /\ Validate(policy) /\ clock \in 1..MaxTime
  BY BoundAssumption DEF Init
<1>2. cache \in dnsCacheEntry /\ cadenceNext \in Int /\ CacheInv
  BY DEF Init, dnsCacheEntry, AnswerOrNone, ZeroTime, CacheInv
<1>3. guard \in GuardRailState
  BY DEF Init, NewGuard, GuardRailState, ZeroTime
<1>4. /\ req \in [Requests -> Request]
      /\ \A r \in Requests : RequestInv(policy, clock, req[r])
  BY IdleIsGood DEF Init
<1> QED
  BY <1>1, <1>2, <1>3, <1>4 DEF Init, TypeOK, IInv, Decision

(* What every step may use of the state before it.                        *)
LEMMA Facts ==
  ASSUME IInv, NEW r \in Requests
  PROVE  /\ policy \in DNSPolicyType /\ clock \in 1..MaxTime
         /\ clock \in 0..MaxTime /\ clock \in Nat
         /\ guard \in GuardRailState /\ cache.ans \in AnswerOrNone
         /\ cache.expiresAt \in Int /\ cadenceNext \in Int
         /\ req[r] \in Request /\ req[r].now \in Nat
         /\ RequestInv(policy, clock, req[r])
BY PolicyAssumption, BoundAssumption DEF IInv, TypeOK, dnsCacheEntry, Request

(* An answer is not the absence of one, and has a moment and a TTL.       *)
LEMMA AnswerFacts ==
  ASSUME NEW a \in AnswerOrNone
  PROVE  /\ a \in Answer <=> a # NoAnswer
         /\ a \in Answer => a.at \in Nat /\ a.ttl \in Int
<1>1. NoAnswer \notin Answer
  BY HostAssumption DEF Answer, NoAnswer
<1>2. ASSUME a \in Answer PROVE a.at \in Nat /\ a.ttl \in Int
  <2>1. a.at \in 1..MaxTime /\ a.ttl \in TTLs
    BY <1>2 DEF Answer
  <2>2. a.at \in Nat
    BY <2>1, BoundAssumption
  <2>3. a.ttl \in Int
    BY <2>1, TTLAssumption, Zenon
  <2> QED
    BY <2>2, <2>3
<1> QED
  BY <1>1, <1>2 DEF AnswerOrNone

(* One lemma for each action: it preserves the invariant.  Execute begins. *)
LEMMA BeginStep ==
  ASSUME IInv, NEW r \in Requests, Begin(r)
  PROVE  IInv'
<1> DEFINE v == [req[r] EXCEPT !.pc = "resolve", !.now = clock]
<1>1. v \in Request
  BY Facts DEF Request, PC
<1>2. RequestInv(policy, clock, v)
  BY Facts DEF Request, RequestInv
<1>3. /\ req' \in [Requests -> Request]
      /\ \A q \in Requests : RequestInv(policy, clock, req[q])'
  BY <1>1, <1>2, OneRequest DEF Begin
<1> QED
  BY <1>3 DEF Begin, IInv, TypeOK, CacheInv, dnsVars, poolVars, historyVars

(* A mode without lookups goes straight on.                               *)
LEMMA ResolveDirectStep ==
  ASSUME IInv, NEW r \in Requests, ResolveDirect(r)
  PROVE  IInv'
<1> DEFINE v == [req[r] EXCEPT !.pc = "consume"]
<1>1. v \in Request
  BY Facts DEF Request, PC
<1>2. RequestInv(policy, clock, v)
  BY Facts DEF ResolveDirect, Request, RequestInv
<1>3. /\ req' \in [Requests -> Request]
      /\ \A q \in Requests : RequestInv(policy, clock, req[q])'
  BY <1>1, <1>2, OneRequest DEF ResolveDirect
<1> QED
  BY <1>3 DEF ResolveDirect, IInv, TypeOK, CacheInv, dnsVars, poolVars, historyVars

(* A cached address is used only while it is fresh.                       *)
LEMMA ResolveCachedStep ==
  ASSUME IInv, NEW r \in Requests, ResolveCached(r)
  PROVE  IInv'
<1> DEFINE v == [req[r] EXCEPT !.pc = "consume", !.addr = cache.ans]
<1>1. v \in Request
  BY Facts DEF Request, PC
<1>2. RequestInv(policy, clock, v)
  <2>1. /\ v.pc = "consume" /\ v.addr = cache.ans /\ v.now = req[r].now
    BY Facts DEF Request
  <2>2. cache.ans # NoAnswer /\ (Expiry = ZeroTime \/ ~(req[r].now > Expiry))
    BY DEF ResolveCached, MustLookup
  <2>3. cache.ans \in Answer /\ cache.ans.at \in Nat /\ cache.ans.ttl \in Int
    BY <2>2, Facts, AnswerFacts
  <2>4. ASSUME policy.Mode \in {"TTL", "Cadence"}
        PROVE  req[r].now <= cache.ans.at + Lifetime(policy, cache.ans.ttl)
    <3>1. Lifetime(policy, cache.ans.ttl) \in Nat
      BY <2>3, <2>4, Facts, LifetimeNat DEF IInv
    <3>2. CASE policy.Mode = "TTL"
      BY <2>2, <2>3, <3>1, <3>2, Facts DEF Expiry, IInv, CacheInv
    <3>3. CASE policy.Mode = "Cadence"
      BY <2>2, <2>3, <3>1, <3>3, Facts DEF Expiry, IInv, CacheInv
    <3> QED
      BY <2>4, <3>2, <3>3
  <2> QED
    BY <2>1, <2>3, <2>4 DEF RequestInv
<1>3. /\ req' \in [Requests -> Request]
      /\ \A q \in Requests : RequestInv(policy, clock, req[q])'
  BY <1>1, <1>2, OneRequest DEF ResolveCached
<1>4. guard' \in GuardRailState
  BY Facts, GuardStep DEF ResolveCached, ClearForceLookup
<1> QED
  BY <1>3, <1>4 DEF ResolveCached, IInv, TypeOK, CacheInv, dnsVars, poolVars, historyVars

(* The prologue decides on a lookup.                                      *)
LEMMA ResolveMissStep ==
  ASSUME IInv, NEW r \in Requests, ResolveMiss(r)
  PROVE  IInv'
<1> DEFINE v == [req[r] EXCEPT !.pc = "join", !.addr = cache.ans]
<1>1. v \in Request
  BY Facts DEF Request, PC
<1>2. RequestInv(policy, clock, v)
  BY Facts DEF ResolveMiss, Request, RequestInv
<1>3. /\ req' \in [Requests -> Request]
      /\ \A q \in Requests : RequestInv(policy, clock, req[q])'
  BY <1>1, <1>2, OneRequest DEF ResolveMiss
<1>4. guard' \in GuardRailState
  BY Facts, GuardStep DEF ResolveMiss, ClearForceLookup
<1> QED
  BY <1>3, <1>4 DEF ResolveMiss, IInv, TypeOK, CacheInv, dnsVars, poolVars, historyVars

(* The execution starts or joins a lookup of its host.                    *)
LEMMA JoinLookupStep ==
  ASSUME IInv, NEW r \in Requests, JoinLookup(r)
  PROVE  IInv'
<1> DEFINE v == [req[r] EXCEPT !.pc = "lookup"]
<1>1. v \in Request
  BY Facts DEF Request, PC
<1>2. RequestInv(policy, clock, v)
  BY Facts DEF JoinLookup, Request, RequestInv
<1>3. /\ req' \in [Requests -> Request]
      /\ \A q \in Requests : RequestInv(policy, clock, req[q])'
  BY <1>1, <1>2, OneRequest DEF JoinLookup
<1>4. flights' \in SUBSET Hosts
  BY Facts DEF JoinLookup, IInv, TypeOK, Request
<1> QED
  BY <1>3, <1>4 DEF JoinLookup, IInv, TypeOK, CacheInv, dnsVars, poolVars, historyVars

(* A lookup ends: each of those who share it moves on.                    *)
LEMMA LookupStep ==
  ASSUME IInv, NEW h \in flights, LookupOK(h) \/ LookupError(h)
  PROVE  IInv'
<1>1. h \in Hosts /\ flights' \in SUBSET Hosts
  BY DEF LookupOK, LookupError, IInv, TypeOK
<1>2. UNCHANGED <<policy, clock, cache, cadenceNext, guard, lastDecision, poolVars, historyVars>>
  BY DEF LookupOK, LookupError
<1>3. CASE LookupError(h)
  <2> DEFINE f(x) == IF x \in Waiting(h) THEN [req[x] EXCEPT !.pc = "failed"] ELSE req[x]
  <2>1. req' = [x \in Requests |-> f(x)]
    BY <1>3 DEF LookupError
  <2>2. ASSUME NEW x \in Requests
        PROVE  f(x) \in Request /\ RequestInv(policy, clock, f(x))
    <3>1. [req[x] EXCEPT !.pc = "failed"] \in Request
      BY Facts DEF Request, PC
    <3>2. RequestInv(policy, clock, [req[x] EXCEPT !.pc = "failed"])
      BY Facts DEF Request, RequestInv
    <3> QED
      BY <3>1, <3>2, Facts
  <2> QED
    BY <1>1, <1>2, <2>1, <2>2 DEF IInv, TypeOK, CacheInv, poolVars, historyVars
<1>4. CASE LookupOK(h)
  <2>1. PICK ttl \in TTLs :
          req' = [x \in Requests |->
                    IF x \in Waiting(h)
                    THEN [req[x] EXCEPT !.pc = "store",
                                        !.addr = [host |-> h, at |-> clock, ttl |-> ttl]]
                    ELSE req[x]]
    BY <1>4 DEF LookupOK
  <2> DEFINE ans == [host |-> h, at |-> clock, ttl |-> ttl]
             g(x) == [req[x] EXCEPT !.pc = "store", !.addr = ans]
             f(x) == IF x \in Waiting(h) THEN g(x) ELSE req[x]
  <2>2. ASSUME NEW x \in Requests
        PROVE  f(x) \in Request /\ RequestInv(policy, clock, f(x))
    <3>1. ans \in Answer /\ ans.at = clock
      BY <1>1, Facts DEF Answer
    <3>2. ans \in AnswerOrNone
      BY <3>1 DEF AnswerOrNone
    <3> HIDE DEF ans
    <3>3. g(x) \in Request
      BY <3>2, Facts DEF Request, PC
    <3>4. ASSUME x \in Waiting(h)
          PROVE  RequestInv(policy, clock, g(x))
      <4>1. req[x].now \in 1..clock
        BY <3>4, Facts DEF Waiting, RequestInv
      <4>2. g(x).pc = "store" /\ g(x).addr = ans /\ g(x).now = req[x].now
        BY Facts DEF Request
      <4> QED
        BY <3>1, <4>1, <4>2 DEF RequestInv
    <3> QED
      BY <3>3, <3>4, Facts
  <2> QED
    BY <1>1, <1>2, <2>1, <2>2 DEF IInv, TypeOK, CacheInv, poolVars, historyVars
<1> QED
  BY <1>3, <1>4

(* The store: the answer of the lookup, expiring from the clock read      *)
(* before it.                                                             *)
LEMMA StoreResultStep ==
  ASSUME IInv, NEW r \in Requests, StoreResult(r)
  PROVE  IInv'
<1> DEFINE v == [req[r] EXCEPT !.pc = "consume", !.fresh = TRUE]
           a == req[r].addr
<1>0. /\ a \in Answer /\ a \in AnswerOrNone /\ a.at \in Nat /\ a.ttl \in Int
      /\ req[r].now \in 1..a.at /\ req[r].now \in Nat
  BY Facts, AnswerFacts DEF StoreResult, RequestInv, Request
<1>1. v \in Request
  BY Facts DEF Request, PC
<1>2. policy.Mode \in {"TTL", "Cadence"} => Lifetime(policy, a.ttl) \in Nat
  BY <1>0, Facts, LifetimeNat DEF IInv
<1>3. RequestInv(policy, clock, v)
  <2>1. v.pc = "consume" /\ v.addr = a /\ v.now = req[r].now
    BY Facts DEF Request
  <2> QED
    BY <1>0, <1>2, <2>1 DEF RequestInv
<1>4. /\ req' \in [Requests -> Request]
      /\ \A q \in Requests : RequestInv(policy, clock, req[q])'
  BY <1>1, <1>3, OneRequest DEF StoreResult
<1>5. cache'.ans = a /\ policy' = policy
  BY DEF StoreResult, NewEntry
<1>6. cadenceNext' \in Int
  BY <1>0, Facts DEF StoreResult, DNSPolicyType
<1>7. CASE policy.Mode = "TTL"
  <2>1. cache'.expiresAt = req[r].now + Lifetime(policy, a.ttl)
    BY <1>7 DEF StoreResult, NewEntry
  <2>2. cache' \in dnsCacheEntry
    BY <1>0, <1>2, <1>7 DEF StoreResult, NewEntry, dnsCacheEntry
  <2>3. CacheInv'
    BY <1>0, <1>2, <1>5, <1>7, <2>1 DEF CacheInv, ZeroTime
  <2> QED
    BY <1>4, <1>6, <2>2, <2>3 DEF StoreResult, IInv, TypeOK, poolVars, historyVars
<1>8. CASE policy.Mode # "TTL"
  <2>1. cache' \in dnsCacheEntry
    BY <1>0, <1>8 DEF StoreResult, NewEntry, dnsCacheEntry, ZeroTime
  <2>2. policy.Mode = "Cadence" => cadenceNext' = req[r].now + Lifetime(policy, a.ttl)
    BY DEF StoreResult, Lifetime
  <2>3. CacheInv'
    BY <1>0, <1>2, <1>5, <1>8, <2>2 DEF CacheInv, ZeroTime
  <2> QED
    BY <1>4, <1>6, <2>1, <2>3 DEF StoreResult, IInv, TypeOK, poolVars, historyVars
<1> QED
  BY <1>7, <1>8

(* A failed lookup becomes the execution's error.                         *)
LEMMA ReturnLookupErrorStep ==
  ASSUME IInv, NEW r \in Requests, ReturnLookupError(r)
  PROVE  IInv'
<1> DEFINE kind == IF FallsBack(r) THEN "fallback" ELSE "hard"
           v == [req[r] EXCEPT !.pc = "observe", !.now = clock, !.out = "err"]
<1>1. /\ lastDecision' = kind /\ req' = [req EXCEPT ![r] = v]
      /\ UNCHANGED <<policy, clock>>
  BY DEF ReturnLookupError
<1>2. kind \in Decision
  BY DEF Decision
<1> HIDE DEF kind
<1>3. v \in Request
  BY <1>2, Facts DEF Request, PC
<1>4. RequestInv(policy, clock, v)
  BY Facts DEF Request, RequestInv
<1>5. /\ req' \in [Requests -> Request]
      /\ \A q \in Requests : RequestInv(policy, clock, req[q])'
  BY <1>1, <1>3, <1>4, OneRequest
<1> QED
  BY <1>1, <1>2, <1>5 DEF ReturnLookupError, IInv, TypeOK, CacheInv, dnsVars, poolVars, historyVars

(* The guard's trigger is consumed.                                       *)
LEMMA ConsumeGuardStep ==
  ASSUME IInv, NEW r \in Requests, ConsumeGuard(r)
  PROVE  IInv'
<1> DEFINE flush == req[r].fresh \/ GuardActs(policy, guard)
           next == IF flush THEN "flush" ELSE "send"
           v == [req[r] EXCEPT !.pc = next, !.fresh = flush]
<1>1. req' = [req EXCEPT ![r] = v] /\ UNCHANGED <<policy, clock>>
  BY DEF ConsumeGuard
<1>2. next \in {"flush", "send"} /\ flush \in BOOLEAN
  OBVIOUS
<1> HIDE DEF next, flush
<1>3. v \in Request
  BY <1>2, Facts DEF Request, PC
<1>4. RequestInv(policy, clock, v)
  <2>1. v.pc = next /\ v.addr = req[r].addr /\ v.now = req[r].now
    BY Facts DEF Request
  <2> QED
    BY <1>2, <2>1, Facts DEF ConsumeGuard, RequestInv
<1>5. /\ req' \in [Requests -> Request]
      /\ \A q \in Requests : RequestInv(policy, clock, req[q])'
  BY <1>1, <1>3, <1>4, OneRequest
<1>6. guard' \in GuardRailState
  BY Facts, GuardStep DEF ConsumeGuard
<1> QED
  BY <1>5, <1>6 DEF ConsumeGuard, IInv, TypeOK, CacheInv, dnsVars, poolVars, historyVars

(* The idle connections are closed.                                       *)
LEMMA FlushStep ==
  ASSUME IInv, NEW r \in Requests, Flush(r)
  PROVE  IInv'
<1> DEFINE v == [req[r] EXCEPT !.pc = "send"]
<1>1. v \in Request
  BY Facts DEF Request, PC
<1>2. RequestInv(policy, clock, v)
  BY Facts DEF Flush, Request, RequestInv
<1>3. /\ req' \in [Requests -> Request]
      /\ \A q \in Requests : RequestInv(policy, clock, req[q])'
  BY <1>1, <1>2, OneRequest DEF Flush
<1> QED
  BY <1>3 DEF Flush, IInv, TypeOK, CacheInv, dnsVars, poolVars, historyVars

(* The transport reuses an idle connection.                               *)
LEMMA ReuseStep ==
  ASSUME IInv, NEW r \in Requests, Reuse(r)
  PROVE  IInv'
<1>1. PICK c \in idle : /\ idle' = idle \ {c}
                       /\ req' = [req EXCEPT ![r] = [@ EXCEPT !.pc = "wait", !.conn = c]]
  BY DEF Reuse
<1> DEFINE v == [req[r] EXCEPT !.pc = "wait", !.conn = c]
<1>2. c \in Conn
  BY DEF IInv, TypeOK
<1>3. v \in Request
  BY <1>2, Facts DEF Request, PC
<1>4. RequestInv(policy, clock, v)
  BY <1>2, Facts DEF Reuse, Request, RequestInv
<1>5. /\ req' \in [Requests -> Request]
      /\ \A q \in Requests : RequestInv(policy, clock, req[q])'
  BY <1>1, <1>3, <1>4, OneRequest DEF Reuse
<1> QED
  BY <1>1, <1>5 DEF Reuse, IInv, TypeOK, CacheInv, dnsVars, historyVars

(* The transport dials.                                                   *)
LEMMA DialStep ==
  ASSUME IInv, NEW r \in Requests, Dial(r)
  PROVE  IInv'
<1> DEFINE c == [host |-> req[r].host, addr |-> req[r].addr]
           v == [req[r] EXCEPT !.pc = "wait", !.conn = c]
<1>1. req' = [req EXCEPT ![r] = v]
  BY DEF Dial
<1>2. c \in Conn
  BY Facts DEF Conn, Request
<1> HIDE DEF c
<1>3. v \in Request
  BY <1>2, Facts DEF Request, PC
<1>4. RequestInv(policy, clock, v)
  BY <1>2, Facts DEF Dial, Request, RequestInv
<1>5. /\ req' \in [Requests -> Request]
      /\ \A q \in Requests : RequestInv(policy, clock, req[q])'
  BY <1>1, <1>3, <1>4, OneRequest DEF Dial
<1> QED
  BY <1>5 DEF Dial, IInv, TypeOK, CacheInv, dnsVars, poolVars, historyVars

(* The exchange fails.                                                    *)
LEMMA FailStep ==
  ASSUME IInv, NEW r \in Requests, Fail(r)
  PROVE  IInv'
<1> DEFINE v == [req[r] EXCEPT !.pc = "observe", !.now = clock,
                               !.conn = NoConn, !.out = "err"]
<1>1. v \in Request
  BY Facts DEF Request, PC
<1>2. RequestInv(policy, clock, v)
  BY Facts DEF Request, RequestInv
<1>3. /\ req' \in [Requests -> Request]
      /\ \A q \in Requests : RequestInv(policy, clock, req[q])'
  BY <1>1, <1>2, OneRequest DEF Fail
<1> QED
  BY <1>3 DEF Fail, IInv, TypeOK, CacheInv, dnsVars, poolVars, historyVars

(* The server answers.                                                    *)
LEMMA RespondStep ==
  ASSUME IInv, NEW r \in Requests, NEW out \in {"ok", "5xx"}, Respond(r, out)
  PROVE  IInv'
<1> DEFINE v == [req[r] EXCEPT !.pc = "observe", !.now = clock, !.out = out]
<1>1. v \in Request
  BY Facts DEF Request, PC
<1>2. RequestInv(policy, clock, v)
  BY Facts DEF Respond, Request, RequestInv
<1>3. /\ req' \in [Requests -> Request]
      /\ \A q \in Requests : RequestInv(policy, clock, req[q])'
  BY <1>1, <1>2, OneRequest DEF Respond
<1> QED
  BY <1>3 DEF Respond, IInv, TypeOK, CacheInv, dnsVars, poolVars, historyVars

(* The server redirects.                                                  *)
LEMMA RedirectStep ==
  ASSUME IInv, NEW r \in Requests, NEW h \in Hosts, Redirect(r, h)
  PROVE  IInv'
<1> DEFINE v == [IdleRequest EXCEPT !.pc = "resolve", !.host = h,
                                 !.hops = req[r].hops + 1, !.now = clock]
<1>0. req[r].hops + 1 \in 0..MaxRedirects
  BY Facts, BoundAssumption DEF Redirect, Request
<1>1. v \in Request
  BY <1>0, Facts, IdleIsGood DEF Request, PC
<1>2. RequestInv(policy, clock, v)
  BY Facts, IdleIsGood DEF Request, RequestInv
<1>3. /\ req' \in [Requests -> Request]
      /\ \A q \in Requests : RequestInv(policy, clock, req[q])'
  BY <1>1, <1>2, OneRequest DEF Redirect
<1>4. idle' \in SUBSET Conn
  BY Facts DEF Redirect, RequestInv, IInv, TypeOK
<1> QED
  BY <1>3, <1>4 DEF Redirect, IInv, TypeOK, CacheInv, dnsVars, poolVars, historyVars

(* The outcome is counted.                                                *)
LEMMA ObserveStep ==
  ASSUME IInv, NEW r \in Requests, Observe(r)
  PROVE  IInv'
<1> DEFINE v == [req[r] EXCEPT !.pc = "report"]
<1>1. v \in Request
  BY Facts DEF Request, PC
<1>2. RequestInv(policy, clock, v)
  BY Facts DEF Observe, Request, RequestInv
<1>3. /\ req' \in [Requests -> Request]
      /\ \A q \in Requests : RequestInv(policy, clock, req[q])'
  BY <1>1, <1>2, OneRequest DEF Observe
<1>4. guard' \in GuardRailState
  <2>1. /\ registerGuardFailure(policy, guard, req[r].now) \in GuardRailState
        /\ resetGuard(guard) \in GuardRailState
    BY Facts, CountStep, GuardStep
  <2> QED
    BY <2>1, Facts DEF Observe
<1> QED
  BY <1>3, <1>4 DEF Observe, IInv, TypeOK, CacheInv, dnsVars, poolVars, historyVars

(* The response is handed over.                                           *)
LEMMA ReportStep ==
  ASSUME IInv, NEW r \in Requests, Report(r)
  PROVE  IInv'
<1>1. /\ req' \in [Requests -> Request]
      /\ \A q \in Requests : RequestInv(policy, clock, req[q])'
  BY IdleIsGood, OneRequest DEF Report
<1>2. idle' \in SUBSET Conn /\ held' \in SUBSET Conn
  BY Facts DEF Report, RequestInv, IInv, TypeOK
<1> QED
  BY <1>1, <1>2 DEF Report, IInv, TypeOK, CacheInv, dnsVars, historyVars

(* Time passes: a clock reading in use stays in the past.                 *)
LEMMA TickStep ==
  ASSUME IInv, Tick
  PROVE  IInv'
<1>1. clock' \in 1..MaxTime /\ clock' = clock + 1 /\ clock \in Nat
  BY BoundAssumption DEF Tick, IInv, TypeOK
<1>2. ASSUME NEW q \in Requests PROVE RequestInv(policy', clock', req'[q])
  <2>1. RequestInv(policy, clock, req[q]) /\ req[q].now \in Nat
    BY Facts
  <2> QED
    BY <1>1, <2>1 DEF Tick, RequestInv
<1> QED
  BY <1>1, <1>2 DEF Tick, IInv, TypeOK, CacheInv, dnsVars, poolVars, historyVars

(* Every step preserves the invariant.                                    *)
LEMMA NextIInv == IInv /\ [Next]_vars => IInv'
<1> SUFFICES ASSUME IInv, [Next]_vars PROVE IInv'
  OBVIOUS
<1>1. ASSUME NEW r \in Requests, OwnStep(r) PROVE IInv'
  BY <1>1, ResolveDirectStep, ResolveCachedStep, ResolveMissStep, JoinLookupStep,
     StoreResultStep, ReturnLookupErrorStep, ConsumeGuardStep, FlushStep, ReuseStep,
     DialStep, ObserveStep
  DEF OwnStep
<1>2. ASSUME NEW c \in idle \cup held, DropConn(c) \/ ReleaseConn(c) PROVE IInv'
  BY <1>2 DEF DropConn, ReleaseConn, IInv, TypeOK, CacheInv, dnsVars, historyVars
<1>3. CASE UNCHANGED vars
  BY <1>3 DEF vars, IInv, TypeOK, CacheInv
<1>4. CASE Next
  BY <1>1, <1>2, <1>4, TickStep, BeginStep, FailStep, RespondStep, RedirectStep,
     ReportStep, LookupStep
  DEF Next
<1> QED
  BY <1>3, <1>4

(* The inductive invariant holds of every behaviour of the endpoint.      *)
THEOREM Inductive == Spec => []IInv
BY InitIInv, NextIInv, PTL DEF Spec

(* Every reachable state of an endpoint under concurrent executions is    *)
(* well formed.                                                           *)
THEOREM TypeCorrect == Spec => []TypeOK
<1>1. IInv => TypeOK
  BY DEF IInv
<1> QED
  BY <1>1, Inductive, PTL

(* resolveTTL and resolveCadence never hand out an address past its       *)
(* lifetime, however many executions share lookups and overwrite each     *)
(* other's stores.                                                        *)
THEOREM NeverStale == Spec => []FreshAddress
<1>1. IInv => FreshAddress
  <2> SUFFICES ASSUME IInv, NEW r \in Requests, Prepared(r),
                      policy.Mode \in {"TTL", "Cadence"}
               PROVE  /\ req[r].addr # NoAnswer
                      /\ req[r].now <= req[r].addr.at + Lifetime(policy, req[r].addr.ttl)
    BY DEF FreshAddress
  <2>1. req[r].addr \in Answer /\ req[r].addr \in AnswerOrNone
    BY Facts DEF Prepared, RequestInv, AnswerOrNone
  <2> QED
    BY <2>1, Facts, AnswerFacts DEF Prepared, RequestInv
<1> QED
  BY <1>1, Inductive, PTL

----------------------------------------------------------------------------
(* The guard rail's flush.  Besides FlushNotLost itself the induction     *)
(* needs that a flush is owed only under a policy that acts on it.        *)
FlushInv == FlushNotLost /\ (owedFlush => Enabled(policy))

(* It is inductive.                                                       *)
LEMMA NextFlushInv == IInv /\ FlushInv /\ [Next]_vars => FlushInv'
<1> SUFFICES ASSUME IInv, FlushInv, [Next]_vars PROVE FlushInv'
  OBVIOUS
<1>1. policy \in DNSPolicyType /\ guard \in GuardRailState /\ req \in [Requests -> Request]
  BY PolicyAssumption DEF IInv, TypeOK
(* A step that leaves trigger and debt alone and moves only an execution  *)
(* that is not about to flush.                                            *)
<1>2. ASSUME UNCHANGED <<policy, owedFlush>>, guard.triggered => guard'.triggered,
             \A q \in Requests : req[q].pc = "flush" => req'[q].pc = "flush"
      PROVE  FlushInv'
  BY <1>2 DEF FlushInv, FlushNotLost
<1>3. ASSUME NEW r \in Requests, ResolveCached(r) \/ ResolveMiss(r)
      PROVE  FlushInv'
  <2>1. guard.triggered => guard'.triggered
    BY <1>1, <1>3, GuardFlags DEF ResolveCached, ResolveMiss, ClearForceLookup
  <2>2. \A q \in Requests : req[q].pc = "flush" => req'[q].pc = "flush"
    BY <1>1, <1>3 DEF ResolveCached, ResolveMiss
  <2>3. UNCHANGED <<policy, owedFlush>>
    BY <1>3 DEF ResolveCached, ResolveMiss, historyVars
  <2> QED
    BY <1>2, <2>1, <2>2, <2>3
<1>4. ASSUME NEW r \in Requests,
             \/ Begin(r) \/ ResolveDirect(r) \/ JoinLookup(r) \/ StoreResult(r)
             \/ ReturnLookupError(r) \/ Reuse(r) \/ Dial(r) \/ Fail(r) \/ Report(r)
             \/ \E out \in {"ok", "5xx"} : Respond(r, out)
             \/ \E h \in Hosts : Redirect(r, h)
      PROVE  FlushInv'
  <2>1. UNCHANGED <<policy, owedFlush, guard>>
    BY <1>4 DEF Begin, ResolveDirect, JoinLookup, StoreResult, ReturnLookupError,
                Reuse, Dial, Fail, Report, Respond, Redirect, historyVars
  <2>2. req[r].pc # "flush"
    BY <1>4 DEF Begin, ResolveDirect, JoinLookup, StoreResult, ReturnLookupError,
                Reuse, Dial, Fail, Report, Respond, Redirect
  <2>3. \A q \in Requests \ {r} : req'[q] = req[q]
    BY <1>1, <1>4
    DEF Begin, ResolveDirect, JoinLookup, StoreResult, ReturnLookupError,
        Reuse, Dial, Fail, Report, Respond, Redirect
  <2> QED
    BY <1>2, <2>1, <2>2, <2>3
<1>5. ASSUME NEW r \in Requests, ConsumeGuard(r) PROVE FlushInv'
  <2>1. UNCHANGED <<policy, owedFlush>>
    BY <1>5 DEF ConsumeGuard, historyVars
  <2>2. CASE GuardActs(policy, guard)
    <3>1. req'[r].pc = "flush"
      BY <1>1, <1>5, <2>2 DEF ConsumeGuard, Request
    <3> QED
      BY <2>1, <3>1 DEF FlushInv, FlushNotLost
  <2>3. CASE ~GuardActs(policy, guard)
    <3>1. owedFlush => ~guard.triggered
      BY <2>3 DEF FlushInv, GuardActs, Enabled
    <3>2. \A q \in Requests \ {r} : req'[q] = req[q]
      BY <1>1, <1>5 DEF ConsumeGuard
    <3> QED
      BY <1>5, <2>1, <3>1, <3>2 DEF FlushInv, FlushNotLost, ConsumeGuard
  <2> QED
    BY <2>2, <2>3
<1>6. ASSUME NEW r \in Requests, Flush(r) PROVE FlushInv'
  BY <1>6 DEF Flush, FlushInv, FlushNotLost
<1>7. ASSUME NEW r \in Requests, Observe(r) PROVE FlushInv'
  <2> DEFINE failed == req[r].out \in {"err", "5xx"}
             trips  == failed /\ Trips(policy, guard, req[r].now)
  <2>1. /\ guard' = IF failed THEN registerGuardFailure(policy, guard, req[r].now)
                    ELSE IF Enabled(policy) THEN resetGuard(guard) ELSE guard
        /\ owedFlush' = (owedFlush \/ trips) /\ policy' = policy
    BY <1>7 DEF Observe
  <2>2. \A q \in Requests : req[q].pc = "flush" => req'[q].pc = "flush"
    BY <1>1, <1>7 DEF Observe
  <2>3. /\ trips => guard'.triggered /\ Enabled(policy)
        /\ guard.triggered => guard'.triggered
    BY <1>1, <2>1, Facts, GuardFlags DEF Trips
  <2> QED
    BY <2>1, <2>2, <2>3 DEF FlushInv, FlushNotLost
<1>8. ASSUME NEW h \in flights, LookupOK(h) \/ LookupError(h) PROVE FlushInv'
  <2>1. UNCHANGED <<policy, owedFlush, guard>>
    BY <1>8 DEF LookupOK, LookupError, historyVars
  <2>2. \A q \in Requests : req[q].pc = "flush" => req'[q] = req[q]
    BY <1>1, <1>8 DEF LookupOK, LookupError, Waiting
  <2> QED
    BY <1>2, <2>1, <2>2
<1>9. CASE Tick \/ UNCHANGED vars \/ \E c \in idle \cup held : DropConn(c) \/ ReleaseConn(c)
  <2>1. UNCHANGED <<policy, owedFlush, guard, req>>
    BY <1>9 DEF Tick, vars, DropConn, ReleaseConn, historyVars
  <2> QED
    BY <1>2, <2>1
<1> QED
  BY <1>3, <1>4, <1>5, <1>6, <1>7, <1>8, <1>9 DEF Next, OwnStep

(* Once registerGuardFailure has tripped, the flush of the idle           *)
(* connections is never lost, whatever resetGuard, failed lookups and     *)
(* other executions' consumeGuardTrigger do in between.                   *)
THEOREM FlushIsNotLost == Spec => []FlushNotLost
<1>1. Init => FlushInv
  BY DEF Init, FlushInv, FlushNotLost
<1>2. FlushInv => FlushNotLost
  BY DEF FlushInv
<1> QED
  BY <1>1, <1>2, NextFlushInv, Inductive, PTL DEF Spec

----------------------------------------------------------------------------
(* The forced lookup: while one is owed the flag is set, or the execution *)
(* that took the flag is on its way to DoChan.                            *)
ForceInv == owedLookup => guard.forceLookup \/ \E q \in Requests : req[q].pc = "join"

(* It is inductive where resolveTTL and resolveCadence read the flag.     *)
LEMMA NextForceInv ==
  ASSUME \A p \in Policies : p.Mode # "SingleLookup"
  PROVE  IInv /\ ForceInv /\ [Next]_vars => ForceInv'
<1> SUFFICES ASSUME IInv, ForceInv, [Next]_vars PROVE ForceInv'
  OBVIOUS
<1>1. /\ policy \in DNSPolicyType /\ guard \in GuardRailState
      /\ policy.Mode # "SingleLookup" /\ req \in [Requests -> Request]
  BY PolicyAssumption DEF IInv, TypeOK
(* A step that leaves flag and debt alone and moves only an execution     *)
(* that is not about to join.                                             *)
<1>2. ASSUME UNCHANGED owedLookup, guard.forceLookup => guard'.forceLookup,
             \A q \in Requests : req[q].pc = "join" => req'[q].pc = "join"
      PROVE  ForceInv'
  BY <1>2 DEF ForceInv
<1>3. ASSUME NEW r \in Requests, ResolveCached(r) PROVE ForceInv'
  <2>1. ~guard.forceLookup /\ UNCHANGED owedLookup
    BY <1>1, <1>3 DEF ResolveCached, MustLookup, historyVars
  <2>2. \A q \in Requests : req[q].pc = "join" => req'[q].pc = "join"
    BY <1>1, <1>3 DEF ResolveCached
  <2> QED
    BY <1>2, <2>1, <2>2
<1>4. ASSUME NEW r \in Requests, ResolveMiss(r) PROVE ForceInv'
  <2>1. req'[r].pc = "join"
    BY <1>1, <1>4 DEF ResolveMiss, Request
  <2> QED
    BY <2>1 DEF ForceInv
<1>5. ASSUME NEW r \in Requests, JoinLookup(r) PROVE ForceInv'
  BY <1>5 DEF JoinLookup, ForceInv
<1>6. ASSUME NEW r \in Requests, ConsumeGuard(r) PROVE ForceInv'
  <2>1. guard'.forceLookup = guard.forceLookup
    BY <1>1, <1>6 DEF ConsumeGuard, consumeGuardTrigger, GuardRailState
  <2>2. \A q \in Requests : req[q].pc = "join" => req'[q].pc = "join"
    BY <1>1, <1>6 DEF ConsumeGuard
  <2> QED
    BY <1>2, <1>6, <2>1, <2>2 DEF ConsumeGuard, historyVars
<1>7. ASSUME NEW r \in Requests, Observe(r) PROVE ForceInv'
  <2> DEFINE failed == req[r].out \in {"err", "5xx"}
             trips  == failed /\ Trips(policy, guard, req[r].now)
  <2>1. /\ guard' = IF failed THEN registerGuardFailure(policy, guard, req[r].now)
                    ELSE IF Enabled(policy) THEN resetGuard(guard) ELSE guard
        /\ owedLookup' = (owedLookup \/ (trips /\ policy.Action = "ForceLookup"))
    BY <1>7 DEF Observe
  <2>2. /\ trips /\ policy.Action = "ForceLookup" => guard'.forceLookup
        /\ guard.forceLookup => guard'.forceLookup
    BY <1>1, <2>1, Facts, GuardFlags
  <2>3. \A q \in Requests : req[q].pc = "join" => req'[q].pc = "join"
    BY <1>1, <1>7 DEF Observe
  <2> QED
    BY <2>1, <2>2, <2>3 DEF ForceInv
<1>8. ASSUME NEW r \in Requests,
             \/ Begin(r) \/ ResolveDirect(r) \/ StoreResult(r)
             \/ ReturnLookupError(r) \/ Flush(r) \/ Reuse(r) \/ Dial(r) \/ Fail(r)
             \/ Report(r)
             \/ \E out \in {"ok", "5xx"} : Respond(r, out)
             \/ \E h \in Hosts : Redirect(r, h)
      PROVE  ForceInv'
  <2>1. UNCHANGED <<guard, owedLookup>>
    BY <1>8 DEF Begin, ResolveDirect, StoreResult, ReturnLookupError, Flush,
                Reuse, Dial, Fail, Report, Respond, Redirect, historyVars
  <2>2. req[r].pc # "join"
    BY <1>8 DEF Begin, ResolveDirect, StoreResult, ReturnLookupError, Flush,
                Reuse, Dial, Fail, Report, Respond, Redirect
  <2>3. \A q \in Requests \ {r} : req'[q] = req[q]
    BY <1>1, <1>8 DEF Begin, ResolveDirect, StoreResult, ReturnLookupError, Flush,
                      Reuse, Dial, Fail, Report, Respond, Redirect
  <2> QED
    BY <1>2, <2>1, <2>2, <2>3
<1>9. ASSUME NEW h \in flights, LookupOK(h) \/ LookupError(h) PROVE ForceInv'
  <2>1. UNCHANGED <<guard, owedLookup>>
    BY <1>9 DEF LookupOK, LookupError, historyVars
  <2>2. \A q \in Requests : req[q].pc = "join" => req'[q] = req[q]
    BY <1>1, <1>9 DEF LookupOK, LookupError, Waiting
  <2> QED
    BY <1>2, <2>1, <2>2
<1>10. CASE Tick \/ UNCHANGED vars \/ \E c \in idle \cup held : DropConn(c) \/ ReleaseConn(c)
  <2>1. UNCHANGED <<guard, owedLookup, req>>
    BY <1>10 DEF Tick, vars, DropConn, ReleaseConn, historyVars
  <2> QED
    BY <1>2, <2>1
<1> QED
  BY <1>3, <1>4, <1>5, <1>6, <1>7, <1>8, <1>9, <1>10 DEF Next, OwnStep

(* After a trip with ForceLookup and until a lookup is begun or joined at *)
(* DoChan, an execution is given the cached address only while another    *)
(* one stands between the prologue of resolveTTL or resolveCadence, where *)
(* it took the flag, and DoChan.  SingleLookup is excluded: resolveSingle *)
(* never reads forceLookup.                                               *)
THEOREM LookupIsForced ==
  ASSUME \A p \in Policies : p.Mode # "SingleLookup"
  PROVE  Spec => ForcedLookup
<1>1. Init => ForceInv
  BY DEF Init, ForceInv
<1>2. IInv /\ ForceInv =>
        \A r \in Requests :
          ResolveCached(r) /\ owedLookup => \E q \in Requests \ {r} : req[q].pc = "join"
  <2> SUFFICES ASSUME IInv, ForceInv, NEW r \in Requests, ResolveCached(r), owedLookup
               PROVE  \E q \in Requests \ {r} : req[q].pc = "join"
    OBVIOUS
  <2>1. policy.Mode # "SingleLookup"
    BY DEF IInv, TypeOK
  <2>2. ~guard.forceLookup /\ req[r].pc # "join"
    BY <2>1 DEF ResolveCached, MustLookup
  <2> QED
    BY <2>2 DEF ForceInv
<1> QED
  BY <1>1, <1>2, NextForceInv, Inductive, PTL DEF Spec, ForcedLookup

----------------------------------------------------------------------------
(* The connections, of an endpoint whose executions do not overlap.       *)
Sequential == \A r, s \in Requests : r = s

(* Bodies are read at once where the address may change.                  *)
ReadWhereRefreshed ==
  \A p \in Policies : p.Mode \in {"TTL", "Cadence"} => p \in FastPolicies

LookingUp(q) == q.pc \in {"join", "lookup", "store", "failed"}
OnConn(q) == q.pc = "wait" \/ (q.pc \in {"observe", "report"} /\ q.out # "err")
HasAddr(q) == q.pc \in {"consume", "flush", "send", "wait"}

(* What holds of the one execution q when a is cached under mode m, the   *)
(* idle connections are i and the held ones h: all of them lead to a,     *)
(* unless a has just replaced the address of the idle ones and q is on    *)
(* its way to flush them.                                                 *)
PoolOf(a, m, q, i, h) ==
  /\ q.pc \in {"idle", "resolve"} => q.addr = NoAnswer
  /\ HasAddr(q) => q.addr = a
  /\ OnConn(q) => q.conn.addr = a
  /\ m \in {"Default", "Static"} => a = NoAnswer /\ ~LookingUp(q)
  /\ m \notin {"Default", "Static"} /\ (HasAddr(q) \/ OnConn(q)) => a # NoAnswer
  /\ m = "SingleLookup" /\ LookingUp(q) => a = NoAnswer
  /\ m = "SingleLookup" /\ h # {} => a # NoAnswer
  /\ m \in {"TTL", "Cadence"} => h = {}
  /\ \A c \in h : c.addr = a
  /\ (\A c \in i : c.addr = a) \/ (q.pc \in {"consume", "flush"} /\ q.fresh)

PoolInv == \A r \in Requests : PoolOf(cache.ans, policy.Mode, req[r], idle, held)

(* A step of the one execution has to be examined for that one only.      *)
LEMMA OneExecution ==
  ASSUME Sequential, IInv, NEW r \in Requests, NEW v, req' = [req EXCEPT ![r] = v],
         PoolOf(cache'.ans, policy'.Mode, v, idle', held')
  PROVE  PoolInv'
<1>1. req'[r] = v /\ \A q \in Requests : q = r
  BY DEF Sequential, IInv, TypeOK
<1> QED
  BY <1>1 DEF PoolInv

(* The steps up to the prepared request.                                  *)
LEMMA PrepareKeepsPool ==
  ASSUME Sequential, IInv, PoolInv, NEW r \in Requests,
         \/ Begin(r) \/ ResolveDirect(r) \/ ResolveCached(r) \/ ResolveMiss(r)
         \/ JoinLookup(r) \/ ReturnLookupError(r)
  PROVE  PoolInv'
<1>1. /\ UNCHANGED <<policy, cache, idle, held>>
  BY DEF Begin, ResolveDirect, ResolveCached, ResolveMiss, JoinLookup,
         ReturnLookupError, dnsVars, poolVars
<1>2. req[r] \in Request /\ PoolOf(cache.ans, policy.Mode, req[r], idle, held)
  BY Facts DEF PoolInv
<1>3. CASE Begin(r)
  <2> DEFINE v == [req[r] EXCEPT !.pc = "resolve", !.now = clock]
  <2>1. v.pc = "resolve" /\ v.addr = req[r].addr
    BY <1>2 DEF Request
  <2> HIDE DEF v
  <2>2. PoolOf(cache.ans, policy.Mode, v, idle, held)
    BY <1>2, <1>3, <2>1 DEF Begin, PoolOf, LookingUp, OnConn, HasAddr
  <2> QED
    BY <1>1, <1>3, <2>2, OneExecution DEF Begin, v
<1>4. CASE ResolveDirect(r)
  <2> DEFINE v == [req[r] EXCEPT !.pc = "consume"]
  <2>1. v.pc = "consume" /\ v.addr = req[r].addr
    BY <1>2 DEF Request
  <2> HIDE DEF v
  <2>2. PoolOf(cache.ans, policy.Mode, v, idle, held)
    BY <1>2, <1>4, <2>1 DEF ResolveDirect, PoolOf, LookingUp, OnConn, HasAddr
  <2> QED
    BY <1>1, <1>4, <2>2, OneExecution DEF ResolveDirect, v
<1>5. CASE ResolveCached(r)
  <2> DEFINE v == [req[r] EXCEPT !.pc = "consume", !.addr = cache.ans]
  <2>1. v.pc = "consume" /\ v.addr = cache.ans
    BY <1>2 DEF Request
  <2>2. cache.ans # NoAnswer
    BY <1>5 DEF ResolveCached, MustLookup
  <2> HIDE DEF v
  <2>3. PoolOf(cache.ans, policy.Mode, v, idle, held)
    BY <1>2, <1>5, <2>1, <2>2 DEF ResolveCached, PoolOf, LookingUp, OnConn, HasAddr
  <2> QED
    BY <1>1, <1>5, <2>3, OneExecution DEF ResolveCached, v
<1>6. CASE ResolveMiss(r)
  <2> DEFINE v == [req[r] EXCEPT !.pc = "join", !.addr = cache.ans]
  <2>1. v.pc = "join"
    BY <1>2 DEF Request
  <2>2. policy.Mode = "SingleLookup" => cache.ans = NoAnswer
    BY <1>6 DEF ResolveMiss, MustLookup, Expiry
  <2> HIDE DEF v
  <2>3. PoolOf(cache.ans, policy.Mode, v, idle, held)
    BY <1>2, <1>6, <2>1, <2>2 DEF ResolveMiss, PoolOf, LookingUp, OnConn, HasAddr
  <2> QED
    BY <1>1, <1>6, <2>3, OneExecution DEF ResolveMiss, v
<1>7. CASE JoinLookup(r)
  <2> DEFINE v == [req[r] EXCEPT !.pc = "lookup"]
  <2>1. v.pc = "lookup"
    BY <1>2 DEF Request
  <2> HIDE DEF v
  <2>2. PoolOf(cache.ans, policy.Mode, v, idle, held)
    BY <1>2, <1>7, <2>1 DEF JoinLookup, PoolOf, LookingUp, OnConn, HasAddr
  <2> QED
    BY <1>1, <1>7, <2>2, OneExecution DEF JoinLookup, v
<1>8. CASE ReturnLookupError(r)
  <2> DEFINE v == [req[r] EXCEPT !.pc = "observe", !.now = clock, !.out = "err"]
  <2>1. v.pc = "observe" /\ v.out = "err"
    BY <1>2 DEF Request
  <2> HIDE DEF v
  <2>2. PoolOf(cache.ans, policy.Mode, v, idle, held)
    BY <1>2, <1>8, <2>1 DEF ReturnLookupError, PoolOf, LookingUp, OnConn, HasAddr
  <2> QED
    BY <1>1, <1>8, <2>2, OneExecution DEF ReturnLookupError, v
<1> QED
  BY <1>3, <1>4, <1>5, <1>6, <1>7, <1>8

(* A lookup ends: what it found is not cached yet.                        *)
LEMMA LookupKeepsPool ==
  ASSUME IInv, PoolInv, NEW h \in flights, LookupOK(h) \/ LookupError(h)
  PROVE  PoolInv'
<1>1. UNCHANGED <<policy, cache, idle, held>>
  BY DEF LookupOK, LookupError, poolVars
<1> SUFFICES ASSUME NEW r \in Requests
             PROVE  PoolOf(cache.ans, policy.Mode, req'[r], idle, held)
  BY <1>1 DEF PoolInv
<1>2. req[r] \in Request /\ PoolOf(cache.ans, policy.Mode, req[r], idle, held)
  BY Facts DEF PoolInv
<1>3. \/ req'[r] = req[r]
      \/ req[r].pc = "lookup" /\ req'[r].pc \in {"store", "failed"}
  <2>1. CASE LookupError(h)
    BY <1>2, <2>1 DEF LookupError, Waiting, Request
  <2>2. CASE LookupOK(h)
    <3>1. PICK ttl \in TTLs :
            req' = [x \in Requests |->
                      IF x \in Waiting(h)
                      THEN [req[x] EXCEPT !.pc = "store",
                                          !.addr = [host |-> h, at |-> clock, ttl |-> ttl]]
                      ELSE req[x]]
      BY <2>2 DEF LookupOK
    <3> DEFINE ans == [host |-> h, at |-> clock, ttl |-> ttl]
               g == [req[r] EXCEPT !.pc = "store", !.addr = ans]
    <3>2. req'[r] = IF r \in Waiting(h) THEN g ELSE req[r]
      BY <3>1
    <3> HIDE DEF ans
    <3>3. g.pc = "store"
      BY <1>2 DEF Request
    <3> QED
      BY <3>2, <3>3 DEF Waiting
  <2> QED
    BY <2>1, <2>2
<1> QED
  BY <1>2, <1>3 DEF PoolOf, LookingUp, OnConn, HasAddr

(* A store replaces the cached address; the execution that made it owes   *)
(* the flush.                                                             *)
LEMMA StoreKeepsPool ==
  ASSUME Sequential, IInv, PoolInv, NEW r \in Requests, StoreResult(r)
  PROVE  PoolInv'
<1> DEFINE v == [req[r] EXCEPT !.pc = "consume", !.fresh = TRUE]
<1>1. req[r] \in Request /\ PoolOf(cache.ans, policy.Mode, req[r], idle, held)
  BY Facts DEF PoolInv
<1>2. cache'.ans = req[r].addr /\ UNCHANGED <<policy, idle, held>>
  BY DEF StoreResult, NewEntry, poolVars
<1>3. req[r].addr # NoAnswer
  BY Facts, AnswerFacts DEF StoreResult, RequestInv, AnswerOrNone
<1>4. v.pc = "consume" /\ v.fresh /\ v.addr = req[r].addr
  BY <1>1 DEF Request
<1>5. policy.Mode \in {"SingleLookup", "TTL", "Cadence"}
  <2>1. policy.Mode \in DNSRefreshMode
    BY Facts DEF DNSPolicyType
  <2> QED
    BY <1>1, <2>1 DEF StoreResult, PoolOf, LookingUp, DNSRefreshMode
<1>6. held = {}
  BY <1>1, <1>5 DEF StoreResult, PoolOf, LookingUp
<1> HIDE DEF v
<1>7. PoolOf(cache'.ans, policy'.Mode, v, idle', held')
  BY <1>2, <1>3, <1>4, <1>5, <1>6 DEF PoolOf, LookingUp, OnConn, HasAddr
<1> QED
  BY <1>7, OneExecution DEF StoreResult, v

(* The flush, and the choice of a connection.                             *)
LEMMA SendKeepsPool ==
  ASSUME Sequential, IInv, PoolInv, NEW r \in Requests,
         ConsumeGuard(r) \/ Flush(r) \/ Reuse(r) \/ Dial(r)
  PROVE  PoolInv'
<1>1. UNCHANGED <<policy, cache, held>>
  BY DEF ConsumeGuard, Flush, Reuse, Dial, dnsVars, poolVars
<1>2. req[r] \in Request /\ PoolOf(cache.ans, policy.Mode, req[r], idle, held)
  BY Facts DEF PoolInv
<1>3. CASE ConsumeGuard(r)
  <2> DEFINE flush == req[r].fresh \/ GuardActs(policy, guard)
             next == IF flush THEN "flush" ELSE "send"
             v == [req[r] EXCEPT !.pc = next, !.fresh = flush]
  <2>1. req' = [req EXCEPT ![r] = v] /\ idle' = idle
    BY <1>3 DEF ConsumeGuard, poolVars
  <2>2. /\ next \in {"flush", "send"} /\ (req[r].fresh => flush)
        /\ (flush => next = "flush")
    OBVIOUS
  <2>3. v.pc = next /\ v.fresh = flush /\ v.addr = req[r].addr
    BY <1>2 DEF Request
  <2> HIDE DEF v, next, flush
  <2>4. PoolOf(cache.ans, policy.Mode, v, idle, held)
    BY <1>2, <1>3, <2>2, <2>3 DEF ConsumeGuard, PoolOf, LookingUp, OnConn, HasAddr
  <2> QED
    BY <1>1, <2>1, <2>4, OneExecution
<1>4. CASE Flush(r)
  <2> DEFINE v == [req[r] EXCEPT !.pc = "send"]
  <2>1. v.pc = "send" /\ v.addr = req[r].addr
    BY <1>2 DEF Request
  <2> HIDE DEF v
  <2>2. PoolOf(cache.ans, policy.Mode, v, {}, held)
    BY <1>2, <1>4, <2>1 DEF Flush, PoolOf, LookingUp, OnConn, HasAddr
  <2> QED
    BY <1>1, <1>4, <2>2, OneExecution DEF Flush, v
<1>5. CASE Reuse(r)
  <2>1. PICK c \in idle : /\ idle' = idle \ {c}
                         /\ req' = [req EXCEPT ![r] = [@ EXCEPT !.pc = "wait", !.conn = c]]
    BY <1>5 DEF Reuse
  <2> DEFINE v == [req[r] EXCEPT !.pc = "wait", !.conn = c]
  <2>2. v.pc = "wait" /\ v.addr = req[r].addr /\ v.conn = c
    BY <1>2 DEF Request
  <2>3. \A d \in idle : d.addr = cache.ans
    BY <1>2, <1>5 DEF Reuse, PoolOf
  <2> HIDE DEF v
  <2>4. PoolOf(cache.ans, policy.Mode, v, idle', held)
    BY <1>2, <1>5, <2>1, <2>2, <2>3 DEF Reuse, PoolOf, LookingUp, OnConn, HasAddr
  <2> QED
    BY <1>1, <2>1, <2>4, OneExecution DEF v
<1>6. CASE Dial(r)
  <2> DEFINE c == [host |-> req[r].host, addr |-> req[r].addr]
             v == [req[r] EXCEPT !.pc = "wait", !.conn = c]
  <2>1. req' = [req EXCEPT ![r] = v] /\ idle' = idle
    BY <1>6 DEF Dial, poolVars
  <2>2. v.pc = "wait" /\ v.addr = req[r].addr /\ v.conn = c /\ c.addr = req[r].addr
    BY <1>2 DEF Request
  <2>3. \A d \in idle : d.addr = cache.ans
    BY <1>2, <1>6 DEF Dial, PoolOf
  <2> HIDE DEF v, c
  <2>4. PoolOf(cache.ans, policy.Mode, v, idle, held)
    BY <1>2, <1>6, <2>2, <2>3 DEF Dial, PoolOf, LookingUp, OnConn, HasAddr
  <2> QED
    BY <1>1, <2>1, <2>4, OneExecution
<1> QED
  BY <1>3, <1>4, <1>5, <1>6

(* The answer, and what becomes of its connection.                        *)
LEMMA AnswerKeepsPool ==
  ASSUME Sequential, ReadWhereRefreshed, IInv, PoolInv, NEW r \in Requests,
         \/ Fail(r) \/ Observe(r) \/ Report(r)
         \/ \E out \in {"ok", "5xx"} : Respond(r, out)
         \/ \E h \in Hosts : Redirect(r, h)
  PROVE  PoolInv'
<1>1. UNCHANGED <<policy, cache>>
  BY DEF Fail, Observe, Report, Respond, Redirect, dnsVars
<1>2. req[r] \in Request /\ PoolOf(cache.ans, policy.Mode, req[r], idle, held)
  BY Facts DEF PoolInv
<1>3. CASE Fail(r)
  <2> DEFINE v == [req[r] EXCEPT !.pc = "observe", !.now = clock,
                                 !.conn = NoConn, !.out = "err"]
  <2>1. v.pc = "observe" /\ v.out = "err" /\ UNCHANGED <<idle, held>>
    BY <1>2, <1>3 DEF Fail, Request, poolVars
  <2> HIDE DEF v
  <2>2. PoolOf(cache.ans, policy.Mode, v, idle, held)
    BY <1>2, <1>3, <2>1 DEF Fail, PoolOf, LookingUp, OnConn, HasAddr
  <2> QED
    BY <1>1, <1>3, <2>1, <2>2, OneExecution DEF Fail, v
<1>4. CASE Observe(r)
  <2> DEFINE v == [req[r] EXCEPT !.pc = "report"]
  <2>1. /\ v.pc = "report" /\ v.out = req[r].out /\ v.conn = req[r].conn
        /\ req' = [req EXCEPT ![r] = v] /\ UNCHANGED <<idle, held>>
    BY <1>2, <1>4 DEF Observe, Request, poolVars
  <2> HIDE DEF v
  <2>2. PoolOf(cache.ans, policy.Mode, v, idle, held)
    BY <1>2, <1>4, <2>1 DEF Observe, PoolOf, LookingUp, OnConn, HasAddr
  <2> QED
    BY <1>1, <2>1, <2>2, OneExecution
<1>5. CASE Report(r)
  <2>1. IdleRequest.pc = "idle" /\ IdleRequest.addr = NoAnswer
    BY DEF IdleRequest
  <2>2. policy.Mode \in {"TTL", "Cadence"} => OptReadFast
    BY DEF IInv, TypeOK, ReadWhereRefreshed, OptReadFast
  <2>3. /\ \A c \in idle' \cup held' : c.addr = cache.ans
        /\ held' # held => req[r].out # "err" /\ ~OptReadFast
    BY <1>2, <1>5 DEF Report, PoolOf, OnConn
  <2>4. PoolOf(cache.ans, policy.Mode, IdleRequest, idle', held')
    BY <1>2, <1>5, <2>1, <2>2, <2>3 DEF Report, PoolOf, LookingUp, OnConn, HasAddr
  <2> QED
    BY <1>1, <1>5, <2>4, OneExecution DEF Report
<1>6. ASSUME NEW out \in {"ok", "5xx"}, Respond(r, out) PROVE PoolInv'
  <2> DEFINE v == [req[r] EXCEPT !.pc = "observe", !.now = clock, !.out = out]
  <2>1. v.pc = "observe" /\ v.conn = req[r].conn /\ UNCHANGED <<idle, held>>
    BY <1>2, <1>6 DEF Respond, Request, poolVars
  <2> HIDE DEF v
  <2>2. PoolOf(cache.ans, policy.Mode, v, idle, held)
    BY <1>2, <1>6, <2>1 DEF Respond, PoolOf, LookingUp, OnConn, HasAddr
  <2> QED
    BY <1>1, <1>6, <2>1, <2>2, OneExecution DEF Respond, v
<1>7. ASSUME NEW h \in Hosts, Redirect(r, h) PROVE PoolInv'
  <2> DEFINE v == [IdleRequest EXCEPT !.pc = "resolve", !.host = h,
                                      !.hops = req[r].hops + 1, !.now = clock]
  <2>1. /\ v.pc = "resolve" /\ v.addr = NoAnswer /\ held' = held
        /\ idle' = idle \cup {req[r].conn}
    BY <1>7 DEF Redirect, IdleRequest
  <2> HIDE DEF v
  <2>2. PoolOf(cache.ans, policy.Mode, v, idle', held)
    BY <1>2, <1>7, <2>1 DEF Redirect, PoolOf, LookingUp, OnConn, HasAddr
  <2> QED
    BY <1>1, <1>7, <2>1, <2>2, OneExecution DEF Redirect, v
<1> QED
  BY <1>3, <1>4, <1>5, <1>6, <1>7

(* The invariant is inductive.                                            *)
LEMMA NextPool ==
  ASSUME Sequential, ReadWhereRefreshed
  PROVE  IInv /\ PoolInv /\ [Next]_vars => PoolInv'
<1> SUFFICES ASSUME IInv, PoolInv, [Next]_vars PROVE PoolInv'
  OBVIOUS
<1>1. ASSUME NEW c \in idle \cup held, DropConn(c) \/ ReleaseConn(c) PROVE PoolInv'
  <2>1. UNCHANGED <<policy, cache, req>>
    BY <1>1 DEF DropConn, ReleaseConn, dnsVars
  <2>2. /\ held' \subseteq held
        /\ idle' \subseteq idle \/ (c \in held /\ idle' = idle \cup {c})
    BY <1>1 DEF DropConn, ReleaseConn
  <2> QED
    BY <2>1, <2>2 DEF PoolInv, PoolOf
<1>2. CASE Tick \/ UNCHANGED vars
  BY <1>2 DEF Tick, vars, dnsVars, poolVars, PoolInv
<1> QED
  BY <1>1, <1>2, PrepareKeepsPool, LookupKeepsPool, StoreKeepsPool, SendKeepsPool,
     AnswerKeepsPool
  DEF Next, OwnStep

(* prepareRequest's flush (lines 154-156) is enough when executions do    *)
(* not overlap and bodies are read at once where the address may change:  *)
(* every request goes over a connection to the address its own DNS        *)
(* decision named, through redirects, failed lookups and refreshes.       *)
THEOREM ConnectionFollows ==
  ASSUME Sequential, ReadWhereRefreshed
  PROVE  Spec => []ConnFollowsDecision
<1>1. Init => PoolInv
  BY DEF Init, IdleRequest, PoolInv, PoolOf, LookingUp, OnConn, HasAddr
<1>2. PoolInv => ConnFollowsDecision
  BY DEF PoolInv, PoolOf, OnConn, HasAddr, ConnFollowsDecision
<1> QED
  BY <1>1, <1>2, NextPool, Inductive, PTL DEF Spec

----------------------------------------------------------------------------
(* SingleLookup: while the one execution looks up, nothing is cached.     *)
SingleInv ==
  policy.Mode = "SingleLookup" =>
    \A r \in Requests : LookingUp(req[r]) => cache.ans = NoAnswer

(* It is inductive.                                                       *)
LEMMA NextSingle ==
  ASSUME Sequential
  PROVE  IInv /\ SingleInv /\ [Next]_vars => SingleInv'
<1> SUFFICES ASSUME IInv, SingleInv, [Next]_vars, policy'.Mode = "SingleLookup",
                    NEW q \in Requests, LookingUp(req'[q])
             PROVE  cache'.ans = NoAnswer
  BY DEF SingleInv
<1>1. req \in [Requests -> Request] /\ req[q] \in Request /\ policy' = policy
  BY DEF IInv, TypeOK, Next, OwnStep, Tick, Begin, ResolveDirect, ResolveCached,
         ResolveMiss, JoinLookup, StoreResult, ReturnLookupError, ConsumeGuard, Flush,
         Reuse, Dial, Observe, Fail, Respond, Redirect, Report, LookupOK, LookupError,
         DropConn, ReleaseConn, vars
<1>2. ASSUME UNCHANGED cache, LookingUp(req[q]) PROVE cache'.ans = NoAnswer
  BY <1>1, <1>2 DEF SingleInv
<1>3. CASE ResolveMiss(q)
  BY <1>1, <1>3 DEF ResolveMiss, MustLookup, Expiry, dnsVars
<1>4. CASE JoinLookup(q)
  BY <1>1, <1>2, <1>4 DEF JoinLookup, LookingUp
<1>5. ASSUME NEW h \in flights, LookupOK(h) \/ LookupError(h) PROVE cache'.ans = NoAnswer
  BY <1>1, <1>2, <1>5 DEF LookupOK, LookupError, Waiting, LookingUp
<1>6. ASSUME \/ Tick \/ UNCHANGED vars
             \/ \E c \in idle \cup held : DropConn(c) \/ ReleaseConn(c)
      PROVE  cache'.ans = NoAnswer
  BY <1>2, <1>6 DEF Tick, vars, DropConn, ReleaseConn, dnsVars
<1>7. ASSUME \/ Begin(q) \/ ResolveDirect(q) \/ ResolveCached(q) \/ StoreResult(q)
             \/ ReturnLookupError(q) \/ ConsumeGuard(q) \/ Flush(q) \/ Reuse(q) \/ Dial(q)
             \/ Observe(q) \/ Fail(q) \/ Report(q)
             \/ \E out \in {"ok", "5xx"} : Respond(q, out)
             \/ \E h \in Hosts : Redirect(q, h)
      PROVE  FALSE
  <2>1. req'[q].pc \in {"resolve", "consume", "flush", "send", "wait", "observe",
                        "report", "idle"}
    <3>1. CASE \/ Begin(q) \/ ResolveDirect(q) \/ ResolveCached(q) \/ StoreResult(q)
               \/ ReturnLookupError(q) \/ Flush(q) \/ Observe(q) \/ Fail(q)
      BY <1>1, <3>1 DEF Request, Begin, ResolveDirect, ResolveCached, StoreResult,
         ReturnLookupError, Flush, Observe, Fail
    <3>2. CASE ConsumeGuard(q)
      BY <1>1, <3>2 DEF Request, ConsumeGuard
    <3>3. CASE Reuse(q)
      BY <1>1, <3>3 DEF Request, Reuse
    <3>4. CASE Dial(q)
      BY <1>1, <3>4 DEF Request, Dial
    <3>5. CASE Report(q)
      BY <1>1, <3>5 DEF Request, IdleRequest, Report
    <3>6. CASE \E out \in {"ok", "5xx"} : Respond(q, out)
      BY <1>1, <3>6 DEF Request, Respond
    <3>7. CASE \E h \in Hosts : Redirect(q, h)
      BY <1>1, <3>7 DEF Request, IdleRequest, Redirect
    <3> QED
      BY <1>7, <3>1, <3>2, <3>3, <3>4, <3>5, <3>6, <3>7
  <2> QED
    BY <2>1 DEF LookingUp
<1>8. \A r \in Requests : r = q
  BY DEF Sequential
<1> QED
  BY <1>3, <1>4, <1>5, <1>6, <1>7, <1>8 DEF Next, OwnStep

(* Under SingleLookup the first address resolveSingle caches is the one   *)
(* every later execution is given, as long as executions do not overlap.  *)
THEOREM OneAddress ==
  ASSUME Sequential
  PROVE  Spec => SingleAddress
<1>1. Init => SingleInv
  BY DEF Init, IdleRequest, SingleInv, LookingUp
<1>2. IInv /\ SingleInv /\ [Next]_vars =>
        (policy.Mode = "SingleLookup" /\ cache.ans # NoAnswer => cache'.ans = cache.ans)
  <2> SUFFICES ASSUME SingleInv, [Next]_vars, policy.Mode = "SingleLookup",
                      cache.ans # NoAnswer
               PROVE  UNCHANGED cache
    OBVIOUS
  <2>1. ASSUME NEW r \in Requests, StoreResult(r) PROVE FALSE
    BY <2>1 DEF StoreResult, SingleInv, LookingUp
  <2> QED
    BY <2>1 DEF Next, OwnStep, Tick, Begin, ResolveDirect, ResolveCached,
         ResolveMiss, JoinLookup, ReturnLookupError, ConsumeGuard, Flush,
         Reuse, Dial, Observe, Fail, Respond, Redirect, Report, LookupOK, LookupError,
         DropConn, ReleaseConn, vars, dnsVars
<1> QED
  BY <1>1, <1>2, NextSingle, Inductive, PTL DEF Spec, SingleAddress
============================================================================

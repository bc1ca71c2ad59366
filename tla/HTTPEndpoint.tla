--------------------------- MODULE HTTPEndpoint ---------------------------
(***************************************************************************)
(* One HTTPEndpoint and its dnsPolicyManager: httpRequest.Execute runs    *)
(* concurrently in any number of goroutines, each going through the       *)
(* policyTransport (prepareRequest, resolve, lookup), the http.Transport  *)
(* with its idle connections, and observeResult.                          *)
(*                                                                        *)
(* One action is one critical section of m.mu, one call of the shared     *)
(* singleflight group, or one interaction with the transport; what a      *)
(* goroutine reads before an unlock it keeps in its own record.           *)
(***************************************************************************)
EXTENDS DNSPolicy, FiniteSets

CONSTANTS
  Requests,      \* concurrently running executions of the endpoint's task
  Hosts,         \* host names: the endpoint's and those it may redirect to
  EndpointHost,  \* URL.Hostname() of the endpoint
  NoHost,        \* the host of "no answer"
  Policies,      \* DNS policies the user may configure
  TTLs,          \* TTLs the resolver may return
  FastPolicies,  \* the policies of endpoints that have OptReadFast set
  MaxTime,       \* bound on the clock
  MaxRedirects   \* redirects http.Client follows (10 in net/http)

ASSUME HostAssumption == EndpointHost \in Hosts /\ NoHost \notin Hosts
ASSUME PolicyAssumption == Policies \subseteq DNSPolicyType
ASSUME TTLAssumption == TTLs \subseteq Int
ASSUME ReadFastAssumption == FastPolicies \subseteq Policies
ASSUME BoundAssumption == MaxTime \in Nat \ {0} /\ MaxRedirects \in Nat

VARIABLES
  policy,        \* m.policy, validated by Initialize and constant after it
  clock,         \* time.Now()
  cache,         \* m.cache
  cadenceNext,   \* m.cadenceNext
  guard,         \* m.guard and m.forceLookup
  lastDecision,  \* m.lastDecision: how the last failed resolution ended
  flights,       \* hosts with a lookup in progress in m.lookupGroup
  req,           \* the local state of each execution
  idle,          \* idle connections of the http.Transport
  held,          \* connections whose response body nobody has read yet
  owedFlush,     \* history: the guard tripped, no flush has followed
  owedLookup     \* history: the same with ForceLookup, no lookup has been begun
                 \* or joined

dnsVars == <<cache, cadenceNext, flights>>
poolVars == <<idle, held>>
historyVars == <<owedFlush, owedLookup>>
vars == <<policy, clock, cache, cadenceNext, guard, lastDecision, flights, req,
          idle, held, owedFlush, owedLookup>>

(* What a lookup returned: for which host, when it completed, with which  *)
(* TTL.  An answer stands for its address list; two answers are equal     *)
(* only if they come from the same lookup.                                *)
Answer == [host : Hosts, at : 1..MaxTime, ttl : TTLs]
NoAnswer == [host |-> NoHost, at |-> 0, ttl |-> 0]
AnswerOrNone == Answer \cup {NoAnswer}

(* A connection of the pool: http.Transport keys it by the URL's host;    *)
(* addr is where it was dialled (NoAnswer: wherever the dialer's own      *)
(* resolution or StaticAddr led).  Idle connections that agree on both    *)
(* are interchangeable and one stands for all of them.                    *)
Conn == [host : Hosts, addr : AnswerOrNone]
NoConn == [host |-> NoHost, addr |-> NoAnswer]

(* How the last failed resolution ended, if one has.                      *)
Decision == {"nil", "fallback", "hard"}

PC == {"idle", "resolve", "join", "lookup", "store", "failed", "consume",
       "flush", "send", "wait", "observe", "report"}

Request ==
  [ pc      : PC,
    host    : Hosts,             \* req.URL.Hostname()
    hops    : 0..MaxRedirects,   \* redirects followed
    now     : 0..MaxTime,        \* the clock reading in use
    addr    : AnswerOrNone,      \* cached, then the address dialled
    fresh   : BOOLEAN,           \* outcome.forceNewConn
    conn    : Conn \cup {NoConn},
    out     : {"none", "ok", "5xx", "err"} ]

IdleRequest ==
  [ pc |-> "idle", host |-> EndpointHost, hops |-> 0, now |-> 0, addr |-> NoAnswer,
    fresh |-> FALSE, conn |-> NoConn, out |-> "none" ]

dnsCacheEntry == [ans : AnswerOrNone, expiresAt : Int]

TypeOK ==
  /\ policy \in Policies
  /\ clock \in 1..MaxTime
  /\ cache \in dnsCacheEntry
  /\ cadenceNext \in Int
  /\ guard \in GuardRailState
  /\ lastDecision \in Decision
  /\ flights \in SUBSET Hosts
  /\ req \in [Requests -> Request]
  /\ idle \in SUBSET Conn
  /\ held \in SUBSET Conn
  /\ owedFlush \in BOOLEAN
  /\ owedLookup \in BOOLEAN

(* newDNSPolicyManager, called by Initialize once the policy validates.   *)
Init ==
  /\ policy \in {p \in Policies : Validate(p)}
  /\ clock = 1
  /\ cache = [ans |-> NoAnswer, expiresAt |-> ZeroTime]
  /\ cadenceNext = ZeroTime
  /\ guard = NewGuard
  /\ lastDecision = "nil"
  /\ flights = {}
  /\ req = [r \in Requests |-> IdleRequest]
  /\ idle = {} /\ held = {}
  /\ owedFlush = FALSE /\ owedLookup = FALSE

Tick ==
  /\ clock < MaxTime
  /\ clock' = clock + 1
  /\ UNCHANGED <<policy, dnsVars, guard, lastDecision, req, poolVars, historyVars>>

----------------------------------------------------------------------------
(* Preparing the request.                                                 *)

(* Execute calls client.Do, which calls RoundTrip; resolve reads the      *)
(* clock before it takes the lock.                                        *)
Begin(r) ==
  /\ req[r].pc = "idle"
  /\ req' = [req EXCEPT ![r] = [@ EXCEPT !.pc = "resolve", !.now = clock]]
  /\ UNCHANGED <<policy, clock, dnsVars, guard, lastDecision, poolVars, historyVars>>

(* Modes that look nothing up: no dial plan (Default) or StaticAddr.      *)
ResolveDirect(r) ==
  /\ req[r].pc = "resolve"
  /\ policy.Mode \in {"Default", "Static"}
  /\ req' = [req EXCEPT ![r].pc = "consume"]
  /\ UNCHANGED <<policy, clock, dnsVars, guard, lastDecision, poolVars, historyVars>>

(* The moment at which the cached address expires; ZeroTime is never.     *)
Expiry == CASE policy.Mode = "TTL"     -> cache.expiresAt
            [] policy.Mode = "Cadence" -> cadenceNext
            [] OTHER                   -> ZeroTime

(* Mutant: the guard rail's flag is not consulted.                        *)
MustLookup_IgnoresForce(now) ==
  cache.ans = NoAnswer \/ (Expiry # ZeroTime /\ now > Expiry)

(* Mutant: the zero time counts as expired.                               *)
MustLookup_ZeroExpires(now) ==
  cache.ans = NoAnswer \/ guard.forceLookup \/ now > Expiry

(* The condition computed in the locked prologue.  resolveSingle looks    *)
(* only at the cache.                                                     *)
MustLookup(now) ==
  \/ cache.ans = NoAnswer
  \/ policy.Mode # "SingleLookup" /\ guard.forceLookup
  \/ Expiry # ZeroTime /\ now > Expiry

(* TTL and Cadence clear the flag in the prologue, whether or not it was  *)
(* set and whatever comes of the lookup.                                  *)
ClearForceLookup ==
  guard' = IF policy.Mode = "SingleLookup" THEN guard
           ELSE [guard EXCEPT !.forceLookup = FALSE]

(* The locked prologue of resolveSingle, resolveTTL and resolveCadence    *)
(* finds an address it may use.                                           *)
ResolveCached(r) ==
  /\ req[r].pc = "resolve"
  /\ policy.Mode \in {"SingleLookup", "TTL", "Cadence"}
  /\ ~MustLookup(req[r].now)
  /\ ClearForceLookup
  /\ req' = [req EXCEPT ![r] = [@ EXCEPT !.pc = "consume", !.addr = cache.ans]]
  /\ UNCHANGED <<policy, clock, dnsVars, lastDecision, poolVars, historyVars>>

(* The same prologue decides on a lookup, keeping the cache it saw.       *)
ResolveMiss(r) ==
  /\ req[r].pc = "resolve"
  /\ policy.Mode \in {"SingleLookup", "TTL", "Cadence"}
  /\ MustLookup(req[r].now)
  /\ ClearForceLookup
  /\ req' = [req EXCEPT ![r] = [@ EXCEPT !.pc = "join", !.addr = cache.ans]]
  /\ UNCHANGED <<policy, clock, dnsVars, lastDecision, poolVars, historyVars>>

(* lookupGroup.DoChan: start a lookup of the host or share the one in     *)
(* progress.                                                              *)
JoinLookup(r) ==
  /\ req[r].pc = "join"
  /\ req' = [req EXCEPT ![r].pc = "lookup"]
  /\ flights' = flights \cup {req[r].host}
  /\ owedLookup' = FALSE
  /\ UNCHANGED <<policy, clock, cache, cadenceNext, guard, lastDecision, poolVars, owedFlush>>

(* The requests that share the lookup of h.                               *)
Waiting(h) == {r \in Requests : req[r].pc = "lookup" /\ req[r].host = h}

(* The resolver answers, and every waiting request receives the answer.   *)
LookupOK(h) ==
  /\ h \in flights
  /\ flights' = flights \ {h}
  /\ \E ttl \in TTLs :
       req' = [r \in Requests |->
                 IF r \in Waiting(h)
                 THEN [req[r] EXCEPT !.pc = "store",
                                     !.addr = [host |-> h, at |-> clock, ttl |-> ttl]]
                 ELSE req[r]]
  /\ UNCHANGED <<policy, clock, cache, cadenceNext, guard, lastDecision, poolVars, historyVars>>

(* The resolver fails, returns no address, or runs into the 5s timeout.   *)
LookupError(h) ==
  /\ h \in flights
  /\ flights' = flights \ {h}
  /\ req' = [r \in Requests |->
               IF r \in Waiting(h) THEN [req[r] EXCEPT !.pc = "failed"] ELSE req[r]]
  /\ UNCHANGED <<policy, clock, cache, cadenceNext, guard, lastDecision, poolVars, historyVars>>

(* Mutant: expiry counts from the time of the store.                      *)
NewEntry_FromStore(r) ==
  [ ans       |-> req[r].addr,
    expiresAt |-> IF policy.Mode = "TTL"
                  THEN clock + Lifetime(policy, req[r].addr.ttl)
                  ELSE ZeroTime ]

(* The cache entry a request writes after a successful lookup.  Expiry    *)
(* counts from the clock read before the lookup.                          *)
NewEntry(r) ==
  [ ans       |-> req[r].addr,
    expiresAt |-> IF policy.Mode = "TTL"
                  THEN req[r].now + Lifetime(policy, req[r].addr.ttl)
                  ELSE ZeroTime ]

(* The locked store at the end of the three resolve functions.            *)
StoreResult(r) ==
  /\ req[r].pc = "store"
  /\ cache' = NewEntry(r)
  /\ cadenceNext' = IF policy.Mode = "Cadence" THEN req[r].now + policy.Cadence
                    ELSE cadenceNext
  /\ req' = [req EXCEPT ![r] = [@ EXCEPT !.pc = "consume", !.fresh = TRUE]]
  /\ UNCHANGED <<policy, clock, guard, lastDecision, flights, poolVars, historyVars>>

(* Whether a failed refresh is reported as served from the cache.         *)
FallsBack(r) ==
  /\ policy.Mode \in {"TTL", "Cadence"}
  /\ req[r].addr # NoAnswer
  /\ fallbackEnabled(policy)

(* Mutant: a failed lookup is tried again until it succeeds.              *)
ReturnLookupError_Retries(r) ==
  /\ req[r].pc = "failed"
  /\ req' = [req EXCEPT ![r].pc = "join"]
  /\ UNCHANGED <<policy, clock, dnsVars, guard, lastDecision, poolVars, historyVars>>

(* prepareRequest after a failed lookup: the decision is stored for error *)
(* reporting and, with or without a fallback address, an error is         *)
(* returned, which RoundTrip passes on without sending anything.          *)
ReturnLookupError(r) ==
  /\ req[r].pc = "failed"
  /\ LET kind == IF FallsBack(r) THEN "fallback" ELSE "hard"
     IN  /\ lastDecision' = kind
         /\ req' = [req EXCEPT ![r] = [@ EXCEPT !.pc = "observe", !.now = clock,
                                                !.out = "err"]]
  /\ UNCHANGED <<policy, clock, dnsVars, guard, poolVars, historyVars>>

(* Mutant: only the guard rail flushes, a refreshed address does not.     *)
ConsumeGuard_NoRefreshFlush(r) ==
  /\ req[r].pc = "consume"
  /\ guard' = consumeGuardTrigger(guard)
  /\ req' = [req EXCEPT ![r].pc = IF GuardActs(policy, guard) THEN "flush" ELSE "send"]
  /\ UNCHANGED <<policy, clock, dnsVars, lastDecision, poolVars, historyVars>>

(* consumeGuardTrigger, and prepareRequest's decision to flush.           *)
ConsumeGuard(r) ==
  /\ req[r].pc = "consume"
  /\ guard' = consumeGuardTrigger(guard)
  /\ LET flush == req[r].fresh \/ GuardActs(policy, guard)
     IN  req' = [req EXCEPT ![r] = [@ EXCEPT !.pc = IF flush THEN "flush" ELSE "send",
                                             !.fresh = flush]]
  /\ UNCHANGED <<policy, clock, dnsVars, lastDecision, poolVars, historyVars>>

(* transport.CloseIdleConnections().                                      *)
Flush(r) ==
  /\ req[r].pc = "flush"
  /\ idle' = {}
  /\ owedFlush' = FALSE
  /\ req' = [req EXCEPT ![r].pc = "send"]
  /\ UNCHANGED <<policy, clock, dnsVars, guard, lastDecision, held, owedLookup>>

----------------------------------------------------------------------------
(* Sending it: the http.Transport and the server.                         *)

(* base.RoundTrip takes an idle connection of the URL's host if it has    *)
(* one, whatever the dial plan says.                                      *)
Reuse(r) ==
  /\ req[r].pc = "send"
  /\ \E c \in idle :
       /\ c.host = req[r].host
       /\ idle' = idle \ {c}
       /\ req' = [req EXCEPT ![r] = [@ EXCEPT !.pc = "wait", !.conn = c]]
  /\ UNCHANGED <<policy, clock, dnsVars, guard, lastDecision, held, historyVars>>

(* Otherwise it dials, and dialContext replaces the address by the plan's *)
(* target.                                                                *)
Dial(r) ==
  /\ req[r].pc = "send"
  /\ \A c \in idle : c.host # req[r].host
  /\ req' = [req EXCEPT ![r] = [@ EXCEPT !.pc = "wait",
                                         !.conn = [host |-> req[r].host, addr |-> req[r].addr]]]
  /\ UNCHANGED <<policy, clock, dnsVars, guard, lastDecision, poolVars, historyVars>>

(* client.Do returns an error: the dial or the exchange failed, or there  *)
(* were too many redirects.  The connection, if any, is gone.             *)
Fail(r) ==
  /\ req[r].pc \in {"send", "wait"}
  /\ req' = [req EXCEPT ![r] = [@ EXCEPT !.pc = "observe", !.now = clock,
                                         !.conn = NoConn, !.out = "err"]]
  /\ UNCHANGED <<policy, clock, dnsVars, guard, lastDecision, poolVars, historyVars>>

(* client.Do returns a response; observeResult reads the clock.           *)
Respond(r, out) ==
  /\ req[r].pc = "wait"
  /\ req' = [req EXCEPT ![r] = [@ EXCEPT !.pc = "observe", !.now = clock, !.out = out]]
  /\ UNCHANGED <<policy, clock, dnsVars, guard, lastDecision, poolVars, historyVars>>

(* Mutant: redirects are followed without limit.                          *)
Redirect_Unlimited(r, h) ==
  /\ req[r].pc = "wait"
  /\ idle' = idle \cup {req[r].conn}
  /\ req' = [req EXCEPT ![r] = [IdleRequest EXCEPT !.pc = "resolve", !.host = h,
                                                   !.hops = req[r].hops + 1,
                                                   !.now = clock]]
  /\ UNCHANGED <<policy, clock, dnsVars, guard, lastDecision, held, historyVars>>

(* The server redirects to host h: http.Client disposes of the response,  *)
(* so that its connection is idle again, and calls RoundTrip anew.        *)
Redirect(r, h) ==
  /\ req[r].pc = "wait"
  /\ req[r].hops < MaxRedirects
  /\ idle' = idle \cup {req[r].conn}
  /\ req' = [req EXCEPT ![r] = [IdleRequest EXCEPT !.pc = "resolve", !.host = h,
                                                   !.hops = req[r].hops + 1,
                                                   !.now = clock]]
  /\ UNCHANGED <<policy, clock, dnsVars, guard, lastDecision, held, historyVars>>

(* A connection is closed by the server, by its idle timeout, or because  *)
(* the consumer closes a response without reading it.                     *)
DropConn(c) ==
  \/ /\ c \in idle
     /\ idle' = idle \ {c}
     /\ UNCHANGED held
     /\ UNCHANGED <<policy, clock, dnsVars, guard, lastDecision, req, historyVars>>
  \/ /\ c \in held
     /\ held' = held \ {c}
     /\ UNCHANGED idle
     /\ UNCHANGED <<policy, clock, dnsVars, guard, lastDecision, req, historyVars>>

(* The consumer reads a response to its end: its connection is idle.      *)
ReleaseConn(c) ==
  /\ c \in held
  /\ held' = held \ {c}
  /\ idle' = idle \cup {c}
  /\ UNCHANGED <<policy, clock, dnsVars, guard, lastDecision, req, historyVars>>

----------------------------------------------------------------------------
(* Observing and reporting the outcome.                                   *)

(* observeResult from its lock on: a failure counts, anything else        *)
(* resets.                                                                *)
Observe(r) ==
  /\ req[r].pc = "observe"
  /\ LET failed == req[r].out \in {"err", "5xx"}
         trips  == failed /\ Trips(policy, guard, req[r].now)
     IN  /\ guard' = IF failed THEN registerGuardFailure(policy, guard, req[r].now)
                     ELSE IF Enabled(policy) THEN resetGuard(guard) ELSE guard
         /\ owedFlush' = (owedFlush \/ trips)
         /\ owedLookup' = (owedLookup \/ (trips /\ policy.Action = "ForceLookup"))
  /\ req' = [req EXCEPT ![r].pc = "report"]
  /\ UNCHANGED <<policy, clock, dnsVars, lastDecision, poolVars>>

(* The decision a response carries: an error takes the manager's last     *)
(* one, a response the one in its own request's context ("nil" here: it   *)
(* did not fail).                                                         *)
ReportedDecision(r) == IF req[r].out = "err" THEN lastDecision ELSE "nil"

OptReadFast == policy \in FastPolicies

(* Execute sends the response and returns.  With OptReadFast the body has *)
(* been read and the connection is idle; otherwise the consumer holds it. *)
Report(r) ==
  /\ req[r].pc = "report"
  /\ idle' = IF OptReadFast /\ req[r].out # "err" THEN idle \cup {req[r].conn} ELSE idle
  /\ held' = IF ~OptReadFast /\ req[r].out # "err" THEN held \cup {req[r].conn} ELSE held
  /\ req' = [req EXCEPT ![r] = IdleRequest]
  /\ UNCHANGED <<policy, clock, dnsVars, guard, lastDecision, historyVars>>

----------------------------------------------------------------------------
(* The steps an execution takes on its own, without waiting for the       *)
(* resolver, the server or the reader of the response channel.            *)
OwnStep(r) ==
  \/ ResolveDirect(r) \/ ResolveCached(r) \/ ResolveMiss(r)
  \/ JoinLookup(r) \/ StoreResult(r) \/ ReturnLookupError(r)
  \/ ConsumeGuard(r) \/ Flush(r) \/ Reuse(r) \/ Dial(r)
  \/ Observe(r)

Next ==
  \/ Tick
  \/ \E r \in Requests :
       \/ Begin(r)
       \/ OwnStep(r)
       \/ Fail(r)
       \/ \E out \in {"ok", "5xx"} : Respond(r, out)
       \/ \E h \in Hosts : Redirect(r, h)
       \/ Report(r)
  \/ \E h \in flights : LookupOK(h) \/ LookupError(h)
  \/ \E c \in idle \cup held : DropConn(c) \/ ReleaseConn(c)

Spec == Init /\ [][Next]_vars

(* Goroutines run, the dialer has a timeout of 5s, and a lookup ends with *)
(* its 5s context.  Nothing bounds how long a server may take to answer   *)
(* (http.Client has no Timeout) or a full response channel may block, so  *)
(* neither is assumed.                                                    *)
Fairness ==
  /\ \A r \in Requests : WF_vars(OwnStep(r))
  /\ \A h \in Hosts : WF_vars(LookupOK(h) \/ LookupError(h))

FairSpec == Spec /\ Fairness

----------------------------------------------------------------------------
(* What the code promises.                                                *)

(* Between the resolve functions' return and the answer to the request.   *)
Prepared(r) == req[r].pc \in {"consume", "flush", "send", "wait"}

(* No request is sent to an address that had outlived its TTL (clamped    *)
(* by TTLMin and TTLMax) or the cadence when the request was prepared,    *)
(* however lookups, stores and cache reads of concurrent requests         *)
(* interleave: a shared answer arrives after its receiver read the clock, *)
(* and a store that overtakes a newer one carries its own, older, expiry. *)
FreshAddress ==
  \A r \in Requests :
    Prepared(r) /\ policy.Mode \in {"TTL", "Cadence"} =>
      /\ req[r].addr # NoAnswer
      /\ req[r].now <= req[r].addr.at + Lifetime(policy, req[r].addr.ttl)

(* Once the guard rail trips, idle connections are dropped before long:   *)
(* until a flush happens either the trigger is still set, so that the     *)
(* next prepared request flushes, or a request is about to.  Successes    *)
(* that reset the counters and failed lookups in between lose nothing.    *)
FlushNotLost ==
  owedFlush => \/ guard.triggered
               \/ \E r \in Requests : req[r].pc = "flush"

(* dns_policy.go:40, README.md:147: a trip with ForceLookup forces a      *)
(* lookup on next use.  What the code keeps of this: while the lookup is  *)
(* owed, an execution is served from the cache only if another one has    *)
(* taken the flag in its locked prologue (line 247) and has yet to call   *)
(* DoChan (line 405).  The flag is never lost, whatever successes,        *)
(* failures and trips come in between; with executions that do not        *)
(* overlap the next one always looks up.                                  *)
ForcedLookup ==
  [][\A r \in Requests :
       ResolveCached(r) /\ owedLookup => \E q \in Requests \ {r} : req[q].pc = "join"]_vars

(* A request sent over a pooled connection goes to the address its own    *)
(* DNS decision named (prepareRequest flushes idle connections whenever   *)
(* the address may have changed, lines 154-156): nothing reaches the      *)
(* address of an earlier refresh.                                         *)
ConnFollowsDecision ==
  \A r \in Requests : req[r].pc = "wait" => req[r].conn.addr = req[r].addr

(* dns_policy.go:23: SingleLookup "performs a single DNS lookup ... and   *)
(* reuses it indefinitely": the address once cached never changes.        *)
SingleAddress ==
  [][policy.Mode = "SingleLookup" /\ cache.ans # NoAnswer => cache'.ans = cache.ans]_vars

(* An execution never hangs in the policy manager: whatever the resolver  *)
(* does and whoever shares its lookup, it gets on the wire or has its     *)
(* outcome to report.                                                     *)
ResolutionEnds ==
  \A r \in Requests :
    (req[r].pc = "resolve") ~> (req[r].pc \in {"wait", "report"})

----------------------------------------------------------------------------
(* What the README says and the code does not do.                         *)

(* README.md:160: FallbackUsed means that "DNS failed but request         *)
(* completed with cached address" (README.md:141: "Failed refreshes reuse *)
(* the cached address by default").                                       *)
FallbackCompletes ==
  \A r \in Requests :
    req[r].pc = "report" /\ ReportedDecision(r) = "fallback" => req[r].conn # NoConn
============================================================================

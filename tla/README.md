# A TLA+ model of wadjit

wadjit polls HTTP and WebSocket endpoints on a schedule and hands the responses
to its user through one channel. This directory models the parts of it in which
goroutines meet: the DNS policy manager behind an HTTP endpoint, the guard rail
inside it, the resolver below it, the responses it hands out, the WebSocket endpoint
in both its modes, the manager with its channels, and the shutdown in which the last
two meet. TLC checks the modules on small instances; TLAPS proves every safety property
of the passing runs, and the refinement, for every instance.

File names and line numbers below are those of the repository (`src/`).

## 1. Inventory

| Component | State | Operations | What makes it correct |
|---|---|---|---|
| DNS policy (`dns_policy.go`) | immutable record | `Validate`, `normalizeTTL`, `Enabled`, `fallbackEnabled` | a clamped TTL respects `TTLMin` and `TTLMax` |
| Guard rail (`dns_policy_manager.go` 22-43, 465-530) | `guardRailState`, `forceLookup`, under `m.mu` | `registerGuardFailure`, `resetGuard`, `consumeGuardTrigger`, the prologue of `resolveTTL` and `resolveCadence` | trips after Threshold consecutive failures, none later than Window after the first, and not before; what a trip owes is done |
| DNS policy manager and HTTP endpoint (`dns_policy_manager.go`, `task_http.go`) | `cache`, `cadenceNext`, `lookupGroup`, `lastDecision`; the transport's idle connections | `prepareRequest`, `resolve*`, `lookup`, `RoundTrip`, `dialContext`, `observeResult`, `httpRequest.Execute` | no address outlives its TTL; no execution hangs on a shared lookup; connections follow decisions |
| Watcher (`watcher.go`, `task.go`) | `doneChan`, tasks | `Validate`, `start`, `job`, `close` | `doneChan` is closed once |
| Manager (`wadjit.go`) | `watchers`, the task manager's jobs, `respGatherChan`, `respExportChan`, `ctx`, `closeOnce`, `closeWG` | `AddWatcher(s)`, `RemoveWatcher`, `Clear`, `Pause`, `Resume`, `Close`, `listenForResponses`, `Responses` | responses form a FIFO stream; registry and jobs agree; `Close` returns |
| WebSocket endpoint, persistent (`task_ws.go`) | `conn`, `mu`, `ctx`, `inflightMsgs`, `wg` | `connect`, `reconnect`, `wsPersistent.Execute`, `readPump`, `closeConn`, `Close` | one reader per connection; each request answered at most once; a broken connection is noticed; nothing sent after `Close` |
| One-hit WebSocket task (`task_ws.go` 535-652) | shares `mu`, `ctx` with the endpoint | `wsOneHit.Execute` | one response per execution; does not keep the endpoint from closing |
| HTTP responses (`response.go`) | body, `once`, `dataOnce`, `data`, `dataErr`, `usedReader` | `Data`, `Reader` and its stream, `Close`, `Metadata` | all callers get the same data; a part never passes for the whole; the body is closed |
| Request timing (`timing.go`, `task_http.go` 206-286) | `traceTimes`, `timestamps` | the trace's callbacks, `snapshot`, `TimeDataFromTimestamps`, `timedReadCloser` | the durations fit together |
| TTL resolver (`dns_resolver.go`) | `cfg`, read once | `Lookup`, `lookupWithTTL`, `queryType`, `parseAnswers` | the TTL is the smallest of the answers' (zeros aside); one bad server costs nothing but its turn |
| Options, logging, examples | configuration | setters | not modelled |

**Interaction.** `AddWatcher` registers a watcher, initializes its tasks with the
send end of `respGatherChan`, and gives a job to the external task manager
(taskman). Its workers run the tasks' `Execute` in goroutines of their own; an
HTTP execution goes through `policyTransport.RoundTrip` into the policy manager
and the `http.Transport`; a WebSocket execution writes a message and the
endpoint's read pump delivers the answer. Both send a response on
`respGatherChan`; `listenForResponses` forwards it to `respExportChan`.
Executions of one endpoint overlap when one takes longer than the cadence.

**What is hard to test.** Everything that lies between an unlock and the next
lock: the copy of the cache in `resolveTTL`, the trigger between `registerGuardFailure`
and `CloseIdleConnections`, `e.conn` between `nilConn` and `lock`; several
executions sharing one lookup or one reconnect; several consumers of one response;
the order in which `Close` cancels, stops and closes, and the pumps it does not
wait for; failures of one step out of several. `PROJECT.json` lists these
hazards line by line, with the properties aimed at them.

## 2. Modules

| Module | Models | Checked by | Proved in |
|---|---|---|---|
| `DNSPolicy` | policy record and guard bookkeeping as pure operators | (used by the two below) | `DNSPolicyTheorems` |
| `GuardRail` | the guard under any number of reporting goroutines | `MCGuardRail` | `GuardRailProofs` |
| `HTTPEndpoint` | policy manager, transport and executions | `MCHTTPEndpoint` | `HTTPEndpointProofs` |
| `ResponseStream` | abstract: what `Responses()` promises | (refined by `Wadjit`) | (refinement in `WadjitProofs`) |
| `Wadjit` | manager, watchers, workers, both channels | `MCWadjit` | `WadjitProofs` |
| `WSEndpoint` | WebSocket endpoint in both modes | itself | `WSEndpointProofs` |
| `WSShutdown` | composition: `WSEndpoint` with the gather channel and `Wadjit.Close` | itself | `WSShutdownProofs` |
| `HTTPTaskResponse` | the response to one HTTP request, from its trace to its consumers | itself | `HTTPTaskResponseProofs` |
| `TTLResolver` | the default resolver | itself | `TTLResolverProofs` |

`HTTPEndpoint` and `GuardRail` share the operators of `DNSPolicy`, so what is
proved about guard bookkeeping is proved once. Definitions named
`Something_Word` are mutants: plausible bugs that stand next to the definition
they change and are used only to show that a property notices them.

### DNSPolicy
Durations are integers, moments are naturals, `ZeroTime` is Go's zero time. The guard
is a record (`count`, `firstFailure`, `triggered`, `forceLookup`), and
`registerGuardFailure`, `resetGuard` and `consumeGuardTrigger` map one guard
state to the next, since each is one critical section.

### GuardRail
`observeResult` reads the clock before the lock is taken (line 470 against 484), so
it is one action and the registration another: registrations overtake each
other and carry old times. `streak`, a history variable, records the failures since the
last success or trip, each with its time and the goroutine that reported it.

### HTTPEndpoint
An execution is a record with a program counter. One action is one critical section
of `m.mu`, one interaction with the singleflight group, or one with the
transport.

| Actions | Code |
|---|---|
| `Begin`, `Report` | `httpRequest.Execute` |
| `ResolveDirect` | `resolve` for Default and Static |
| `ResolveCached`, `ResolveMiss` | the locked prologue of `resolveSingle`, `resolveTTL`, `resolveCadence` |
| `JoinLookup`, `LookupOK`, `LookupError` | `lookup`: all who wait get one result |
| `StoreResult`, `ReturnLookupError` | the epilogues and `prepareRequest`'s error path |
| `ConsumeGuard`, `Flush` | the end of `prepareRequest` |
| `Reuse`, `Dial` | `RoundTrip` and `dialContext` |
| `Respond`, `Fail`, `Redirect`, `Observe` | the server, and `observeResult` |
| `DropConn`, `ReleaseConn`, `Tick` | the network, the reader of a body, the clock |

An address is represented by the answer it came from (host, moment, TTL), so two
are equal only if one lookup returned both. Idle connections to one address are
interchangeable. net/http's own retry on a stale idle connection is `DropConn`
followed by `Dial`; a connection that loses the race between dialling and another
becoming idle is not kept. `owedLookup`, a history variable, is set when the guard trips with
ForceLookup and cleared when an execution joins a lookup (`JoinLookup`, line 405), not when the
prologue clears `forceLookup` (`ResolveMiss`, line 251). `lookup`'s `ctx.Done` branch (435-438) cannot
be taken: `Execute` builds its request with a background context. A failed
`NewRequest` and a URL without a port change no state and are left out.

### Wadjit and ResponseStream
One API call runs at a time: TODO.md:11-12 leaves concurrent management of watchers
to the user. A call is a record that walks through the steps of the code,
interleaved with the workers, the listener and the consumer. taskman is external:
`Stop` waits for running tasks, `RemoveJob` does not. An execution is dispatched, has its
response or error at some later time, if ever (`ResponseReady`), and then sends it; what it
does in between is the business of the endpoint modules. Read pumps, which also send on
`respGatherChan`, are left to `WSShutdown`. `InitMayFail` and `CloseMayFail` let tasks fail; `faulted`, a history
variable, holds the IDs that such a failure touched and no removal has repaired since.
The refinement mapping takes `pending` to what is in `respExportChan`, in the listener's
hands and in `respGatherChan`.

### WSEndpoint
`mu` is modelled with its holder; the unlocked accesses to `e.conn` (`reconnect`'s
close at 222, the pump's read at 514) are actions of their own. Using a nil
connection is a panic in a goroutine nobody recovers, which ends the process.
`Modes` are the modes the endpoint may be configured with; `Initialize` turns
`ModeUnknown` into one-hit. `payloadOK` says whether a JSON-RPC request can be made of the
payload; if not, the persistent execution sends an error response with the lock held
(`Respond`). The server may answer late, repeatedly (`DupAnswers`) or never, and may
send what is no answer (`ReceiveJunk`), which costs an error response. A pump deletes
the entry (`Delete`) before it sends (`Deliver`), and the send may take any time.
The one-hit task (`StartOneHit` to `Respond`) keeps a connection of its own, which
nobody else sees, so only its steps and the lock are modelled. A write to a connection that is
not nil may succeed, fail or never end (`WriteStep`); so may the close message of `Close`
succeed or fail, whatever state the connection is in. `raced`, a history variable,
is set when an execution begins to reconnect while another is at it.

### WSShutdown
`WSEndpoint` with the channel its responses go to and the steps of `Wadjit.Close`
around the endpoint's own: cancel, close the endpoint, remove the job, `Stop`, close the
gather channel, wait for the listener. A send needs room in the channel, and a send on
the closed channel ends the process. The consumer keeps reading, so that what the listener takes
it passes on in one step. `Stop` waits for executions and not for pumps.

### HTTPTaskResponse
`Execute` from `GetConn` to the send of the response, then any number of `Data`,
`Reader` and `Close` calls by several goroutines. The body is a row of chunks, each read
by one reader; a connection may break, and reading a closed body is an error. `readBody` is split where
another goroutine can look in between: reading, storing (`dataOnce` is visible), stamping
and closing. `Reader`'s check and its setting of `usedReader` are two
steps. Every stamp is a new instant, so that durations compare as they do with a
clock that never stands still. Empty bodies are left out: reading one succeeds even when
it is closed.

### TTLResolver
One lookup after another over the servers of resolv.conf, for A and then AAAA records. An
answer is any sequence of records up to `MaxRRs` long, addresses or not; an exchange may fail,
with the context's error if that has ended. `first`, a history variable, holds
for each type what the first server with addresses said.

## 3. Runs

| Run | Question | Bounds |
|---|---|---|
| `GuardRail` | Does the guard count consecutive failures and trip at the threshold, and which times may the failures have that it counts? | 2 goroutines, 8 configurations, 5 ticks |
| `HTTPConcurrent` | Is any execution sent to an expired address, any owed flush lost, when is the cache used although a lookup is owed, does every execution leave the policy manager? | 2 executions, 3 policies (one invalid), TTL 0, 2 ticks |
| `HTTPSequential` | Does a pooled connection lead to the address just decided on, and does SingleLookup keep its address? | 1 execution at a time, all modes, TTLs within and above the clamp, 2 hosts, 2 redirects, 4 ticks |
| `WadjitLifecycle` | Is a `doneChan` closed twice, do registry and jobs agree, do responses arrive in order, and what can `Close` wait for without end? | 3 watchers (two share an ID), 2 workers, buffer 1, 2 responses, failing tasks |
| `WSOverlapping` | One reader, no stray connection and one answer as long as reconnects do not overlap; no unread connection, no forgotten entry, broken connections noticed, nothing sent after `Close`? | 2 executions, 2 connections, 2 messages, repeated answers, `Close` at any time |
| `WSShutdown` | With overlapping executions and `Wadjit.Close` at any time: does any execution send on a closed channel, and what can keep `Close` from returning? | 2 executions, both modes, 2 connections, 2 messages, buffer 1 |
| `TaskResponse` | Do all consumers of a response see the same data, is the body closed, do the times fit? | 2 consumers, 5 calls, 2 chunks, 3 hops, with and without `OptReadFast` |
| `TTLResolver` | Is the TTL the minimum (zeros aside), the answer complete, the system resolver last, and does every lookup end? | 2 servers, TTLs 0 to 2, 2 records per answer, 2 lookups |
| `HTTPFallback` | violation: README.md:160 | 1 execution |
| `WadjitCloseHangs` | violation: wadjit.go:199 | buffer 1, 2 workers, 3 responses |
| `WSWriteError` | violation: task_ws.go:719-722 | 1 execution |
| `ResponseReadFast` | violation: response.go:213-214 | 1 consumer, 1 call |

**Why the bounds suffice.** Every hazard listed involves at most two executions and one
more actor. In `HTTPConcurrent` a TTL of zero expires at the next tick, so two ticks let an
address expire while another execution still holds an older reading of the clock, and a
threshold of one lets each execution trip the rail; thresholds of two are covered by
`GuardRail` and `HTTPSequential`, and clamping by a theorem. In the manager, buffer 1 and
two responses fill the gather channel and leave a worker without room; `WadjitCloseHangs`,
with three, also fills the listener's hands. Two connections are enough for a pump and the
reconnect that follows it; `WSOverlapping` was also run with one execution, three connections
and three messages, and with two, three and two (590,000 states), with the same result.
Two chunks tell a part from the whole, and three hops a first, a middle and a last one. Two records of two types with TTLs 0, 1 and 2 give every order of
ignored, lower and higher TTLs; two lookups show what the first leaves to the second
(`cfg`).

**Deadlock** is checked except where the system or its bounds really may stop:
in `GuardRail` a disabled policy has nothing left to do when the clock stands
still; in `WadjitLifecycle`, `WadjitCloseHangs` and `WSShutdown` `Close` may hang, as the
second shows, or servers do not answer; in the WebSocket runs the bounds on messages and connections run out, the
process dies, or the lock is lost; in `TaskResponse`, `ResponseReadFast` and `TTLResolver` the
bounds on calls and lookups run out.

**Fairness.** Goroutines that can run do run. A lookup ends, because
dns_policy_manager.go:408 gives it a context of 5s and the DNS client of the resolver a
timeout, and a dial ends, because the dialers have timeouts. Nothing is
assumed of servers: `http.Client` has no `Timeout`, so nothing is claimed about when a
response or its body ends, and the one-hit read has no deadline. Nothing is assumed of
clients that call the API, nor of whoever reads bodies. Consumption of
`Responses()` is assumed in `WadjitLifecycle`, `WadjitCloseHangs` and `WSShutdown`, as
wadjit.go:237 demands, and that somebody takes responses off the channel in the
WebSocket runs. In `Wadjit` neither an execution's exchange nor a task's own `Close` or
`Initialize` is assumed to end, and `CloseWaitsOnlyFor` names them; only
`WadjitCloseHangs` assumes that they do (`EndingSpec`), so that its violation is due to the full buffer alone.
In `WSEndpoint` no write is assumed to end while the connection is open on this side, since
task_ws.go sets no write deadline (770); once it is closed there, the write returns an error.

### What the violations show

* **`HTTPFallback`.** After a failed refresh with a cached address, `prepareRequest`
  returns the fallback plan together with the lookup's error, and `RoundTrip` returns
  on the error: the decision says `FallbackUsed`, and nothing was sent.
* **`WadjitCloseHangs`.** `Close` cancels the context first, so `listenForResponses`
  leaves; a task that finds `respGatherChan` full blocks forever, and `Stop` waits for it.
  The consumer keeps reading throughout.
* **`WSWriteError`.** `handleWriteError` calls `closeConn`, which locks `e.mu`, while
  `Execute` holds it. The execution never returns and nobody gets the lock again.
* **`ResponseReadFast`.** With `OptReadFast`, `Execute` calls `readBody` itself, outside
  `h.once`. The consumer's first `Data` therefore reads the closed body again, sets `dataErr`
  and returns that error with the data; `Reader` fails from then on.

### Where the passing properties stop

The passing runs state the conditions under which a property holds. The model also
shows what happens beyond them: these behaviours are in its state space, or were found
by TLC with the same modules and other constants. What is said of `WroteRequest` is
read off the code, which the model leaves out there:

* `SingleAddress` needs executions that do not overlap: two that find the cache empty
  look up twice, and the later store replaces the address.
* `ConnFollowsDecision` needs `OptReadFast`: a connection whose body is read after a
  flush returns to the pool with the old address. It also needs one execution at a time.
* `ForcedLookup` lets the cache be used while another execution stands at `join`: the
  prologue clears `forceLookup` and unlocks (252) before `lookup` calls `DoChan` (405), and an
  execution that comes in between is served from the old cache, with no lookup begun since the
  trip. TLC finds that trace in `HTTPConcurrent` when the exception is dropped; with one
  execution at a time (`HTTPSequential`) the property holds without it. The lookup that is then
  joined may also be one begun before the trip, as `DoChan` shares what is in flight.
  dns_policy.go:40 and README.md:147 speak of a lookup that is forced on the next request.
* `ForcedLookup` excludes SingleLookup: `resolveSingle` never reads `forceLookup`
  (README.md:144 says guard rails work "on top of any mode").
* `FreshAddress` says nothing of hosts: the cache is not keyed by host, and a redirect to
  another host is dialled at the first one's address.
* `CountedInWindow` describes a window fixed at its first failure, where dns_policy.go:49
  says "rolling": a burst that straddles two windows does not trip.
* `TripsAfterThreshold` and `CountedInWindow` bound the failures counted on one side only. A
  failure whose time was read before that of the first, and which was registered after it, has a negative
  distance (490) and counts however old it is: with Window 2, one read at 1 and registered
  after one read at 5 trips a threshold of two. dns_policy.go:49 makes Window the time in which errors are
  counted. `TripsAfterThreshold` says that only overtaken failures can be that old, and that each
  goroutine has at most one of them in a run.
* A response that failed for other reasons carries an older execution's
  `lastDecision`; with `DisableFallback` a failed forced lookup leaves the cache, which
  serves the next execution; `StaticAddr` is not used as SingleLookup's fallback.
* `JobsFollowRegistry` excludes the IDs in `faulted`: a failed `Initialize` leaves the watcher
  registered without a job, a failed `Close` leaves the job running for a watcher that
  is gone and its ID unschedulable. The property says that the damage stays with that ID
  and ends with its next successful removal.
* `InOrder` lets cancellation drop the latest responses: those gathered before `Close` may be
  lost, where wadjit_test.go:582-583 expects them drained.
* `SingleReader`, `NoStrayConn` and `AnsweredOnce` exclude `raced`: two reconnects at once leave
  two pumps on one connection, and if the server then repeats an answer both find the
  entry before either deletes it.
* A pump or a `Close` may clear `e.conn` between `nilConn` and `lock`, or between the pump's
  check and its read, and nil is dereferenced (`WriteNil`, `Deref`): the process ends.
* `NothingSentAfterClose` needs `Close` to have cancelled: one that finds no connection
  (during a reconnect, or in one-hit mode) returns without cancelling, and the execution
  goes on, connects and starts a pump.
* `OnlyPumpsSendLate` excludes pumps: nobody waits for them, and one that is caught sending
  when `Wadjit.Close` closes the gather channel panics. `Wadjit` has no pumps and says nothing of
  sends on closed channels.
* `CloseWaitsOnlyFor` names what `Close` may wait for without end: a task's own `Close`, an execution
  whose server does not answer (`http.Client` has no `Timeout`, task_http.go:83), and one that found
  the buffer full after the listener had left.
* `CloseHangsOnly` names what does hang: a write to a peer that has stopped reading, which holds
  `e.mu` with no deadline (770), the write error, a one-hit server that is silent, the full
  channel, and a reconnect that waits for the pump of a connection nobody will close.
* `BrokenIsNoticed` excepts a lock that is lost for good, in a blocked write or after a failed one:
  the pump of the broken connection then waits for the lock in `closeConn`.
* `CompleteUnlessStreamed` excludes chunks a stream took: a `Data` and a `Reader` called
  at once both pass their checks, and `Data` stores the rest as if it were the whole. Two
  `Reader`s at once both get the stream; after a failed `Data` a `Reader` hands out a
  closed body.
* `TimesFit` speaks of the start, the first byte and the end of the data only: `WroteRequest`
  comes from another goroutine and may be missing at the snapshot, or be another hop's, so that
  `ServerProcessing` may be absent, wrong or negative.
* `TTLIsMinimum` leaves out answers in which a TTL of zero stands beside others.
  dns_resolver.go:35 says "minimum TTL among answers" and 170 "lowest TTL value"; the code
  passes zeros over (191), and a record that must not be cached is cached as long as its
  neighbours. Without the exception TLC finds that answer at once.
* `FallbackIsLast` lets an ended context, and a resolv.conf that could not be read once, lead to the
  system resolver: the A answers already collected are thrown away if the context ends
  during the AAAA query, and the read error is remembered for good.

## 4. Proofs

TLAPS checks these for every set of goroutines, watchers, policies and TTLs, every
buffer size and every bound. The assumptions are those the modules state on
their constants: policies are well-formed records, TTLs integers (naturals in the resolver),
bounds natural or positive, distinguished values (`NoHost`, `None`, `Free`, ...) are
no members of the sets they complete. Where a theorem assumes more, its statement says so.

Each invariant below was first checked by TLC on the instance of the run named after its
module, then proved: it holds initially, every action preserves it, and it implies the
properties.

* **`DNSPolicyTheorems`.** `TTLClamped`: `normalizeTTL` respects `TTLMin` and `TTLMax`.
  Lemmas say that a lifetime is a natural number and how each guard operator changes
  the count and the flags.
* **`GuardRailProofs`.** `TypeCorrect`, `CountsOnlyConsecutive`, `CountsWithinWindow` and
  `NeverTripsEarly`, from an inductive invariant that adds: an observation
  in progress was begun under an enabled policy and carries a reading of the clock
  (`PendingOK`); no failure counted means no window open (`WindowOpen`); a failure counted that is
  older than the first is its goroutine's first in the count (`OldAreOvertaken`), since a goroutine
  that has one there and observes again read the clock after the window was opened (`ReadSince`). Without
  the first, a disabled policy could register failures; without the second, the
  failure at which the count starts need not be the one that opened the window, and
  the run of failures in `CountedInWindow` would not begin at `firstFailure`. The last two are
  why a goroutine contributes at most one failure from before the window.
* **`HTTPEndpointProofs`.** `TypeCorrect`, `NeverStale` (`FreshAddress`),
  `FlushIsNotLost` (`FlushNotLost`), and `LookupIsForced` (`ForcedLookup`, if no policy is
  SingleLookup). `FreshAddress` is not inductive: it speaks of prepared requests only. The
  invariant `IInv` adds that the policy is valid (an invalid Cadence policy has no
  lifetime), that what the cache holds expires no later than its answer's own
  lifetime (`CacheInv`), and what an execution on its way from the lookup to the store knows
  (`RequestInv`): its clock reading precedes the completion of the lookup it
  waits for. That is why expiry, counted from before the lookup, is always
  on the safe side. `FlushNotLost` needs that a flush is owed only under an enabled
  guard rail, so that whoever consumes the trigger acts on it (`FlushInv`), and
  `ForcedLookup` that an owed lookup is remembered in `forceLookup` or in the hands of an
  execution about to begin one (`ForceInv`); both invariants stand beside their theorems.
  `ConnectionFollows` (`ConnFollowsDecision`) and `OneAddress` (`SingleAddress`) assume that
  executions do not overlap (`Sequential`), and the former that bodies are read at once under
  TTL and Cadence (`ReadWhereRefreshed`): the conditions of the `HTTPSequential` run, without
  which both fail (section 3). `PoolInv` says that every connection, idle, held or in use, leads
  to the cached address, unless a store has just replaced that and its execution is on its
  way to the flush; `SingleInv` that nothing is cached while a SingleLookup is under way.
* **`WadjitProofs`.** `TypeCorrect`, `RegisteredStayOpen` (`RegisteredIsOpen`), `JobsAgree` (`JobsFollowRegistry`),
  `ResponsesInOrder` (`InOrder`) and `Refinement` (`ImplementsStream`). `JobsFollowRegistry` speaks of
  the moments between calls; in the middle of one, `JobInv` excepts the ID it works on and says
  that nothing is scheduled under it yet while it is being added. `RegistryInv` adds that a
  watcher stands under its own ID, and that the one being removed has left the registry, which is why
  its `doneChan` can be closed. `CloseInv` orders the shutdown: the
  gather channel is closed only at the end of `Close`, and the listener leaves only once it has begun. `StreamInv` says where every response is:
  what was sent is what was delivered, exported and held by the listener, followed by what is in
  the gather channel or, once the listener has left, by what is lost. That equation is also the
  refinement: each step maps to a step of `ResponseStream` or changes nothing there.
* **`WSEndpointProofs`.** `ReaderIsAlone` (`SingleReader`), `OneAnswer` (`AnsweredOnce`),
  `EntriesAccounted` (`InflightAccounted`), `NoConnectionLost` (`NoStrayConn`), `ConnectionHasPump`
  (`ConnIsRead`), `QuietAfterClose` (`NothingSentAfterClose`) and `TypeCorrect`. `LockInv` says what `e.mu`
  protects, in particular that an execution about to write holds the lock `Close`
  needs to cancel. `RaceInv` is the heart of it: as long as no two executions were reconnecting at
  once, `e.conn` is nil while one is, all pumps are gone when it dials, and so at most one pump runs.
  `NameInv` says that an execution's message is its own and unknown to pumps and wire until it is
  written, `AnswerInv` that the one pump finds the entry it deletes and answers first.
* **`WSShutdownProofs`.** `ShutdownTypeCorrect` and
  `LateSendersArePumps` (`OnlyPumpsSendLate`). Every step of the composition is a step of the
  endpoint, the panic of a send on the closed channel, or none (`EndpointStep`), so the endpoint's
  invariant carries over; `NoExecLeft` adds that no execution runs once the gather channel is closed,
  since `RemoveJob` and `Stop` precede it.
* **`HTTPTaskResponseProofs`.** `TypeCorrect`, `ConsumersAgree` (`DataAgrees`), `DataComplete`
  (`CompleteUnlessStreamed`), `BodyClosed` (`SourceClosed`) and `TimesAddUp` (`TimesFit`). `OrderInv` says that
  at most one goroutine is in `readBody` at a time: `Execute`'s only before the response is
  sent, a consumer's only inside `h.once`. `DataInv` adds that whoever reads when data is there already
  finds the body closed, so that a second `readBody` changes the error but not the data;
  `ChunkInv` that each chunk the body has given is with the reader or with a stream; `TimeInv`
  that the stamps are set in the order of the events.
* **`TTLResolverProofs`.** `TypeCorrect`, `LowestTTL` (`TTLIsMinimum`), `CompleteAnswer`
  (`AnswerIsComplete`) and `LastResort` (`FallbackIsLast`). What `parseAnswers` computes needs induction
  over its records. The library's induction theorems cannot be applied here, so
  `LoopInduction` argues from a least counterexample: the set of indices at which the claim fails
  has a least element, as the naturals are well founded, and neither zero nor a successor can be that.
  With it `LoopExists` shows that the loop's recursive function exists, and `ParseCorrect` that it
  collects addresses only and the least of their positive TTLs. `TTLInv` extends that over both types
  (where no zero stands beside them, the least positive TTL is the least),
  `AnswerInv` says that the answer is the concatenation of what each type contributed, and
  `AskedInv` which servers have been asked by then.

**Only model-checked.** All liveness (`ResolutionEnds`, `CloseWaitsOnlyFor`,
`ResponsesArrive`, `BrokenIsNoticed`, `CloseHangsOnly`, `LookupEnds`), which needs fairness and `ENABLED` and
is beyond the prover; and the four violations, which are single behaviours. Everything else that a
passing run checks is proved.

## 5. Not modelled

* Of the manager: calls after `Close`, whose outcome is taskman's; concurrent callers,
  which TODO.md:11-12 leaves to the user; `applyDefaultDNSPolicy`, which assigns one field
  before a task is initialized; `AddWatchers`, a loop over `AddWatcher`.
* Of the trace: the DNS, connect, TLS and `WroteRequest` stamps, which may belong to
  different hops or dials and so promise nothing together; `RemoteAddr` (of the first hop
  after a redirect, of the first connection after a WebSocket reconnect).
* WebSocket responses and error responses, which never change once made; `String`, headers, payload
  contents, error texts, option setters, logging, the examples.
* The wire format of DNS and the syntax of resolv.conf; taskman, net/http, miekg/dns and
  gorilla/websocket beyond what the code uses of them.

## 6. Plan

Every safety property of the passing runs is proved. What would add most beyond that:

1. Facts without a property of their own that the proofs came close to: in `WSShutdown`, that entries of
   `inflightMsgs` are accounted for and nothing is written after `Close` during the shutdown as well; in
   `HTTPEndpoint`, which of the guarantees for one execution survive when executions overlap.
2. The safety half of the liveness properties: for each, that the states in which the system can be
   stuck are the ones the property names.

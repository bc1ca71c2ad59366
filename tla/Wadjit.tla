------------------------------ MODULE Wadjit ------------------------------
(***************************************************************************)
(* The manager: the watcher registry, the life cycle of a watcher's job,  *)
(* the two response channels with the goroutine that forwards from one to *)
(* the other, and the shutdown sequence of Close (wadjit.go, watcher.go). *)
(*                                                                        *)
(* One goroutine manages the watchers, as TODO.md asks of users; its      *)
(* calls proceed in steps that interleave with the task manager's workers,*)
(* the forwarding goroutine and the consumer of Responses().  The task    *)
(* manager (github.com/jkbrsn/taskman) is modelled from its use here: a   *)
(* job is known by its ID, runs again and again unless paused or removed, *)
(* removing it does not wait for executions in progress, Stop does.       *)
(***************************************************************************)
EXTENDS Naturals, Sequences, SequencesExt, FiniteSets

CONSTANTS
  Watchers,      \* *Watcher objects the user creates
  IDs,           \* watcher IDs
  WatcherID,     \* the ID of each watcher
  None,          \* no watcher
  Workers,       \* task executions that may run at the same time
  BufferSize,    \* capacity of both response channels
  MaxResponses,  \* bound on the number of executions
  InitMayFail,   \* whether a task's Initialize may return an error
  CloseMayFail   \* whether a task's Close may return an error

ASSUME IDAssumption == WatcherID \in [Watchers -> IDs] /\ None \notin Watchers
ASSUME BufferAssumption == BufferSize \in Nat /\ MaxResponses \in Nat
ASSUME FailAssumption == InitMayFail \in BOOLEAN /\ CloseMayFail \in BOOLEAN

VARIABLES
  registry,      \* w.watchers
  done,          \* watchers whose doneChan is closed
  jobs,          \* the task manager's jobs: the watcher they run, paused or not
  stopped,       \* taskManager.Stop has been called
  worker,        \* per worker: idle, or the response its execution will send
  ready,         \* workers whose execution has its response and sends it
  executions,    \* history: executions started, the name of the next response
  cancelled,     \* w.ctx is cancelled
  gather,        \* w.respGatherChan
  export,        \* w.respExportChan
  gatherClosed,
  exportClosed,
  listener,      \* listenForResponses
  call,          \* the API call in progress
  faulted,       \* history: IDs with a failed Initialize or Close since their
                 \* last removal that went through
  sent,          \* history: responses in the order gather accepted them
  delivered      \* history: responses in the order the consumer got them

lifeVars == <<registry, done, jobs, faulted>>
poolVars == <<stopped, worker, ready, executions>>
chanVars == <<cancelled, gather, export, gatherClosed, exportClosed, listener, sent,
              delivered>>
vars == <<registry, done, jobs, stopped, worker, ready, executions, cancelled, gather, export,
          gatherClosed, exportClosed, listener, call, faulted, sent, delivered>>

Response == 1..MaxResponses

Job == [watcher : Watchers \cup {None}, paused : BOOLEAN]
NoJob == [watcher |-> None, paused |-> FALSE]
Scheduled(id) == jobs[id] # NoJob

Idle == 0

(* held is the response taken from gather and not yet put into export.    *)
Listener == [pc : {"select", "forward", "exited"}, held : Seq(Response)]

(* op is the API call; pc where RemoveWatcher, AddWatcher or Close is;    *)
(* ids what Clear or Close still has to remove.                           *)
Call ==
  [ op  : {"none", "add", "remove", "clear", "close", "closed"},
    pc  : {"idle", "start", "schedule", "closeTasks", "removeJob", "loop",
           "stop", "closeGather", "wait"},
    w   : Watchers \cup {None},
    ids : SUBSET IDs ]
NoCall == [op |-> "none", pc |-> "idle", w |-> None, ids |-> {}]

TypeOK ==
  /\ registry \in [IDs -> Watchers \cup {None}]
  /\ done \in SUBSET Watchers
  /\ jobs \in [IDs -> Job]
  /\ worker \in [Workers -> Response \cup {Idle}]
  /\ ready \in SUBSET Workers
  /\ executions \in 0..MaxResponses
  /\ stopped \in BOOLEAN /\ cancelled \in BOOLEAN
  /\ gatherClosed \in BOOLEAN /\ exportClosed \in BOOLEAN
  /\ gather \in Seq(Response) /\ export \in Seq(Response)
  /\ \A ch \in {gather, export} : Len(ch) <= IF BufferSize = 0 THEN 1 ELSE BufferSize
  /\ listener \in Listener
  /\ call \in Call
  /\ faulted \in SUBSET IDs
  /\ sent \in Seq(Response) /\ delivered \in Seq(Response)

(* New.                                                                   *)
Init ==
  /\ registry = [id \in IDs |-> None]
  /\ done = {}
  /\ jobs = [id \in IDs |-> NoJob]
  /\ stopped = FALSE
  /\ worker = [x \in Workers |-> Idle]
  /\ ready = {}
  /\ executions = 0
  /\ cancelled = FALSE
  /\ gather = << >> /\ export = << >>
  /\ gatherClosed = FALSE /\ exportClosed = FALSE
  /\ listener = [pc |-> "select", held |-> << >>]
  /\ call = NoCall
  /\ faulted = {}
  /\ sent = << >> /\ delivered = << >>

----------------------------------------------------------------------------
(* Adding and removing watchers.                                          *)

WatcherIDs == {id \in IDs : registry[id] # None}

(* watcher.Validate; of its conditions only that doneChan is open can     *)
(* change over time.                                                      *)
Validate(w) == w \notin done

(* Mutant: a closed doneChan is not noticed.                              *)
AddWatcher_NoDoneCheck(w) ==
  /\ call = NoCall
  /\ registry[WatcherID[w]] = None
  /\ registry' = [registry EXCEPT ![WatcherID[w]] = w]
  /\ call' = [NoCall EXCEPT !.op = "add", !.pc = "start", !.w = w]
  /\ UNCHANGED <<done, jobs, faulted, poolVars, chanVars>>

(* Validation and the duplicate check.  A call that fails either returns  *)
(* without having changed anything.                                       *)
AddWatcher(w) ==
  /\ call = NoCall
  /\ Validate(w)
  /\ registry[WatcherID[w]] = None
  /\ registry' = [registry EXCEPT ![WatcherID[w]] = w]
  /\ call' = [NoCall EXCEPT !.op = "add", !.pc = "start", !.w = w]
  /\ UNCHANGED <<done, jobs, faulted, poolVars, chanVars>>

(* watcher.start initializes every task; on an error AddWatcher returns   *)
(* and leaves the registry entry in place.                                *)
StartWatcher ==
  /\ call.op = "add" /\ call.pc = "start"
  /\ \/ call' = [call EXCEPT !.pc = "schedule"] /\ UNCHANGED faulted
     \/ InitMayFail /\ call' = NoCall /\ faulted' = faulted \cup {WatcherID[call.w]}
  /\ UNCHANGED <<registry, done, jobs, poolVars, chanVars>>

(* ScheduleJob refuses an ID it already has; otherwise the watcher is     *)
(* stored again.                                                          *)
ScheduleJob ==
  /\ call.op = "add" /\ call.pc = "schedule"
  /\ LET id == WatcherID[call.w]
     IN  IF Scheduled(id) THEN UNCHANGED <<jobs, registry>>
         ELSE /\ jobs' = [jobs EXCEPT ![id] = [watcher |-> call.w, paused |-> FALSE]]
              /\ registry' = [registry EXCEPT ![id] = call.w]
  /\ call' = NoCall
  /\ UNCHANGED <<done, faulted, poolVars, chanVars>>

(* Where a finished RemoveWatcher returns to.                             *)
AfterRemove == IF call.op = "remove" THEN NoCall ELSE [call EXCEPT !.pc = "loop", !.w = None]

(* RemoveWatcher up to closing the watcher's doneChan.                    *)
LoadAndDelete(id, next) ==
  /\ registry[id] # None
  /\ registry' = [registry EXCEPT ![id] = None]
  /\ done' = done \cup {registry[id]}
  /\ call' = [next EXCEPT !.pc = "closeTasks", !.w = registry[id]]
  /\ UNCHANGED <<jobs, faulted, poolVars, chanVars>>

RemoveWatcher(id) ==
  /\ call = NoCall
  /\ LoadAndDelete(id, [NoCall EXCEPT !.op = "remove"])

(* The tasks' Close methods.  After an error RemoveWatcher returns before *)
(* it has removed the job.                                                *)
CloseTasks ==
  /\ call.pc = "closeTasks"
  /\ \/ call' = [call EXCEPT !.pc = "removeJob"] /\ UNCHANGED faulted
     \/ CloseMayFail /\ call' = AfterRemove /\ faulted' = faulted \cup {WatcherID[call.w]}
  /\ UNCHANGED <<registry, done, jobs, poolVars, chanVars>>

(* Mutant: the job stays.                                                 *)
RemoveJob_Forgotten ==
  /\ call.pc = "removeJob"
  /\ faulted' = faulted \ {WatcherID[call.w]}
  /\ call' = AfterRemove
  /\ UNCHANGED <<registry, done, jobs, poolVars, chanVars>>

(* The job, if there is one, is removed.                                  *)
RemoveJob ==
  /\ call.pc = "removeJob"
  /\ jobs' = [jobs EXCEPT ![WatcherID[call.w]] = NoJob]
  /\ faulted' = faulted \ {WatcherID[call.w]}
  /\ call' = AfterRemove
  /\ UNCHANGED <<registry, done, poolVars, chanVars>>

Clear ==
  /\ call = NoCall
  /\ call' = [NoCall EXCEPT !.op = "clear", !.pc = "loop", !.ids = WatcherIDs]
  /\ UNCHANGED <<lifeVars, poolVars, chanVars>>

(* The loop over the IDs in Clear and Close, in the map's arbitrary order.*)
RemoveNext(id) ==
  /\ call.pc = "loop"
  /\ id \in call.ids
  /\ LoadAndDelete(id, [call EXCEPT !.ids = @ \ {id}])

LoopDone ==
  /\ call.pc = "loop"
  /\ call.ids = {}
  /\ call' = IF call.op = "clear" THEN NoCall ELSE [call EXCEPT !.pc = "stop"]
  /\ UNCHANGED <<lifeVars, poolVars, chanVars>>

PauseWatcher(id) ==
  /\ call = NoCall
  /\ Scheduled(id)
  /\ jobs' = [jobs EXCEPT ![id].paused = TRUE]
  /\ UNCHANGED <<registry, done, faulted, poolVars, chanVars, call>>

ResumeWatcher(id) ==
  /\ call = NoCall
  /\ Scheduled(id)
  /\ jobs' = [jobs EXCEPT ![id].paused = FALSE]
  /\ UNCHANGED <<registry, done, faulted, poolVars, chanVars, call>>

----------------------------------------------------------------------------
(* Close.  closeOnce lets one call through; later ones do nothing.        *)

Close ==
  /\ call = NoCall
  /\ cancelled' = TRUE
  /\ call' = [NoCall EXCEPT !.op = "close", !.pc = "loop", !.ids = WatcherIDs]
  /\ UNCHANGED <<lifeVars, poolVars, gather, export, gatherClosed, exportClosed,
                 listener, sent, delivered>>

(* taskManager.Stop: nothing new is dispatched ...                        *)
Stop ==
  /\ call.pc = "stop"
  /\ ~stopped
  /\ stopped' = TRUE
  /\ UNCHANGED <<lifeVars, worker, ready, executions, chanVars, call>>

(* ... and what runs has ended when it returns.                           *)
StopReturns ==
  /\ call.pc = "stop"
  /\ stopped
  /\ \A x \in Workers : worker[x] = Idle
  /\ call' = [call EXCEPT !.pc = "closeGather"]
  /\ UNCHANGED <<lifeVars, poolVars, chanVars>>

CloseGather ==
  /\ call.pc = "closeGather"
  /\ gatherClosed' = TRUE
  /\ call' = [call EXCEPT !.pc = "wait"]
  /\ UNCHANGED <<lifeVars, poolVars, cancelled, gather, export, exportClosed,
                 listener, sent, delivered>>

(* closeWG.Wait, then the export channel is closed.                       *)
CloseExport ==
  /\ call.pc = "wait"
  /\ listener.pc = "exited"
  /\ exportClosed' = TRUE
  /\ call' = [NoCall EXCEPT !.op = "closed"]
  /\ UNCHANGED <<lifeVars, poolVars, cancelled, gather, export, gatherClosed,
                 listener, sent, delivered>>

(* Close again: closeOnce has fired and closeErr is returned.             *)
CloseAgain ==
  /\ call.op = "closed"
  /\ UNCHANGED vars

----------------------------------------------------------------------------
(* The task manager's workers.  An execution sends one response.          *)

(* Mutant: off by one.                                                    *)
HasRoom_OffByOne(ch, receiving) == Len(ch) <= BufferSize

(* Mutant: the channels are made without a buffer.                        *)
HasRoom_Unbuffered(ch, receiving) == ch = << >> /\ receiving

(* Room for a send: a free slot or, without a buffer, a receiver.         *)
HasRoom(ch, receiving) == Len(ch) < BufferSize \/ (ch = << >> /\ receiving)

Dispatch(x, id) ==
  /\ worker[x] = Idle
  /\ ~stopped
  /\ Scheduled(id) /\ ~jobs[id].paused
  /\ executions < MaxResponses
  /\ executions' = executions + 1
  /\ worker' = [worker EXCEPT ![x] = executions + 1]
  /\ UNCHANGED <<lifeVars, stopped, ready, chanVars, call>>

(* The server has answered, or the exchange has failed.                   *)
ResponseReady(x) ==
  /\ worker[x] # Idle
  /\ x \notin ready
  /\ ready' = ready \cup {x}
  /\ UNCHANGED <<lifeVars, stopped, worker, executions, chanVars, call>>

(* The execution sends its response and ends.                             *)
SendResponse(x) ==
  /\ worker[x] # Idle
  /\ x \in ready
  /\ HasRoom(gather, listener.pc = "select")
  /\ gather' = Append(gather, worker[x])
  /\ sent' = Append(sent, worker[x])
  /\ worker' = [worker EXCEPT ![x] = Idle]
  /\ ready' = ready \ {x}
  /\ UNCHANGED <<lifeVars, stopped, executions, cancelled, export, gatherClosed,
                 exportClosed, listener, delivered, call>>

----------------------------------------------------------------------------
(* listenForResponses and the consumer of Responses().                    *)

(* A response is received; with the context cancelled it is dropped and   *)
(* the goroutine ends.                                                    *)
Receive ==
  /\ listener.pc = "select"
  /\ gather # << >>
  /\ gather' = Tail(gather)
  /\ listener' = IF cancelled THEN [pc |-> "exited", held |-> << >>]
                 ELSE [pc |-> "forward", held |-> <<Head(gather)>>]
  /\ UNCHANGED <<lifeVars, poolVars, cancelled, export, gatherClosed, exportClosed,
                 sent, delivered, call>>

(* Mutant: a response that finds no room is dropped.                      *)
Forward_Drops ==
  /\ listener.pc = "forward"
  /\ export' = IF HasRoom(export, TRUE) THEN export \o listener.held ELSE export
  /\ listener' = [pc |-> "select", held |-> << >>]
  /\ UNCHANGED <<lifeVars, poolVars, cancelled, gather, gatherClosed, exportClosed,
                 sent, delivered, call>>

Forward ==
  /\ listener.pc = "forward"
  /\ HasRoom(export, TRUE)
  /\ export' = export \o listener.held
  /\ listener' = [pc |-> "select", held |-> << >>]
  /\ UNCHANGED <<lifeVars, poolVars, cancelled, gather, gatherClosed, exportClosed,
                 sent, delivered, call>>

(* The context is done, or gather is closed and empty.                    *)
Exit ==
  /\ listener.pc = "select"
  /\ cancelled \/ (gatherClosed /\ gather = << >>)
  /\ listener' = [pc |-> "exited", held |-> << >>]
  /\ UNCHANGED <<lifeVars, poolVars, cancelled, gather, export, gatherClosed,
                 exportClosed, sent, delivered, call>>

Consume ==
  /\ export # << >>
  /\ export' = Tail(export)
  /\ delivered' = Append(delivered, Head(export))
  /\ UNCHANGED <<lifeVars, poolVars, cancelled, gather, gatherClosed, exportClosed,
                 listener, sent, call>>

----------------------------------------------------------------------------
(* What the API call in progress does next: on its own, and in a task's   *)
(* Initialize or Close.                                                   *)
OwnCallStep ==
  \/ ScheduleJob \/ RemoveJob
  \/ \E id \in IDs : RemoveNext(id)
  \/ LoopDone \/ Stop \/ StopReturns \/ CloseGather \/ CloseExport

CallStep == StartWatcher \/ CloseTasks \/ OwnCallStep

ListenerStep == Receive \/ Forward \/ Exit

Next ==
  \/ \E w \in Watchers : AddWatcher(w)
  \/ \E id \in IDs : RemoveWatcher(id) \/ PauseWatcher(id) \/ ResumeWatcher(id)
  \/ Clear \/ Close \/ CloseAgain
  \/ CallStep
  \/ \E x \in Workers :
       (\E id \in IDs : Dispatch(x, id)) \/ ResponseReady(x) \/ SendResponse(x)
  \/ ListenerStep
  \/ Consume

Spec == Init /\ [][Next]_vars

(* Goroutines run: the caller's, the workers' and the forwarding one.     *)
(* Nothing bounds how long a server takes to answer (http.Client has no   *)
(* Timeout) or a task's Close waits for its endpoint's mutex, so neither  *)
(* is assumed.  Whether anybody consumes is a separate question.          *)
Fairness ==
  /\ WF_vars(OwnCallStep)
  /\ \A x \in Workers : WF_vars(SendResponse(x))
  /\ WF_vars(ListenerStep)

(* The tasks do end: servers answer, Close methods return.                *)
TasksEnd == WF_vars(CloseTasks) /\ \A x \in Workers : WF_vars(ResponseReady(x))

FairSpec == Spec /\ Fairness
ConsumedSpec == FairSpec /\ WF_vars(Consume)
EndingSpec == ConsumedSpec /\ TasksEnd

----------------------------------------------------------------------------
(* Properties.                                                            *)

(* No doneChan is closed twice: what is registered is still open, so that *)
(* RemoveWatcher, Clear and Close may close it.                           *)
RegisteredIsOpen ==
  \A id \in IDs : registry[id] # None => registry[id] \notin done

(* Between calls the task manager's jobs are those of the registered      *)
(* watchers: WatcherIDs lists "all active watchers" (wadjit.go:242), and  *)
(* RemoveWatcher "closes and removes" (wadjit.go:160), so no job runs the *)
(* tasks of a watcher that is gone or another one than is registered.  A  *)
(* failed Initialize or Close affects its own ID only, and only until the *)
(* next removal of that ID that goes through.                             *)
JobsFollowRegistry ==
  call.pc = "idle" => \A id \in IDs \ faulted : jobs[id].watcher = registry[id]

(* Responses are neither lost, duplicated nor reordered on their way to   *)
(* the consumer; cancelling may drop only the latest ones.                *)
InTransit == export \o listener.held \o gather
InOrder ==
  /\ ~cancelled => sent = delivered \o InTransit
  /\ IsPrefix(delivered \o export \o listener.held, sent)

(* Close "stops all Wadjit processes and closes the Wadjit" (wadjit.go:   *)
(* 199): a call of Close returns.                                         *)
CloseReturns == (call.op = "close") ~> (call.op = "closed")

(* Close returns whatever fails on its way, unless from some time on it   *)
(* waits for a task's Close method, for an execution whose server never   *)
(* answers, or for one that waits for room in a channel whose reader is   *)
(* gone.  Nothing else holds it: no job that is still scheduled, no       *)
(* response on its way, no goroutine waiting for another.                 *)
Unanswered(x) == worker[x] # Idle /\ x \notin ready
BlockedByFullBuffer(x) ==
  worker[x] # Idle /\ listener.pc = "exited" /\ Len(gather) = BufferSize
Hung ==
  \/ call.pc = "closeTasks"
  \/ call.pc = "stop" /\ \E x \in Workers : Unanswered(x) \/ BlockedByFullBuffer(x)
CloseWaitsOnlyFor == (call.op = "close") ~> (call.op = "closed" \/ []Hung)

(* A response that was accepted reaches a consumer that keeps reading,    *)
(* unless the Wadjit is closed.                                           *)
ResponsesArrive ==
  \A n \in Response : (n \in ToSet(sent)) ~> (n \in ToSet(delivered) \/ cancelled)

(* The manager is such a stream as ResponseStream describes: what is      *)
(* pending lies in the channels and the forwarding goroutine's hands, and *)
(* whatever is left in gather when that goroutine exits is lost.          *)
Stream == INSTANCE ResponseStream WITH
  pending   <- export \o listener.held \o (IF listener.pc = "exited" THEN << >> ELSE gather),
  delivered <- delivered,
  stage     <- IF ~cancelled THEN "open"
               ELSE IF listener.pc # "exited" THEN "closing" ELSE "ended"
ImplementsStream == Stream!Spec
============================================================================

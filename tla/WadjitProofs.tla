--------------------------- MODULE WadjitProofs ---------------------------
(***************************************************************************)
(* The manager's invariants, for any watchers, IDs, workers and buffer    *)
(* sizes, whether or not tasks fail, and its refinement of the abstract   *)
(* stream of responses.                                                   *)
(***************************************************************************)
EXTENDS Wadjit, SequenceTheorems, TLAPS

(* Where each API call can be, and what it carries.                       *)
Removing == {"closeTasks", "removeJob"}
CallInv ==
  /\ call.op = "none" => call = NoCall
  /\ call.op = "add" => call.pc \in {"start", "schedule"}
  /\ call.op = "remove" => call.pc \in Removing
  /\ call.op = "clear" => call.pc \in Removing \cup {"loop"}
  /\ call.op = "close" => call.pc \in Removing \cup {"loop", "stop", "closeGather", "wait"}
  /\ call.op = "closed" => call.pc = "idle"
  /\ call.w # None <=> call.pc \in Removing \cup {"start", "schedule"}
  /\ cancelled <=> call.op \in {"close", "closed"}

(* How far the shutdown has come.                                         *)
CloseInv ==
  /\ gatherClosed => call.pc = "wait" \/ call.op = "closed"
  /\ listener.pc = "exited" => cancelled

(* A registered watcher is open and stands under its own ID; one that is  *)
(* being added is registered, one that is being removed is not.           *)
RegistryInv ==
  /\ \A id \in IDs :
       registry[id] # None => registry[id] \notin done /\ WatcherID[registry[id]] = id
  /\ call.op = "add" => registry[WatcherID[call.w]] = call.w
  /\ call.pc \in Removing => registry[WatcherID[call.w]] = None

(* The call in progress works on this ID.                                 *)
Current(id) == call.w # None /\ id = WatcherID[call.w]

(* Jobs and registry agree but for the call in progress and what a        *)
(* failure has touched.                                                   *)
JobInv ==
  /\ \A id \in IDs : jobs[id].watcher = None => jobs[id] = NoJob
  /\ \A id \in IDs \ faulted : ~Current(id) => jobs[id].watcher = registry[id]
  /\ \A id \in IDs \ faulted : Current(id) /\ call.op = "add" => jobs[id] = NoJob

(* The listener holds at most one response, and only to forward it; what  *)
(* was sent is what was passed on, followed by what is in gather or, when *)
(* the listener is gone, by what was lost.                                *)
Passed == delivered \o export \o listener.held
StreamInv ==
  /\ Len(listener.held) <= 1
  /\ listener.pc # "forward" => listener.held = << >>
  /\ listener.pc # "exited" => sent = Passed \o gather
  /\ \E lost \in Seq(Response) : sent = Passed \o lost

IInv == TypeOK /\ CallInv /\ CloseInv /\ RegistryInv /\ JobInv /\ StreamInv

----------------------------------------------------------------------------
USE DEF Removing

(* The invariant holds of a manager just created by New.                  *)
LEMMA InitIInv == Init => IInv
<1> SUFFICES ASSUME Init PROVE IInv
  OBVIOUS
<1>1. /\ << >> \in Seq(Response) /\ Len(<< >>) = 0
      /\ << >> \o << >> = << >>
  BY EmptySeq, ConcatEmptySeq
<1>2. TypeOK
  <2>1. call \in Call /\ listener \in Listener
    BY <1>1 DEF Init, Call, NoCall, Listener
  <2>2. jobs \in [IDs -> Job] /\ worker \in [Workers -> Response \cup {Idle}]
    BY DEF Init, Job, NoJob
  <2>3. \A ch \in {gather, export} : Len(ch) <= IF BufferSize = 0 THEN 1 ELSE BufferSize
    BY <1>1, BufferAssumption DEF Init
  <2>4. executions \in 0..MaxResponses
    BY BufferAssumption DEF Init
  <2> QED
    BY <1>1, <2>1, <2>2, <2>3, <2>4 DEF Init, TypeOK
<1>3. CallInv /\ CloseInv
  BY DEF Init, CallInv, CloseInv, NoCall
<1>4. RegistryInv /\ JobInv
  BY DEF Init, RegistryInv, JobInv, Current, NoCall, NoJob
<1>5. StreamInv
  <2>1. listener.held = << >> /\ listener.pc = "select"
    BY DEF Init
  <2>2. sent = Passed \o gather
    BY <1>1, <2>1 DEF Init, Passed
  <2>3. gather \in Seq(Response) /\ Len(listener.held) <= 1
    BY <1>1, <2>1 DEF Init
  <2> QED
    BY <2>1, <2>2, <2>3 DEF StreamInv
<1> QED
  BY <1>2, <1>3, <1>4, <1>5 DEF IInv

----------------------------------------------------------------------------
(* Types.                                                                 *)

(* The fields of a call.                                                  *)
LEMMA CallFields ==
  ASSUME call \in Call
  PROVE  /\ call.op \in {"none", "add", "remove", "clear", "close", "closed"}
         /\ call.pc \in {"idle", "start", "schedule", "closeTasks", "removeJob", "loop",
                         "stop", "closeGather", "wait"}
         /\ call.w \in Watchers \cup {None} /\ call.ids \in SUBSET IDs
BY DEF Call

(* Every step leaves a well-formed state.                                 *)
LEMMA TypeStep == TypeOK /\ CallInv /\ StreamInv /\ [Next]_vars => TypeOK'
<1> SUFFICES ASSUME TypeOK, CallInv, StreamInv, [Next]_vars PROVE TypeOK'
  OBVIOUS
<1>a. /\ NoCall \in Call /\ NoJob \in Job
      /\ [NoCall EXCEPT !.op = "closed"] \in Call
  BY DEF NoCall, NoJob, Call, Job
<1>b. call \in Call
  BY DEF TypeOK
<1>c. AfterRemove \in Call
  BY <1>a, <1>b DEF AfterRemove, Call
<1>1. ASSUME NEW w \in Watchers, AddWatcher(w) PROVE TypeOK'
  BY <1>1, IDAssumption DEF AddWatcher, TypeOK, NoCall, Call, poolVars, chanVars
<1>2. CASE StartWatcher
  <2>1. call.w \in Watchers
    BY <1>2, <1>b DEF StartWatcher, CallInv, Call
  <2> QED
    BY <1>2, <1>a, <1>b, <2>1, IDAssumption DEF StartWatcher, TypeOK, Call, poolVars, chanVars
<1>3. CASE ScheduleJob
  <2>1. call.w \in Watchers
    BY <1>3, <1>b DEF ScheduleJob, CallInv, Call
  <2>2. WatcherID[call.w] \in IDs /\ [watcher |-> call.w, paused |-> FALSE] \in Job
    BY <2>1, IDAssumption DEF Job
  <2>3. jobs' \in [IDs -> Job] /\ registry' \in [IDs -> Watchers \cup {None}]
    BY <1>3, <2>1, <2>2 DEF ScheduleJob, TypeOK
  <2> QED
    BY <1>3, <1>a, <2>3 DEF ScheduleJob, TypeOK, poolVars, chanVars
<1>4. ASSUME NEW id \in IDs, RemoveWatcher(id) \/ RemoveNext(id) PROVE TypeOK'
  <2>1. registry[id] \in Watchers
    BY <1>4 DEF RemoveWatcher, RemoveNext, LoadAndDelete, TypeOK
  <2>2. call' \in Call
    BY <1>4, <1>b, <2>1 DEF RemoveWatcher, RemoveNext, LoadAndDelete, NoCall, Call
  <2> QED
    BY <1>4, <2>1, <2>2 DEF RemoveWatcher, RemoveNext, LoadAndDelete, TypeOK, poolVars, chanVars
<1>5. CASE CloseTasks \/ RemoveJob
  <2>1. call.w \in Watchers
    BY <1>5, <1>b DEF CloseTasks, RemoveJob, CallInv, Call
  <2>2. WatcherID[call.w] \in IDs
    BY <2>1, IDAssumption
  <2>3. call' \in Call
    BY <1>5, <1>b, <1>c DEF CloseTasks, RemoveJob, Call
  <2> QED
    BY <1>5, <1>a, <2>2, <2>3 DEF CloseTasks, RemoveJob, TypeOK, poolVars, chanVars
<1>6. CASE Clear \/ LoopDone
  <2>1. call' \in Call
    BY <1>6, <1>a, <1>b DEF Clear, LoopDone, WatcherIDs, NoCall, Call
  <2> QED
    BY <1>6, <2>1 DEF Clear, LoopDone, TypeOK, lifeVars, poolVars, chanVars
<1>7. ASSUME NEW id \in IDs, PauseWatcher(id) \/ ResumeWatcher(id) PROVE TypeOK'
  <2>1. jobs' \in [IDs -> Job]
    BY <1>7 DEF PauseWatcher, ResumeWatcher, TypeOK, Job
  <2> QED
    BY <1>7, <2>1 DEF PauseWatcher, ResumeWatcher, TypeOK, poolVars, chanVars
<1>8. CASE Close
  <2>1. call' \in Call
    BY <1>8, <1>a DEF Close, WatcherIDs, NoCall, Call
  <2> QED
    BY <1>8, <2>1 DEF Close, TypeOK, lifeVars, poolVars
<1>9. CASE Stop \/ StopReturns \/ CloseGather \/ CloseExport
  <2>1. call' \in Call
    BY <1>9, <1>a, <1>b DEF Stop, StopReturns, CloseGather, CloseExport, Call
  <2> QED
    BY <1>9, <2>1
    DEF Stop, StopReturns, CloseGather, CloseExport, TypeOK, lifeVars, poolVars, chanVars
<1>10. ASSUME NEW x \in Workers, NEW id \in IDs, Dispatch(x, id) PROVE TypeOK'
  <2>1. executions + 1 \in Response /\ executions + 1 \in 0..MaxResponses
    BY <1>10, BufferAssumption DEF Dispatch, TypeOK, Response
  <2> QED
    BY <1>10, <2>1 DEF Dispatch, TypeOK, lifeVars, chanVars
<1>11. ASSUME NEW x \in Workers, SendResponse(x) PROVE TypeOK'
  <2>1. worker[x] \in Response
    BY <1>11 DEF SendResponse, TypeOK
  <2>2. /\ gather' \in Seq(Response) /\ sent' \in Seq(Response)
        /\ Len(gather') = Len(gather) + 1
    BY <1>11, <2>1, AppendProperties DEF SendResponse, TypeOK
  <2>3. Len(gather) \in Nat
    BY LenProperties DEF TypeOK
  <2>4. Len(gather') <= IF BufferSize = 0 THEN 1 ELSE BufferSize
    BY <1>11, <2>2, <2>3, EmptySeq, BufferAssumption DEF SendResponse, HasRoom
  <2> QED
    BY <1>11, <2>2, <2>4 DEF SendResponse, TypeOK, lifeVars
<1>12. CASE Receive
  <2>1. /\ Tail(gather) \in Seq(Response) /\ Len(Tail(gather)) = Len(gather) - 1
        /\ <<Head(gather)>> \in Seq(Response) /\ << >> \in Seq(Response)
    BY <1>12, HeadTailProperties, EmptySeq DEF Receive, TypeOK
  <2>2. Len(gather) \in Nat
    BY LenProperties DEF TypeOK
  <2>3. listener' \in Listener
    BY <1>12, <2>1 DEF Receive, Listener
  <2>4. gather' \in Seq(Response) /\ Len(gather') <= IF BufferSize = 0 THEN 1 ELSE BufferSize
    BY <1>12, <2>1, <2>2, BufferAssumption DEF Receive, TypeOK
  <2> QED
    BY <1>12, <2>3, <2>4 DEF Receive, TypeOK, lifeVars, poolVars
<1>13. CASE Forward
  <2>1. listener.held \in Seq(Response) /\ export \in Seq(Response)
    BY DEF TypeOK, Listener
  <2>2. export' \in Seq(Response) /\ Len(export') = Len(export) + Len(listener.held)
    BY <1>13, <2>1, ConcatProperties DEF Forward
  <2>3. Len(export) \in Nat /\ Len(listener.held) \in Nat /\ Len(listener.held) <= 1
    BY <2>1, LenProperties DEF StreamInv
  <2>4. Len(export) < BufferSize \/ Len(export) = 0
    BY <1>13, EmptySeq DEF Forward, HasRoom
  <2>5. Len(export') <= IF BufferSize = 0 THEN 1 ELSE BufferSize
    BY <2>2, <2>3, <2>4, BufferAssumption
  <2>6. listener' \in Listener
    BY <1>13, EmptySeq DEF Forward, Listener
  <2> QED
    BY <1>13, <2>2, <2>5, <2>6 DEF Forward, TypeOK, lifeVars, poolVars
<1>14. CASE Exit
  BY <1>14, EmptySeq DEF Exit, TypeOK, Listener, lifeVars, poolVars
<1>15. CASE Consume
  <2>1. /\ Tail(export) \in Seq(Response) /\ Len(Tail(export)) = Len(export) - 1
        /\ Head(export) \in Response
    BY <1>15, HeadTailProperties DEF Consume, TypeOK
  <2>2. Len(export) \in Nat
    BY LenProperties DEF TypeOK
  <2>3. delivered' \in Seq(Response)
    BY <1>15, <2>1, AppendProperties DEF Consume, TypeOK
  <2>4. export' \in Seq(Response) /\ Len(export') <= IF BufferSize = 0 THEN 1 ELSE BufferSize
    BY <1>15, <2>1, <2>2, BufferAssumption DEF Consume, TypeOK
  <2> QED
    BY <1>15, <2>3, <2>4 DEF Consume, TypeOK, lifeVars, poolVars
<1>16. CASE CloseAgain \/ UNCHANGED vars
  BY <1>16 DEF CloseAgain, vars, TypeOK
<1>17. ASSUME NEW x \in Workers, ResponseReady(x) PROVE TypeOK'
  BY <1>17 DEF ResponseReady, TypeOK, lifeVars, chanVars
<1> QED
  BY <1>1, <1>2, <1>3, <1>4, <1>5, <1>6, <1>7, <1>8, <1>9, <1>10, <1>11, <1>12, <1>13,
     <1>14, <1>15, <1>16, <1>17
  DEF Next, CallStep, OwnCallStep, ListenerStep
----------------------------------------------------------------------------
(* The call in progress and the shutdown.                                 *)

(* RemoveWatcher, alone or in a loop, has taken the watcher out of the    *)
(* registry and closed its doneChan.                                      *)
LEMMA Unregistered ==
  ASSUME TypeOK, CallInv, NEW id \in IDs, RemoveWatcher(id) \/ RemoveNext(id)
  PROVE  /\ registry[id] \in Watchers
         /\ registry' = [registry EXCEPT ![id] = None]
         /\ done' = done \cup {registry[id]}
         /\ UNCHANGED <<jobs, faulted, poolVars, chanVars>>
         /\ call.w = None /\ call.pc \in {"idle", "loop"}
         /\ call'.w = registry[id] /\ call'.pc = "closeTasks"
         /\ \/ call.op = "none" /\ call'.op = "remove"
            \/ call.op \in {"clear", "close"} /\ call'.op = call.op
<1>1. call \in Call /\ registry[id] \in Watchers \cup {None}
  BY DEF TypeOK
<1>2. CASE RemoveWatcher(id)
  BY <1>1, <1>2 DEF RemoveWatcher, LoadAndDelete, NoCall
<1>3. CASE RemoveNext(id)
  <2>1. call.op \in {"clear", "close"} /\ call.w = None
    BY <1>1, <1>3 DEF RemoveNext, CallInv, NoCall, Call
  <2> QED
    BY <1>1, <1>3, <2>1 DEF RemoveNext, LoadAndDelete, Call
<1> QED
  BY <1>2, <1>3

(* A finished removal returns to the user or to the loop it came from.    *)
LEMMA RemoveReturns ==
  ASSUME TypeOK, CallInv, call.pc \in Removing
  PROVE  /\ call.w \in Watchers /\ call.op \in {"remove", "clear", "close"}
         /\ AfterRemove.w = None
         /\ \/ call.op = "remove" /\ AfterRemove = NoCall
            \/ call.op # "remove" /\ AfterRemove.op = call.op /\ AfterRemove.pc = "loop"
<1>1. call \in Call
  BY DEF TypeOK
<1>2. call.w \in Watchers /\ call.op \in {"remove", "clear", "close"}
  BY <1>1 DEF CallInv, NoCall, Call
<1> QED
  BY <1>1, <1>2 DEF AfterRemove, NoCall, Call

(* After the tasks' Close methods the removal goes on or returns.         *)
LEMMA TasksClosed ==
  ASSUME TypeOK, CallInv, CloseTasks
  PROVE  \/ /\ call'.op = call.op /\ call'.pc = "removeJob" /\ call'.w = call.w
            /\ UNCHANGED faulted
         \/ /\ \/ call' = NoCall /\ call.op = "remove"
               \/ call'.op = call.op /\ call.op # "remove" /\ call'.pc = "loop"
            /\ call'.w = None
            /\ faulted' = faulted \cup {WatcherID[call.w]}
<1>1. call \in Call
  BY DEF TypeOK
<1> QED
  BY <1>1, RemoveReturns DEF CloseTasks, Call

(* No step leaves the shape of a call or the order of the shutdown: gather *)
(* is closed late in Close, and the listener exits only when the context  *)
(* is cancelled.                                                          *)
LEMMA CallStepInv ==
  TypeOK /\ CallInv /\ CloseInv /\ [Next]_vars => CallInv' /\ CloseInv'
<1> SUFFICES ASSUME TypeOK, CallInv, CloseInv, [Next]_vars PROVE CallInv' /\ CloseInv'
  OBVIOUS
<1>a. call \in Call /\ listener \in Listener
  BY DEF TypeOK
<1>1. ASSUME NEW w \in Watchers, AddWatcher(w) PROVE CallInv' /\ CloseInv'
  BY <1>1, <1>a, IDAssumption
  DEF AddWatcher, CallInv, CloseInv, NoCall, Call, poolVars, chanVars
<1>2. CASE StartWatcher \/ ScheduleJob
  BY <1>2, <1>a
  DEF StartWatcher, ScheduleJob, CallInv, CloseInv, NoCall, Call, poolVars, chanVars
<1>3. ASSUME NEW id \in IDs, RemoveWatcher(id) \/ RemoveNext(id) PROVE CallInv' /\ CloseInv'
  BY <1>3, Unregistered, IDAssumption DEF CallInv, CloseInv, poolVars, chanVars
<1>4. CASE CloseTasks
  BY <1>4, TasksClosed, RemoveReturns, IDAssumption
  DEF CloseTasks, CallInv, CloseInv, NoCall, poolVars, chanVars
<1>5. CASE RemoveJob
  BY <1>5, RemoveReturns DEF RemoveJob, CallInv, CloseInv, NoCall, poolVars, chanVars
<1>6. CASE Clear
  BY <1>6 DEF Clear, CallInv, CloseInv, NoCall, poolVars, chanVars
<1>7. CASE Close
  BY <1>7 DEF Close, CallInv, CloseInv, NoCall, poolVars
<1>8. CASE LoopDone
  <2>1. call.op \in {"remove", "clear", "close"}
    BY <1>8, <1>a DEF LoopDone, CallInv, NoCall, Call
  <2> QED
    BY <1>8, <1>a, <2>1 DEF LoopDone, CallInv, CloseInv, NoCall, Call, poolVars, chanVars
<1>9. CASE Stop \/ StopReturns \/ CloseGather \/ CloseExport
  BY <1>9, <1>a
  DEF Stop, StopReturns, CloseGather, CloseExport, CallInv, CloseInv, NoCall, Call,
      lifeVars, poolVars, chanVars
<1>10. ASSUME NEW x \in Workers, NEW id \in IDs, Dispatch(x, id) PROVE CallInv' /\ CloseInv'
  BY <1>10 DEF Dispatch, CallInv, CloseInv, TypeOK, chanVars
<1>11. ASSUME NEW x \in Workers, ResponseReady(x) \/ SendResponse(x) PROVE CallInv' /\ CloseInv'
  BY <1>11 DEF ResponseReady, SendResponse, CallInv, CloseInv, TypeOK, chanVars
<1>12. CASE Receive \/ Forward \/ Exit
  <2>1. UNCHANGED <<stopped, worker, cancelled, gatherClosed, exportClosed, call>>
    BY <1>12 DEF Receive, Forward, Exit, poolVars
  <2>2. CallInv'
    BY <2>1 DEF CallInv
  <2>3. gatherClosed => cancelled
    BY <1>a DEF CallInv, CloseInv, NoCall, Call
  <2>4. listener.pc # "exited"
    BY <1>12 DEF Receive, Forward, Exit
  <2>5. listener'.pc = "exited" => cancelled
    <3>1. CASE Receive
      BY <3>1 DEF Receive, TypeOK
    <3>2. CASE Forward
      BY <3>2 DEF Forward
    <3>3. CASE Exit
      BY <3>3, <2>3 DEF Exit
    <3> QED
      BY <1>12, <3>1, <3>2, <3>3
  <2> QED
    BY <2>1, <2>2, <2>4, <2>5 DEF CloseInv
<1>13. ASSUME NEW id \in IDs, PauseWatcher(id) \/ ResumeWatcher(id) PROVE CallInv' /\ CloseInv'
  BY <1>13 DEF PauseWatcher, ResumeWatcher, CallInv, CloseInv, poolVars, chanVars
<1>14. CASE Consume \/ CloseAgain \/ UNCHANGED vars
  BY <1>14 DEF Consume, CloseAgain, vars, CallInv, CloseInv, poolVars
<1> QED
  BY <1>1, <1>2, <1>3, <1>4, <1>5, <1>6, <1>7, <1>8, <1>9, <1>10, <1>11, <1>12, <1>13, <1>14
  DEF Next, CallStep, OwnCallStep, ListenerStep

----------------------------------------------------------------------------
(* Registry and jobs.                                                     *)

(* The steps that are about a watcher.                                    *)
WatcherStep ==
  \/ \E w \in Watchers : AddWatcher(w)
  \/ \E id \in IDs : RemoveWatcher(id) \/ PauseWatcher(id) \/ ResumeWatcher(id) \/ RemoveNext(id)
  \/ StartWatcher \/ ScheduleJob \/ CloseTasks \/ RemoveJob

(* All others leave the watchers alone ...                                *)
LEMMA LifeUnchanged ==
  ASSUME [Next]_vars, ~WatcherStep
  PROVE  UNCHANGED lifeVars
BY DEF WatcherStep, Next, CallStep, OwnCallStep, ListenerStep, Clear, Close, CloseAgain, LoopDone, Stop,
       StopReturns, CloseGather, CloseExport, Dispatch, ResponseReady, SendResponse, Receive, Forward, Exit,
       Consume, vars, lifeVars

(* ... and change the call only in places that concern no watcher.        *)
LEMMA NoWatcherCall ==
  ASSUME TypeOK, CallInv, [Next]_vars, ~WatcherStep
  PROVE  \/ UNCHANGED call
         \/ /\ call.w = None /\ call'.w = None
            /\ call'.op # "add" /\ call'.pc \notin Removing
<1>1. call \in Call
  BY DEF TypeOK
<1>2. CASE Clear \/ Close \/ CloseExport
  BY <1>1, <1>2 DEF CallInv, NoCall, Call, Clear, Close, CloseExport
<1>5. CASE LoopDone
  BY <1>1, <1>5 DEF CallInv, NoCall, Call, LoopDone
<1>6. CASE StopReturns \/ CloseGather
  BY <1>1, <1>6 DEF CallInv, NoCall, Call, StopReturns, CloseGather
<1>3. CASE CloseAgain \/ Stop \/ UNCHANGED vars
  BY <1>3 DEF CloseAgain, Stop, vars
<1>4. CASE \/ Consume \/ ListenerStep
           \/ \E x \in Workers : ResponseReady(x) \/ SendResponse(x) \/ \E id \in IDs : Dispatch(x, id)
  BY <1>4 DEF Consume, ListenerStep, Receive, Forward, Exit, ResponseReady, SendResponse, Dispatch
<1> QED
  BY <1>2, <1>3, <1>4, <1>5, <1>6 DEF Next, CallStep, OwnCallStep, WatcherStep

(* What is registered stays open and under its own ID.                    *)
LEMMA RegistryStep ==
  TypeOK /\ CallInv /\ RegistryInv /\ [Next]_vars => RegistryInv'
<1> SUFFICES ASSUME TypeOK, CallInv, RegistryInv, [Next]_vars PROVE RegistryInv'
  OBVIOUS
<1>a. call \in Call /\ registry \in [IDs -> Watchers \cup {None}]
  BY DEF TypeOK
<1>1. ASSUME NEW w \in Watchers, AddWatcher(w) PROVE RegistryInv'
  BY <1>1, <1>a, IDAssumption DEF AddWatcher, Validate, RegistryInv, NoCall
<1>2. CASE StartWatcher
  BY <1>2, <1>a DEF StartWatcher, CallInv, RegistryInv, NoCall, Call
<1>3. CASE ScheduleJob
  <2>1. registry' = registry
    BY <1>3, <1>a DEF ScheduleJob, RegistryInv
  <2> QED
    BY <1>3, <2>1 DEF ScheduleJob, RegistryInv, NoCall
<1>4. ASSUME NEW id \in IDs, RemoveWatcher(id) \/ RemoveNext(id) PROVE RegistryInv'
  <2>1. WatcherID[registry[id]] = id
    BY <1>4, Unregistered, IDAssumption DEF RegistryInv
  <2> QED
    BY <1>4, <1>a, <2>1, Unregistered DEF RegistryInv
<1>5. CASE CloseTasks \/ RemoveJob
  <2>1. UNCHANGED <<registry, done>>
    BY <1>5 DEF CloseTasks, RemoveJob
  <2>2. \/ call'.op = call.op /\ call'.pc = "removeJob" /\ call'.w = call.w
        \/ call'.op # "add" /\ call'.pc \notin Removing
    BY <1>5, TasksClosed, RemoveReturns DEF CloseTasks, RemoveJob, NoCall
  <2>3. call.op # "add" /\ call.pc \in Removing
    BY <1>5, RemoveReturns DEF CloseTasks, RemoveJob
  <2> QED
    BY <2>1, <2>2, <2>3 DEF RegistryInv
<1>6. ASSUME NEW id \in IDs, PauseWatcher(id) \/ ResumeWatcher(id) PROVE RegistryInv'
  BY <1>6 DEF PauseWatcher, ResumeWatcher, RegistryInv
<1>7. CASE ~WatcherStep
  <2>1. UNCHANGED lifeVars
    BY <1>7, LifeUnchanged
  <2>2. UNCHANGED call \/ (call'.op # "add" /\ call'.pc \notin Removing)
    BY <1>7, NoWatcherCall
  <2> QED
    BY <2>1, <2>2 DEF RegistryInv, lifeVars
<1>8. CASE WatcherStep
  BY <1>1, <1>2, <1>3, <1>4, <1>5, <1>6, <1>8 DEF WatcherStep
<1> QED
  BY <1>7, <1>8

(* A job runs the watcher that is registered under its ID.                *)
LEMMA JobStep ==
  TypeOK /\ CallInv /\ RegistryInv /\ JobInv /\ [Next]_vars => JobInv'
<1> SUFFICES ASSUME TypeOK, CallInv, RegistryInv, JobInv, [Next]_vars PROVE JobInv'
  OBVIOUS
<1>a. /\ call \in Call /\ registry \in [IDs -> Watchers \cup {None}]
      /\ jobs \in [IDs -> Job]
  BY DEF TypeOK
<1>1. ASSUME NEW w \in Watchers, AddWatcher(w) PROVE JobInv'
  BY <1>1, <1>a, IDAssumption DEF AddWatcher, JobInv, Current, NoCall
<1>2. CASE StartWatcher
  BY <1>2, <1>a DEF StartWatcher, CallInv, JobInv, Current, NoCall, Call
<1>3. CASE ScheduleJob
  <2>1. call.w \in Watchers /\ WatcherID[call.w] \in IDs
    BY <1>3, <1>a, IDAssumption DEF ScheduleJob, CallInv, Call
  <2> DEFINE id == WatcherID[call.w]
  <2>2. registry' = registry /\ registry[id] = call.w /\ call'.w = None /\ call'.op # "add"
    BY <1>3, <1>a DEF ScheduleJob, RegistryInv, NoCall
  <2>3. CASE Scheduled(id)
    <3>1. Current(id) /\ call.op = "add" /\ jobs[id] # NoJob
      BY <1>3, <2>1, <2>3, IDAssumption DEF ScheduleJob, Scheduled, Current
    <3>2. id \in faulted
      BY <2>1, <3>1 DEF JobInv
    <3> QED
      BY <1>3, <2>2, <2>3, <3>2 DEF ScheduleJob, JobInv, Current
  <2>4. CASE ~Scheduled(id)
    <3>1. jobs' = [jobs EXCEPT ![id] = [watcher |-> call.w, paused |-> FALSE]]
      BY <1>3, <2>4 DEF ScheduleJob
    <3> QED
      BY <1>3, <1>a, <2>1, <2>2, <3>1, IDAssumption DEF ScheduleJob, JobInv, Current
  <2> QED
    BY <2>3, <2>4
<1>4. ASSUME NEW id \in IDs, RemoveWatcher(id) \/ RemoveNext(id) PROVE JobInv'
  <2>1. WatcherID[registry[id]] = id
    BY <1>4, Unregistered, IDAssumption DEF RegistryInv
  <2> QED
    BY <1>4, <1>a, <2>1, Unregistered, IDAssumption DEF JobInv, Current
<1>5. CASE CloseTasks
  BY <1>5, <1>a, TasksClosed, RemoveReturns DEF CloseTasks, JobInv, Current, NoCall
<1>6. CASE RemoveJob
  <2>1. /\ registry[WatcherID[call.w]] = None
        /\ call'.w = None /\ call'.op # "add"
    BY <1>6, <1>a DEF RemoveJob, AfterRemove, RegistryInv, CallInv, NoCall, Call
  <2> QED
    BY <1>6, <1>a, <2>1 DEF RemoveJob, JobInv, Current, NoJob
<1>7. ASSUME NEW id \in IDs, PauseWatcher(id) \/ ResumeWatcher(id) PROVE JobInv'
  <2>1. /\ jobs[id].watcher # None
        /\ \E p \in BOOLEAN : jobs' = [jobs EXCEPT ![id].paused = p]
    BY <1>7 DEF PauseWatcher, ResumeWatcher, Scheduled, JobInv
  <2> QED
    BY <1>7, <1>a, <2>1 DEF PauseWatcher, ResumeWatcher, JobInv, Current, Job, NoCall
<1>8. CASE ~WatcherStep
  <2>1. UNCHANGED lifeVars
    BY <1>8, LifeUnchanged
  <2>2. UNCHANGED call \/ (call.w = None /\ call'.w = None)
    BY <1>8, NoWatcherCall
  <2> QED
    BY <2>1, <2>2 DEF JobInv, Current, lifeVars
<1>9. CASE WatcherStep
  BY <1>1, <1>2, <1>3, <1>4, <1>5, <1>6, <1>7, <1>9 DEF WatcherStep
<1> QED
  BY <1>8, <1>9
----------------------------------------------------------------------------
(* Responses.                                                             *)

(* The head of a sequence may go to the end of the one before it.         *)
LEMMA MoveHead ==
  ASSUME NEW S, NEW s \in Seq(S), NEW t \in Seq(S), t # << >>
  PROVE  /\ Append(s, Head(t)) \o Tail(t) = s \o t
         /\ (s \o <<Head(t)>>) \o Tail(t) = s \o t
         /\ <<Head(t)>> \in Seq(S) /\ Len(<<Head(t)>>) = 1
<1>1. Head(t) \in S /\ Tail(t) \in Seq(S)
  BY HeadTailProperties
<1>2. <<Head(t)>> \in Seq(S) /\ Len(<<Head(t)>>) = 1
  BY <1>1
<1>3. <<Head(t)>> \o Tail(t) = t
  BY <1>1, <1>2, HeadTailProperties, ConcatProperties, LenProperties, SeqEqual
<1>4. Append(s, Head(t)) = s \o <<Head(t)>>
  BY <1>1, AppendIsConcat
<1> QED
  BY <1>1, <1>2, <1>3, <1>4, ConcatAssociative

(* Appending to the second of two sequences appends to both.              *)
LEMMA AppendConcat ==
  ASSUME NEW S, NEW s \in Seq(S), NEW t \in Seq(S), NEW e \in S
  PROVE  s \o Append(t, e) = Append(s \o t, e)
<1>1. s \o t \in Seq(S) /\ <<e>> \in Seq(S)
  BY ConcatProperties
<1> QED
  BY <1>1, AppendIsConcat, ConcatAssociative

(* The sequences a response goes through.                                 *)
LEMMA Channels ==
  ASSUME TypeOK
  PROVE  /\ gather \in Seq(Response) /\ export \in Seq(Response)
         /\ sent \in Seq(Response) /\ delivered \in Seq(Response)
         /\ listener.held \in Seq(Response) /\ listener.pc \in {"select", "forward", "exited"}
         /\ delivered \o export \in Seq(Response) /\ Passed \in Seq(Response)
         /\ delivered \o (export \o listener.held) = Passed
<1>1. /\ export \in Seq(Response) /\ delivered \in Seq(Response)
      /\ listener.held \in Seq(Response)
  BY DEF TypeOK, Listener
<1>2. delivered \o export \in Seq(Response) /\ Passed \in Seq(Response)
  BY <1>1, ConcatProperties DEF Passed
<1>3. delivered \o (export \o listener.held) = Passed
  <2>1. ASSUME NEW h \in Seq(Response)
        PROVE  (delivered \o export) \o h = delivered \o (export \o h)
    BY <1>1, ConcatAssociative
  <2> QED
    BY <1>1, <2>1, Zenon DEF Passed
<1> QED
  BY <1>1, <1>2, <1>3 DEF TypeOK, Listener

(* Every hop keeps the responses in the order in which they were sent.    *)
LEMMA StreamStep == TypeOK /\ StreamInv /\ [Next]_vars => StreamInv'
<1> SUFFICES ASSUME TypeOK, StreamInv, [Next]_vars PROVE StreamInv'
  OBVIOUS
<1>a. PICK lost \in Seq(Response) : sent = Passed \o lost
  BY DEF StreamInv
<1>b. /\ gather \in Seq(Response) /\ export \in Seq(Response) /\ delivered \in Seq(Response)
      /\ listener.held \in Seq(Response)
      /\ delivered \o export \in Seq(Response) /\ Passed \in Seq(Response)
  BY Channels
<1>1. ASSUME NEW x \in Workers, SendResponse(x) PROVE StreamInv'
  <2>1. worker[x] \in Response
    BY <1>1 DEF SendResponse, TypeOK
  <2>2. /\ gather' = Append(gather, worker[x]) /\ sent' = Append(sent, worker[x])
        /\ UNCHANGED <<delivered, export, listener>>
    BY <1>1 DEF SendResponse
  <2>3. Passed' = Passed
    BY <2>2 DEF Passed
  <2>4. ASSUME NEW s \in Seq(Response), sent = Passed \o s
        PROVE  Append(s, worker[x]) \in Seq(Response) /\ sent' = Passed' \o Append(s, worker[x])
    <3>1. Passed \o Append(s, worker[x]) = Append(Passed \o s, worker[x])
      BY <1>b, <2>1, AppendConcat
    <3>2. Append(s, worker[x]) \in Seq(Response)
      BY <2>1, AppendProperties
    <3> QED
      BY <2>2, <2>3, <2>4, <3>1, <3>2
  <2>5. \E s \in Seq(Response) : sent' = Passed' \o s
    BY <1>a, <2>4
  <2>6. listener.pc # "exited" => sent' = Passed' \o gather'
    BY <1>b, <2>2, <2>4 DEF StreamInv
  <2> QED
    BY <2>2, <2>5, <2>6 DEF StreamInv
<1>2. CASE Receive
  <2>1. listener.pc = "select" /\ listener.held = << >> /\ gather # << >>
    BY <1>2 DEF Receive, StreamInv
  <2>2. Passed = delivered \o export /\ sent = Passed \o gather
    BY <2>1, Channels, ConcatEmptySeq DEF Passed, StreamInv
  <2>3. CASE cancelled
    <3>1. /\ listener' = [pc |-> "exited", held |-> << >>]
          /\ UNCHANGED <<delivered, export, sent>>
      BY <1>2, <2>3 DEF Receive
    <3>2. Passed' = Passed
      BY <2>1, <3>1 DEF Passed
    <3>3. listener'.held = << >> /\ Len(<< >>) = 0 /\ listener'.pc = "exited"
      BY <3>1, EmptySeq
    <3> QED
      BY <1>a, <3>1, <3>2, <3>3 DEF StreamInv
  <2>4. CASE ~cancelled
    <3>1. /\ listener' = [pc |-> "forward", held |-> <<Head(gather)>>]
          /\ gather' = Tail(gather)
          /\ UNCHANGED <<delivered, export, sent>>
      BY <1>2, <2>4 DEF Receive
    <3>2. /\ Tail(gather) \in Seq(Response) /\ Head(gather) \in Response
          /\ <<Head(gather)>> \in Seq(Response) /\ Len(<<Head(gather)>>) = 1
          /\ ((delivered \o export) \o <<Head(gather)>>) \o Tail(gather)
               = (delivered \o export) \o gather
      BY <1>b, <2>1, HeadTailProperties, MoveHead
    <3>3. Passed' = (delivered \o export) \o <<Head(gather)>>
      BY <3>1 DEF Passed
    <3>4. sent' = Passed' \o gather' /\ gather' \in Seq(Response)
      BY <2>2, <3>1, <3>2, <3>3
    <3>5. Len(listener'.held) <= 1 /\ listener'.pc = "forward"
      BY <3>1, <3>2
    <3> QED
      BY <3>4, <3>5, Zenon DEF StreamInv
  <2> QED
    BY <2>3, <2>4
<1>3. CASE Forward
  <2>1. /\ listener' = [pc |-> "select", held |-> << >>]
        /\ export' = export \o listener.held
        /\ UNCHANGED <<delivered, gather, sent>>
    BY <1>3 DEF Forward
  <2>2. Passed' = (delivered \o (export \o listener.held)) \o << >>
    BY <2>1 DEF Passed
  <2>3. export \o listener.held \in Seq(Response)
    BY Channels, ConcatProperties
  <2>4. delivered \o (export \o listener.held) = Passed
    BY Channels
  <2>5. Passed' = Passed
    BY <2>2, <2>3, <2>4, Channels, ConcatEmptySeq
  <2>6. sent' = Passed' \o gather'
    BY <1>3, <2>1, <2>5 DEF StreamInv, Forward
  <2>7. Len(listener'.held) <= 1 /\ listener'.held = << >>
    BY <2>1, EmptySeq
  <2> QED
    BY <1>b, <2>1, <2>6, <2>7, Zenon DEF StreamInv
<1>4. CASE Exit
  <2>1. /\ listener' = [pc |-> "exited", held |-> << >>] /\ listener.held = << >>
        /\ UNCHANGED <<delivered, export, sent>>
    BY <1>4 DEF Exit, StreamInv
  <2>2. Passed' = Passed
    BY <2>1 DEF Passed
  <2> QED
    BY <1>a, <2>1, <2>2, EmptySeq DEF StreamInv
<1>5. CASE Consume
  <2>1. /\ export # << >>
        /\ export' = Tail(export) /\ delivered' = Append(delivered, Head(export))
        /\ UNCHANGED <<listener, gather, sent>>
    BY <1>5 DEF Consume
  <2>2. delivered' \o export' = delivered \o export
    BY <2>1, Channels, MoveHead
  <2>3. Passed' = Passed
    BY <2>1, <2>2 DEF Passed
  <2> QED
    BY <1>a, <2>1, <2>3 DEF StreamInv
<1>6. CASE UNCHANGED <<gather, export, listener, sent, delivered>>
  <2>1. Passed' = Passed
    BY <1>6 DEF Passed
  <2> QED
    BY <1>6, <2>1 DEF StreamInv
<1>7. CASE WatcherStep
  <2>1. UNCHANGED chanVars
    BY <1>7
    DEF WatcherStep, AddWatcher, RemoveWatcher, PauseWatcher, ResumeWatcher, RemoveNext,
        LoadAndDelete, StartWatcher, ScheduleJob, CloseTasks, RemoveJob
  <2> QED
    BY <1>6, <2>1 DEF chanVars
<1>8. CASE Clear \/ LoopDone \/ Close \/ CloseAgain \/ Stop \/ StopReturns \/ CloseGather \/ CloseExport
           \/ \E x \in Workers : ResponseReady(x) \/ \E id \in IDs : Dispatch(x, id)
  <2>1. UNCHANGED <<gather, export, listener, sent, delivered>>
    BY <1>8
    DEF Clear, LoopDone, Close, CloseAgain, Stop, StopReturns, CloseGather, CloseExport, Dispatch,
        ResponseReady, chanVars, vars
  <2> QED
    BY <1>6, <2>1
<1>9. CASE UNCHANGED vars
  BY <1>6, <1>9 DEF vars
<1> QED
  BY <1>1, <1>2, <1>3, <1>4, <1>5, <1>7, <1>8, <1>9 DEF Next, CallStep, OwnCallStep, ListenerStep, WatcherStep

----------------------------------------------------------------------------
(* Results.                                                               *)

(* All parts of the invariant are kept together.                          *)
LEMMA NextIInv == IInv /\ [Next]_vars => IInv'
BY TypeStep, CallStepInv, RegistryStep, JobStep, StreamStep DEF IInv

(* The inductive invariant holds in every reachable state.                *)
THEOREM Invariance == Spec => []IInv
<1>1. Init => IInv
  BY InitIInv
<1>2. IInv /\ [Next]_vars => IInv'
  BY NextIInv
<1> QED
  BY <1>1, <1>2, PTL DEF Spec

(* The manager's state has its type; in particular neither channel ever   *)
(* holds more than its capacity.                                          *)
THEOREM TypeCorrect == Spec => []TypeOK
<1>1. IInv => TypeOK
  BY DEF IInv
<1> QED
  BY <1>1, Invariance, PTL

(* No doneChan is closed twice: what is registered is open.               *)
THEOREM RegisteredStayOpen == Spec => []RegisteredIsOpen
<1>1. IInv => RegisteredIsOpen
  BY DEF IInv, RegistryInv, RegisteredIsOpen
<1> QED
  BY <1>1, Invariance, PTL

(* Between calls the jobs are those of the registered watchers, but for   *)
(* the IDs a failed Initialize or Close has touched.                      *)
THEOREM JobsAgree == Spec => []JobsFollowRegistry
<1>1. IInv => JobsFollowRegistry
  BY DEF IInv, CallInv, JobInv, Current, JobsFollowRegistry
<1> QED
  BY <1>1, Invariance, PTL

(* A sequence is the beginning of any it is continued to.                 *)
LEMMA Beginning ==
  ASSUME NEW S, NEW s \in Seq(S), NEW t \in Seq(S)
  PROVE  /\ SubSeq(s \o t, 1, Len(s)) = s
         /\ Len(s) \in 0..Len(s \o t)
         /\ IsPrefix(s, s \o t)
<1>1. /\ Len(s) \in Nat /\ Len(t) \in Nat
      /\ Len(s \o t) = Len(s) + Len(t)
  BY LenProperties, ConcatProperties
<1>2. SubSeq(s, 1, Len(s)) = s
  BY SubSeqFull
<1>3. SubSeq(s \o t, 1, Len(s)) = SubSeq(s, 1, Len(s))
  <2>1. CASE Len(s) = 0
    BY <2>1, SubSeqEmpty
  <2>2. CASE Len(s) # 0
    <3>1. 1 \in 1..Len(s) /\ Len(s) \in 1..Len(s)
      BY <1>1, <2>2
    <3> QED
      BY <3>1, SubSeqOfConcat1
  <2> QED
    BY <2>1, <2>2
<1> QED
  BY <1>1, <1>2, <1>3 DEF IsPrefix

(* Responses reach the consumer in the order sent: none is lost before    *)
(* Close cancels the context, and then only the latest.                   *)
THEOREM ResponsesInOrder == Spec => []InOrder
<1>1. ASSUME IInv PROVE InOrder
  <2>1. TypeOK /\ StreamInv
    BY <1>1 DEF IInv
  <2>2. PICK lost \in Seq(Response) : sent = Passed \o lost
    BY <2>1 DEF StreamInv
  <2>3. IsPrefix(delivered \o export \o listener.held, sent)
    BY <2>1, <2>2, Channels, Beginning DEF Passed
  <2>4. ~cancelled => sent = Passed \o gather
    BY <1>1, <2>1 DEF IInv, CloseInv, StreamInv
  <2>5. Passed \o gather = delivered \o InTransit
    <3>1. /\ gather \in Seq(Response) /\ delivered \in Seq(Response)
          /\ export \o listener.held \in Seq(Response)
      BY <2>1, Channels, ConcatProperties
    <3>2. ASSUME NEW h \in Seq(Response)
          PROVE  (delivered \o h) \o gather = delivered \o (h \o gather)
      BY <3>1, ConcatAssociative
    <3> QED
      BY <2>1, <3>1, <3>2, Channels, Zenon DEF InTransit
  <2> QED
    BY <2>3, <2>4, <2>5 DEF InOrder
<1> QED
  BY <1>1, Invariance, PTL
----------------------------------------------------------------------------
(* Refinement.                                                            *)

(* The stream's variables in terms of the manager's.                      *)
Live == IF listener.pc = "exited" THEN << >> ELSE gather
Pending == export \o listener.held \o Live
Stage == IF ~cancelled THEN "open" ELSE IF listener.pc # "exited" THEN "closing" ELSE "ended"

(* The first element of a concatenation and what follows it.              *)
LEMMA HeadOfConcat ==
  ASSUME NEW S, NEW s \in Seq(S), NEW t \in Seq(S), s # << >>
  PROVE  /\ s \o t # << >>
         /\ Head(s \o t) = Head(s)
         /\ Tail(s \o t) = Tail(s) \o t
<1>1. /\ Len(s) \in Nat \ {0} /\ Len(t) \in Nat
      /\ s \o t \in Seq(S) /\ Len(s \o t) = Len(s) + Len(t)
  BY EmptySeq, LenProperties, ConcatProperties
<1>2. s \o t # << >>
  BY <1>1, EmptySeq
<1>3. Head(s \o t) = Head(s)
  BY <1>1, ConcatProperties
<1>4. Tail(s) \in Seq(S) /\ Len(Tail(s)) = Len(s) - 1 /\ Tail(s \o t) \in Seq(S)
  BY <1>1, <1>2, HeadTailProperties
<1>5. Tail(s \o t) = Tail(s) \o t
  <2>1. Tail(s) \o t \in Seq(S) /\ Len(Tail(s) \o t) = Len(Tail(s \o t))
    BY <1>1, <1>2, <1>4, HeadTailProperties, ConcatProperties
  <2>2. ASSUME NEW k \in 1..Len(Tail(s \o t)) PROVE Tail(s \o t)[k] = (Tail(s) \o t)[k]
    BY <1>1, <1>2, <1>4, <2>1, HeadTailProperties, ConcatProperties
  <2> QED
    BY <1>4, <2>1, <2>2, SeqEqual
<1> QED
  BY <1>2, <1>3, <1>5

(* The sequences that make up what is pending.                            *)
LEMMA PendingParts ==
  ASSUME TypeOK
  PROVE  /\ Live \in Seq(Response)
         /\ export \o listener.held \in Seq(Response) /\ listener.held \o Live \in Seq(Response)
         /\ Pending \in Seq(Response)
         /\ Pending = export \o (listener.held \o Live)
<1>1. /\ export \in Seq(Response) /\ listener.held \in Seq(Response)
      /\ Live \in Seq(Response)
  BY Channels, EmptySeq DEF Live
<1>2. ASSUME NEW h \in Seq(Response) PROVE (export \o h) \o Live = export \o (h \o Live)
  BY <1>1, ConcatAssociative
<1> QED
  BY <1>1, <1>2, ConcatProperties DEF Pending

(* A response that is sent is accepted by the stream or, when nobody      *)
(* listens any more, ignored.                                             *)
LEMMA SendIsAccept ==
  ASSUME IInv, NEW x \in Workers, SendResponse(x)
  PROVE  \/ UNCHANGED <<Pending, delivered, Stage>>
         \/ /\ Stage # "ended" /\ worker[x] \in Response
            /\ Pending' = Append(Pending, worker[x]) /\ UNCHANGED <<delivered, Stage>>
<1>1. TypeOK /\ worker[x] \in Response
  BY DEF IInv, TypeOK, SendResponse
<1>2. /\ gather' = Append(gather, worker[x])
      /\ UNCHANGED <<delivered, export, listener, cancelled>>
  BY DEF SendResponse
<1>3. UNCHANGED Stage
  BY <1>2 DEF Stage
<1>4. CASE listener.pc = "exited"
  BY <1>2, <1>3, <1>4 DEF Pending, Live
<1>5. CASE listener.pc # "exited"
  <2>1. Live = gather /\ Live' = Append(gather, worker[x])
    BY <1>2, <1>5 DEF Live
  <2>2. export \o listener.held \in Seq(Response) /\ gather \in Seq(Response)
    BY <1>1, PendingParts, Channels
  <2>3. Pending' = (export \o listener.held) \o Append(gather, worker[x])
    BY <1>2, <2>1 DEF Pending
  <2>4. (export \o listener.held) \o Append(gather, worker[x]) = Append(Pending, worker[x])
    <3>1. ASSUME NEW s \in Seq(Response)
          PROVE  s \o Append(gather, worker[x]) = Append(s \o gather, worker[x])
      BY <1>1, <2>2, AppendConcat
    <3>2. Pending = (export \o listener.held) \o gather
      BY <2>1 DEF Pending
    <3> QED
      BY <2>2, <3>1, <3>2, Zenon
  <2> QED
    BY <1>1, <1>2, <1>3, <1>5, <2>3, <2>4 DEF Stage
<1> QED
  BY <1>4, <1>5

(* What the listener does is invisible but for its exit, which ends the   *)
(* stream and keeps what is in export.                                    *)
LEMMA ListenerIsEnd ==
  ASSUME IInv, ListenerStep
  PROVE  \/ UNCHANGED <<Pending, delivered, Stage>>
         \/ /\ Stage = "closing" /\ Stage' = "ended"
            /\ \E n \in 0..Len(Pending) : Pending' = SubSeq(Pending, 1, n)
            /\ UNCHANGED delivered
<1>1. TypeOK /\ StreamInv
  BY DEF IInv
<1>2. /\ gather \in Seq(Response) /\ export \in Seq(Response)
      /\ listener.held \in Seq(Response)
  BY <1>1, Channels
<1>3. UNCHANGED <<delivered, cancelled>> /\ cancelled \in BOOLEAN
  BY <1>1 DEF ListenerStep, Receive, Forward, Exit, TypeOK
<1>4. ASSUME cancelled, listener.pc = "select", UNCHANGED export,
             listener' = [pc |-> "exited", held |-> << >>]
      PROVE  /\ Stage = "closing" /\ Stage' = "ended"
             /\ \E n \in 0..Len(Pending) : Pending' = SubSeq(Pending, 1, n)
  <2>1. Stage = "closing" /\ Stage' = "ended"
    BY <1>3, <1>4 DEF Stage
  <2>2. Pending' = (export \o << >>) \o << >>
    BY <1>4 DEF Pending, Live
  <2>3. Pending' = export
    BY <1>2, <2>2, ConcatEmptySeq
  <2>4. Pending = export \o (listener.held \o Live) /\ listener.held \o Live \in Seq(Response)
    BY <1>1, PendingParts
  <2>5. SubSeq(Pending, 1, Len(export)) = export /\ Len(export) \in 0..Len(Pending)
    BY <1>2, <2>4, Beginning
  <2> QED
    BY <2>1, <2>3, <2>5, Zenon
<1>5. CASE Receive
  <2>1. CASE cancelled
    BY <1>3, <1>4, <1>5, <2>1 DEF Receive
  <2>2. CASE ~cancelled
    <3>1. /\ listener.pc = "select" /\ listener.held = << >> /\ gather # << >>
          /\ listener' = [pc |-> "forward", held |-> <<Head(gather)>>]
          /\ gather' = Tail(gather) /\ UNCHANGED export
      BY <1>1, <1>5, <2>2 DEF Receive, StreamInv
    <3>2. Pending = (export \o << >>) \o gather
      BY <3>1 DEF Pending, Live
    <3>3. Pending = export \o gather
      BY <1>2, <3>2, ConcatEmptySeq
    <3>4. Pending' = (export \o <<Head(gather)>>) \o Tail(gather)
      BY <3>1 DEF Pending, Live
    <3>5. (export \o <<Head(gather)>>) \o Tail(gather) = export \o gather
      BY <1>2, <3>1, MoveHead
    <3> QED
      BY <1>3, <2>2, <3>3, <3>4, <3>5 DEF Stage
  <2> QED
    BY <2>1, <2>2
<1>6. CASE Forward
  <2>1. /\ listener.pc = "forward" /\ listener' = [pc |-> "select", held |-> << >>]
        /\ export' = export \o listener.held /\ UNCHANGED gather
    BY <1>6 DEF Forward
  <2>2. Pending' = ((export \o listener.held) \o << >>) \o gather
    BY <2>1 DEF Pending, Live
  <2>3. Pending = (export \o listener.held) \o gather
    BY <2>1 DEF Pending, Live
  <2>4. (export \o listener.held) \o << >> = export \o listener.held
    BY <1>2, ConcatProperties, ConcatEmptySeq
  <2>5. UNCHANGED Stage
    BY <1>3, <2>1 DEF Stage
  <2> QED
    BY <1>3, <2>2, <2>3, <2>4, <2>5
<1>7. CASE Exit
  <2>1. gatherClosed => cancelled
    <3>1. call \in Call
      BY <1>1 DEF TypeOK
    <3> QED
      BY <3>1 DEF IInv, CallInv, CloseInv, NoCall, Call
  <2> QED
    BY <1>3, <1>4, <1>7, <2>1 DEF Exit
<1> QED
  BY <1>5, <1>6, <1>7 DEF ListenerStep

(* What the consumer takes is the oldest pending response.                *)
LEMMA ConsumeIsDeliver ==
  ASSUME IInv, Consume
  PROVE  /\ Pending # << >> /\ Pending' = Tail(Pending)
         /\ delivered' = Append(delivered, Head(Pending)) /\ UNCHANGED Stage
<1>1. TypeOK
  BY DEF IInv
<1>2. /\ export # << >> /\ export' = Tail(export)
      /\ delivered' = Append(delivered, Head(export))
      /\ UNCHANGED <<listener, gather, cancelled>>
  BY DEF Consume
<1>3. UNCHANGED <<Stage, Live>>
  BY <1>2 DEF Stage, Live
<1>4. /\ export \in Seq(Response) /\ Tail(export) \in Seq(Response)
      /\ listener.held \in Seq(Response) /\ Live \in Seq(Response)
      /\ listener.held \o Live \in Seq(Response)
      /\ Pending = export \o (listener.held \o Live)
  BY <1>1, <1>2, Channels, PendingParts, HeadTailProperties
<1>5. /\ Pending # << >> /\ Head(Pending) = Head(export)
      /\ Tail(Pending) = Tail(export) \o (listener.held \o Live)
  BY <1>2, <1>4, HeadOfConcat
<1>6. Pending' = (Tail(export) \o listener.held) \o Live
  BY <1>2, <1>3 DEF Pending
<1>7. ASSUME NEW h \in Seq(Response)
      PROVE  (Tail(export) \o h) \o Live = Tail(export) \o (h \o Live)
  BY <1>4, ConcatAssociative
<1> QED
  BY <1>2, <1>3, <1>4, <1>5, <1>6, <1>7, Zenon

(* Every step of the manager is a step of the stream or leaves it alone.  *)
LEMMA StreamNext ==
  ASSUME IInv, [Next]_vars PROVE [Stream!Next]_(Stream!vars)
<1> DEFINE Same == UNCHANGED <<Pending, delivered, Stage>>
<1>1. Same => [Stream!Next]_(Stream!vars)
  BY DEF Stream!vars, Pending, Live, Stage
<1>2. ASSUME NEW x \in Workers, SendResponse(x) PROVE [Stream!Next]_(Stream!vars)
  <2>1. CASE Same
    BY <1>1, <2>1
  <2>2. CASE /\ Stage # "ended" /\ worker[x] \in Response
             /\ Pending' = Append(Pending, worker[x]) /\ UNCHANGED <<delivered, Stage>>
    <3>1. Stream!Accept(worker[x])
      BY <2>2 DEF Stream!Accept, Pending, Live, Stage
    <3> QED
      BY <2>2, <3>1 DEF Stream!Next
  <2> QED
    BY <1>2, <2>1, <2>2, SendIsAccept
<1>3. CASE ListenerStep
  <2>1. CASE Same
    BY <1>1, <2>1
  <2>2. CASE /\ Stage = "closing" /\ Stage' = "ended"
             /\ \E n \in 0..Len(Pending) : Pending' = SubSeq(Pending, 1, n)
             /\ UNCHANGED delivered
    <3>1. Stream!End
      BY <2>2 DEF Stream!End, Pending, Live, Stage
    <3> QED
      BY <3>1 DEF Stream!Next
  <2> QED
    BY <1>3, <2>1, <2>2, ListenerIsEnd
<1>4. CASE Consume
  <2>1. Stream!Deliver
    BY <1>4, ConsumeIsDeliver DEF Stream!Deliver, Pending, Live, Stage
  <2> QED
    BY <2>1 DEF Stream!Next
<1>5. CASE Close
  <2>1. ~cancelled /\ listener.pc # "exited"
    BY <1>5 DEF Close, IInv, CallInv, CloseInv, NoCall
  <2>2. /\ Stage = "open" /\ Stage' = "closing"
        /\ UNCHANGED <<Pending, delivered>>
    BY <1>5, <2>1 DEF Close, Stage, Pending, Live
  <2>3. Stream!BeginClose
    BY <2>2 DEF Stream!BeginClose, Pending, Live, Stage
  <2> QED
    BY <2>3 DEF Stream!Next
<1>6. CASE UNCHANGED <<gather, export, listener, delivered, cancelled>>
  BY <1>1, <1>6 DEF Pending, Live, Stage
<1>7. CASE WatcherStep
  <2>1. UNCHANGED chanVars
    BY <1>7
    DEF WatcherStep, AddWatcher, RemoveWatcher, PauseWatcher, ResumeWatcher, RemoveNext,
        LoadAndDelete, StartWatcher, ScheduleJob, CloseTasks, RemoveJob
  <2> QED
    BY <1>6, <2>1 DEF chanVars
<1>8. CASE Clear \/ LoopDone \/ CloseAgain \/ Stop \/ StopReturns \/ CloseGather \/ CloseExport
           \/ \E x \in Workers : ResponseReady(x) \/ \E id \in IDs : Dispatch(x, id)
  <2>1. UNCHANGED <<gather, export, listener, delivered, cancelled>>
    BY <1>8
    DEF Clear, LoopDone, CloseAgain, Stop, StopReturns, CloseGather, CloseExport, Dispatch,
        ResponseReady, chanVars, vars
  <2> QED
    BY <1>6, <2>1
<1>9. CASE UNCHANGED vars
  BY <1>6, <1>9 DEF vars
<1> QED
  BY <1>2, <1>3, <1>4, <1>5, <1>7, <1>8, <1>9 DEF Next, CallStep, OwnCallStep, WatcherStep

(* The manager, with its goroutines and channels, is a first-in first-out *)
(* stream that loses nothing before Close and then at most what came last.*)
THEOREM Refinement == Spec => ImplementsStream
<1>1. Init => Stream!Init
  BY EmptySeq, ConcatEmptySeq DEF Init, Stream!Init
<1>2. IInv /\ [Next]_vars => [Stream!Next]_(Stream!vars)
  BY StreamNext
<1> QED
  BY <1>1, <1>2, Invariance, PTL DEF Spec, ImplementsStream, Stream!Spec
============================================================================

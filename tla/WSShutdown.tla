---------------------------- MODULE WSShutdown ----------------------------
(***************************************************************************)
(* A Wadjit with one watcher on a WSEndpoint being closed: the endpoint's *)
(* executions, pumps and Close (WSEndpoint) together with the gather      *)
(* channel they send on, the goroutine that empties it, and the steps of  *)
(* Wadjit.Close, which this module takes one by one as Wadjit does.       *)
(*                                                                        *)
(* The consumer of Responses() keeps reading, so that what the listener   *)
(* takes it passes on in one step.  taskman's Stop waits for executions   *)
(* and knows nothing of pumps.                                            *)
(***************************************************************************)
EXTENDS WSEndpoint

CONSTANT BufferSize   \* capacity of respGatherChan

ASSUME BufferAssumption == BufferSize \in Nat \ {0}

VARIABLES
  stage,      \* how far Wadjit.Close has come
  chan,       \* responses in respGatherChan
  listener    \* listenForResponses

managerVars == <<stage, chan, listener>>
shutdownVars == <<mode, payloadOK, mu, conn, link, dialled, ctxDone, pc, on, msg, begun,
                  inflight, wire, answered, raced, stage, chan, listener>>

(* open: not called; remove: w.ctx is cancelled and the watcher is being  *)
(* removed; stop: its job is gone and Stop is called; drain: the gather   *)
(* channel is closed; closed: Close has returned.                         *)
Stage == {"open", "remove", "stop", "drain", "closed"}
Listener == {"select", "exited"}

ShutdownTypeOK ==
  /\ TypeOK
  /\ stage \in Stage
  /\ chan \in 0..BufferSize
  /\ listener \in Listener

ShutdownInit ==
  /\ Init
  /\ stage = "open"
  /\ chan = 0
  /\ listener = "select"

cancelled == stage # "open"
gatherClosed == stage \in {"drain", "closed"}

----------------------------------------------------------------------------
(* The endpoint.                                                          *)

(* taskman starts executions as long as the job is there.                 *)
Dispatch ==
  /\ stage \in {"open", "remove"}
  /\ \E x \in Execs : Start(x) \/ StartOneHit(x)
  /\ UNCHANGED managerVars

(* Steps that send nothing.                                               *)
QuietExec(x) == ExecStep(x) /\ UNCHANGED managerVars
QuietWrite(x) == WriteStep(x) /\ UNCHANGED managerVars
QuietPump(c) == PumpStep(c) /\ UNCHANGED managerVars
QuietPeer == PeerStep /\ UNCHANGED managerVars
QuietClose == CloseStep /\ UNCHANGED managerVars

(* A response goes into the channel once there is room ...                *)
Send(t) ==
  /\ SendStep(t)
  /\ ~gatherClosed
  /\ chan < BufferSize
  /\ chan' = chan + 1
  /\ UNCHANGED <<stage, listener>>

(* ... and a send on the closed channel, one that was waiting for room    *)
(* included, ends the process.                                            *)
SendOnClosed(t) ==
  /\ Sending(t)
  /\ gatherClosed
  /\ Panic
  /\ UNCHANGED managerVars

----------------------------------------------------------------------------
(* Wadjit.Close.                                                          *)

Cancel ==
  /\ ~Panicked
  /\ stage = "open"
  /\ stage' = "remove"
  /\ UNCHANGED <<vars, chan, listener>>

(* RemoveWatcher closes the endpoint; see WSEndpoint.                     *)
CloseEndpoint == stage = "remove" /\ Close /\ UNCHANGED managerVars

(* The job is removed, unless the endpoint's Close failed, and Stop is    *)
(* called.                                                                *)
RemoveJob ==
  /\ stage = "remove"
  /\ pc[Closer] = "done"
  /\ stage' = "stop"
  /\ UNCHANGED <<vars, chan, listener>>

(* Mutant: the channel is closed without waiting for the tasks.           *)
StopReturns_NoWait ==
  /\ stage = "stop"
  /\ ~Panicked
  /\ stage' = "drain"
  /\ UNCHANGED <<vars, chan, listener>>

(* Stop returns when no execution is left; the gather channel is closed.  *)
StopReturns ==
  /\ stage = "stop"
  /\ \A x \in Execs : pc[x] = "idle"
  /\ stage' = "drain"
  /\ UNCHANGED <<vars, chan, listener>>

(* The listener is gone and the export channel is closed.                 *)
CloseExport ==
  /\ ~Panicked
  /\ stage = "drain"
  /\ listener = "exited"
  /\ stage' = "closed"
  /\ UNCHANGED <<vars, chan, listener>>

----------------------------------------------------------------------------
(* listenForResponses.                                                    *)

(* A response is passed on; once the context is cancelled it is dropped   *)
(* and the goroutine ends.                                                *)
ReceiveResponse ==
  /\ ~Panicked
  /\ listener = "select"
  /\ chan > 0
  /\ chan' = chan - 1
  /\ listener' = IF cancelled THEN "exited" ELSE "select"
  /\ UNCHANGED <<vars, stage>>

(* The context is done.                                                   *)
Exit ==
  /\ ~Panicked
  /\ listener = "select"
  /\ cancelled
  /\ listener' = "exited"
  /\ UNCHANGED <<vars, stage, chan>>

----------------------------------------------------------------------------
ManagerStep == RemoveJob \/ StopReturns \/ CloseExport
ListenerStep == ReceiveResponse \/ Exit

ShutdownNext ==
  \/ Dispatch
  \/ \E x \in Execs : QuietExec(x) \/ QuietWrite(x)
  \/ \E c \in Conns : QuietPump(c)
  \/ \E t \in Threads : Send(t) \/ SendOnClosed(t)
  \/ QuietPeer
  \/ Cancel \/ CloseEndpoint \/ QuietClose \/ ManagerStep
  \/ ListenerStep

(* As in WSEndpoint, and the goroutines of the manager run.               *)
ShutdownFairness ==
  /\ \A x \in Execs :
       /\ WF_shutdownVars(QuietExec(x))
       /\ WF_shutdownVars(QuietWrite(x) /\ WriteOnClosed(x))
  /\ \A c \in Conns : WF_shutdownVars(QuietPump(c))
  /\ \A t \in Threads : WF_shutdownVars(Send(t) \/ SendOnClosed(t))
  /\ WF_shutdownVars(CloseEndpoint) /\ WF_shutdownVars(QuietClose)
  /\ WF_shutdownVars(ManagerStep)
  /\ WF_shutdownVars(ListenerStep)

ShutdownSpec == ShutdownInit /\ [][ShutdownNext]_shutdownVars /\ ShutdownFairness

----------------------------------------------------------------------------
(* Properties.                                                            *)

(* Executions are gone before the channel they send on is closed          *)
(* (wadjit.go:216 closes it after Stop): only a read pump, which nobody   *)
(* waits for, can be caught sending.                                      *)
OnlyPumpsSendLate ==
  gatherClosed => \A t \in Threads : Sending(t) => t \in Conns

(* What can keep Close from returning: a write to a peer that has stopped *)
(* reading blocks with the lock that the endpoint's Close needs; a failed *)
(* write took the lock twice; a one-hit server stays silent; the gather   *)
(* channel is full and its reader gone; or a reconnect waits for the pump *)
(* of a connection that is open and never closed.                         *)
Hung ==
  \/ \E x \in Execs : mu = x /\ pc[x] = "write" /\ conn # Nil /\ link[conn] # "closed"
  \/ \E x \in Execs : mu = x /\ pc[x] = "closing"
  \/ \E x \in Execs : pc[x] = "ohRead"
  \/ listener = "exited" /\ chan = BufferSize /\ \E t \in Threads : Sending(t)
  \/ \E x \in Execs, c \in Conns : pc[x] = "wait" /\ pc[c] = "reading" /\ link[on[c]] = "open"

(* Close "stops all Wadjit processes" (wadjit.go:199), and there is no    *)
(* other way for it not to return than one of these.                      *)
CloseHangsOnly ==
  [](stage = "remove" => <>(stage = "closed" \/ Panicked \/ []Hung))
============================================================================

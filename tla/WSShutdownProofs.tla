------------------------- MODULE WSShutdownProofs -------------------------
(***************************************************************************)
(* What WSEndpoint's proofs show of one endpoint holds while Wadjit.Close  *)
(* shuts it down, and no execution is left when the gather channel closes, *)
(* for any buffer size and any number of executions and connections.       *)
(***************************************************************************)
EXTENDS WSShutdown, WSEndpointProofs

(* Stop has waited for the executions, and the job that would start more  *)
(* of them is gone.                                                       *)
NoExecLeft == gatherClosed => \A x \in Execs : pc[x] \in {"idle", "dead"}

ShutdownInv ==
  /\ IInv
  /\ stage \in Stage /\ chan \in 0..BufferSize /\ listener \in Listener
  /\ NoExecLeft

(* As seen by the endpoint, every step of the shutdown is a step of its   *)
(* own, the panic of a send on the closed channel, or none.               *)
LEMMA EndpointStep == [ShutdownNext]_shutdownVars => [Next \/ Panic]_vars
<1> SUFFICES ASSUME [ShutdownNext]_shutdownVars PROVE [Next \/ Panic]_vars
  OBVIOUS
<1>1. CASE Dispatch
  BY <1>1 DEF Dispatch, Next
<1>2. ASSUME NEW x \in Execs, QuietExec(x) \/ QuietWrite(x) PROVE Next
  BY <1>2 DEF QuietExec, QuietWrite, Next
<1>3. ASSUME NEW c \in Conns, QuietPump(c) PROVE Next
  BY <1>3 DEF QuietPump, Next
<1>4. ASSUME NEW t \in Threads, Send(t) \/ SendOnClosed(t) PROVE Next \/ Panic
  BY <1>4 DEF Send, SendOnClosed, Next
<1>5. CASE QuietPeer \/ CloseEndpoint \/ QuietClose
  BY <1>5 DEF QuietPeer, CloseEndpoint, QuietClose, Next
<1>6. CASE Cancel \/ ManagerStep \/ ListenerStep
  BY <1>6 DEF Cancel, ManagerStep, RemoveJob, StopReturns, CloseExport, ListenerStep,
     ReceiveResponse, Exit
<1>7. CASE UNCHANGED shutdownVars
  BY <1>7 DEF shutdownVars, vars
<1> QED
  BY <1>1, <1>2, <1>3, <1>4, <1>5, <1>6, <1>7 DEF ShutdownNext

(* The manager's state keeps its types: a send waits for room, and the    *)
(* listener takes only what is there.                                     *)
LEMMA ManagerTypes ==
  ASSUME ShutdownInv, [ShutdownNext]_shutdownVars
  PROVE  stage' \in Stage /\ chan' \in 0..BufferSize /\ listener' \in Listener
<1>1. stage \in Stage /\ chan \in 0..BufferSize /\ listener \in Listener
  BY DEF ShutdownInv
<1>2. CASE Dispatch \/ QuietPeer \/ CloseEndpoint \/ QuietClose \/ UNCHANGED shutdownVars
  BY <1>1, <1>2 DEF Dispatch, QuietPeer, CloseEndpoint, QuietClose, managerVars, shutdownVars
<1>3. ASSUME NEW t, QuietExec(t) \/ QuietWrite(t) \/ QuietPump(t) \/ SendOnClosed(t)
      PROVE  UNCHANGED managerVars
  BY <1>3 DEF QuietExec, QuietWrite, QuietPump, SendOnClosed
<1>4. ASSUME NEW t, Send(t) PROVE UNCHANGED <<stage, listener>> /\ chan' \in 0..BufferSize
  BY <1>1, <1>4, BufferAssumption DEF Send
<1>5. CASE Cancel \/ ManagerStep
  BY <1>1, <1>5 DEF Cancel, ManagerStep, RemoveJob, StopReturns, CloseExport, Stage
<1>6. CASE ReceiveResponse
  <2>1. chan' \in 0..BufferSize /\ stage' = stage
    BY <1>1, <1>6, BufferAssumption DEF ReceiveResponse
  <2>2. listener' \in Listener
    BY <1>6 DEF ReceiveResponse, Listener
  <2> QED
    BY <1>1, <2>1, <2>2
<1>7. CASE Exit
  BY <1>1, <1>7 DEF Exit, Listener
<1> QED
  BY <1>1, <1>2, <1>3, <1>4, <1>5, <1>6, <1>7 DEF ShutdownNext, ListenerStep, managerVars

(* An execution that has returned takes no step but the one that begins   *)
(* it, and a panic.                                                       *)
LEMMA IdleStays ==
  ASSUME IInv, NEW y \in Execs, pc[y] \in {"idle", "dead"},
         \/ \E x \in Execs : ExecStep(x) \/ WriteStep(x)
         \/ \E c \in Conns : PumpStep(c)
         \/ \E t \in Threads : SendStep(t)
         \/ PeerStep \/ Close \/ CloseStep \/ Panic
  PROVE  pc'[y] = pc[y] \/ pc'[y] = "dead"
<1>1. GoroutinesOK
  BY Goroutines
<1>2. ASSUME NEW x \in Execs,
             \/ Reconnect(x) \/ AfterWait(x) \/ BeginDial(x) \/ DialError(x) \/ Lock(x)
             \/ WriteOK(x) \/ WriteError(x)
      PROVE  pc'[y] = pc[y]
  BY <1>1, <1>2 DEF Reconnect, AfterWait, BeginDial, DialError, Lock, WriteOK, WriteError,
     Goto, GoroutinesOK
<1>3. ASSUME NEW x \in Execs, CloseOld(x) \/ WriteNil(x)
      PROVE  pc'[y] = pc[y] \/ pc'[y] = "dead"
  BY <1>1, <1>3 DEF CloseOld, WriteNil, Panic, Goto, GoroutinesOK
<1>4. ASSUME NEW x \in Execs,
             LockOneHit(x) \/ DialOneHit(x) \/ ExchangeOneHit(x) \/ Respond(x)
      PROVE  pc'[y] = pc[y]
  BY <1>1, <1>4 DEF LockOneHit, DialOneHit, ExchangeOneHit, Respond, Goto, GoroutinesOK
<1>5. ASSUME NEW x \in Execs, DialOK(x) PROVE pc'[y] = pc[y]
  <2>1. dialled' \in Conns /\ y # dialled' /\ y # x
    BY <1>1, <1>5 DEF DialOK, GoroutinesOK
  <2> QED
    BY <1>1, <1>5, <2>1 DEF DialOK, GoroutinesOK
<1>6. ASSUME NEW t \in Execs \cup Conns, CloseConn(t) PROVE pc'[y] = pc[y]
  BY <1>1, <1>6 DEF CloseConn, Goto, GoroutinesOK
<1>7. ASSUME NEW c \in Conns, Check(c) \/ Load(c) \/ Delete(c) \/ ReadError(c)
      PROVE  pc'[y] = pc[y]
  BY <1>1, <1>7 DEF Check, Load, Delete, ReadError, Goto, GoroutinesOK
<1>8. ASSUME NEW c \in Conns, Deref(c) PROVE pc'[y] = pc[y] \/ pc'[y] = "dead"
  BY <1>1, <1>8 DEF Deref, Panic, Goto, GoroutinesOK
<1>9. ASSUME NEW c \in Conns, Deliver(c) \/ Reject(c) \/ ReportError(c)
      PROVE  pc'[y] = pc[y]
  BY <1>1, <1>9 DEF Deliver, Reject, ReportError, Goto, GoroutinesOK
<1>10. ASSUME NEW c \in Conns, (\E m \in Msgs : Receive(c, m)) \/ ReceiveJunk(c) \/ Break(c)
       PROVE  pc'[y] = pc[y]
  BY <1>1, <1>10 DEF Receive, ReceiveJunk, Break, Goto, GoroutinesOK
<1>11. CASE Close \/ CloseStep
  BY <1>1, <1>11 DEF Close, CloseStep, CloseMessage, CloseSocket, CloseCancel, Goto,
     GoroutinesOK
<1>12. CASE Panic
  BY <1>1, <1>12 DEF Panic, GoroutinesOK
<1> QED
  BY <1>2, <1>3, <1>4, <1>5, <1>6, <1>7, <1>8, <1>9, <1>10, <1>11, <1>12
  DEF ExecStep, WriteStep, PumpStep, SendStep, PeerStep

(* None is left once the channel is closed: StopReturns waits for the     *)
(* last, and Dispatch needs the job.                                      *)
LEMMA NoExecStep ==
  ASSUME ShutdownInv, [ShutdownNext]_shutdownVars
  PROVE  NoExecLeft'
<1>1. CASE StopReturns
  BY <1>1 DEF StopReturns, NoExecLeft, gatherClosed, vars
<1>2. CASE Dispatch \/ Cancel \/ RemoveJob
  BY <1>2 DEF Dispatch, Cancel, RemoveJob, NoExecLeft, gatherClosed, managerVars
<1>3. CASE CloseExport \/ ListenerStep \/ UNCHANGED shutdownVars
  BY <1>3 DEF CloseExport, ListenerStep, ReceiveResponse, Exit, shutdownVars, vars,
     ShutdownInv, NoExecLeft, gatherClosed
<1>4. ASSUME \/ \E x \in Execs : QuietExec(x) \/ QuietWrite(x)
             \/ \E c \in Conns : QuietPump(c)
             \/ \E t \in Threads : Send(t) \/ SendOnClosed(t)
             \/ QuietPeer \/ CloseEndpoint \/ QuietClose
      PROVE  NoExecLeft'
  <2>1. \/ \E x \in Execs : ExecStep(x) \/ WriteStep(x)
        \/ \E c \in Conns : PumpStep(c)
        \/ \E t \in Threads : SendStep(t)
        \/ PeerStep \/ Close \/ CloseStep \/ Panic
    BY <1>4 DEF QuietExec, QuietWrite, QuietPump, Send, SendOnClosed, QuietPeer, CloseEndpoint,
       QuietClose
  <2>2. stage' = stage
    BY <1>4 DEF QuietExec, QuietWrite, QuietPump, Send, SendOnClosed, QuietPeer, CloseEndpoint,
       QuietClose, managerVars
  <2>3. ASSUME NEW y \in Execs, pc[y] \in {"idle", "dead"}
        PROVE  pc'[y] = pc[y] \/ pc'[y] = "dead"
    BY <2>1, <2>3, IdleStays DEF ShutdownInv
  <2> QED
    BY <2>2, <2>3 DEF ShutdownInv, NoExecLeft, gatherClosed
<1> QED
  BY <1>1, <1>2, <1>3, <1>4 DEF ShutdownNext, ManagerStep

(* The inductive invariant holds while Wadjit.Close runs.                 *)
THEOREM ShutdownInvariance == ShutdownSpec => []ShutdownInv
<1>1. ShutdownInit => ShutdownInv
  BY InitIInv, BufferAssumption
  DEF ShutdownInit, ShutdownInv, NoExecLeft, gatherClosed, Stage, Listener
<1>2. ShutdownInv /\ [ShutdownNext]_shutdownVars => ShutdownInv'
  BY EndpointStep, NextIInv, ManagerTypes, NoExecStep DEF ShutdownInv
<1> QED
  BY <1>1, <1>2, PTL DEF ShutdownSpec

(* The endpoint and the manager keep their types; in particular the       *)
(* gather channel never holds more than its buffer.                       *)
THEOREM ShutdownTypeCorrect == ShutdownSpec => []ShutdownTypeOK
<1>1. ShutdownInv => ShutdownTypeOK
  BY DEF ShutdownInv, IInv, ShutdownTypeOK
<1> QED
  BY ShutdownInvariance, <1>1, PTL

(* When wadjit.go:216 closes the gather channel, no execution is left to  *)
(* send on it: whoever is caught sending is a read pump.                  *)
THEOREM LateSendersArePumps == ShutdownSpec => []OnlyPumpsSendLate
<1>1. ShutdownInv => OnlyPumpsSendLate
  <2> SUFFICES ASSUME ShutdownInv, gatherClosed, NEW t \in Threads, Sending(t)
               PROVE  t \in Conns
    BY DEF OnlyPumpsSendLate
  <2>1. pc[Closer] \in ClosePC /\ \A x \in Execs : pc[x] \in {"idle", "dead"}
    BY DEF ShutdownInv, NoExecLeft, IInv, TypeOK
  <2> QED
    BY <2>1 DEF Sending, Threads, ClosePC
<1> QED
  BY ShutdownInvariance, <1>1, PTL
============================================================================

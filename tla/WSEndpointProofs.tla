------------------------- MODULE WSEndpointProofs -------------------------
(***************************************************************************)
(* The endpoint's invariants, for any number of executions, connections   *)
(* and messages, in both modes, whatever the peer and Close do.           *)
(***************************************************************************)
EXTENDS WSEndpoint, TLAPS

(* What e.mu protects.  An execution that may write has not seen Close,   *)
(* which needs the lock to cancel.                                        *)
LockInv ==
  /\ \A x \in Execs : pc[x] \in {"write", "closing", "respond", "ohDial", "ohRead"} => mu = x
  /\ pc[Closer] \in {"locked", "closeSocket", "cancel"} => mu = Closer
  /\ \A x \in Execs : pc[x] = "write" => ~ctxDone

(* e.conn has been dialled, and what has not has no pump; a pump that     *)
(* handles an answer has one, and one that reads has a connection.        *)
PumpInv ==
  /\ conn <= dialled
  /\ \A c \in Conns : c > dialled => pc[c] \in {"none", "dead"} /\ link[c] = "unused"
  /\ \A c \in Conns : pc[c] = "reading" => on[c] \in Conns
  /\ \A c \in Conns : pc[c] \in {"load", "delete", "deliver"} => msg[c] \in Msgs

(* As long as no two executions were reconnecting at once, e.conn is nil  *)
(* while one is, the pumps are gone when it dials, and so no two pumps    *)
(* run at the same time.                                                  *)
RaceInv ==
  ~raced =>
    /\ \A x, y \in Reconnecting : x = y
    /\ Reconnecting # {} => conn = Nil
    /\ \A x \in Execs : pc[x] # "closeOld"
    /\ \A x \in Execs : pc[x] = "dial" => Running = {}
    /\ \A c, d \in Running : c = d

(* An execution under way has a message of its own that nobody else knows *)
(* of yet; nobody knows of messages to come.                              *)
Active(x) == pc[x] \notin {"idle", "dead"}
Handles(c, m) == msg[c] = m /\ pc[c] \in {"load", "delete", "deliver"}
Known(m) ==
  \/ answered[m] # 0
  \/ \E c \in Conns : m \in wire[c] \/ Handles(c, m)
NameInv ==
  /\ \A x \in Execs : Active(x) => msg[x] \in 1..begun
  /\ \A x, y \in Execs : Active(x) /\ Active(y) /\ msg[x] = msg[y] => x = y
  /\ \A x \in Execs : Active(x) => ~Known(msg[x])
  /\ \A x \in Execs : Active(x) /\ msg[x] \in inflight => pc[x] \in {"write", "closing"}
  /\ \A m \in Msgs : m > begun => ~Known(m) /\ m \notin inflight

(* A pump that is about to delete an entry finds it, and one that is      *)
(* about to answer is the first to.                                       *)
AnswerInv ==
  ~raced =>
    \A c \in Conns :
      /\ pc[c] = "delete" => msg[c] \in inflight
      /\ pc[c] = "deliver" => msg[c] \notin inflight /\ answered[msg[c]] = 0

IInv ==
  /\ TypeOK /\ LockInv /\ PumpInv /\ RaceInv /\ NameInv
  /\ AnswerInv /\ AnsweredOnce /\ NoStrayConn /\ InflightAccounted /\ ConnIsRead

USE DEF Goto, connVars, msgVars, Panicked, ExecPC, PumpPC, ClosePC

----------------------------------------------------------------------------
(* Goroutines.                                                            *)

(* Executions, pumps and Close are different goroutines, each at a place  *)
(* of its own program.                                                    *)
GoroutinesOK ==
  /\ \A x \in Execs : x \in Threads /\ x \notin Conns /\ x # Closer /\ x # Free
  /\ \A c \in Conns : c \in Threads /\ c # Closer
  /\ Closer \in Threads /\ Closer # Free
  /\ pc \in [Threads -> ExecPC \cup PumpPC \cup ClosePC]
  /\ \A x \in Execs : pc[x] \in ExecPC
  /\ \A c \in Conns : pc[c] \in PumpPC
  /\ pc[Closer] \in ClosePC
  /\ dialled < MaxConns => dialled + 1 \in Conns
  /\ Nil \notin Conns /\ 0 \notin Msgs

(* The invariant tells the goroutines apart in this way.                  *)
LEMMA Goroutines == IInv => GoroutinesOK
<1> SUFFICES ASSUME IInv PROVE GoroutinesOK
  OBVIOUS
<1>1. /\ \A x \in Execs : x \in Threads /\ x \notin Conns /\ x # Closer /\ x # Free
      /\ \A c \in Conns : c \in Threads /\ c # Closer
      /\ Closer \in Threads /\ Closer # Free
  BY ThreadAssumption DEF Threads, Conns
<1>2. /\ dialled < MaxConns => dialled + 1 \in Conns
      /\ Nil \notin Conns /\ 0 \notin Msgs
  BY BoundAssumption DEF IInv, TypeOK, Conns, Nil, Msgs
<1> QED
  BY <1>1, <1>2 DEF IInv, TypeOK, GoroutinesOK

(* An execution that is under way has a message.                          *)
LEMMA ExecutionHasName ==
  ASSUME IInv, NEW x \in Execs, pc[x] \notin {"idle", "dead"}
  PROVE  msg[x] \in 1..begun /\ msg[x] \in Msgs
<1>1. msg[x] \in 1..begun
  BY DEF IInv, NameInv, Active
<1> QED
  BY <1>1, BoundAssumption DEF IInv, TypeOK, Msgs

(* Types.                                                                 *)
LEMMA TypeStep == IInv /\ [Next \/ Panic]_vars => TypeOK'
<1> SUFFICES ASSUME IInv, [Next \/ Panic]_vars PROVE TypeOK'
  OBVIOUS
<1>a. TypeOK /\ PumpInv
  BY DEF IInv
<1>b. GoroutinesOK
  BY Goroutines
<1>1. ASSUME NEW x \in Execs, Start(x) PROVE TypeOK'
  <2>1. begun' \in 0..MaxMsgs /\ begun + 1 \in 0..MaxMsgs
    BY <1>a, <1>1, BoundAssumption DEF Start, Begin, TypeOK
  <2>2. msg' \in [Execs \cup Conns -> 0..MaxMsgs]
    BY <1>a, <1>1, <2>1 DEF Start, Begin, TypeOK
  <2>3. /\ pc' \in [Threads -> ExecPC \cup PumpPC \cup ClosePC]
        /\ \A y \in Execs : pc'[y] \in ExecPC
        /\ \A c \in Conns : pc'[c] \in PumpPC
        /\ pc'[Closer] \in ClosePC
    BY <1>b, <1>1 DEF Start, GoroutinesOK
  <2>4. raced' \in BOOLEAN
    BY <1>1 DEF Start, Begin
  <2> QED
    BY <1>a, <1>1, <2>1, <2>2, <2>3, <2>4 DEF Start, Begin, TypeOK
<1>2. ASSUME NEW x \in Execs, StartOneHit(x) PROVE TypeOK'
  <2>1. begun' \in 0..MaxMsgs /\ begun + 1 \in 0..MaxMsgs
    BY <1>a, <1>2, BoundAssumption DEF StartOneHit, Begin, TypeOK
  <2>2. msg' \in [Execs \cup Conns -> 0..MaxMsgs]
    BY <1>a, <1>2, <2>1 DEF StartOneHit, Begin, TypeOK
  <2>3. /\ pc' \in [Threads -> ExecPC \cup PumpPC \cup ClosePC]
        /\ \A y \in Execs : pc'[y] \in ExecPC
        /\ \A c \in Conns : pc'[c] \in PumpPC
        /\ pc'[Closer] \in ClosePC
    BY <1>b, <1>2 DEF StartOneHit, GoroutinesOK
  <2>4. raced' \in BOOLEAN
    BY <1>2 DEF StartOneHit, Begin
  <2> QED
    BY <1>a, <1>2, <2>1, <2>2, <2>3, <2>4 DEF StartOneHit, Begin, TypeOK
<1>3. ASSUME NEW x \in Execs, DialOK(x) PROVE TypeOK'
  <2>1. dialled' \in Conns /\ dialled' \in 0..MaxConns
    BY <1>a, <1>b, <1>3, BoundAssumption DEF DialOK, GoroutinesOK, TypeOK
  <2>2. /\ pc' \in [Threads -> ExecPC \cup PumpPC \cup ClosePC]
        /\ \A y \in Execs : pc'[y] \in ExecPC
        /\ \A c \in Conns : pc'[c] \in PumpPC
        /\ pc'[Closer] \in ClosePC
    BY <1>b, <1>3, <2>1 DEF DialOK, GoroutinesOK
  <2> QED
    BY <1>a, <1>3, <2>1, <2>2 DEF DialOK, TypeOK
<1>4. ASSUME NEW x \in Execs, Lock(x) PROVE TypeOK'
  <2>1. msg[x] \in Msgs
    BY <1>4, ExecutionHasName DEF Lock
  <2>2. inflight' \in SUBSET Msgs
    BY <1>a, <1>4, <2>1 DEF Lock, TypeOK
  <2> QED
    BY <1>a, <1>b, <1>4, <2>2 DEF Lock, GoroutinesOK, TypeOK
<1>5. ASSUME NEW x \in Execs, WriteOK(x) PROVE TypeOK'
  <2>1. msg[x] \in Msgs
    BY <1>5, ExecutionHasName DEF WriteOK
  <2>2. wire' \in [Conns -> SUBSET Msgs]
    BY <1>a, <1>5, <2>1 DEF WriteOK, TypeOK
  <2> QED
    BY <1>a, <1>b, <1>5, <2>2 DEF WriteOK, GoroutinesOK, TypeOK
<1>6. ASSUME NEW x \in Execs, Respond(x) PROVE TypeOK'
  <2>1. msg[x] \in Msgs
    BY <1>6, ExecutionHasName DEF Respond
  <2>2. answered' \in [Msgs -> Nat]
    BY <1>a, <1>6, <2>1 DEF Respond, TypeOK
  <2> QED
    BY <1>a, <1>b, <1>6, <2>2 DEF Respond, GoroutinesOK, TypeOK
<1>7. ASSUME NEW x \in Execs,
             Reconnect(x) \/ CloseOld(x) \/ AfterWait(x) \/ BeginDial(x) \/ DialError(x)
      PROVE  TypeOK'
  BY <1>a, <1>b, <1>7 DEF Reconnect, CloseOld, AfterWait, BeginDial, DialError,
      GoroutinesOK, TypeOK, Panic
<1>8. ASSUME NEW x \in Execs,
             WriteError(x) \/ WriteNil(x) \/ LockOneHit(x) \/ DialOneHit(x)
               \/ ExchangeOneHit(x)
      PROVE  TypeOK'
  BY <1>a, <1>b, <1>8 DEF WriteError, WriteNil, LockOneHit, DialOneHit, ExchangeOneHit,
      GoroutinesOK, TypeOK, Panic
<1>9. ASSUME NEW c \in Conns, Reject(c) PROVE TypeOK'
  <2>1. msg' \in [Execs \cup Conns -> 0..MaxMsgs]
    BY <1>a, <1>9, BoundAssumption DEF Reject, TypeOK
  <2> QED
    BY <1>a, <1>b, <1>9, <2>1 DEF Reject, GoroutinesOK, TypeOK
<1>10. ASSUME NEW c \in Conns, Deliver(c) PROVE TypeOK'
  <2>1. msg[c] \in Msgs
    BY <1>a, <1>10 DEF Deliver, PumpInv
  <2>2. answered' \in [Msgs -> Nat]
    BY <1>a, <1>10, <2>1 DEF Deliver, TypeOK
  <2>3. msg' \in [Execs \cup Conns -> 0..MaxMsgs]
    BY <1>a, <1>10, BoundAssumption DEF Deliver, TypeOK
  <2> QED
    BY <1>a, <1>b, <1>10, <2>2, <2>3 DEF Deliver, GoroutinesOK, TypeOK
<1>11. ASSUME NEW c \in Conns,
              Check(c) \/ Deref(c) \/ ReceiveJunk(c) \/ Load(c)
       PROVE  TypeOK'
  BY <1>a, <1>b, <1>11 DEF Check, Deref, ReceiveJunk, Load, GoroutinesOK, TypeOK, Panic
<1>12. ASSUME NEW c \in Conns,
              Delete(c) \/ ReadError(c) \/ ReportError(c) \/ Break(c)
       PROVE  TypeOK'
  BY <1>a, <1>b, <1>12 DEF Delete, ReadError, ReportError, Break, GoroutinesOK, TypeOK
<1>13. ASSUME NEW c \in Conns, NEW m \in Msgs, Receive(c, m) PROVE TypeOK'
  <2>1. m \in 0..MaxMsgs
    BY BoundAssumption DEF Msgs
  <2>2. msg' \in [Execs \cup Conns -> 0..MaxMsgs] /\ wire' \in [Conns -> SUBSET Msgs]
    BY <1>a, <1>13, <2>1 DEF Receive, TypeOK
  <2> QED
    BY <1>a, <1>b, <1>13, <2>2 DEF Receive, GoroutinesOK, TypeOK
<1>14. ASSUME NEW t \in Execs \cup Conns, CloseConn(t) PROVE TypeOK'
  BY <1>a, <1>b, <1>14 DEF CloseConn, GoroutinesOK, TypeOK
<1>15. CASE Close \/ CloseMessage \/ CloseSocket \/ CloseCancel
  BY <1>a, <1>b, <1>15 DEF Close, CloseMessage, CloseSocket, CloseCancel, GoroutinesOK,
      TypeOK
<1>16. CASE Panic \/ UNCHANGED vars
  BY <1>a, <1>b, <1>16 DEF Panic, vars, GoroutinesOK, TypeOK
<1> QED
  BY <1>1, <1>2, <1>3, <1>4, <1>5, <1>6, <1>7, <1>8, <1>9, <1>10, <1>11, <1>12, <1>13,
     <1>14, <1>15, <1>16
  DEF Next, ExecStep, WriteStep, PumpStep, SendStep, PeerStep, CloseStep

(* The lock is held where it must be.                                     *)
LEMMA LockStep == IInv /\ [Next \/ Panic]_vars => LockInv'
<1> SUFFICES ASSUME IInv, [Next \/ Panic]_vars PROVE LockInv'
  OBVIOUS
<1>a. TypeOK /\ LockInv
  BY DEF IInv
<1>b. GoroutinesOK
  BY Goroutines
<1>1. ASSUME NEW x \in Execs,
             Start(x) \/ StartOneHit(x) \/ Reconnect(x) \/ CloseOld(x) \/ AfterWait(x)
      PROVE  LockInv'
  BY <1>a, <1>b, <1>1 DEF Start, StartOneHit, Reconnect, CloseOld, AfterWait,
      GoroutinesOK, LockInv, Begin, Panic
<1>2. ASSUME NEW x \in Execs,
             BeginDial(x) \/ DialOK(x) \/ DialError(x) \/ Lock(x) \/ WriteOK(x)
      PROVE  LockInv'
  BY <1>a, <1>b, <1>2 DEF BeginDial, DialOK, DialError, Lock, WriteOK, GoroutinesOK,
      LockInv
<1>3. ASSUME NEW x \in Execs,
             WriteError(x) \/ WriteNil(x) \/ LockOneHit(x) \/ DialOneHit(x)
               \/ ExchangeOneHit(x) \/ Respond(x)
      PROVE  LockInv'
  BY <1>a, <1>b, <1>3 DEF WriteError, WriteNil, LockOneHit, DialOneHit, ExchangeOneHit,
      Respond, GoroutinesOK, LockInv, Panic
<1>4. ASSUME NEW c \in Conns,
             Check(c) \/ Deref(c) \/ ReceiveJunk(c) \/ Load(c) \/ Reject(c)
      PROVE  LockInv'
  BY <1>a, <1>b, <1>4 DEF Check, Deref, ReceiveJunk, Load, Reject, GoroutinesOK, LockInv,
      Panic
<1>5. ASSUME NEW c \in Conns,
             Delete(c) \/ Deliver(c) \/ ReadError(c) \/ ReportError(c) \/ Break(c)
      PROVE  LockInv'
  BY <1>a, <1>b, <1>5 DEF Delete, Deliver, ReadError, ReportError, Break, GoroutinesOK,
      LockInv
<1>6. ASSUME NEW c \in Conns, NEW m \in Msgs, Receive(c, m) PROVE LockInv'
  BY <1>a, <1>b, <1>6 DEF Receive, GoroutinesOK, LockInv
<1>7. ASSUME NEW t \in Execs \cup Conns, CloseConn(t) PROVE LockInv'
  BY <1>a, <1>b, <1>7 DEF CloseConn, GoroutinesOK, LockInv
<1>8. CASE Close \/ CloseMessage \/ CloseSocket \/ CloseCancel
  BY <1>a, <1>b, <1>8 DEF Close, CloseMessage, CloseSocket, CloseCancel, GoroutinesOK,
      LockInv
<1>9. CASE Panic \/ UNCHANGED vars
  BY <1>a, <1>b, <1>9 DEF Panic, vars, GoroutinesOK, LockInv
<1> QED
  BY <1>1, <1>2, <1>3, <1>4, <1>5, <1>6, <1>7, <1>8, <1>9
  DEF Next, ExecStep, WriteStep, PumpStep, SendStep, PeerStep, CloseStep

(* Pumps come with their connections.                                     *)
LEMMA PumpStepInv == IInv /\ [Next \/ Panic]_vars => PumpInv'
<1> SUFFICES ASSUME IInv, [Next \/ Panic]_vars PROVE PumpInv'
  OBVIOUS
<1>a. TypeOK /\ LockInv /\ PumpInv
  BY DEF IInv
<1>b. GoroutinesOK
  BY Goroutines
<1>1. ASSUME NEW x \in Execs, DialOK(x) PROVE PumpInv'
  <2>1. /\ dialled' = dialled + 1 /\ conn' = dialled' /\ dialled' \in Conns
        /\ link' = [link EXCEPT ![dialled'] = "open"]
        /\ pc' = [pc EXCEPT ![x] = "lock", ![dialled'] = "check"]
        /\ UNCHANGED <<on, msg>>
    BY <1>b, <1>1 DEF DialOK, GoroutinesOK
  <2>2. \A c \in Conns : c > dialled' => c > dialled /\ c # dialled'
    BY <1>a, <2>1 DEF TypeOK, Conns
  <2> QED
    BY <1>a, <1>b, <2>1, <2>2 DEF GoroutinesOK, PumpInv, TypeOK
<1>2. ASSUME NEW x \in Execs, CloseOld(x) PROVE PumpInv'
  <2>1. CASE conn = Nil
    BY <1>a, <1>b, <1>2, <2>1 DEF CloseOld, Panic, GoroutinesOK, PumpInv
  <2>2. CASE conn # Nil
    <3>1. /\ UNCHANGED <<conn, dialled, on, msg>>
          /\ \A c \in Conns : pc'[c] = pc[c]
          /\ link' = [link EXCEPT ![conn] = "closed"]
      BY <1>b, <1>2, <2>2 DEF CloseOld, GoroutinesOK
    <3>2. \A c \in Conns : c > dialled => link'[c] = link[c]
      BY <1>a, <3>1 DEF PumpInv, TypeOK, Conns
    <3> QED
      BY <1>a, <3>1, <3>2 DEF PumpInv
  <2> QED
    BY <2>1, <2>2
<1>3. ASSUME NEW x \in Execs, Start(x) \/ StartOneHit(x) PROVE PumpInv'
  BY <1>a, <1>b, <1>3 DEF Start, StartOneHit, GoroutinesOK, PumpInv, Begin, TypeOK
<1>4. ASSUME NEW x \in Execs, BeginDial(x) PROVE PumpInv'
  BY <1>a, <1>4 DEF BeginDial, PumpInv, TypeOK, Nil
<1>5. ASSUME NEW x \in Execs,
             Reconnect(x) \/ AfterWait(x) \/ DialError(x) \/ Lock(x) \/ WriteOK(x)
      PROVE  PumpInv'
  BY <1>a, <1>b, <1>5 DEF Reconnect, AfterWait, DialError, Lock, WriteOK, GoroutinesOK,
      PumpInv
<1>6. ASSUME NEW x \in Execs,
             WriteError(x) \/ WriteNil(x) \/ LockOneHit(x) \/ DialOneHit(x)
               \/ ExchangeOneHit(x) \/ Respond(x)
      PROVE  PumpInv'
  BY <1>a, <1>b, <1>6 DEF WriteError, WriteNil, LockOneHit, DialOneHit, ExchangeOneHit,
      Respond, GoroutinesOK, PumpInv, Panic
<1>7. ASSUME NEW c \in Conns, Reject(c) \/ Deliver(c) PROVE PumpInv'
  BY <1>a, <1>b, <1>7 DEF Reject, Deliver, GoroutinesOK, PumpInv, TypeOK
<1>8. ASSUME NEW c \in Conns, Break(c) PROVE PumpInv'
  BY <1>a, <1>b, <1>8 DEF Break, GoroutinesOK, PumpInv, TypeOK
<1>9. ASSUME NEW c \in Conns, Deref(c) PROVE PumpInv'
  <2>1. CASE conn = Nil
    BY <1>a, <1>b, <1>9, <2>1 DEF Deref, Panic, GoroutinesOK, PumpInv
  <2>2. CASE conn # Nil
    BY <1>a, <1>b, <1>9, <2>2 DEF Deref, GoroutinesOK, PumpInv, TypeOK
  <2> QED
    BY <2>1, <2>2
<1>10. ASSUME NEW c \in Conns, Check(c) \/ ReceiveJunk(c) \/ Load(c) PROVE PumpInv'
  BY <1>a, <1>b, <1>10 DEF Check, ReceiveJunk, Load, GoroutinesOK, PumpInv
<1>11. ASSUME NEW c \in Conns, Delete(c) \/ ReadError(c) \/ ReportError(c) PROVE PumpInv'
  BY <1>a, <1>b, <1>11 DEF Delete, ReadError, ReportError, GoroutinesOK, PumpInv
<1>12. ASSUME NEW c \in Conns, NEW m \in Msgs, Receive(c, m) PROVE PumpInv'
  BY <1>a, <1>b, <1>12 DEF Receive, GoroutinesOK, PumpInv, TypeOK
<1>13. ASSUME NEW t \in Execs \cup Conns, CloseConn(t) PROVE PumpInv'
  <2>1. /\ conn' = Nil /\ UNCHANGED <<dialled, on, msg>>
        /\ \A c \in Conns : c > dialled => link'[c] = link[c]
        /\ \A c \in Conns : pc'[c] = pc[c] \/ (pc[c] = "closing" /\ pc'[c] = "done")
    BY <1>a, <1>b, <1>13 DEF CloseConn, GoroutinesOK, PumpInv, TypeOK, Conns
  <2> QED
    BY <1>a, <2>1 DEF PumpInv, TypeOK, Nil
<1>14. CASE CloseSocket
  <2>1. /\ conn' \in {conn, Nil} /\ UNCHANGED <<dialled, on, msg>>
        /\ \A c \in Conns : pc'[c] = pc[c]
    BY <1>b, <1>14 DEF CloseSocket, GoroutinesOK
  <2>2. link' = link \/ link' = [link EXCEPT ![conn] = "closed"]
    BY <1>14 DEF CloseSocket
  <2>3. \A c \in Conns : c > dialled => c # conn
    BY <1>a DEF PumpInv, TypeOK, Conns, Nil
  <2>4. \A c \in Conns : c > dialled => link'[c] = link[c]
    BY <1>a, <2>2, <2>3 DEF TypeOK
  <2>5. conn' <= dialled'
    BY <1>a, <2>1 DEF PumpInv, TypeOK, Nil
  <2> QED
    BY <1>a, <2>1, <2>4, <2>5 DEF PumpInv
<1>15. CASE Close \/ CloseMessage \/ CloseCancel
  BY <1>a, <1>b, <1>15 DEF Close, CloseMessage, CloseCancel, GoroutinesOK, PumpInv
<1>16. CASE Panic \/ UNCHANGED vars
  BY <1>a, <1>b, <1>16 DEF Panic, vars, GoroutinesOK, PumpInv
<1> QED
  BY <1>1, <1>2, <1>3, <1>4, <1>5, <1>6, <1>7, <1>8, <1>9, <1>10, <1>11, <1>12, <1>13,
     <1>14, <1>15, <1>16
  DEF Next, ExecStep, WriteStep, PumpStep, SendStep, PeerStep, CloseStep

(* Only executions that reconnect at once make pumps overlap.             *)
LEMMA RaceStep == IInv /\ [Next \/ Panic]_vars => RaceInv'
<1> SUFFICES ASSUME IInv, [Next \/ Panic]_vars PROVE RaceInv'
  OBVIOUS
<1>a. TypeOK /\ LockInv /\ PumpInv /\ RaceInv
  BY DEF IInv
<1>b. GoroutinesOK
  BY Goroutines
<1>1. ASSUME NEW x \in Execs, Start(x) PROVE RaceInv'
  <2>1. CASE raced'
    BY <2>1 DEF RaceInv
  <2>2. CASE ~raced'
    <3>1. ~raced /\ (conn = Nil => Reconnecting = {}) /\ UNCHANGED conn
      BY <1>1, <2>2 DEF Start, Begin
    <3>2. Reconnecting' = IF conn = Nil THEN {x} ELSE Reconnecting
      BY <1>b, <1>1, <3>1 DEF Start, Begin, GoroutinesOK, Reconnecting
    <3>3. \A y \in Execs : pc'[y] = pc[y] \/ pc'[y] \in {"reconnect", "lock"}
      BY <1>b, <1>1 DEF Start, GoroutinesOK
    <3>4. Running' = Running
      BY <1>b, <1>1 DEF Start, GoroutinesOK, Running
    <3> QED
      BY <1>a, <3>1, <3>2, <3>3, <3>4 DEF RaceInv
  <2> QED
    BY <2>1, <2>2
<1>2. ASSUME NEW x \in Execs, CloseOld(x) PROVE RaceInv'
  BY <1>a, <1>b, <1>2 DEF CloseOld, GoroutinesOK, RaceInv, Reconnecting, Running, Panic
<1>3. ASSUME NEW x \in Execs, Reconnect(x) PROVE RaceInv'
  BY <1>a, <1>b, <1>3 DEF Reconnect, GoroutinesOK, RaceInv, Reconnecting, Running
<1>4. ASSUME NEW x \in Execs, StartOneHit(x) PROVE RaceInv'
  <2>1. CASE raced'
    BY <2>1 DEF RaceInv
  <2>2. CASE ~raced'
    <3>1. ~raced /\ UNCHANGED conn
      BY <1>4, <2>2 DEF StartOneHit, Begin
    <3>2. pc[x] = "idle" /\ pc'[x] \in {"idle", "ohLock"}
      BY <1>b, <1>4 DEF StartOneHit, Begin, GoroutinesOK
    <3>3. \A y \in Execs : y # x => pc'[y] = pc[y]
      BY <1>b, <1>4 DEF StartOneHit, GoroutinesOK
    <3>4. Reconnecting' = Reconnecting
      BY <3>2, <3>3 DEF Reconnecting
    <3>5. Running' = Running
      BY <1>b, <1>4 DEF StartOneHit, GoroutinesOK, Running
    <3> QED
      BY <1>a, <3>1, <3>2, <3>3, <3>4, <3>5 DEF RaceInv
  <2> QED
    BY <2>1, <2>2
<1>5. ASSUME NEW x \in Execs, AfterWait(x) \/ BeginDial(x) PROVE RaceInv'
  BY <1>a, <1>b, <1>5 DEF AfterWait, BeginDial, GoroutinesOK, RaceInv, Reconnecting,
      Running
<1>6. ASSUME NEW x \in Execs,
             DialOK(x) \/ DialError(x) \/ Lock(x) \/ WriteOK(x) \/ WriteError(x)
      PROVE  RaceInv'
  BY <1>a, <1>b, <1>6 DEF DialOK, DialError, Lock, WriteOK, WriteError, GoroutinesOK,
      RaceInv, Reconnecting, Running
<1>7. ASSUME NEW x \in Execs,
             WriteNil(x) \/ LockOneHit(x) \/ DialOneHit(x) \/ ExchangeOneHit(x)
               \/ Respond(x)
      PROVE  RaceInv'
  BY <1>a, <1>b, <1>7 DEF WriteNil, LockOneHit, DialOneHit, ExchangeOneHit, Respond,
      GoroutinesOK, RaceInv, Reconnecting, Running, Panic
<1>8. ASSUME NEW c \in Conns,
             Check(c) \/ Deref(c) \/ ReceiveJunk(c) \/ Load(c) \/ Reject(c)
      PROVE  RaceInv'
  BY <1>a, <1>b, <1>8 DEF Check, Deref, ReceiveJunk, Load, Reject, GoroutinesOK, RaceInv,
      Reconnecting, Running, Panic
<1>9. ASSUME NEW c \in Conns,
             Delete(c) \/ Deliver(c) \/ ReadError(c) \/ ReportError(c) \/ Break(c)
      PROVE  RaceInv'
  BY <1>a, <1>b, <1>9 DEF Delete, Deliver, ReadError, ReportError, Break, GoroutinesOK,
      RaceInv, Reconnecting, Running
<1>10. ASSUME NEW c \in Conns, NEW m \in Msgs, Receive(c, m) PROVE RaceInv'
  BY <1>a, <1>b, <1>10 DEF Receive, GoroutinesOK, RaceInv, Reconnecting, Running
<1>11. ASSUME NEW t \in Execs \cup Conns, CloseConn(t) PROVE RaceInv'
  BY <1>a, <1>b, <1>11 DEF CloseConn, GoroutinesOK, RaceInv, Reconnecting, Running
<1>12. CASE Close \/ CloseMessage \/ CloseSocket \/ CloseCancel
  BY <1>a, <1>b, <1>12 DEF Close, CloseMessage, CloseSocket, CloseCancel, GoroutinesOK,
      RaceInv, Reconnecting, Running
<1>13. CASE Panic \/ UNCHANGED vars
  BY <1>a, <1>b, <1>13 DEF Panic, vars, GoroutinesOK, RaceInv, Reconnecting, Running
<1> QED
  BY <1>1, <1>2, <1>3, <1>4, <1>5, <1>6, <1>7, <1>8, <1>9, <1>10, <1>11, <1>12, <1>13
  DEF Next, ExecStep, WriteStep, PumpStep, SendStep, PeerStep, CloseStep

(* A message is known to its execution alone until that is done with it.  *)
LEMMA NameStep == IInv /\ [Next \/ Panic]_vars => NameInv'
<1> SUFFICES ASSUME IInv, [Next \/ Panic]_vars PROVE NameInv'
  OBVIOUS
<1>a. TypeOK /\ LockInv /\ PumpInv /\ RaceInv /\ NameInv
  BY DEF IInv
<1>b. GoroutinesOK
  BY Goroutines
<1>1. ASSUME NEW x \in Execs, Start(x) PROVE NameInv'
  <2>1. /\ begun' = begun + 1 /\ msg' = [msg EXCEPT ![x] = begun + 1]
        /\ begun + 1 \in Msgs /\ begun \in Nat
        /\ UNCHANGED <<inflight, wire, answered>>
    BY <1>a, <1>1, BoundAssumption DEF Start, Begin, TypeOK, Msgs
  <2>2. /\ \A c \in Conns : pc'[c] = pc[c] /\ msg'[c] = msg[c]
        /\ \A y \in Execs : y # x => pc'[y] = pc[y] /\ msg'[y] = msg[y]
        /\ msg'[x] = begun + 1 /\ pc'[x] \notin {"write", "closing"}
    BY <1>a, <1>b, <1>1, <2>1 DEF Start, GoroutinesOK, TypeOK
  <2>3. \A m : Known(m)' <=> Known(m)
    BY <2>1, <2>2 DEF Known, Handles
  <2>4. ~Known(begun + 1) /\ begun + 1 \notin inflight
    BY <1>a, <2>1 DEF NameInv
  <2>5. \A y \in Execs : Active(y)' => y = x \/ (Active(y) /\ msg'[y] = msg[y])
    BY <2>2 DEF Active
  <2>6. \A y \in Execs : Active(y)' => msg'[y] \in 1..begun'
    BY <1>a, <2>1, <2>2, <2>5 DEF NameInv
  <2>7. \A y, z \in Execs : Active(y)' /\ Active(z)' /\ msg'[y] = msg'[z] => y = z
    BY <1>a, <2>1, <2>2, <2>5 DEF NameInv
  <2>8. \A y \in Execs : (Active(y) => ~Known(msg[y]))'
    <3> SUFFICES ASSUME NEW y \in Execs, Active(y)' PROVE ~(Known(msg[y])')
      OBVIOUS
    <3>1. ~Known(msg'[y])
      BY <1>a, <2>2, <2>4, <2>5 DEF NameInv
    <3>2. Known(msg[y])' <=> Known(msg'[y])
      BY <2>1, <2>2 DEF Known, Handles
    <3> QED
      BY <3>1, <3>2
  <2>9. \A y \in Execs : Active(y)' /\ msg'[y] \in inflight' => pc'[y] \in {"write", "closing"}
    BY <1>a, <2>1, <2>2, <2>4, <2>5 DEF NameInv
  <2>10. \A m \in Msgs : m > begun' => ~Known(m)' /\ m \notin inflight'
    BY <1>a, <2>1, <2>3 DEF NameInv, Msgs
  <2> QED
    BY <2>6, <2>7, <2>8, <2>9, <2>10 DEF NameInv
<1>2. ASSUME NEW x \in Execs, StartOneHit(x) PROVE NameInv'
  <2>1. /\ begun' = begun + 1 /\ msg' = [msg EXCEPT ![x] = begun + 1]
        /\ begun + 1 \in Msgs /\ begun \in Nat
        /\ UNCHANGED <<inflight, wire, answered>>
    BY <1>a, <1>2, BoundAssumption DEF StartOneHit, Begin, TypeOK, Msgs
  <2>2. /\ \A c \in Conns : pc'[c] = pc[c] /\ msg'[c] = msg[c]
        /\ \A y \in Execs : y # x => pc'[y] = pc[y] /\ msg'[y] = msg[y]
        /\ msg'[x] = begun + 1 /\ pc'[x] \notin {"write", "closing"}
    BY <1>a, <1>b, <1>2, <2>1 DEF StartOneHit, GoroutinesOK, TypeOK
  <2>3. \A m : Known(m)' <=> Known(m)
    BY <2>1, <2>2 DEF Known, Handles
  <2>4. ~Known(begun + 1) /\ begun + 1 \notin inflight
    BY <1>a, <2>1 DEF NameInv
  <2>5. \A y \in Execs : Active(y)' => y = x \/ (Active(y) /\ msg'[y] = msg[y])
    BY <2>2 DEF Active
  <2>6. \A y \in Execs : Active(y)' => msg'[y] \in 1..begun'
    BY <1>a, <2>1, <2>2, <2>5 DEF NameInv
  <2>7. \A y, z \in Execs : Active(y)' /\ Active(z)' /\ msg'[y] = msg'[z] => y = z
    BY <1>a, <2>1, <2>2, <2>5 DEF NameInv
  <2>8. \A y \in Execs : (Active(y) => ~Known(msg[y]))'
    <3> SUFFICES ASSUME NEW y \in Execs, Active(y)' PROVE ~(Known(msg[y])')
      OBVIOUS
    <3>1. ~Known(msg'[y])
      BY <1>a, <2>2, <2>4, <2>5 DEF NameInv
    <3>2. Known(msg[y])' <=> Known(msg'[y])
      BY <2>1, <2>2 DEF Known, Handles
    <3> QED
      BY <3>1, <3>2
  <2>9. \A y \in Execs : Active(y)' /\ msg'[y] \in inflight' => pc'[y] \in {"write", "closing"}
    BY <1>a, <2>1, <2>2, <2>4, <2>5 DEF NameInv
  <2>10. \A m \in Msgs : m > begun' => ~Known(m)' /\ m \notin inflight'
    BY <1>a, <2>1, <2>3 DEF NameInv, Msgs
  <2> QED
    BY <2>6, <2>7, <2>8, <2>9, <2>10 DEF NameInv
<1>3. ASSUME NEW x \in Execs, Lock(x) PROVE NameInv'
  <2>1. /\ inflight' \subseteq inflight \cup {msg[x]}
        /\ msg[x] \in inflight' => pc'[x] = "write" \/ msg[x] \in inflight
        /\ UNCHANGED <<begun, msg, wire, answered>>
    BY <1>a, <1>b, <1>3 DEF Lock, GoroutinesOK, TypeOK
  <2>2. /\ \A c \in Conns : pc'[c] = pc[c]
        /\ \A y \in Execs : y # x => pc'[y] = pc[y]
    BY <1>b, <1>3 DEF Lock, GoroutinesOK
  <2>3. Active(x) /\ msg[x] \in 1..begun /\ pc[x] = "lock"
    BY <1>3, ExecutionHasName DEF Lock, Active
  <2>4. \A m : Known(m)' <=> Known(m)
    BY <2>1, <2>2 DEF Known, Handles
  <2>5. \A y \in Execs : Active(y)' => Active(y)
    BY <2>2, <2>3 DEF Active
  <2>6. \A y \in Execs : Active(y)' /\ msg'[y] \in inflight' => pc'[y] \in {"write", "closing"}
    BY <1>a, <2>1, <2>2, <2>3, <2>5 DEF NameInv
  <2>7. \A m \in Msgs : m > begun => m # msg[x]
    BY <1>a, <2>3 DEF TypeOK, Msgs
  <2>8. \A m \in Msgs : m > begun' => ~Known(m)' /\ m \notin inflight'
    BY <1>a, <2>1, <2>4, <2>7 DEF NameInv
  <2> QED
    BY <1>a, <2>1, <2>4, <2>5, <2>6, <2>8 DEF NameInv
<1>4. ASSUME NEW x \in Execs, WriteOK(x) PROVE NameInv'
  <2>1. Active(x) /\ ~Active(x)' /\ msg[x] \in 1..begun /\ msg[x] \in Msgs
    BY <1>b, <1>4, ExecutionHasName DEF WriteOK, Active, GoroutinesOK
  <2>2. /\ \A c \in Conns : pc'[c] = pc[c]
        /\ \A y \in Execs : y # x => pc'[y] = pc[y]
        /\ UNCHANGED <<begun, msg, inflight>>
    BY <1>b, <1>4 DEF WriteOK, GoroutinesOK
  <2>3. \A m \in Msgs : Known(m)' => Known(m) \/ m = msg[x]
    BY <1>a, <1>4, <2>1, <2>2 DEF WriteOK, TypeOK, Known, Handles
  <2>4. \A y \in Execs : Active(y)' => Active(y) /\ y # x /\ msg[y] \in Msgs
    BY <2>1, <2>2, ExecutionHasName DEF Active
  <2>5. \A y \in Execs : (Active(y) => ~Known(msg[y]))'
    <3> SUFFICES ASSUME NEW y \in Execs, Active(y)' PROVE ~(Known(msg[y])')
      OBVIOUS
    <3>1. ~Known(msg[y]) /\ msg[y] # msg[x] /\ msg[y] \in Msgs
      BY <1>a, <2>1, <2>4 DEF NameInv
    <3>2. Known(msg[y])' => Known(msg[y]) \/ msg[y] = msg[x]
      BY <1>a, <1>4, <2>1, <2>2, <3>1 DEF WriteOK, TypeOK, Known, Handles
    <3> QED
      BY <3>1, <3>2
  <2>6. \A m \in Msgs : m > begun => m # msg[x]
    BY <1>a, <2>1 DEF TypeOK, Msgs
  <2> QED
    BY <1>a, <2>2, <2>3, <2>4, <2>5, <2>6 DEF NameInv
<1>5. ASSUME NEW x \in Execs, Respond(x) PROVE NameInv'
  <2>1. Active(x) /\ ~Active(x)' /\ msg[x] \in 1..begun /\ msg[x] \in Msgs
    BY <1>b, <1>5, ExecutionHasName DEF Respond, Active, GoroutinesOK
  <2>2. /\ \A c \in Conns : pc'[c] = pc[c]
        /\ \A y \in Execs : y # x => pc'[y] = pc[y]
        /\ UNCHANGED <<begun, msg, inflight>>
    BY <1>b, <1>5 DEF Respond, GoroutinesOK
  <2>3. \A m \in Msgs : Known(m)' => Known(m) \/ m = msg[x]
    BY <1>a, <1>5, <2>1, <2>2 DEF Respond, TypeOK, Known, Handles
  <2>4. \A y \in Execs : Active(y)' => Active(y) /\ y # x /\ msg[y] \in Msgs
    BY <2>1, <2>2, ExecutionHasName DEF Active
  <2>5. \A y \in Execs : (Active(y) => ~Known(msg[y]))'
    <3> SUFFICES ASSUME NEW y \in Execs, Active(y)' PROVE ~(Known(msg[y])')
      OBVIOUS
    <3>1. ~Known(msg[y]) /\ msg[y] # msg[x] /\ msg[y] \in Msgs
      BY <1>a, <2>1, <2>4 DEF NameInv
    <3>2. Known(msg[y])' => Known(msg[y]) \/ msg[y] = msg[x]
      BY <1>a, <1>5, <2>1, <2>2, <3>1 DEF Respond, TypeOK, Known, Handles
    <3> QED
      BY <3>1, <3>2
  <2>6. \A m \in Msgs : m > begun => m # msg[x]
    BY <1>a, <2>1 DEF TypeOK, Msgs
  <2> QED
    BY <1>a, <2>2, <2>3, <2>4, <2>5, <2>6 DEF NameInv
<1>6. ASSUME NEW x \in Execs, Reconnect(x) \/ CloseOld(x) PROVE NameInv'
  BY <1>a, <1>b, <1>6 DEF Reconnect, CloseOld, GoroutinesOK, NameInv, Active, Known,
      Handles, Panic
<1>7. ASSUME NEW x \in Execs, AfterWait(x) \/ BeginDial(x) \/ DialOK(x) PROVE NameInv'
  BY <1>a, <1>b, <1>7 DEF AfterWait, BeginDial, DialOK, GoroutinesOK, NameInv, Active,
      Known, Handles
<1>8. ASSUME NEW x \in Execs, DialError(x) \/ WriteError(x) \/ WriteNil(x) PROVE NameInv'
  BY <1>a, <1>b, <1>8 DEF DialError, WriteError, WriteNil, GoroutinesOK, NameInv, Active,
      Known, Handles, Panic
<1>9. ASSUME NEW x \in Execs,
             LockOneHit(x) \/ DialOneHit(x) \/ ExchangeOneHit(x)
      PROVE  NameInv'
  BY <1>a, <1>b, <1>9 DEF LockOneHit, DialOneHit, ExchangeOneHit, GoroutinesOK, NameInv,
      Active, Known, Handles
<1>10. ASSUME NEW c \in Conns, ReceiveJunk(c) PROVE NameInv'
  BY <1>a, <1>b, <1>10 DEF ReceiveJunk, GoroutinesOK, NameInv, Active, Known, Handles, TypeOK
<1>11. ASSUME NEW c \in Conns, Load(c) PROVE NameInv'
  BY <1>a, <1>b, <1>11 DEF Load, GoroutinesOK, NameInv, Active, Known, Handles, TypeOK
<1>12. ASSUME NEW c \in Conns, Reject(c) PROVE NameInv'
  BY <1>a, <1>b, <1>12 DEF Reject, GoroutinesOK, NameInv, Active, Known, Handles, TypeOK
<1>13. ASSUME NEW c \in Conns, Delete(c) PROVE NameInv'
  BY <1>a, <1>b, <1>13 DEF Delete, GoroutinesOK, NameInv, Active, Known, Handles, TypeOK
<1>14. ASSUME NEW c \in Conns, Deliver(c) PROVE NameInv'
  BY <1>a, <1>b, <1>14 DEF Deliver, GoroutinesOK, NameInv, Active, Known, Handles, TypeOK
<1>15. ASSUME NEW c \in Conns, Check(c) \/ Deref(c) PROVE NameInv'
  BY <1>a, <1>b, <1>15 DEF Check, Deref, GoroutinesOK, NameInv, Active, Known, Handles,
      Panic
<1>16. ASSUME NEW c \in Conns, ReadError(c) \/ ReportError(c) \/ Break(c) PROVE NameInv'
  BY <1>a, <1>b, <1>16 DEF ReadError, ReportError, Break, GoroutinesOK, NameInv, Active,
      Known, Handles
<1>17. ASSUME NEW c \in Conns, NEW m \in Msgs, Receive(c, m) PROVE NameInv'
  <2>1. /\ \A d \in Conns : wire'[d] \subseteq wire[d]
        /\ \A d \in Conns : d # c => pc'[d] = pc[d] /\ msg'[d] = msg[d]
        /\ pc'[c] = "load" /\ msg'[c] = m
        /\ \A y \in Execs : pc'[y] = pc[y] /\ msg'[y] = msg[y]
        /\ UNCHANGED <<begun, inflight, answered>>
    BY <1>a, <1>b, <1>17 DEF Receive, GoroutinesOK, TypeOK
  <2>2. Known(m)
    BY <1>a, <1>17 DEF Receive, Known, PumpInv
  <2>3. \A k : Known(k)' => Known(k)
    BY <2>1, <2>2 DEF Known, Handles
  <2> QED
    BY <1>a, <2>1, <2>3 DEF NameInv, Active
<1>18. ASSUME NEW t \in Execs \cup Conns, CloseConn(t) PROVE NameInv'
  BY <1>a, <1>b, <1>18 DEF CloseConn, GoroutinesOK, NameInv, Active, Known, Handles
<1>19. CASE Close \/ CloseMessage \/ CloseSocket \/ CloseCancel
  BY <1>a, <1>b, <1>19 DEF Close, CloseMessage, CloseSocket, CloseCancel, GoroutinesOK,
      NameInv, Active, Known, Handles
<1>20. CASE Panic \/ UNCHANGED vars
  BY <1>a, <1>b, <1>20 DEF Panic, vars, GoroutinesOK, NameInv, Active, Known, Handles
<1> QED
  BY <1>1, <1>2, <1>3, <1>4, <1>5, <1>6, <1>7, <1>8, <1>9, <1>10, <1>11, <1>12, <1>13,
     <1>14, <1>15, <1>16, <1>17, <1>18, <1>19, <1>20
  DEF Next, ExecStep, WriteStep, PumpStep, SendStep, PeerStep, CloseStep

(* The lookup of a pump that runs alone is still good when it deletes.    *)
LEMMA AnswerStep == IInv /\ [Next \/ Panic]_vars => AnswerInv'
<1> SUFFICES ASSUME IInv, [Next \/ Panic]_vars PROVE AnswerInv'
  OBVIOUS
<1>a. TypeOK /\ LockInv /\ PumpInv /\ RaceInv /\ NameInv /\ AnswerInv /\ AnsweredOnce
  BY DEF IInv
<1>b. GoroutinesOK
  BY Goroutines
<1>1. ASSUME NEW x \in Execs, Start(x) \/ StartOneHit(x) PROVE AnswerInv'
  BY <1>a, <1>b, <1>1 DEF Start, StartOneHit, GoroutinesOK, NameInv, RaceInv, Running,
      Active, Known, Handles, AnswerInv, Begin, TypeOK
<1>2. ASSUME NEW x \in Execs, Respond(x) PROVE AnswerInv'
  BY <1>a, <1>b, <1>2 DEF Respond, GoroutinesOK, NameInv, RaceInv, Running, Active, Known,
      Handles, AnswerInv
<1>3. ASSUME NEW x \in Execs, Reconnect(x) \/ CloseOld(x) \/ AfterWait(x) PROVE AnswerInv'
  BY <1>a, <1>b, <1>3 DEF Reconnect, CloseOld, AfterWait, GoroutinesOK, NameInv, RaceInv,
      Running, Active, Known, Handles, AnswerInv, Panic
<1>4. ASSUME NEW x \in Execs, BeginDial(x) \/ DialOK(x) \/ DialError(x) PROVE AnswerInv'
  BY <1>a, <1>b, <1>4 DEF BeginDial, DialOK, DialError, GoroutinesOK, NameInv, RaceInv,
      Running, Active, Known, Handles, AnswerInv
<1>5. ASSUME NEW x \in Execs, Lock(x) \/ WriteOK(x) \/ WriteError(x) PROVE AnswerInv'
  BY <1>a, <1>b, <1>5 DEF Lock, WriteOK, WriteError, GoroutinesOK, NameInv, RaceInv,
      Running, Active, Known, Handles, AnswerInv
<1>6. ASSUME NEW x \in Execs,
             WriteNil(x) \/ LockOneHit(x) \/ DialOneHit(x) \/ ExchangeOneHit(x)
      PROVE  AnswerInv'
  BY <1>a, <1>b, <1>6 DEF WriteNil, LockOneHit, DialOneHit, ExchangeOneHit, GoroutinesOK,
      NameInv, RaceInv, Running, Active, Known, Handles, AnswerInv, Panic
<1>7. ASSUME NEW c \in Conns, Delete(c) PROVE AnswerInv'
  <2>1. CASE raced
    BY <1>7, <2>1 DEF Delete, AnswerInv
  <2>2. CASE ~raced
    <3>1. \A d \in Conns : pc[d] \in {"delete", "deliver"} => d = c
      BY <1>a, <1>7, <2>2 DEF Delete, RaceInv, Running
    <3>2. msg[c] \in Msgs /\ msg[c] \in inflight
      BY <1>a, <1>7, <2>2 DEF Delete, PumpInv, AnswerInv
    <3>3. answered[msg[c]] = 0
      BY <1>a, <2>2, <3>2 DEF AnsweredOnce, TypeOK
    <3> QED
      BY <1>b, <1>7, <3>1, <3>3 DEF Delete, GoroutinesOK, AnswerInv
  <2> QED
    BY <2>1, <2>2
<1>8. ASSUME NEW c \in Conns, Deliver(c) PROVE AnswerInv'
  BY <1>a, <1>b, <1>8 DEF Deliver, GoroutinesOK, NameInv, RaceInv, Running, Active, Known,
      Handles, AnswerInv, TypeOK
<1>9. ASSUME NEW c \in Conns, Check(c) \/ Deref(c) PROVE AnswerInv'
  BY <1>a, <1>b, <1>9 DEF Check, Deref, GoroutinesOK, NameInv, RaceInv, Running, Active,
      Known, Handles, AnswerInv, Panic
<1>10. ASSUME NEW c \in Conns, ReceiveJunk(c) \/ Load(c) \/ Reject(c) PROVE AnswerInv'
  BY <1>a, <1>b, <1>10 DEF ReceiveJunk, Load, Reject, GoroutinesOK, NameInv, RaceInv,
      Running, Active, Known, Handles, AnswerInv
<1>11. ASSUME NEW c \in Conns, ReadError(c) \/ ReportError(c) \/ Break(c) PROVE AnswerInv'
  BY <1>a, <1>b, <1>11 DEF ReadError, ReportError, Break, GoroutinesOK, NameInv, RaceInv,
      Running, Active, Known, Handles, AnswerInv
<1>12. ASSUME NEW c \in Conns, NEW m \in Msgs, Receive(c, m) PROVE AnswerInv'
  BY <1>a, <1>b, <1>12 DEF Receive, GoroutinesOK, NameInv, RaceInv, Running, Active,
      Known, Handles, AnswerInv
<1>13. ASSUME NEW t \in Execs \cup Conns, CloseConn(t) PROVE AnswerInv'
  BY <1>a, <1>b, <1>13 DEF CloseConn, GoroutinesOK, NameInv, RaceInv, Running, Active,
      Known, Handles, AnswerInv
<1>14. CASE Close \/ CloseMessage \/ CloseSocket \/ CloseCancel
  BY <1>a, <1>b, <1>14 DEF Close, CloseMessage, CloseSocket, CloseCancel, GoroutinesOK,
      NameInv, RaceInv, Running, Active, Known, Handles, AnswerInv
<1>15. CASE Panic \/ UNCHANGED vars
  BY <1>a, <1>b, <1>15 DEF Panic, vars, GoroutinesOK, NameInv, RaceInv, Running, Active,
      Known, Handles, AnswerInv
<1> QED
  BY <1>1, <1>2, <1>3, <1>4, <1>5, <1>6, <1>7, <1>8, <1>9, <1>10, <1>11, <1>12, <1>13,
     <1>14, <1>15
  DEF Next, ExecStep, WriteStep, PumpStep, SendStep, PeerStep, CloseStep

(* Nobody answers what is answered.                                       *)
LEMMA OnceStep == IInv /\ [Next \/ Panic]_vars => AnsweredOnce'
<1> SUFFICES ASSUME IInv, [Next \/ Panic]_vars PROVE AnsweredOnce'
  OBVIOUS
<1>a. TypeOK /\ LockInv /\ PumpInv /\ NameInv /\ AnswerInv /\ AnsweredOnce
  BY DEF IInv
<1>b. GoroutinesOK
  BY Goroutines
<1>1. ASSUME NEW x \in Execs, Respond(x) PROVE AnsweredOnce'
  BY <1>a, <1>b, <1>1 DEF Respond, GoroutinesOK, NameInv, Active, Known, Handles,
      AnswerInv, AnsweredOnce, TypeOK
<1>2. ASSUME NEW x \in Execs,
             Start(x) \/ StartOneHit(x) \/ Reconnect(x)
      PROVE  AnsweredOnce'
  BY <1>a, <1>b, <1>2 DEF Start, StartOneHit, Reconnect, GoroutinesOK, NameInv, Active,
      Known, Handles, AnswerInv, AnsweredOnce, Begin
<1>3. ASSUME NEW x \in Execs,
             CloseOld(x) \/ AfterWait(x) \/ BeginDial(x) \/ DialOK(x)
      PROVE  AnsweredOnce'
  BY <1>a, <1>b, <1>3 DEF CloseOld, AfterWait, BeginDial, DialOK, GoroutinesOK, NameInv,
      Active, Known, Handles, AnswerInv, AnsweredOnce, Panic
<1>4. ASSUME NEW x \in Execs,
             DialError(x) \/ Lock(x) \/ WriteOK(x) \/ WriteError(x)
      PROVE  AnsweredOnce'
  BY <1>a, <1>b, <1>4 DEF DialError, Lock, WriteOK, WriteError, GoroutinesOK, NameInv,
      Active, Known, Handles, AnswerInv, AnsweredOnce
<1>5. ASSUME NEW x \in Execs,
             WriteNil(x) \/ LockOneHit(x) \/ DialOneHit(x) \/ ExchangeOneHit(x)
      PROVE  AnsweredOnce'
  BY <1>a, <1>b, <1>5 DEF WriteNil, LockOneHit, DialOneHit, ExchangeOneHit, GoroutinesOK,
      NameInv, Active, Known, Handles, AnswerInv, AnsweredOnce, Panic
<1>6. ASSUME NEW c \in Conns, Deliver(c) PROVE AnsweredOnce'
  BY <1>a, <1>b, <1>6 DEF Deliver, GoroutinesOK, NameInv, Active, Known, Handles,
      AnswerInv, AnsweredOnce, TypeOK
<1>7. ASSUME NEW c \in Conns, Check(c) \/ Deref(c) \/ ReceiveJunk(c) PROVE AnsweredOnce'
  BY <1>a, <1>b, <1>7 DEF Check, Deref, ReceiveJunk, GoroutinesOK, NameInv, Active, Known,
      Handles, AnswerInv, AnsweredOnce, Panic
<1>8. ASSUME NEW c \in Conns, Load(c) \/ Reject(c) \/ Delete(c) PROVE AnsweredOnce'
  BY <1>a, <1>b, <1>8 DEF Load, Reject, Delete, GoroutinesOK, NameInv, Active, Known,
      Handles, AnswerInv, AnsweredOnce
<1>9. ASSUME NEW c \in Conns,
             ReadError(c) \/ ReportError(c) \/ Break(c)
      PROVE  AnsweredOnce'
  BY <1>a, <1>b, <1>9 DEF ReadError, ReportError, Break, GoroutinesOK, NameInv, Active,
      Known, Handles, AnswerInv, AnsweredOnce
<1>10. ASSUME NEW c \in Conns, NEW m \in Msgs, Receive(c, m) PROVE AnsweredOnce'
  BY <1>a, <1>b, <1>10 DEF Receive, GoroutinesOK, NameInv, Active, Known, Handles,
      AnswerInv, AnsweredOnce
<1>11. ASSUME NEW t \in Execs \cup Conns, CloseConn(t) PROVE AnsweredOnce'
  BY <1>a, <1>b, <1>11 DEF CloseConn, GoroutinesOK, NameInv, Active, Known, Handles,
      AnswerInv, AnsweredOnce
<1>12. CASE Close \/ CloseMessage \/ CloseSocket \/ CloseCancel
  BY <1>a, <1>b, <1>12 DEF Close, CloseMessage, CloseSocket, CloseCancel, GoroutinesOK,
      NameInv, Active, Known, Handles, AnswerInv, AnsweredOnce
<1>13. CASE Panic \/ UNCHANGED vars
  BY <1>a, <1>b, <1>13 DEF Panic, vars, GoroutinesOK, NameInv, Active, Known, Handles,
      AnswerInv, AnsweredOnce
<1> QED
  BY <1>1, <1>2, <1>3, <1>4, <1>5, <1>6, <1>7, <1>8, <1>9, <1>10, <1>11, <1>12, <1>13
  DEF Next, ExecStep, WriteStep, PumpStep, SendStep, PeerStep, CloseStep

(* No connection is dialled while another one is open.                    *)
LEMMA StrayStep == IInv /\ [Next \/ Panic]_vars => NoStrayConn'
<1> SUFFICES ASSUME IInv, [Next \/ Panic]_vars PROVE NoStrayConn'
  OBVIOUS
<1>a. TypeOK /\ PumpInv /\ RaceInv /\ NoStrayConn
  BY DEF IInv
<1>b. GoroutinesOK
  BY Goroutines
<1>1. ASSUME NEW x \in Execs, DialOK(x) PROVE NoStrayConn'
  BY <1>a, <1>b, <1>1 DEF DialOK, GoroutinesOK, RaceInv, Reconnecting, NoStrayConn, TypeOK
<1>2. ASSUME NEW x \in Execs,
             Start(x) \/ StartOneHit(x) \/ Reconnect(x) \/ CloseOld(x) \/ AfterWait(x)
      PROVE  NoStrayConn'
  BY <1>a, <1>b, <1>2 DEF Start, StartOneHit, Reconnect, CloseOld, AfterWait,
      GoroutinesOK, RaceInv, Reconnecting, NoStrayConn, Begin, Panic
<1>3. ASSUME NEW x \in Execs,
             BeginDial(x) \/ DialError(x) \/ Lock(x) \/ WriteOK(x) \/ WriteError(x)
      PROVE  NoStrayConn'
  BY <1>a, <1>b, <1>3 DEF BeginDial, DialError, Lock, WriteOK, WriteError, GoroutinesOK,
      RaceInv, Reconnecting, NoStrayConn
<1>4. ASSUME NEW x \in Execs,
             WriteNil(x) \/ LockOneHit(x) \/ DialOneHit(x) \/ ExchangeOneHit(x)
               \/ Respond(x)
      PROVE  NoStrayConn'
  BY <1>a, <1>b, <1>4 DEF WriteNil, LockOneHit, DialOneHit, ExchangeOneHit, Respond,
      GoroutinesOK, RaceInv, Reconnecting, NoStrayConn, Panic
<1>5. ASSUME NEW c \in Conns, Break(c) PROVE NoStrayConn'
  BY <1>a, <1>b, <1>5 DEF Break, GoroutinesOK, RaceInv, Reconnecting, NoStrayConn, TypeOK
<1>6. ASSUME NEW c \in Conns,
             Check(c) \/ Deref(c) \/ ReceiveJunk(c) \/ Load(c)
      PROVE  NoStrayConn'
  BY <1>a, <1>b, <1>6 DEF Check, Deref, ReceiveJunk, Load, GoroutinesOK, RaceInv,
      Reconnecting, NoStrayConn, Panic
<1>7. ASSUME NEW c \in Conns,
             Reject(c) \/ Delete(c) \/ Deliver(c) \/ ReadError(c) \/ ReportError(c)
      PROVE  NoStrayConn'
  BY <1>a, <1>b, <1>7 DEF Reject, Delete, Deliver, ReadError, ReportError, GoroutinesOK,
      RaceInv, Reconnecting, NoStrayConn
<1>8. ASSUME NEW c \in Conns, NEW m \in Msgs, Receive(c, m) PROVE NoStrayConn'
  BY <1>a, <1>b, <1>8 DEF Receive, GoroutinesOK, RaceInv, Reconnecting, NoStrayConn
<1>9. ASSUME NEW t \in Execs \cup Conns, CloseConn(t) PROVE NoStrayConn'
  <2>1. /\ conn' = Nil /\ UNCHANGED raced
        /\ link' = IF conn = Nil THEN link ELSE [link EXCEPT ![conn] = "closed"]
    BY <1>9 DEF CloseConn
  <2>2. ~raced => \A c \in Conns : link'[c] # "open"
    BY <1>a, <1>b, <2>1 DEF NoStrayConn, GoroutinesOK, TypeOK
  <2> QED
    BY <2>1, <2>2 DEF NoStrayConn
<1>10. CASE CloseSocket
  <2>1. CASE link[conn] = "closed"
    BY <1>a, <1>10, <2>1 DEF CloseSocket, NoStrayConn
  <2>2. CASE link[conn] # "closed"
    <3>1. link' = [link EXCEPT ![conn] = "closed"] /\ UNCHANGED raced
      BY <1>10, <2>2 DEF CloseSocket
    <3>2. ~raced => \A c \in Conns : link'[c] # "open"
      BY <1>a, <3>1 DEF NoStrayConn, TypeOK
    <3> QED
      BY <3>1, <3>2 DEF NoStrayConn
  <2> QED
    BY <2>1, <2>2
<1>11. CASE Close \/ CloseMessage \/ CloseCancel
  BY <1>a, <1>b, <1>11 DEF Close, CloseMessage, CloseCancel, GoroutinesOK, RaceInv,
      Reconnecting, NoStrayConn
<1>12. CASE Panic \/ UNCHANGED vars
  BY <1>a, <1>b, <1>12 DEF Panic, vars, GoroutinesOK, RaceInv, Reconnecting, NoStrayConn
<1> QED
  BY <1>1, <1>2, <1>3, <1>4, <1>5, <1>6, <1>7, <1>8, <1>9, <1>10, <1>11, <1>12
  DEF Next, ExecStep, WriteStep, PumpStep, SendStep, PeerStep, CloseStep

(* An entry goes from its execution to the wire and to a pump.            *)
LEMMA AccountStep == IInv /\ [Next \/ Panic]_vars => InflightAccounted'
<1> SUFFICES ASSUME IInv, [Next \/ Panic]_vars PROVE InflightAccounted'
  OBVIOUS
<1>a. TypeOK /\ LockInv /\ PumpInv /\ InflightAccounted
  BY DEF IInv
<1>b. GoroutinesOK
  BY Goroutines
<1>1. ASSUME NEW x \in Execs, DialOK(x) PROVE InflightAccounted'
  <2>1. /\ \A c \in Conns : pc'[c] = pc[c] \/ (c = dialled + 1 /\ pc[c] \in {"none", "dead"})
        /\ \A y \in Execs : pc'[y] = pc[y] \/ pc[y] = "dial"
        /\ pc'[Closer] = pc[Closer]
        /\ UNCHANGED <<inflight, wire, msg>>
    BY <1>a, <1>b, <1>1 DEF DialOK, GoroutinesOK, PumpInv, TypeOK
  <2> QED
    BY <1>a, <2>1 DEF InflightAccounted
<1>2. ASSUME NEW x \in Execs, WriteOK(x) PROVE InflightAccounted'
  <2>1. /\ conn \in Conns /\ wire'[conn] = wire[conn] \cup {msg[x]}
        /\ \A c \in Conns : wire[c] \subseteq wire'[c] /\ pc'[c] = pc[c]
        /\ \A y \in Execs : y # x => pc'[y] = pc[y]
        /\ pc'[Closer] = pc[Closer]
        /\ UNCHANGED <<inflight, msg>>
    BY <1>a, <1>b, <1>2 DEF WriteOK, GoroutinesOK, TypeOK
  <2> QED
    BY <1>a, <2>1 DEF InflightAccounted
<1>3. ASSUME NEW x \in Execs, Start(x) PROVE InflightAccounted'
  BY <1>a, <1>b, <1>3 DEF Start, GoroutinesOK, LockInv, InflightAccounted, Begin, TypeOK
<1>4. ASSUME NEW x \in Execs, StartOneHit(x) PROVE InflightAccounted'
  BY <1>a, <1>b, <1>4 DEF StartOneHit, GoroutinesOK, LockInv, InflightAccounted, Begin, TypeOK
<1>5. ASSUME NEW x \in Execs,
             Reconnect(x) \/ CloseOld(x) \/ AfterWait(x)
      PROVE  InflightAccounted'
  BY <1>a, <1>b, <1>5 DEF Reconnect, CloseOld, AfterWait, GoroutinesOK, LockInv,
      InflightAccounted, Panic
<1>6. ASSUME NEW x \in Execs,
             BeginDial(x) \/ DialError(x) \/ Lock(x)
      PROVE  InflightAccounted'
  BY <1>a, <1>b, <1>6 DEF BeginDial, DialError, Lock, GoroutinesOK, LockInv,
      InflightAccounted
<1>7. ASSUME NEW x \in Execs,
             WriteError(x) \/ WriteNil(x) \/ LockOneHit(x)
      PROVE  InflightAccounted'
  BY <1>a, <1>b, <1>7 DEF WriteError, WriteNil, LockOneHit, GoroutinesOK, LockInv,
      InflightAccounted, Panic
<1>8. ASSUME NEW x \in Execs,
             DialOneHit(x) \/ ExchangeOneHit(x) \/ Respond(x)
      PROVE  InflightAccounted'
  BY <1>a, <1>b, <1>8 DEF DialOneHit, ExchangeOneHit, Respond, GoroutinesOK, LockInv,
      InflightAccounted
<1>9. ASSUME NEW c \in Conns, Reject(c) PROVE InflightAccounted'
  BY <1>a, <1>b, <1>9 DEF Reject, GoroutinesOK, LockInv, InflightAccounted, TypeOK
<1>10. ASSUME NEW c \in Conns, Load(c) PROVE InflightAccounted'
  BY <1>a, <1>b, <1>10 DEF Load, GoroutinesOK, LockInv, InflightAccounted, TypeOK
<1>11. ASSUME NEW c \in Conns, Delete(c) PROVE InflightAccounted'
  BY <1>a, <1>b, <1>11 DEF Delete, GoroutinesOK, LockInv, InflightAccounted, TypeOK
<1>12. ASSUME NEW c \in Conns, Deliver(c) PROVE InflightAccounted'
  BY <1>a, <1>b, <1>12 DEF Deliver, GoroutinesOK, LockInv, InflightAccounted, TypeOK
<1>13. ASSUME NEW c \in Conns,
              Check(c) \/ Deref(c) \/ ReceiveJunk(c)
       PROVE  InflightAccounted'
  BY <1>a, <1>b, <1>13 DEF Check, Deref, ReceiveJunk, GoroutinesOK, LockInv,
      InflightAccounted, Panic
<1>14. ASSUME NEW c \in Conns,
              ReadError(c) \/ ReportError(c) \/ Break(c)
       PROVE  InflightAccounted'
  BY <1>a, <1>b, <1>14 DEF ReadError, ReportError, Break, GoroutinesOK, LockInv,
      InflightAccounted
<1>15. ASSUME NEW c \in Conns, NEW m \in Msgs, Receive(c, m) PROVE InflightAccounted'
  <2>1. /\ \A d \in Conns : wire[d] \subseteq wire'[d] \cup {m}
        /\ \A d \in Conns : d # c => pc'[d] = pc[d] /\ msg'[d] = msg[d]
        /\ pc[c] = "reading" /\ pc'[c] = "load" /\ msg'[c] = m
        /\ \A y \in Execs : pc'[y] = pc[y] /\ msg'[y] = msg[y]
        /\ pc'[Closer] = pc[Closer]
        /\ UNCHANGED inflight
    BY <1>a, <1>b, <1>15 DEF Receive, GoroutinesOK, TypeOK
  <2> QED
    BY <1>a, <2>1 DEF InflightAccounted
<1>16. ASSUME NEW t \in Execs \cup Conns, CloseConn(t) PROVE InflightAccounted'
  BY <1>a, <1>b, <1>16 DEF CloseConn, GoroutinesOK, LockInv, InflightAccounted
<1>17. CASE Close \/ CloseMessage \/ CloseSocket \/ CloseCancel
  BY <1>a, <1>b, <1>17 DEF Close, CloseMessage, CloseSocket, CloseCancel, GoroutinesOK,
      LockInv, InflightAccounted
<1>18. CASE Panic \/ UNCHANGED vars
  BY <1>a, <1>b, <1>18 DEF Panic, vars, GoroutinesOK, LockInv, InflightAccounted
<1> QED
  BY <1>1, <1>2, <1>3, <1>4, <1>5, <1>6, <1>7, <1>8, <1>9, <1>10, <1>11, <1>12, <1>13,
     <1>14, <1>15, <1>16, <1>17, <1>18
  DEF Next, ExecStep, WriteStep, PumpStep, SendStep, PeerStep, CloseStep

(* A pump that ends leaves e.conn nil, unless the endpoint is closed.     *)
LEMMA ReadStep == IInv /\ [Next \/ Panic]_vars => ConnIsRead'
<1> SUFFICES ASSUME IInv, [Next \/ Panic]_vars PROVE ConnIsRead'
  OBVIOUS
<1>a. TypeOK /\ ConnIsRead
  BY DEF IInv
<1>b. GoroutinesOK
  BY Goroutines
<1>1. ASSUME NEW x \in Execs,
             Start(x) \/ StartOneHit(x) \/ Reconnect(x) \/ CloseOld(x)
      PROVE  ConnIsRead'
  BY <1>a, <1>b, <1>1 DEF Start, StartOneHit, Reconnect, CloseOld, GoroutinesOK,
      ConnIsRead, Running, Begin, Panic
<1>2. ASSUME NEW x \in Execs,
             AfterWait(x) \/ BeginDial(x) \/ DialOK(x) \/ DialError(x)
      PROVE  ConnIsRead'
  BY <1>a, <1>b, <1>2 DEF AfterWait, BeginDial, DialOK, DialError, GoroutinesOK,
      ConnIsRead, Running
<1>3. ASSUME NEW x \in Execs,
             Lock(x) \/ WriteOK(x) \/ WriteError(x) \/ WriteNil(x)
      PROVE  ConnIsRead'
  BY <1>a, <1>b, <1>3 DEF Lock, WriteOK, WriteError, WriteNil, GoroutinesOK, ConnIsRead,
      Running, Panic
<1>4. ASSUME NEW x \in Execs,
             LockOneHit(x) \/ DialOneHit(x) \/ ExchangeOneHit(x) \/ Respond(x)
      PROVE  ConnIsRead'
  BY <1>a, <1>b, <1>4 DEF LockOneHit, DialOneHit, ExchangeOneHit, Respond, GoroutinesOK,
      ConnIsRead, Running
<1>5. ASSUME NEW c \in Conns, Check(c) \/ Deref(c) \/ ReceiveJunk(c) PROVE ConnIsRead'
  BY <1>a, <1>b, <1>5 DEF Check, Deref, ReceiveJunk, GoroutinesOK, ConnIsRead, Running,
      Panic
<1>6. ASSUME NEW c \in Conns, Load(c) \/ Reject(c) \/ Delete(c) PROVE ConnIsRead'
  BY <1>a, <1>b, <1>6 DEF Load, Reject, Delete, GoroutinesOK, ConnIsRead, Running
<1>7. ASSUME NEW c \in Conns,
             Deliver(c) \/ ReadError(c) \/ ReportError(c) \/ Break(c)
      PROVE  ConnIsRead'
  BY <1>a, <1>b, <1>7 DEF Deliver, ReadError, ReportError, Break, GoroutinesOK,
      ConnIsRead, Running
<1>8. ASSUME NEW c \in Conns, NEW m \in Msgs, Receive(c, m) PROVE ConnIsRead'
  BY <1>a, <1>b, <1>8 DEF Receive, GoroutinesOK, ConnIsRead, Running
<1>9. ASSUME NEW t \in Execs \cup Conns, CloseConn(t) PROVE ConnIsRead'
  BY <1>a, <1>b, <1>9 DEF CloseConn, GoroutinesOK, ConnIsRead, Running
<1>10. CASE Close \/ CloseMessage \/ CloseSocket \/ CloseCancel
  BY <1>a, <1>b, <1>10 DEF Close, CloseMessage, CloseSocket, CloseCancel, GoroutinesOK,
      ConnIsRead, Running
<1>11. CASE Panic \/ UNCHANGED vars
  BY <1>a, <1>b, <1>11 DEF Panic, vars, GoroutinesOK, ConnIsRead, Running
<1> QED
  BY <1>1, <1>2, <1>3, <1>4, <1>5, <1>6, <1>7, <1>8, <1>9, <1>10, <1>11
  DEF Next, ExecStep, WriteStep, PumpStep, SendStep, PeerStep, CloseStep

----------------------------------------------------------------------------
(* The inductive invariant.                                               *)

(* It holds when Initialize is done, connected or not.                    *)
LEMMA InitIInv == Init => IInv
<1> SUFFICES ASSUME Init PROVE IInv
  OBVIOUS
<1>1. /\ mode \in {"OneHitText", "PersistentJSONRPC"} /\ payloadOK \in BOOLEAN
      /\ mu = Free /\ ctxDone = FALSE /\ on = [c \in Conns |-> Nil]
      /\ msg = [t \in Execs \cup Conns |-> 0] /\ begun = 0 /\ inflight = {}
      /\ wire = [c \in Conns |-> {}] /\ answered = [m \in Msgs |-> 0] /\ raced = FALSE
  BY DEF Init
<1>2. connect \/ NotConnected
  BY DEF Init
<1>3. /\ \A x \in Execs : x \in Threads /\ x # 1 /\ x # Closer
      /\ \A c \in Conns : c \in Threads /\ c \notin Execs
      /\ Closer \in Threads /\ Closer \notin Execs /\ Closer # 1
      /\ 1 \in Conns /\ 1 \in Threads /\ 1 \notin Execs
  BY BoundAssumption, ThreadAssumption DEF Threads, Conns
<1>4. /\ pc \in [Threads -> ExecPC \cup PumpPC \cup ClosePC]
      /\ \A x \in Execs : pc[x] = "idle"
      /\ pc[Closer] = "none"
      /\ \A c \in Conns : pc[c] = "none" \/ (c = 1 /\ pc[c] = "check" /\ connect)
  BY <1>2, <1>3 DEF connect, NotConnected
<1>5. /\ conn \in Conns \cup {Nil} /\ dialled \in 0..MaxConns /\ conn = dialled
      /\ link \in [Conns -> {"unused", "open", "broken", "closed"}]
      /\ \A c \in Conns : link[c] = "unused" \/ (c = 1 /\ link[c] = "open" /\ conn = 1)
  BY <1>2, <1>3, BoundAssumption DEF connect, NotConnected, Nil
<1>6. TypeOK
  <2>1. 0 \in 0..MaxMsgs
    BY BoundAssumption
  <2>2. msg \in [Execs \cup Conns -> 0..MaxMsgs] /\ begun \in 0..MaxMsgs
    BY <1>1, <2>1
  <2>3. on \in [Conns -> Conns \cup {Nil}] /\ inflight \in SUBSET Msgs
    BY <1>1
  <2>4. wire \in [Conns -> SUBSET Msgs] /\ answered \in [Msgs -> Nat]
    BY <1>1
  <2> QED
    BY <1>1, <1>4, <1>5, <2>2, <2>3, <2>4 DEF TypeOK
<1>7. LockInv
  BY <1>4 DEF LockInv
<1>8. PumpInv
  <2>1. \A c \in Conns : c > dialled => link[c] = "unused" /\ pc[c] = "none"
    BY <1>4, <1>5 DEF connect, Conns
  <2> QED
    BY <1>4, <1>5, <1>6, <2>1 DEF PumpInv, TypeOK, Conns, Nil
<1>9. RaceInv
  BY <1>4 DEF RaceInv, Reconnecting, Running
<1>10. NameInv
  BY <1>1, <1>4 DEF NameInv, Active, Known, Handles
<1>11. AnswerInv /\ AnsweredOnce /\ InflightAccounted
  BY <1>1, <1>4 DEF AnswerInv, AnsweredOnce, InflightAccounted
<1>12. NoStrayConn
  BY <1>5 DEF NoStrayConn
<1>13. ConnIsRead
  <2>1. CASE connect
    BY <1>3, <2>1 DEF connect, ConnIsRead, Running
  <2>2. CASE NotConnected
    BY <2>2 DEF NotConnected, ConnIsRead
  <2> QED
    BY <1>2, <2>1, <2>2
<1> QED
  BY <1>6, <1>7, <1>8, <1>9, <1>10, <1>11, <1>12, <1>13 DEF IInv

(* Every step keeps it, and so does the panic that ends the process when  *)
(* a response is sent on a closed channel (see WSShutdown).               *)
LEMMA NextIInv == IInv /\ [Next \/ Panic]_vars => IInv'
BY TypeStep, LockStep, PumpStepInv, RaceStep, NameStep, AnswerStep, OnceStep, StrayStep,
   AccountStep, ReadStep DEF IInv

(* The inductive invariant holds of the endpoint.                         *)
THEOREM Invariance == Spec => []IInv
<1>1. IInv /\ [Next]_vars => IInv'
  BY NextIInv
<1> QED
  BY InitIInv, <1>1, PTL DEF Spec

----------------------------------------------------------------------------
(* What follows from it.                                                  *)

(* The endpoint's fields keep their types.                                *)
THEOREM TypeCorrect == Spec => []TypeOK
<1>1. IInv => TypeOK
  BY DEF IInv
<1> QED
  BY Invariance, <1>1, PTL

(* The read pump has the connection to itself (task_ws.go:498) unless two *)
(* executions were reconnecting at once: a reconnect waits for the pumps  *)
(* before it dials, and no other can start while e.conn is set.           *)
THEOREM ReaderIsAlone == Spec => []SingleReader
<1>1. IInv => SingleReader
  BY DEF IInv, RaceInv, Running, SingleReader
<1> QED
  BY Invariance, <1>1, PTL

(* An execution gets at most one response, although the lookup and the    *)
(* deletion of its entry are two steps and the server may repeat itself.  *)
THEOREM OneAnswer == Spec => []AnsweredOnce
<1>1. IInv => AnsweredOnce
  BY DEF IInv
<1> QED
  BY Invariance, <1>1, PTL

(* Every entry of inflightMsgs is of a message about to be written, on    *)
(* the wire, or in a pump's hands.                                        *)
THEOREM EntriesAccounted == Spec => []InflightAccounted
<1>1. IInv => InflightAccounted
  BY DEF IInv
<1> QED
  BY Invariance, <1>1, PTL

(* No reconnect dials while a connection it forgets is still open.        *)
THEOREM NoConnectionLost == Spec => []NoStrayConn
<1>1. IInv => NoStrayConn
  BY DEF IInv
<1> QED
  BY Invariance, <1>1, PTL

(* e.conn is set only as long as there is a pump, until Close.            *)
THEOREM ConnectionHasPump == Spec => []ConnIsRead
<1>1. IInv => ConnIsRead
  BY DEF IInv
<1> QED
  BY Invariance, <1>1, PTL

(* After Close has cancelled the context no step writes to a connection:  *)
(* an execution between its check and its write holds the lock that Close *)
(* cancels under.                                                         *)
THEOREM QuietAfterClose == Spec => NothingSentAfterClose
<1> DEFINE Quiet == ctxDone => \A c \in Conns : wire'[c] \subseteq wire[c]
<1>1. ASSUME IInv, Next PROVE Quiet
  <2>1. ASSUME NEW x \in Execs, WriteOK(x) PROVE ~ctxDone
    BY <1>1, <2>1 DEF WriteOK, IInv, LockInv
  <2>2. ASSUME NEW c \in Conns, NEW m \in Msgs, Receive(c, m)
        PROVE  \A d \in Conns : wire'[d] \subseteq wire[d]
    BY <1>1, <2>2 DEF Receive, IInv, TypeOK
  <2>3. CASE UNCHANGED wire
    BY <2>3
  <2>4. ASSUME NEW x \in Execs, ExecStep(x) \/ WriteStep(x)
        PROVE  WriteOK(x) \/ UNCHANGED wire
    BY <2>4 DEF ExecStep, WriteStep, Reconnect, CloseOld, AfterWait, BeginDial, DialOK, DialError, Lock,
       WriteError, WriteNil, Panic, CloseConn, LockOneHit, DialOneHit
  <2>5. ASSUME NEW x \in Execs, Start(x) \/ StartOneHit(x) PROVE UNCHANGED wire
    BY <2>5 DEF Start, StartOneHit, Begin
  <2>6. ASSUME NEW c \in Conns, PumpStep(c) PROVE UNCHANGED wire
    BY <2>6 DEF PumpStep, Check, Deref, Panic, Load, Delete, ReadError, CloseConn
  <2>7. ASSUME NEW t \in Threads, SendStep(t) PROVE UNCHANGED wire
    BY <2>7 DEF SendStep, Deliver, Reject, ReportError, Respond
  <2>8. ASSUME PeerStep
        PROVE  UNCHANGED wire \/ \E c \in Conns : \E m \in Msgs : Receive(c, m)
    BY <2>8 DEF PeerStep, ReceiveJunk, Break, ExchangeOneHit
  <2>9. ASSUME Close \/ CloseStep PROVE UNCHANGED wire
    BY <2>9 DEF Close, CloseStep, CloseMessage, CloseSocket, CloseCancel
  <2> QED
    BY <1>1, <2>1, <2>2, <2>3, <2>4, <2>5, <2>6, <2>7, <2>8, <2>9 DEF Next
<1>2. IInv /\ [Next]_vars => [Quiet]_vars
  BY <1>1
<1> QED
  BY Invariance, <1>2, PTL DEF Spec, NothingSentAfterClose
============================================================================

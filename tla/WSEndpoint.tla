---------------------------- MODULE WSEndpoint ----------------------------
(***************************************************************************)
(* A WSEndpoint (task_ws.go).  In PersistentJSONRPC mode one connection   *)
(* is shared by executions of the task, the read pump and Close, under    *)
(* the mutex e.mu, which several accesses to e.conn do not take.  In      *)
(* OneHitText mode an execution dials, writes, reads one answer and       *)
(* responds, all under the same mutex.                                    *)
(*                                                                        *)
(* One action is one critical section, one unlocked access to e.conn, or  *)
(* one interaction with the peer.  A critical section that does I/O is    *)
(* split, with mu held in between.  The network and gorilla/websocket are *)
(* modelled from their use.                                               *)
(***************************************************************************)
EXTENDS Naturals, FiniteSets

CONSTANTS
  Execs,       \* executions of the task that may overlap
  Closer,      \* the goroutine that calls Close
  Free,        \* e.mu is not held
  Modes,       \* modes the endpoint may be configured with
  MaxConns,    \* bound on the persistent connections ever made
  MaxMsgs,     \* bound on the executions ever begun
  MayClose,    \* whether Close is called
  DupAnswers   \* whether the server may answer a message more than once

WSEndpointMode == {"ModeUnknown", "OneHitText", "PersistentJSONRPC"}

ASSUME ModeAssumption == Modes \subseteq WSEndpointMode
ASSUME BoundAssumption == MaxConns \in Nat \ {0} /\ MaxMsgs \in Nat
ASSUME ThreadAssumption ==
  /\ Closer \notin Execs /\ Free \notin Execs /\ Closer # Free
  /\ (Execs \cup {Closer, Free}) \cap (1..MaxConns) = {}
ASSUME FlagAssumption == MayClose \in BOOLEAN /\ DupAnswers \in BOOLEAN

(* Connections in the order they are dialled; pump c is the read pump     *)
(* started with connection c.  An execution's message is named by the     *)
(* order in which executions begin, as xid.New names it uniquely.         *)
Conns == 1..MaxConns
Msgs == 1..MaxMsgs
Nil == 0
Threads == Execs \cup Conns \cup {Closer}

VARIABLES
  mode,      \* e.Mode, as Initialize leaves it
  payloadOK, \* e.Payload is a JSON-RPC request
  mu,        \* the holder of e.mu
  conn,      \* e.conn
  link,      \* the state of each connection
  dialled,   \* connections dialled so far
  ctxDone,   \* e.ctx is cancelled
  pc,        \* where each thread is
  on,        \* the connection each pump is reading from
  msg,       \* the message each pump or execution is handling
  begun,     \* executions begun so far
  inflight,  \* e.inflightMsgs
  wire,      \* per connection: messages the server may still answer
  answered,  \* history: responses sent per execution
  raced      \* history: two executions have been reconnecting at once

vars == <<mode, payloadOK, mu, conn, link, dialled, ctxDone, pc, on, msg, begun,
          inflight, wire, answered, raced>>
connVars == <<mode, payloadOK, raced, conn, link, dialled>>
msgVars == <<begun, inflight, wire, answered>>

(* "dead" once a nil *websocket.Conn was used and the process is gone.    *)
ExecPC == {"dead", "idle", "reconnect", "closeOld", "wait", "dial", "lock", "write",
           "closing", "ohLock", "ohDial", "ohRead", "respond"}
PumpPC == {"dead", "none", "check", "deref", "reading", "load", "delete", "deliver",
           "reject", "report", "closing", "done"}
ClosePC == {"dead", "none", "locked", "closeSocket", "cancel", "done"}

TypeOK ==
  /\ mode \in {"OneHitText", "PersistentJSONRPC"} /\ payloadOK \in BOOLEAN
  /\ mu \in Execs \cup {Closer, Free}
  /\ conn \in Conns \cup {Nil}
  /\ link \in [Conns -> {"unused", "open", "broken", "closed"}]
  /\ dialled \in 0..MaxConns
  /\ ctxDone \in BOOLEAN
  /\ pc \in [Threads -> ExecPC \cup PumpPC \cup ClosePC]
  /\ \A x \in Execs : pc[x] \in ExecPC
  /\ \A c \in Conns : pc[c] \in PumpPC
  /\ pc[Closer] \in ClosePC
  /\ on \in [Conns -> Conns \cup {Nil}]
  /\ msg \in [Execs \cup Conns -> 0..MaxMsgs]
  /\ begun \in 0..MaxMsgs
  /\ inflight \in SUBSET Msgs
  /\ wire \in [Conns -> SUBSET Msgs]
  /\ answered \in [Msgs -> Nat]
  /\ raced \in BOOLEAN

(* connect: the first connection, with its pump.                          *)
connect ==
  /\ dialled = 1 /\ conn = 1
  /\ link = [c \in Conns |-> IF c = 1 THEN "open" ELSE "unused"]
  /\ pc = [t \in Threads |-> IF t \in Execs THEN "idle"
                            ELSE IF t = 1 THEN "check" ELSE "none"]

NotConnected ==
  /\ dialled = 0 /\ conn = Nil
  /\ link = [c \in Conns |-> "unused"]
  /\ pc = [t \in Threads |-> IF t \in Execs THEN "idle" ELSE "none"]

(* Initialize: an unknown mode becomes one-hit; a persistent endpoint     *)
(* connects and starts its first pump.  The payload matters to it only.   *)
Init ==
  /\ \E m \in Modes : mode = IF m = "PersistentJSONRPC" THEN m ELSE "OneHitText"
  /\ payloadOK \in IF mode = "PersistentJSONRPC" THEN BOOLEAN ELSE {TRUE}
  /\ mu = Free
  /\ IF mode = "PersistentJSONRPC" THEN connect ELSE NotConnected
  /\ ctxDone = FALSE
  /\ on = [c \in Conns |-> Nil]
  /\ msg = [t \in Execs \cup Conns |-> 0]
  /\ begun = 0
  /\ inflight = {}
  /\ wire = [c \in Conns |-> {}]
  /\ answered = [m \in Msgs |-> 0]
  /\ raced = FALSE

Goto(t, next) == pc' = [pc EXCEPT ![t] = next]

(* e.conn is dereferenced: as a nil pointer it ends the process.          *)
Panic ==
  /\ pc' = [t \in Threads |-> "dead"]
  /\ UNCHANGED <<mu, connVars, ctxDone, on, msg, msgVars>>
Panicked == pc[Closer] = "dead"

(* The pumps e.wg counts.                                                 *)
Running == {c \in Conns : pc[c] \notin {"none", "done", "dead"}}

----------------------------------------------------------------------------
(* wsPersistent.Execute and reconnect.                                    *)

Reconnecting == {x \in Execs : pc[x] \in {"reconnect", "closeOld", "wait", "dial"}}

(* An execution begins: its message has a name.                           *)
Begin(x) ==
  /\ pc[x] = "idle"
  /\ begun < MaxMsgs
  /\ begun' = begun + 1
  /\ msg' = [msg EXCEPT ![x] = begun + 1]
  /\ raced' = (raced \/ (conn = Nil /\ Reconnecting # {}))
  /\ UNCHANGED <<mode, payloadOK, mu, conn, link, dialled, ctxDone, on, inflight, wire,
                 answered>>

(* Mutant: every execution dials anew.                                    *)
Start_Redials(x) ==
  /\ mode = "PersistentJSONRPC"
  /\ mu = Free
  /\ Begin(x)
  /\ Goto(x, "dial")

(* The check whether to reconnect; nilConn locks and unlocks.             *)
Start(x) ==
  /\ mode = "PersistentJSONRPC"
  /\ mu = Free
  /\ Begin(x)
  /\ Goto(x, IF conn = Nil THEN "reconnect" ELSE "lock")

(* reconnect checks again: by now another execution may have connected.   *)
Reconnect(x) ==
  /\ pc[x] = "reconnect"
  /\ mu = Free
  /\ Goto(x, IF conn = Nil THEN "wait" ELSE "closeOld")
  /\ UNCHANGED <<mu, connVars, ctxDone, on, msg, msgVars>>

(* e.conn.Close() without the lock.  Closing what is closed is an error.  *)
CloseOld(x) ==
  /\ pc[x] = "closeOld"
  /\ \/ /\ conn = Nil
        /\ Panic
     \/ /\ conn # Nil
        /\ link' = [link EXCEPT ![conn] = "closed"]
        /\ Goto(x, IF link[conn] = "closed" THEN "idle" ELSE "wait")
        /\ UNCHANGED <<mode, payloadOK, raced, mu, conn, dialled, ctxDone, on, msg,
                       msgVars>>

(* e.wg.Wait(), then the lock; the old connection is forgotten.           *)
AfterWait(x) ==
  /\ pc[x] = "wait"
  /\ Running = {}
  /\ Goto(x, "dial")
  /\ UNCHANGED <<mu, connVars, ctxDone, on, msg, msgVars>>

BeginDial(x) ==
  /\ pc[x] = "dial"
  /\ mu = Free
  /\ mu' = x
  /\ conn' = Nil
  /\ UNCHANGED <<mode, payloadOK, raced, link, dialled, ctxDone, pc, on, msg, msgVars>>

(* Mutant: the pump is not restarted.                                     *)
DialOK_NoPump(x) ==
  /\ pc[x] = "dial"
  /\ mu = x
  /\ dialled < MaxConns
  /\ dialled' = dialled + 1
  /\ conn' = dialled'
  /\ link' = [link EXCEPT ![dialled'] = "open"]
  /\ Goto(x, "lock")
  /\ mu' = Free
  /\ UNCHANGED <<mode, payloadOK, raced, ctxDone, on, msg, msgVars>>

(* A new connection with its own pump.                                    *)
DialOK(x) ==
  /\ pc[x] = "dial"
  /\ mu = x
  /\ dialled < MaxConns
  /\ dialled' = dialled + 1
  /\ conn' = dialled'
  /\ link' = [link EXCEPT ![dialled'] = "open"]
  /\ pc' = [pc EXCEPT ![x] = "lock", ![dialled'] = "check"]
  /\ mu' = Free
  /\ UNCHANGED <<mode, payloadOK, raced, ctxDone, on, msg, msgVars>>

(* Mutant: the error is returned with the lock held.                      *)
DialError_KeepsLock(x) ==
  /\ pc[x] = "dial"
  /\ mu = x
  /\ Goto(x, "idle")
  /\ UNCHANGED <<mu, connVars, ctxDone, on, msg, msgVars>>

(* Execute returns the error without a response.                          *)
DialError(x) ==
  /\ pc[x] = "dial"
  /\ mu = x
  /\ mu' = Free
  /\ Goto(x, "idle")
  /\ UNCHANGED <<connVars, ctxDone, on, msg, msgVars>>

(* Mutant: the endpoint's context is not looked at.                       *)
Lock_NoContextCheck(x) ==
  /\ pc[x] = "lock"
  /\ mu = Free
  /\ mu' = x
  /\ Goto(x, IF payloadOK THEN "write" ELSE "respond")
  /\ inflight' = IF payloadOK THEN inflight \cup {msg[x]} ELSE inflight
  /\ UNCHANGED <<connVars, ctxDone, on, msg, begun, wire, answered>>

(* The lock for writing.  After Close nothing is sent; otherwise the      *)
(* message is recorded before it is written or, if none can be made of    *)
(* the payload, an error response is sent (see Respond).                  *)
Lock(x) ==
  /\ pc[x] = "lock"
  /\ mu = Free
  /\ mu' = IF ctxDone THEN Free ELSE x
  /\ Goto(x, IF ctxDone THEN "idle" ELSE IF payloadOK THEN "write" ELSE "respond")
  /\ inflight' = IF ~ctxDone /\ payloadOK THEN inflight \cup {msg[x]} ELSE inflight
  /\ UNCHANGED <<connVars, ctxDone, on, msg, begun, wire, answered>>

WriteOK(x) ==
  /\ pc[x] = "write"
  /\ conn # Nil
  /\ link[conn] \in {"open", "broken"}
  /\ wire' = [wire EXCEPT ![conn] = @ \cup {msg[x]}]
  /\ mu' = Free
  /\ Goto(x, "idle")
  /\ UNCHANGED <<connVars, ctxDone, on, msg, begun, inflight, answered>>

(* The write fails, on a connection that is gone or after an earlier      *)
(* write error, which gorilla/websocket repeats.  handleWriteError calls  *)
(* closeConn while Execute still holds the lock.                          *)
WriteError(x) ==
  /\ pc[x] = "write"
  /\ conn # Nil
  /\ Goto(x, "closing")
  /\ UNCHANGED <<mu, connVars, ctxDone, on, msg, msgVars>>

WriteNil(x) ==
  /\ pc[x] = "write"
  /\ conn = Nil
  /\ Panic

(* Mutant: a pump goes on as an execution would.                          *)
CloseConn_NoExit(t) ==
  /\ pc[t] = "closing"
  /\ mu = Free
  /\ link' = IF conn = Nil THEN link ELSE [link EXCEPT ![conn] = "closed"]
  /\ conn' = Nil
  /\ Goto(t, "idle")
  /\ UNCHANGED <<mode, payloadOK, raced, mu, dialled, ctxDone, on, msg, msgVars>>

(* closeConn, of a pump after a failed read or of an execution after a    *)
(* failed write: takes the lock and closes whatever e.conn is now.  A     *)
(* pump is done then; an execution has its error response sent.           *)
CloseConn(t) ==
  /\ pc[t] = "closing"
  /\ mu = Free
  /\ link' = IF conn = Nil THEN link ELSE [link EXCEPT ![conn] = "closed"]
  /\ conn' = Nil
  /\ Goto(t, IF t \in Execs THEN "idle" ELSE "done")
  /\ UNCHANGED <<mode, payloadOK, raced, mu, dialled, ctxDone, on, msg, msgVars>>

----------------------------------------------------------------------------
(* readPump.                                                              *)

Check(c) ==
  /\ pc[c] = "check"
  /\ Goto(c, IF ctxDone THEN "done" ELSE "deref")
  /\ UNCHANGED <<mu, connVars, ctxDone, on, msg, msgVars>>

(* e.conn.ReadMessage(): e.conn is read without the lock and may be nil   *)
(* or a connection that another pump was started for.                     *)
Deref(c) ==
  /\ pc[c] = "deref"
  /\ \/ conn = Nil /\ Panic
     \/ /\ conn # Nil
        /\ on' = [on EXCEPT ![c] = conn]
        /\ Goto(c, "reading")
        /\ UNCHANGED <<mu, connVars, ctxDone, msg, msgVars>>

(* An answer arrives; the server may send another one for the same ID.    *)
Receive(c, m) ==
  /\ pc[c] = "reading"
  /\ link[on[c]] = "open"
  /\ m \in wire[on[c]]
  /\ \/ wire' = [wire EXCEPT ![on[c]] = @ \ {m}]
     \/ DupAnswers /\ UNCHANGED wire
  /\ msg' = [msg EXCEPT ![c] = m]
  /\ Goto(c, "load")
  /\ UNCHANGED <<mu, connVars, ctxDone, on, begun, inflight, answered>>

(* What arrives is no answer: it cannot be parsed, is empty or has no ID. *)
ReceiveJunk(c) ==
  /\ pc[c] = "reading"
  /\ link[on[c]] = "open"
  /\ Goto(c, "reject")
  /\ UNCHANGED <<mu, connVars, ctxDone, on, msg, msgVars>>

(* handleJSONRPCResponse looks the ID up.                                 *)
Load(c) ==
  /\ pc[c] = "load"
  /\ Goto(c, IF msg[c] \in inflight THEN "delete" ELSE "reject")
  /\ UNCHANGED <<mu, connVars, ctxDone, on, msg, msgVars>>

(* An error response for what matches no request.                         *)
Reject(c) ==
  /\ pc[c] = "reject"
  /\ msg' = [msg EXCEPT ![c] = 0]
  /\ Goto(c, "check")
  /\ UNCHANGED <<mu, connVars, ctxDone, on, msgVars>>

(* Mutant: the entry is kept.                                             *)
Delete_KeepsEntry(c) ==
  /\ pc[c] = "delete"
  /\ Goto(c, "deliver")
  /\ UNCHANGED <<mu, connVars, ctxDone, on, msg, msgVars>>

(* processInflightMessage: the entry is deleted ...                       *)
Delete(c) ==
  /\ pc[c] = "delete"
  /\ inflight' = inflight \ {msg[c]}
  /\ Goto(c, "deliver")
  /\ UNCHANGED <<mu, connVars, ctxDone, on, msg, begun, wire, answered>>

(* ... and then the response, or the error of making one, is sent.        *)
Deliver(c) ==
  /\ pc[c] = "deliver"
  /\ answered' = [answered EXCEPT ![msg[c]] = @ + 1]
  /\ msg' = [msg EXCEPT ![c] = 0]
  /\ Goto(c, "check")
  /\ UNCHANGED <<mu, connVars, ctxDone, on, begun, inflight, wire>>

(* Mutant: the pump ends without closing the connection.                  *)
ReadError_NoClose(c) ==
  /\ pc[c] = "reading"
  /\ link[on[c]] # "open"
  /\ Goto(c, "done")
  /\ UNCHANGED <<mu, connVars, ctxDone, on, msg, msgVars>>

(* The read fails.  handleWebSocketReadError is quiet when shutting down, *)
(* when the connection was closed on this side and for benign close       *)
(* codes, and otherwise reports first.                                    *)
ReadError(c) ==
  /\ pc[c] = "reading"
  /\ link[on[c]] # "open"
  /\ \/ Goto(c, "closing")
     \/ ~ctxDone /\ link[on[c]] = "broken" /\ Goto(c, "report")
  /\ UNCHANGED <<mu, connVars, ctxDone, on, msg, msgVars>>

ReportError(c) ==
  /\ pc[c] = "report"
  /\ Goto(c, "closing")
  /\ UNCHANGED <<mu, connVars, ctxDone, on, msg, msgVars>>

----------------------------------------------------------------------------
(* wsOneHit.Execute.                                                      *)

(* That e.conn is nil is checked without the lock.                        *)
StartOneHit(x) ==
  /\ mode = "OneHitText"
  /\ Begin(x)
  /\ Goto(x, IF conn = Nil THEN "ohLock" ELSE "idle")

LockOneHit(x) ==
  /\ pc[x] = "ohLock"
  /\ mu = Free
  /\ mu' = IF ctxDone THEN Free ELSE x
  /\ Goto(x, IF ctxDone THEN "idle" ELSE "ohDial")
  /\ UNCHANGED <<connVars, ctxDone, on, msg, msgVars>>

(* establishConnection; an error is the response.                         *)
DialOneHit(x) ==
  /\ pc[x] = "ohDial"
  /\ \E next \in {"ohRead", "respond"} : Goto(x, next)
  /\ UNCHANGED <<mu, connVars, ctxDone, on, msg, msgVars>>

(* sendAndReceiveMessage: the write, or the read, which has no deadline,  *)
(* fails or the peer's first message is the response.                     *)
ExchangeOneHit(x) ==
  /\ pc[x] = "ohRead"
  /\ Goto(x, "respond")
  /\ UNCHANGED <<mu, connVars, ctxDone, on, msg, msgVars>>

(* The response or error response is sent with the lock held; then the    *)
(* connection is closed and the lock given up.                            *)
Respond(x) ==
  /\ pc[x] = "respond"
  /\ answered' = [answered EXCEPT ![msg[x]] = @ + 1]
  /\ mu' = Free
  /\ Goto(x, "idle")
  /\ UNCHANGED <<connVars, ctxDone, on, msg, begun, inflight, wire>>

----------------------------------------------------------------------------
(* Close.                                                                 *)

(* Nothing to do, the context included, when there is no connection.      *)
Close ==
  /\ MayClose
  /\ pc[Closer] = "none"
  /\ mu = Free
  /\ mu' = IF conn = Nil THEN Free ELSE Closer
  /\ Goto(Closer, IF conn = Nil THEN "done" ELSE "locked")
  /\ UNCHANGED <<connVars, ctxDone, on, msg, msgVars>>

(* The close message.  An error, on a connection that is gone or when the *)
(* 3s deadline passes, makes Close return at once.                        *)
CloseMessage ==
  /\ pc[Closer] = "locked"
  /\ \/ /\ link[conn] # "closed"
        /\ Goto(Closer, "closeSocket")
        /\ UNCHANGED mu
     \/ /\ Goto(Closer, "done")
        /\ mu' = Free
  /\ UNCHANGED <<connVars, ctxDone, on, msg, msgVars>>

(* conn.Close(): an error, for a connection that reconnect closed without *)
(* the lock, makes Close return with e.conn still set.                    *)
CloseSocket ==
  /\ pc[Closer] = "closeSocket"
  /\ \/ /\ link[conn] = "closed"
        /\ Goto(Closer, "done")
        /\ mu' = Free
        /\ UNCHANGED <<conn, link>>
     \/ /\ link[conn] # "closed"
        /\ link' = [link EXCEPT ![conn] = "closed"]
        /\ conn' = Nil
        /\ Goto(Closer, "cancel")
        /\ UNCHANGED mu
  /\ UNCHANGED <<mode, payloadOK, raced, dialled, ctxDone, on, msg, msgVars>>

CloseCancel ==
  /\ pc[Closer] = "cancel"
  /\ ctxDone' = TRUE
  /\ mu' = Free
  /\ Goto(Closer, "done")
  /\ UNCHANGED <<connVars, on, msg, msgVars>>

(* The peer closes a connection or the network breaks it.                 *)
Break(c) ==
  /\ link[c] = "open"
  /\ link' = [link EXCEPT ![c] = "broken"]
  /\ UNCHANGED <<mode, payloadOK, raced, mu, conn, dialled, ctxDone, pc, on, msg,
                 msgVars>>

----------------------------------------------------------------------------
(* The steps that send a response on respChan ...                         *)
SendStep(t) ==
  \/ t \in Conns /\ (Deliver(t) \/ Reject(t) \/ ReportError(t))
  \/ t \in Execs /\ Respond(t)
Sending(t) == pc[t] \in {"deliver", "reject", "report", "respond"}

(* ... and those that do not.                                             *)
ExecStep(x) ==
  \/ Reconnect(x) \/ CloseOld(x) \/ AfterWait(x) \/ BeginDial(x) \/ DialOK(x)
  \/ DialError(x) \/ Lock(x) \/ WriteNil(x) \/ CloseConn(x)
  \/ LockOneHit(x) \/ DialOneHit(x)

WriteStep(x) == WriteOK(x) \/ WriteError(x)

PumpStep(c) ==
  Check(c) \/ Deref(c) \/ Load(c) \/ Delete(c) \/ ReadError(c) \/ CloseConn(c)

CloseStep == CloseMessage \/ CloseSocket \/ CloseCancel

(* What the peer does, or never does.                                     *)
PeerStep ==
  \/ \E c \in Conns : (\E m \in Msgs : Receive(c, m)) \/ ReceiveJunk(c) \/ Break(c)
  \/ \E x \in Execs : ExchangeOneHit(x)

Next ==
  \/ \E x \in Execs : Start(x) \/ StartOneHit(x) \/ ExecStep(x) \/ WriteStep(x)
  \/ \E c \in Conns : PumpStep(c)
  \/ \E t \in Threads : SendStep(t)
  \/ PeerStep
  \/ Close \/ CloseStep

Spec == Init /\ [][Next]_vars

(* A write on a connection closed on this side returns an error.          *)
WriteOnClosed(x) == WriteError(x) /\ link[conn] = "closed"

(* Goroutines run, dials end (the dialer has a handshake timeout) and the *)
(* close message has a deadline.  A write has none (line 770): if the     *)
(* peer stops reading it may block with e.mu held until the connection is *)
(* closed on this side.  No execution need ever start, no answer need     *)
(* ever come.                                                             *)
Fairness ==
  /\ \A x \in Execs : WF_vars(ExecStep(x)) /\ WF_vars(WriteOnClosed(x))
  /\ \A c \in Conns : WF_vars(PumpStep(c))
  /\ WF_vars(CloseStep)

(* Somebody takes the responses.                                          *)
FairSpec == Spec /\ Fairness /\ \A t \in Threads : WF_vars(SendStep(t))

----------------------------------------------------------------------------
(* Properties.                                                            *)

(* task_ws.go:498: "the read pump has exclusive permission to read from   *)
(* the connection": no two pumps read from one connection, as long as no  *)
(* two executions were reconnecting at once.                              *)
SingleReader ==
  ~raced =>
    \A c, d \in Conns :
      c # d /\ pc[c] = "reading" /\ pc[d] = "reading" => on[c] # on[d]

(* An execution is answered at most once, across reconnects and with a    *)
(* server that repeats itself: inflightMsgs forgets an ID when it is      *)
(* answered, and a one-hit execution responds on one of its paths.  The   *)
(* lookup and the deletion of an entry are two steps, which is safe as    *)
(* long as one pump reads.                                                *)
AnsweredOnce ==
  ~raced => \A m \in Msgs : answered[m] <= 1 /\ (answered[m] = 1 => m \notin inflight)

(* inflightMsgs holds nothing but messages whose answer is still to come  *)
(* or was lost with its connection: an entry is on the wire, in the       *)
(* pump's hands or about to be written.                                   *)
InflightAccounted ==
  ~Panicked =>
    \A m \in inflight :
      \/ \E c \in Conns : m \in wire[c]
      \/ \E c \in Conns : msg[c] = m /\ pc[c] \in {"load", "delete"}
      \/ \E x \in Execs : msg[x] = m /\ pc[x] \in {"write", "closing"}

(* Once Close has gone through, nothing more is written: an execution     *)
(* that found the endpoint open still holds the lock Close needs, and one *)
(* that comes later and dials again notices under the lock.               *)
NothingSentAfterClose ==
  [][ctxDone => \A c \in Conns : wire'[c] \subseteq wire[c]]_vars

(* No connection is lost track of: one that is open is e.conn, as long as *)
(* reconnects did not overlap.                                            *)
NoStrayConn ==
  ~raced => \A c \in Conns : link[c] = "open" => c = conn

(* While e.conn is set a pump is there to read from it, or about to       *)
(* forget it: an answer does not wait on a connection nobody reads.       *)
ConnIsRead ==
  conn # Nil /\ ~ctxDone /\ ~Panicked => Running # {}

(* A pump whose connection is gone ends and, with it, e.conn is cleared,  *)
(* so that the next execution reconnects, unless the endpoint is closed,  *)
(* the process is gone, or an execution keeps the lock for good: blocked  *)
(* in a write, or in closeConn after a failed one.                        *)
LockLost == \E x \in Execs : mu = x /\ pc[x] \in {"write", "closing"}
BrokenIsNoticed ==
  \A c \in Conns :
    (conn = c /\ link[c] = "broken") ~> (conn # c \/ ctxDone \/ Panicked \/ []LockLost)

----------------------------------------------------------------------------
(* What comments of task_ws.go say and the code does not do.              *)

(* task_ws.go:719,722: after a failed write, "Close the connection" and   *)
(* "Send an error response".                                              *)
WriteErrorReported ==
  \A x \in Execs : (pc[x] = "closing") ~> (pc[x] = "idle" \/ Panicked)
============================================================================

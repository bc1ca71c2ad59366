------------------------- MODULE HTTPTaskResponse -------------------------
(***************************************************************************)
(* The response to one HTTP request: the times its trace records, the     *)
(* delivery by httpRequest.Execute with or without OptReadFast, and what  *)
(* several consumers may do with it: Data, Reader and the stream it       *)
(* returns, Close, and the times Metadata derives (response.go, timing.go,*)
(* the second half of Execute in task_http.go).                           *)
(*                                                                        *)
(* The body is a row of chunks; reads of it exclude each other, fail once *)
(* the connection is broken, and fail once it is closed, as those of      *)
(* net/http do (an empty body never fails, and is left out); it is never  *)
(* nil here.  Every time stamp is a new instant.                          *)
(* Callbacks whose stamps need not belong together (DNS, connect, TLS,    *)
(* WroteRequest) are left out.                                            *)
(***************************************************************************)
EXTENDS Integers, FiniteSets

CONSTANTS
  Callers,     \* goroutines that share the response
  Executor,    \* the goroutine of Execute
  FastModes,   \* values of OptReadFast
  Length,      \* chunks of the body
  MaxHops,     \* bound on the requests sent, redirects included
  MaxCalls     \* bound on the calls the consumers make

ASSUME ThreadAssumption == Executor \notin Callers
ASSUME FastAssumption == FastModes \subseteq BOOLEAN
ASSUME SizeAssumption == Length \in Nat \ {0} /\ MaxHops \in Nat /\ MaxCalls \in Nat

Threads == Callers \cup {Executor}
Chunk == 1..Length

VARIABLES
  OptReadFast,
  clock,        \* instants so far
  hops,         \* requests sent
  trace,        \* traceTimes
  timestamps,   \* h.timestamps
  next,         \* the chunk of the body a read returns
  body,         \* open, broken or closed
  once,         \* h.once: new, running or done
  dataOnce, data, dataErr, usedReader,
  pc,           \* where each goroutine is
  buf,          \* what ReadAll has read so far, per goroutine
  calls,        \* calls made
  answers,      \* history: what Data returned when it did not refuse
  served,       \* history: contents of the in-memory readers
  streamed      \* history: chunks that streams have read

bodyVars == <<next, body>>
dataVars == <<dataOnce, data, dataErr>>
traceVars == <<OptReadFast, hops, trace>>
histVars == <<answers, served, streamed>>
vars == <<OptReadFast, clock, hops, trace, timestamps, next, body, once, dataOnce, data,
          dataErr, usedReader, pc, buf, calls, answers, served, streamed>>

Zero == 0   \* time.Time{}
Trace == [start : Nat, firstByte : Nat]
requestTimestamps == [start : Nat, firstByte : Nat, dataDone : Nat]

ExecutePC == {"request", "sent", "responded", "read", "store", "stamp", "done"}
CallerPC == {"idle", "once", "read", "store", "stamp", "return", "checkUsed", "setUsed",
             "stream", "finish", "ended"}

TypeOK ==
  /\ OptReadFast \in BOOLEAN
  /\ clock \in Nat /\ hops \in 0..MaxHops
  /\ trace \in Trace /\ timestamps \in requestTimestamps
  /\ next \in 1..Length + 1 /\ body \in {"open", "broken", "closed"}
  /\ once \in {"new", "running", "done"}
  /\ dataOnce \in BOOLEAN /\ dataErr \in BOOLEAN /\ usedReader \in BOOLEAN
  /\ data \in SUBSET Chunk
  /\ pc \in [Threads -> ExecutePC \cup CallerPC]
  /\ pc[Executor] \in ExecutePC /\ \A c \in Callers : pc[c] \in CallerPC
  /\ buf \in [Threads -> SUBSET Chunk]
  /\ calls \in 0..MaxCalls
  /\ answers \in SUBSET [data : SUBSET Chunk, err : BOOLEAN]
  /\ served \in SUBSET SUBSET Chunk /\ streamed \in SUBSET Chunk

Init ==
  /\ OptReadFast \in FastModes
  /\ clock = 0 /\ hops = 0
  /\ trace = [start |-> Zero, firstByte |-> Zero]
  /\ timestamps = [start |-> Zero, firstByte |-> Zero, dataDone |-> Zero]
  /\ next = 1 /\ body = "open"
  /\ once = "new" /\ usedReader = FALSE
  /\ dataOnce = FALSE /\ data = {} /\ dataErr = FALSE
  /\ pc = [t \in Threads |-> IF t = Executor THEN "request" ELSE "idle"]
  /\ buf = [t \in Threads |-> {}]
  /\ calls = 0
  /\ answers = {} /\ served = {} /\ streamed = {}

Goto(t, label) == pc' = [pc EXCEPT ![t] = label]
Now == clock + 1
Stamp == clock' = Now

----------------------------------------------------------------------------
(* client.Do with its trace, and the rest of Execute.                     *)

(* GetConn is called for every request, the redirected ones included.     *)
GetConn ==
  /\ pc[Executor] = "request"
  /\ hops < MaxHops
  /\ hops' = hops + 1
  /\ Stamp /\ trace' = [trace EXCEPT !.start = Now]
  /\ Goto(Executor, "sent")
  /\ UNCHANGED <<OptReadFast, timestamps, bodyVars, once, dataVars, usedReader, buf,
                 calls, histVars>>

(* Mutant: only the first response's first byte is recorded.              *)
GotFirstResponseByte_Once ==
  /\ pc[Executor] = "sent"
  /\ Stamp /\ trace' = [trace EXCEPT !.firstByte = IF @ = Zero THEN Now ELSE @]
  /\ Goto(Executor, "responded")
  /\ UNCHANGED <<OptReadFast, hops, timestamps, bodyVars, once, dataVars, usedReader,
                 buf, calls, histVars>>

GotFirstResponseByte ==
  /\ pc[Executor] = "sent"
  /\ Stamp /\ trace' = [trace EXCEPT !.firstByte = Now]
  /\ Goto(Executor, "responded")
  /\ UNCHANGED <<OptReadFast, hops, timestamps, bodyVars, once, dataVars, usedReader,
                 buf, calls, histVars>>

(* The client follows a redirect ...                                      *)
Redirect ==
  /\ pc[Executor] = "responded"
  /\ hops < MaxHops
  /\ Goto(Executor, "request")
  /\ UNCHANGED <<traceVars, clock, timestamps, bodyVars, once, dataVars, usedReader,
                 buf, calls, histVars>>

Snapshot == [start |-> trace.start, firstByte |-> trace.firstByte, dataDone |-> Zero]

(* ... or Do returns: the response is made with a snapshot of the trace   *)
(* and, with OptReadFast, read before it is sent, outside h.once.         *)
MakeResponse ==
  /\ pc[Executor] = "responded"
  /\ timestamps' = Snapshot
  /\ Goto(Executor, IF OptReadFast THEN "read" ELSE "done")
  /\ UNCHANGED <<traceVars, clock, bodyVars, once, dataVars, usedReader, buf, calls,
                 histVars>>

----------------------------------------------------------------------------
(* readBody, by the goroutine of Execute or of a consumer's Data.         *)

(* Mutant: Execute goes on as Data does.                                  *)
AfterReadBody_Data(t) ==
  /\ Goto(t, "return")
  /\ once' = "done"

AfterReadBody(t) ==
  /\ Goto(t, IF t = Executor THEN "done" ELSE "return")
  /\ once' = IF t = Executor THEN once ELSE "done"

ReadChunk(t) ==
  /\ pc[t] = "read"
  /\ body = "open" /\ next <= Length
  /\ next' = next + 1
  /\ buf' = [buf EXCEPT ![t] = @ \cup {next}]
  /\ UNCHANGED <<traceVars, clock, timestamps, body, once, dataVars, usedReader, pc,
                 calls, histVars>>

ReadEOF(t) ==
  /\ pc[t] = "read"
  /\ body = "open" /\ next > Length
  /\ Goto(t, "store")
  /\ UNCHANGED <<traceVars, clock, timestamps, bodyVars, once, dataVars, usedReader, buf,
                 calls, histVars>>

(* Mutant: what was read before the error counts as the data.             *)
ReadError_KeepsPart(t) ==
  /\ pc[t] = "read"
  /\ body # "open"
  /\ Goto(t, "store")
  /\ UNCHANGED <<traceVars, clock, timestamps, bodyVars, once, dataVars, usedReader, buf,
                 calls, histVars>>

(* Mutant: the body is closed after a successful read only.               *)
ReadError_LeavesOpen(t) ==
  /\ pc[t] = "read"
  /\ body # "open"
  /\ dataErr' = TRUE
  /\ AfterReadBody(t)
  /\ UNCHANGED <<traceVars, clock, timestamps, bodyVars, dataOnce, data, usedReader, buf,
                 calls, histVars>>

(* ReadAll fails: the error is kept, dataOnce stays unset, the body is    *)
(* closed.                                                                *)
ReadError(t) ==
  /\ pc[t] = "read"
  /\ body # "open"
  /\ dataErr' = TRUE
  /\ body' = "closed"
  /\ AfterReadBody(t)
  /\ UNCHANGED <<traceVars, clock, timestamps, next, dataOnce, data, usedReader, buf,
                 calls, histVars>>

(* The data is visible once dataOnce is ...                               *)
StoreData(t) ==
  /\ pc[t] = "store"
  /\ data' = buf[t]
  /\ dataOnce' = TRUE
  /\ Goto(t, "stamp")
  /\ UNCHANGED <<traceVars, clock, timestamps, bodyVars, once, dataErr, usedReader, buf,
                 calls, histVars>>

(* ... which is before the time is recorded and the body closed.          *)
StampData(t) ==
  /\ pc[t] = "stamp"
  /\ Stamp /\ timestamps' = [timestamps EXCEPT !.dataDone = Now]
  /\ body' = "closed"
  /\ AfterReadBody(t)
  /\ UNCHANGED <<traceVars, next, dataVars, usedReader, buf, calls, histVars>>

----------------------------------------------------------------------------
(* The consumers, once the response is sent.                              *)

Call(c) ==
  /\ pc[Executor] = "done"
  /\ pc[c] = "idle"
  /\ calls < MaxCalls
  /\ calls' = calls + 1
  /\ UNCHANGED <<traceVars, clock, timestamps, next, once, dataVars, usedReader, buf>>

(* Data refuses after Reader.                                             *)
Data(c) ==
  /\ Call(c)
  /\ Goto(c, IF usedReader THEN "idle" ELSE "once")
  /\ UNCHANGED <<body, histVars>>

(* Mutant: the flag is asked instead of the Once.                         *)
EnterOnce_Flag(c) ==
  /\ pc[c] = "once"
  /\ once' = IF dataOnce THEN "done" ELSE "running"
  /\ buf' = [buf EXCEPT ![c] = {}]
  /\ Goto(c, IF dataOnce THEN "return" ELSE "read")
  /\ UNCHANGED <<traceVars, clock, timestamps, bodyVars, dataVars, usedReader, calls,
                 histVars>>

(* h.once.Do: the first call reads, others wait until it has.             *)
EnterOnce(c) ==
  /\ pc[c] = "once"
  /\ once # "running"
  /\ once' = IF once = "new" THEN "running" ELSE once
  /\ buf' = [buf EXCEPT ![c] = {}]
  /\ Goto(c, IF once = "new" THEN "read" ELSE "return")
  /\ UNCHANGED <<traceVars, clock, timestamps, bodyVars, dataVars, usedReader, calls,
                 histVars>>

ReturnData(c) ==
  /\ pc[c] = "return"
  /\ answers' = answers \cup {[data |-> data, err |-> dataErr]}
  /\ Goto(c, "idle")
  /\ UNCHANGED <<traceVars, clock, timestamps, bodyVars, once, dataVars, usedReader, buf,
                 calls, served, streamed>>

(* Reader returns the remembered error or an in-memory reader once there  *)
(* is data; otherwise ...                                                 *)
Reader(c) ==
  /\ Call(c)
  /\ Goto(c, IF dataOnce THEN "idle" ELSE "checkUsed")
  /\ served' = IF dataOnce /\ ~dataErr THEN served \cup {data} ELSE served
  /\ UNCHANGED <<body, answers, streamed>>

(* ... it looks at usedReader, refusing if that is set, ...               *)
CheckUsed(c) ==
  /\ pc[c] = "checkUsed"
  /\ Goto(c, IF usedReader THEN "idle" ELSE "setUsed")
  /\ UNCHANGED <<traceVars, clock, timestamps, bodyVars, once, dataVars, usedReader, buf,
                 calls, histVars>>

(* ... sets it, and returns the stream.                                   *)
SetUsed(c) ==
  /\ pc[c] = "setUsed"
  /\ usedReader' = TRUE
  /\ Goto(c, "stream")
  /\ UNCHANGED <<traceVars, clock, timestamps, bodyVars, once, dataVars, buf, calls,
                 histVars>>

ReadStream(c) ==
  /\ pc[c] = "stream"
  /\ body = "open" /\ next <= Length
  /\ next' = next + 1
  /\ streamed' = streamed \cup {next}
  /\ UNCHANGED <<traceVars, clock, timestamps, body, once, dataVars, usedReader, pc, buf,
                 calls, answers, served>>

(* doneFn, at the end of the body or when the stream is closed: the time  *)
(* is recorded if there is none, in two steps.                            *)
FinishStream(c) ==
  /\ pc[c] = "stream"
  /\ Goto(c, IF timestamps.dataDone = Zero THEN "finish" ELSE "ended")
  /\ UNCHANGED <<traceVars, clock, timestamps, bodyVars, once, dataVars, usedReader, buf,
                 calls, histVars>>

StampStream(c) ==
  /\ pc[c] = "finish"
  /\ Stamp /\ timestamps' = [timestamps EXCEPT !.dataDone = Now]
  /\ Goto(c, "ended")
  /\ UNCHANGED <<traceVars, bodyVars, once, dataVars, usedReader, buf, calls, histVars>>

CloseStream(c) ==
  /\ pc[c] = "ended"
  /\ body' = "closed"
  /\ Goto(c, "idle")
  /\ UNCHANGED <<traceVars, clock, timestamps, next, once, dataVars, usedReader, buf,
                 calls, histVars>>

Close(c) ==
  /\ Call(c)
  /\ body' = "closed"
  /\ UNCHANGED <<pc, histVars>>

(* The connection is lost while the body is on its way.                   *)
Break ==
  /\ pc[Executor] \in {"read", "done"}
  /\ body = "open"
  /\ body' = "broken"
  /\ UNCHANGED <<traceVars, clock, timestamps, next, once, dataVars, usedReader, pc, buf,
                 calls, histVars>>

----------------------------------------------------------------------------
Execute == GetConn \/ GotFirstResponseByte \/ Redirect \/ MakeResponse

readBody(t) == ReadChunk(t) \/ ReadEOF(t) \/ ReadError(t) \/ StoreData(t) \/ StampData(t)

Consume(c) ==
  \/ Data(c) \/ EnterOnce(c) \/ ReturnData(c)
  \/ Reader(c) \/ CheckUsed(c) \/ SetUsed(c)
  \/ ReadStream(c) \/ FinishStream(c) \/ StampStream(c) \/ CloseStream(c)
  \/ Close(c)

Next ==
  \/ Execute
  \/ \E t \in Threads : readBody(t)
  \/ \E c \in Callers : Consume(c)
  \/ Break

Spec == Init /\ [][Next]_vars

----------------------------------------------------------------------------
(* TimeDataFromTimestamps: a duration is there when both its ends are.    *)
NoDuration == -1
Duration(from, to) == IF from # Zero /\ to # Zero THEN to - from ELSE NoDuration

TimeDataFromTimestamps(t) ==
  [ Latency          |-> IF t.start # Zero /\ t.firstByte # Zero
                         THEN t.firstByte - t.start ELSE 0,
    DataTransfer     |-> Duration(t.firstByte, t.dataDone),
    RequestTimeTotal |-> Duration(t.start, t.dataDone) ]

Metadata == TimeDataFromTimestamps(timestamps)

----------------------------------------------------------------------------
(* Properties.                                                            *)

(* All calls of Data that are not refused return the same data and error, *)
(* whoever makes them and whenever, and in-memory readers serve that data *)
(* too: "Subsequent calls ... return the cached data" (response.go:75).   *)
DataAgrees ==
  /\ Cardinality(answers) <= 1
  /\ \A a \in answers : \A s \in served : a.data = s

(* What Data has stored is the entire body but for the chunks that a      *)
(* stream took first, when Data and Reader were called at the same time.  *)
(* In particular a failed read is never stored as a shorter body.         *)
CompleteUnlessStreamed ==
  dataOnce => data \cup streamed = Chunk

(* Data "closes the underlying source" (response.go:74), on a failed read *)
(* too, and with OptReadFast the source is closed before the response is  *)
(* sent: no connection is left behind.                                    *)
SourceClosed ==
  once = "done" \/ (OptReadFast /\ pc[Executor] = "done") => body = "closed"

(* The times of a response fit together however many redirects there were *)
(* and whoever finished the body: the first byte comes after the request, *)
(* the end after the first byte, and the total is the sum; with the data  *)
(* in memory the total is known.                                          *)
TimesFit ==
  pc[Executor] = "done" =>
    /\ Metadata.Latency > 0
    /\ timestamps.dataDone # Zero =>
         /\ Metadata.DataTransfer > 0
         /\ Metadata.RequestTimeTotal = Metadata.Latency + Metadata.DataTransfer
    /\ dataOnce /\ (\A t \in Threads : pc[t] # "stamp") => timestamps.dataDone # Zero

(* response.go:214: "Further calls return the data from memory": once the *)
(* body is in memory Data does not fail.                                  *)
DataFromMemory ==
  dataOnce => \A a \in answers : ~a.err
============================================================================

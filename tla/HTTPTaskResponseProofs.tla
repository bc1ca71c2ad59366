---------------------- MODULE HTTPTaskResponseProofs ----------------------
(***************************************************************************)
(* What the consumers of one HTTP response may rely on, for any number of *)
(* them and of chunks, redirects and calls, with and without OptReadFast. *)
(***************************************************************************)
EXTENDS HTTPTaskResponse, FiniteSetTheorems, TLAPS

Delivered == pc[Executor] = "done"
Early == {"request", "sent", "responded"}
Reading == {"read", "store", "stamp"}

(* Nobody has the response before Execute has sent it; of all goroutines  *)
(* at most one is in readBody, Execute's only with OptReadFast, and a     *)
(* consumer's inside h.once.                                              *)
OrderInv ==
  /\ ~Delivered => once = "new" /\ answers = {} /\ served = {}
  /\ ~Delivered => \A c \in Callers : pc[c] = "idle"
  /\ pc[Executor] \in Reading => OptReadFast
  /\ \A c \in Callers : pc[c] \in Reading => once = "running"
  /\ \A c \in Callers : pc[c] = "return" => once = "done"
  /\ \A t, u \in Threads : pc[t] \in Reading /\ pc[u] \in Reading => t = u

(* Nothing is stored twice: whoever is in readBody when data is there     *)
(* finds the body closed.  Answers and readers hold what is stored.       *)
DataInv ==
  /\ pc[Executor] \in Early => ~dataOnce
  /\ dataOnce /\ once = "new" => OptReadFast
  /\ \A t \in Threads : dataOnce => pc[t] # "store" /\ (pc[t] = "read" => body = "closed")
  /\ answers \subseteq {[data |-> data, err |-> dataErr]}
  /\ once # "done" => answers = {}
  /\ \A s \in served : dataOnce /\ s = data

(* Every chunk that the body has given is in the hands of the reader or   *)
(* of a stream.                                                           *)
Before == 1..next - 1
ChunkInv ==
  /\ pc[Executor] \in Early => next = 1
  /\ ~OptReadFast /\ once = "new" => Before \subseteq streamed
  /\ \A t \in Threads : pc[t] = "read" /\ body = "open" => Before \subseteq buf[t] \cup streamed
  /\ \A t \in Threads : pc[t] = "store" => buf[t] \cup streamed = Chunk
  /\ CompleteUnlessStreamed

(* Instants are recorded in the order of the events.                      *)
TimeInv ==
  /\ pc[Executor] = "sent" => 0 < trace.start /\ trace.start <= clock
  /\ pc[Executor] = "responded" =>
       0 < trace.start /\ trace.start < trace.firstByte /\ trace.firstByte <= clock
  /\ pc[Executor] \notin Early =>
       /\ 0 < timestamps.start /\ timestamps.start < timestamps.firstByte
       /\ timestamps.firstByte <= clock
       /\ timestamps.dataDone # Zero => timestamps.firstByte < timestamps.dataDone
  /\ dataOnce => timestamps.dataDone # Zero \/ \E t \in Threads : pc[t] = "stamp"

IInv == TypeOK /\ OrderInv /\ SourceClosed /\ DataInv /\ ChunkInv /\ TimeInv

USE DEF traceVars, bodyVars, dataVars, histVars, Goto, Stamp, Now, Call, Early, Reading,
        Delivered, ExecutePC, CallerPC

----------------------------------------------------------------------------
(* The invariant holds when Execute begins.                               *)
LEMMA InitIInv == Init => IInv
<1> SUFFICES ASSUME Init PROVE IInv
  OBVIOUS
<1>1. Executor \in Threads /\ \A c \in Callers : c \in Threads /\ c # Executor
  BY ThreadAssumption DEF Threads
<1>2. pc[Executor] = "request" /\ \A c \in Callers : pc[c] = "idle"
  BY <1>1 DEF Init
<1>3. TypeOK
  <2>1. trace \in Trace /\ timestamps \in requestTimestamps
    BY DEF Init, Trace, requestTimestamps, Zero
  <2>2. OptReadFast \in BOOLEAN
    BY FastAssumption DEF Init
  <2>3. next \in 1..Length + 1 /\ hops \in 0..MaxHops /\ calls \in 0..MaxCalls
    BY SizeAssumption DEF Init
  <2>4. pc \in [Threads -> ExecutePC \cup CallerPC] /\ buf \in [Threads -> SUBSET Chunk]
    BY DEF Init
  <2> QED
    BY <1>2, <2>1, <2>2, <2>3, <2>4 DEF Init, TypeOK
<1>4. \A t \in Threads : pc[t] \notin Reading
  BY <1>2 DEF Threads
<1>5. OrderInv /\ SourceClosed /\ DataInv
  BY <1>2, <1>4 DEF Init, OrderInv, SourceClosed, DataInv
<1>6. ChunkInv
  BY <1>4 DEF Init, ChunkInv, Before, CompleteUnlessStreamed
<1>7. TimeInv
  BY <1>2 DEF Init, TimeInv
<1> QED
  BY <1>3, <1>5, <1>6, <1>7 DEF IInv

----------------------------------------------------------------------------
(* Goroutines.                                                            *)

(* Where the goroutines can be.                                           *)
LEMMA Goroutines ==
  ASSUME IInv
  PROVE  /\ Executor \in Threads /\ \A c \in Callers : c \in Threads /\ c # Executor
         /\ \A t \in Threads : t = Executor \/ t \in Callers
         /\ pc \in [Threads -> ExecutePC \cup CallerPC]
         /\ pc[Executor] \in ExecutePC /\ \A c \in Callers : pc[c] \in CallerPC
BY ThreadAssumption DEF IInv, TypeOK, Threads

(* A goroutine in readBody is alone there; it is Execute's, before the    *)
(* response is delivered, or a consumer's, inside h.once.                 *)
LEMMA ReaderAlone ==
  ASSUME IInv, NEW t \in Threads, pc[t] \in Reading
  PROVE  /\ \A u \in Threads : u # t => pc[u] \notin Reading
         /\ \A c \in Callers : pc[c] # "return"
         /\ answers = {}
         /\ \/ /\ t = Executor /\ OptReadFast /\ ~Delivered /\ once = "new" /\ served = {}
               /\ \A c \in Callers : pc[c] = "idle"
            \/ t \in Callers /\ t # Executor /\ Delivered /\ once = "running"
BY Goroutines DEF IInv, OrderInv, DataInv

(* A consumer at work has been given the response.                        *)
LEMMA ConsumerDelivered ==
  ASSUME IInv, NEW c \in Callers, pc[c] # "idle"
  PROVE  Delivered
BY DEF IInv, OrderInv

(* Types.                                                                 *)
LEMMA TypeStep == IInv /\ [Next]_vars => TypeOK'
<1> SUFFICES ASSUME IInv, [Next]_vars PROVE TypeOK'
  OBVIOUS
<1>a. TypeOK /\ OrderInv /\ SourceClosed /\ DataInv /\ ChunkInv /\ TimeInv
  BY DEF IInv
<1>b. /\ Executor \in Threads /\ \A c \in Callers : c \in Threads /\ c # Executor
      /\ \A t \in Threads : t = Executor \/ t \in Callers
      /\ pc \in [Threads -> ExecutePC \cup CallerPC]
      /\ pc[Executor] \in ExecutePC /\ \A c \in Callers : pc[c] \in CallerPC
  BY Goroutines
<1>1. CASE GetConn \/ GotFirstResponseByte
  <2>1. trace' \in Trace /\ clock' \in Nat
    BY <1>a, <1>1 DEF GetConn, GotFirstResponseByte, TypeOK, Trace
  <2>2. hops' \in 0..MaxHops
    BY <1>a, <1>1, SizeAssumption DEF GetConn, GotFirstResponseByte, TypeOK
  <2> QED
    BY <1>a, <1>b, <1>1, <2>1, <2>2 DEF GetConn, GotFirstResponseByte, TypeOK
<1>2. CASE Redirect \/ MakeResponse \/ Break
  <2>1. timestamps' \in requestTimestamps
    BY <1>a, <1>2 DEF Redirect, MakeResponse, Break, Snapshot, TypeOK, Trace, requestTimestamps, Zero
  <2> QED
    BY <1>a, <1>b, <1>2, <2>1 DEF Redirect, MakeResponse, Break, TypeOK
<1>3. ASSUME NEW t \in Threads, ReadChunk(t) PROVE TypeOK'
  <2>1. next \in Chunk /\ next' \in 1..Length + 1
    BY <1>a, <1>3, SizeAssumption DEF ReadChunk, TypeOK, Chunk
  <2> QED
    BY <1>a, <1>3, <2>1 DEF ReadChunk, TypeOK
<1>4. ASSUME NEW t \in Threads, ReadEOF(t) \/ ReadError(t) \/ StoreData(t) PROVE TypeOK'
  BY <1>a, <1>b, <1>4 DEF ReadEOF, ReadError, StoreData, AfterReadBody, TypeOK
<1>5. ASSUME NEW t \in Threads, StampData(t) PROVE TypeOK'
  <2>1. timestamps' \in requestTimestamps /\ clock' \in Nat
    BY <1>a, <1>5 DEF StampData, TypeOK, requestTimestamps
  <2> QED
    BY <1>a, <1>b, <1>5, <2>1 DEF StampData, AfterReadBody, TypeOK
<1>6. ASSUME NEW c \in Callers, Data(c) \/ Reader(c) \/ Close(c) PROVE TypeOK'
  <2>1. calls' \in 0..MaxCalls
    BY <1>a, <1>6, SizeAssumption DEF Data, Reader, Close, TypeOK
  <2>2. pc' \in [Threads -> ExecutePC \cup CallerPC] /\ pc'[Executor] \in ExecutePC
        /\ \A d \in Callers : pc'[d] \in CallerPC
    BY <1>b, <1>6 DEF Data, Reader, Close
  <2>3. served' \in SUBSET SUBSET Chunk
    BY <1>a, <1>6 DEF Data, Reader, Close, TypeOK
  <2> QED
    BY <1>a, <1>6, <2>1, <2>2, <2>3 DEF Data, Reader, Close, TypeOK
<1>7. ASSUME NEW c \in Callers, ReturnData(c) PROVE TypeOK'
  <2>1. [data |-> data, err |-> dataErr] \in [data : SUBSET Chunk, err : BOOLEAN]
    BY <1>a DEF TypeOK
  <2> QED
    BY <1>a, <1>b, <1>7, <2>1 DEF ReturnData, TypeOK
<1>8. ASSUME NEW c \in Callers, ReadStream(c) PROVE TypeOK'
  <2>1. next \in Chunk /\ next' \in 1..Length + 1
    BY <1>a, <1>8, SizeAssumption DEF ReadStream, TypeOK, Chunk
  <2> QED
    BY <1>a, <1>8, <2>1 DEF ReadStream, TypeOK
<1>9. ASSUME NEW c \in Callers, StampStream(c) PROVE TypeOK'
  <2>1. timestamps' \in requestTimestamps /\ clock' \in Nat
    BY <1>a, <1>9 DEF StampStream, TypeOK, requestTimestamps
  <2> QED
    BY <1>a, <1>b, <1>9, <2>1 DEF StampStream, TypeOK
<1>10. ASSUME NEW c \in Callers,
              EnterOnce(c) \/ CheckUsed(c) \/ SetUsed(c) \/ FinishStream(c) \/ CloseStream(c)
       PROVE  TypeOK'
  <2>1. /\ pc' \in [Threads -> ExecutePC \cup CallerPC] /\ pc'[Executor] \in ExecutePC
        /\ \A d \in Callers : pc'[d] \in CallerPC
    BY <1>b, <1>10 DEF EnterOnce, CheckUsed, SetUsed, FinishStream, CloseStream
  <2>2. buf' \in [Threads -> SUBSET Chunk]
    BY <1>a, <1>b, <1>10 DEF EnterOnce, CheckUsed, SetUsed, FinishStream, CloseStream, TypeOK
  <2>3. once' \in {"new", "running", "done"}
    BY <1>a, <1>10 DEF EnterOnce, CheckUsed, SetUsed, FinishStream, CloseStream, TypeOK
  <2> QED
    BY <1>a, <1>10, <2>1, <2>2, <2>3
    DEF EnterOnce, CheckUsed, SetUsed, FinishStream, CloseStream, TypeOK
<1>11. CASE UNCHANGED vars
  BY <1>a, <1>11 DEF vars, TypeOK
<1> QED
  BY <1>1, <1>2, <1>3, <1>4, <1>5, <1>6, <1>7, <1>8, <1>9, <1>10, <1>11
  DEF Next, Execute, readBody, Consume

(* Execute delivers before anybody else has the response, and h.once lets *)
(* one consumer at a time into readBody.                                  *)
LEMMA OrderStep == IInv /\ [Next]_vars => OrderInv'
<1> SUFFICES ASSUME IInv, [Next]_vars PROVE OrderInv'
  OBVIOUS
<1>a. TypeOK /\ OrderInv /\ SourceClosed /\ DataInv /\ ChunkInv /\ TimeInv
  BY DEF IInv
<1>b. /\ Executor \in Threads /\ \A c \in Callers : c \in Threads /\ c # Executor
      /\ \A t \in Threads : t = Executor \/ t \in Callers
      /\ pc \in [Threads -> ExecutePC \cup CallerPC]
      /\ pc[Executor] \in ExecutePC /\ \A c \in Callers : pc[c] \in CallerPC
  BY Goroutines
<1>1. CASE GetConn \/ GotFirstResponseByte \/ Redirect \/ Break
  BY <1>a, <1>b, <1>1 DEF GetConn, GotFirstResponseByte, Redirect, Break, OrderInv
<1>2. CASE MakeResponse
  <2>1. \A c \in Callers : pc'[c] = "idle"
    BY <1>a, <1>b, <1>2 DEF MakeResponse, OrderInv
  <2>2. pc'[Executor] \in {"read", "done"} /\ (pc'[Executor] = "read" => OptReadFast)
    BY <1>a, <1>b, <1>2 DEF MakeResponse, TypeOK
  <2>3. UNCHANGED <<OptReadFast, once, answers, served>>
    BY <1>2 DEF MakeResponse
  <2>4. once = "new" /\ answers = {} /\ served = {}
    BY <1>a, <1>2 DEF MakeResponse, OrderInv
  <2> QED
    BY <1>b, <2>1, <2>2, <2>3, <2>4 DEF OrderInv
<1>3. ASSUME NEW t \in Threads, ReadChunk(t) \/ ReadEOF(t) \/ StoreData(t) PROVE OrderInv'
  BY <1>a, <1>b, <1>3 DEF ReadChunk, ReadEOF, StoreData, OrderInv
<1>4. ASSUME NEW t \in Threads, ReadError(t) \/ StampData(t) PROVE OrderInv'
  <2>1. pc[t] \in Reading /\ AfterReadBody(t) /\ UNCHANGED <<OptReadFast, answers, served>>
    BY <1>4 DEF ReadError, StampData
  <2>2. CASE t = Executor
    BY <1>a, <1>b, <2>1, <2>2, ReaderAlone DEF AfterReadBody, OrderInv
  <2>3. CASE t # Executor
    BY <1>a, <1>b, <2>1, <2>3, ReaderAlone DEF AfterReadBody, OrderInv
  <2> QED
    BY <2>2, <2>3
<1>5. ASSUME NEW c \in Callers, EnterOnce(c) PROVE OrderInv'
  <2>1. Delivered /\ pc[c] = "once" /\ once # "running"
    BY <1>5, ConsumerDelivered DEF EnterOnce
  <2>2. \A t \in Threads : pc[t] \notin Reading
    BY <2>1, ReaderAlone
  <2>3. CASE once = "new"
    <3>1. once' = "running" /\ pc' = [pc EXCEPT ![c] = "read"]
      BY <1>5, <2>3 DEF EnterOnce
    <3>2. UNCHANGED <<OptReadFast, answers, served>>
      BY <1>5 DEF EnterOnce
    <3>3. \A d \in Callers : pc'[d] # "return"
      BY <1>a, <1>b, <2>3, <3>1 DEF OrderInv
    <3>4. \A t \in Threads : t # c => pc'[t] \notin Reading
      BY <1>b, <2>2, <3>1
    <3>5. pc'[Executor] = "done"
      BY <1>b, <2>1, <3>1
    <3> QED
      BY <1>a, <1>b, <3>1, <3>2, <3>3, <3>4, <3>5 DEF OrderInv
  <2>4. CASE once # "new"
    <3>1. once' = "done" /\ pc' = [pc EXCEPT ![c] = "return"] /\ once = "done"
      BY <1>a, <1>5, <2>1, <2>4 DEF EnterOnce, TypeOK
    <3> QED
      BY <1>a, <1>b, <1>5, <2>1, <2>2, <3>1 DEF EnterOnce, OrderInv
  <2> QED
    BY <2>3, <2>4
<1>6. ASSUME NEW c \in Callers, Data(c) \/ Reader(c) \/ Close(c) PROVE OrderInv'
  BY <1>a, <1>b, <1>6 DEF Data, Reader, Close, OrderInv
<1>7. ASSUME NEW c \in Callers, ReturnData(c) PROVE OrderInv'
  BY <1>a, <1>b, <1>7 DEF ReturnData, OrderInv
<1>8. ASSUME NEW c \in Callers,
             CheckUsed(c) \/ SetUsed(c) \/ ReadStream(c) \/ FinishStream(c) \/ StampStream(c)
               \/ CloseStream(c)
      PROVE  OrderInv'
  BY <1>a, <1>b, <1>8
  DEF CheckUsed, SetUsed, ReadStream, FinishStream, StampStream, CloseStream, OrderInv
<1>9. CASE UNCHANGED vars
  BY <1>a, <1>9 DEF vars, OrderInv
<1> QED
  BY <1>1, <1>2, <1>3, <1>4, <1>5, <1>6, <1>7, <1>8, <1>9
  DEF Next, Execute, readBody, Consume

(* Whoever leaves readBody has closed the body, and nothing opens it again.*)
LEMMA ClosedStep == IInv /\ [Next]_vars => SourceClosed'
<1> SUFFICES ASSUME IInv, [Next]_vars PROVE SourceClosed'
  OBVIOUS
<1>a. TypeOK /\ OrderInv /\ SourceClosed /\ DataInv /\ ChunkInv /\ TimeInv
  BY DEF IInv
<1>b. /\ Executor \in Threads /\ \A c \in Callers : c \in Threads /\ c # Executor
      /\ \A t \in Threads : t = Executor \/ t \in Callers
      /\ pc \in [Threads -> ExecutePC \cup CallerPC]
      /\ pc[Executor] \in ExecutePC /\ \A c \in Callers : pc[c] \in CallerPC
  BY Goroutines
<1>1. CASE GetConn \/ GotFirstResponseByte \/ Redirect \/ MakeResponse \/ Break
  BY <1>a, <1>b, <1>1
  DEF GetConn, GotFirstResponseByte, Redirect, MakeResponse, Break, SourceClosed, OrderInv
<1>2. ASSUME NEW t \in Threads,
             ReadChunk(t) \/ ReadEOF(t) \/ ReadError(t) \/ StoreData(t) \/ StampData(t)
      PROVE  SourceClosed'
  BY <1>a, <1>b, <1>2
  DEF ReadChunk, ReadEOF, ReadError, StoreData, StampData, AfterReadBody, SourceClosed
<1>3. ASSUME NEW c \in Callers,
             Data(c) \/ EnterOnce(c) \/ ReturnData(c) \/ Reader(c) \/ Close(c) \/ CloseStream(c)
      PROVE  SourceClosed'
  BY <1>a, <1>b, <1>3
  DEF Data, EnterOnce, ReturnData, Reader, Close, CloseStream, SourceClosed
<1>4. ASSUME NEW c \in Callers,
             CheckUsed(c) \/ SetUsed(c) \/ ReadStream(c) \/ FinishStream(c) \/ StampStream(c)
      PROVE  SourceClosed'
  BY <1>a, <1>b, <1>4
  DEF CheckUsed, SetUsed, ReadStream, FinishStream, StampStream, SourceClosed
<1>5. CASE UNCHANGED vars
  BY <1>a, <1>5 DEF vars, SourceClosed
<1> QED
  BY <1>1, <1>2, <1>3, <1>4, <1>5
  DEF Next, Execute, readBody, Consume

(* Data is stored at most once, and Data answers only when it is settled. *)
LEMMA DataStep == IInv /\ [Next]_vars => DataInv'
<1> SUFFICES ASSUME IInv, [Next]_vars PROVE DataInv'
  OBVIOUS
<1>a. TypeOK /\ OrderInv /\ SourceClosed /\ DataInv /\ ChunkInv /\ TimeInv
  BY DEF IInv
<1>b. /\ Executor \in Threads /\ \A c \in Callers : c \in Threads /\ c # Executor
      /\ \A t \in Threads : t = Executor \/ t \in Callers
      /\ pc \in [Threads -> ExecutePC \cup CallerPC]
      /\ pc[Executor] \in ExecutePC /\ \A c \in Callers : pc[c] \in CallerPC
  BY Goroutines
<1>1. CASE GetConn \/ GotFirstResponseByte \/ Redirect \/ Break
  BY <1>a, <1>b, <1>1 DEF GetConn, GotFirstResponseByte, Redirect, Break, DataInv
<1>2. CASE MakeResponse
  BY <1>a, <1>b, <1>2 DEF MakeResponse, DataInv
<1>3. ASSUME NEW t \in Threads, ReadChunk(t) \/ ReadEOF(t) PROVE DataInv'
  BY <1>a, <1>b, <1>3 DEF ReadChunk, ReadEOF, DataInv
<1>4. ASSUME NEW t \in Threads, ReadError(t) PROVE DataInv'
  <2>1. pc[t] = "read" /\ body' = "closed" /\ AfterReadBody(t)
        /\ UNCHANGED <<OptReadFast, dataOnce, data, answers, served>>
    BY <1>4 DEF ReadError
  <2>2. answers = {} /\ (t = Executor => once = "new")
    BY <2>1, ReaderAlone
  <2>3. \A u \in Threads : pc'[u] \in {"store"} \cup Early => pc'[u] = pc[u]
    BY <1>b, <2>1 DEF AfterReadBody
  <2>4. once' = "new" => once = "new"
    BY <2>1 DEF AfterReadBody
  <2> QED
    BY <1>a, <1>b, <2>1, <2>2, <2>3, <2>4 DEF DataInv
<1>5. ASSUME NEW t \in Threads, StoreData(t) PROVE DataInv'
  <2>1. pc[t] = "store" /\ pc' = [pc EXCEPT ![t] = "stamp"] /\ dataOnce'
        /\ UNCHANGED <<OptReadFast, once, dataErr, answers, served>>
    BY <1>5 DEF StoreData
  <2>2. answers = {} /\ served = {}
    BY <1>a, <2>1, ReaderAlone DEF DataInv
  <2>3. \A u \in Threads : pc'[u] \notin {"read", "store"}
    BY <1>b, <2>1, ReaderAlone
  <2>4. once = "new" => OptReadFast
    BY <2>1, ReaderAlone
  <2>5. pc'[Executor] \notin Early
    BY <1>b, <2>1, ReaderAlone
  <2> QED
    BY <2>1, <2>2, <2>3, <2>4, <2>5 DEF DataInv
<1>6. ASSUME NEW t \in Threads, StampData(t) PROVE DataInv'
  BY <1>a, <1>b, <1>6 DEF StampData, AfterReadBody, DataInv
<1>7. ASSUME NEW c \in Callers, EnterOnce(c) PROVE DataInv'
  <2>1. Delivered
    BY <1>7, ConsumerDelivered DEF EnterOnce
  <2> QED
    BY <1>a, <1>b, <1>7, <2>1 DEF EnterOnce, DataInv, SourceClosed
<1>8. ASSUME NEW c \in Callers, Data(c) \/ Reader(c) \/ Close(c) PROVE DataInv'
  BY <1>a, <1>b, <1>8 DEF Data, Reader, Close, DataInv
<1>9. ASSUME NEW c \in Callers, ReturnData(c) PROVE DataInv'
  BY <1>a, <1>b, <1>9 DEF ReturnData, DataInv, OrderInv
<1>10. ASSUME NEW c \in Callers,
              CheckUsed(c) \/ SetUsed(c) \/ ReadStream(c) \/ FinishStream(c) \/ StampStream(c)
                \/ CloseStream(c)
       PROVE  DataInv'
  BY <1>a, <1>b, <1>10
  DEF CheckUsed, SetUsed, ReadStream, FinishStream, StampStream, CloseStream, DataInv
<1>11. CASE UNCHANGED vars
  BY <1>a, <1>11 DEF vars, DataInv
<1> QED
  BY <1>1, <1>2, <1>3, <1>4, <1>5, <1>6, <1>7, <1>8, <1>9, <1>10, <1>11
  DEF Next, Execute, readBody, Consume

(* No chunk of the body is skipped.                                       *)
LEMMA ChunkStep == IInv /\ [Next]_vars => ChunkInv'
<1> SUFFICES ASSUME IInv, [Next]_vars PROVE ChunkInv'
  OBVIOUS
<1>a. TypeOK /\ OrderInv /\ SourceClosed /\ DataInv /\ ChunkInv /\ TimeInv
  BY DEF IInv
<1>b. /\ Executor \in Threads /\ \A c \in Callers : c \in Threads /\ c # Executor
      /\ \A t \in Threads : t = Executor \/ t \in Callers
      /\ pc \in [Threads -> ExecutePC \cup CallerPC]
      /\ pc[Executor] \in ExecutePC /\ \A c \in Callers : pc[c] \in CallerPC
  BY Goroutines
<1>c. Length \in Nat /\ next \in 1..Length + 1
  BY <1>a, SizeAssumption DEF TypeOK
<1>1. CASE GetConn \/ GotFirstResponseByte \/ Redirect \/ Break
  BY <1>a, <1>b, <1>1
  DEF GetConn, GotFirstResponseByte, Redirect, Break, ChunkInv, Before, CompleteUnlessStreamed
<1>2. CASE MakeResponse
  <2>1. next = 1 /\ Before = {}
    BY <1>a, <1>2 DEF MakeResponse, ChunkInv, Before
  <2> QED
    BY <1>a, <1>b, <1>2, <2>1 DEF MakeResponse, ChunkInv, Before, CompleteUnlessStreamed
<1>3. ASSUME NEW t \in Threads, ReadChunk(t) PROVE ChunkInv'
  <2>1. /\ pc[t] = "read" /\ body = "open" /\ next' = next + 1
        /\ buf' = [buf EXCEPT ![t] = @ \cup {next}]
        /\ UNCHANGED <<OptReadFast, once, body, pc, dataOnce, data, streamed>>
    BY <1>3 DEF ReadChunk
  <2>2. Before' = Before \cup {next}
    BY <1>c, <2>1 DEF Before
  <2>3. Before \subseteq buf[t] \cup streamed /\ t \in DOMAIN buf
    BY <1>a, <2>1 DEF ChunkInv, TypeOK
  <2>4. \A u \in Threads : u # t => pc[u] \notin Reading
    BY <2>1, ReaderAlone
  <2>5. pc[Executor] \notin Early /\ (once = "new" => OptReadFast)
    BY <2>1, ReaderAlone
  <2> QED
    BY <1>a, <2>1, <2>2, <2>3, <2>4, <2>5 DEF ChunkInv, CompleteUnlessStreamed
<1>4. ASSUME NEW t \in Threads, ReadEOF(t) PROVE ChunkInv'
  <2>1. /\ pc[t] = "read" /\ body = "open" /\ next > Length
        /\ pc' = [pc EXCEPT ![t] = "store"]
        /\ UNCHANGED <<OptReadFast, once, body, next, buf, dataOnce, data, streamed>>
    BY <1>4 DEF ReadEOF
  <2>2. Before = Chunk
    BY <1>c, <2>1 DEF Before, Chunk
  <2>3. buf[t] \cup streamed = Chunk
    BY <1>a, <2>1, <2>2 DEF ChunkInv, TypeOK
  <2>4. pc'[Executor] \in Early => pc[Executor] \in Early
    BY <1>b, <2>1
  <2>5. \A u \in Threads : pc'[u] = "read" => pc[u] = "read"
    BY <1>b, <2>1
  <2>6. \A u \in Threads : pc'[u] = "store" => buf[u] \cup streamed = Chunk
    BY <1>a, <1>b, <2>1, <2>3 DEF ChunkInv
  <2>7. Before' = Before
    BY <2>1 DEF Before
  <2> QED
    BY <1>a, <2>1, <2>4, <2>5, <2>6, <2>7 DEF ChunkInv, CompleteUnlessStreamed
<1>5. ASSUME NEW t \in Threads, StoreData(t) \/ StampData(t) \/ ReadError(t) PROVE ChunkInv'
  BY <1>a, <1>b, <1>5
  DEF StoreData, StampData, ReadError, AfterReadBody, ChunkInv, Before, CompleteUnlessStreamed
<1>6. ASSUME NEW c \in Callers, EnterOnce(c) PROVE ChunkInv'
  <2>1. Delivered
    BY <1>6, ConsumerDelivered DEF EnterOnce
  <2> QED
    BY <1>a, <1>b, <1>6, <2>1
    DEF EnterOnce, SourceClosed, ChunkInv, Before, CompleteUnlessStreamed
<1>7. ASSUME NEW c \in Callers, ReadStream(c) PROVE ChunkInv'
  <2>1. /\ pc[c] = "stream" /\ next' = next + 1 /\ streamed' = streamed \cup {next}
        /\ next <= Length
        /\ UNCHANGED <<OptReadFast, once, body, pc, buf, dataOnce, data>>
    BY <1>7 DEF ReadStream
  <2>2. Before' = Before \cup {next} /\ next \in Chunk
    BY <1>c, <2>1 DEF Before, Chunk
  <2>3. pc[Executor] \notin Early
    BY <2>1, ConsumerDelivered
  <2> QED
    BY <1>a, <2>1, <2>2, <2>3 DEF ChunkInv, CompleteUnlessStreamed
<1>8. ASSUME NEW c \in Callers,
             Data(c) \/ ReturnData(c) \/ Reader(c) \/ Close(c) \/ CloseStream(c)
               \/ CheckUsed(c) \/ SetUsed(c) \/ FinishStream(c) \/ StampStream(c)
      PROVE  ChunkInv'
  BY <1>a, <1>b, <1>8
  DEF Data, ReturnData, Reader, Close, CloseStream, CheckUsed, SetUsed, FinishStream,
      StampStream, ChunkInv, Before, CompleteUnlessStreamed
<1>9. CASE UNCHANGED vars
  BY <1>a, <1>9 DEF vars, ChunkInv, Before, CompleteUnlessStreamed
<1> QED
  BY <1>1, <1>2, <1>3, <1>4, <1>5, <1>6, <1>7, <1>8, <1>9
  DEF Next, Execute, readBody, Consume

(* A time is recorded after those it is compared with.                    *)
LEMMA TimeStep == IInv /\ [Next]_vars => TimeInv'
<1> SUFFICES ASSUME IInv, [Next]_vars PROVE TimeInv'
  OBVIOUS
<1>a. TypeOK /\ OrderInv /\ SourceClosed /\ DataInv /\ ChunkInv /\ TimeInv
  BY DEF IInv
<1>b. /\ Executor \in Threads /\ \A c \in Callers : c \in Threads /\ c # Executor
      /\ \A t \in Threads : t = Executor \/ t \in Callers
      /\ pc \in [Threads -> ExecutePC \cup CallerPC]
      /\ pc[Executor] \in ExecutePC /\ \A c \in Callers : pc[c] \in CallerPC
  BY Goroutines
<1>c. /\ clock \in Nat
      /\ trace.start \in Nat /\ trace.firstByte \in Nat
      /\ timestamps.start \in Nat /\ timestamps.firstByte \in Nat /\ timestamps.dataDone \in Nat
  BY <1>a DEF TypeOK, Trace, requestTimestamps
<1>d. trace \in Trace /\ timestamps \in requestTimestamps
  BY <1>a DEF TypeOK
<1>1. CASE GetConn
  <2>1. trace'.start = clock + 1 /\ clock' = clock + 1 /\ pc'[Executor] = "sent"
    BY <1>b, <1>d, <1>1 DEF GetConn, Trace
  <2>2. ~dataOnce /\ UNCHANGED dataOnce
    BY <1>a, <1>1 DEF GetConn, DataInv
  <2> QED
    BY <1>c, <2>1, <2>2 DEF TimeInv
<1>2. CASE GotFirstResponseByte
  <2>1. /\ trace'.start = trace.start /\ trace'.firstByte = clock + 1
        /\ clock' = clock + 1 /\ pc'[Executor] = "responded"
    BY <1>b, <1>d, <1>2 DEF GotFirstResponseByte, Trace
  <2>2. ~dataOnce /\ UNCHANGED dataOnce
    BY <1>a, <1>2 DEF GotFirstResponseByte, DataInv
  <2>3. 0 < trace.start /\ trace.start <= clock
    BY <1>a, <1>2 DEF GotFirstResponseByte, TimeInv
  <2> QED
    BY <1>c, <2>1, <2>2, <2>3 DEF TimeInv
<1>3. CASE Redirect \/ Break
  BY <1>a, <1>b, <1>3 DEF Redirect, Break, TimeInv, DataInv
<1>4. CASE MakeResponse
  <2>1. /\ timestamps'.start = trace.start /\ timestamps'.firstByte = trace.firstByte
        /\ timestamps'.dataDone = Zero /\ clock' = clock /\ pc'[Executor] \in {"read", "done"}
    BY <1>b, <1>4 DEF MakeResponse, Snapshot
  <2>2. ~dataOnce /\ UNCHANGED dataOnce
    BY <1>a, <1>4 DEF MakeResponse, DataInv
  <2>3. 0 < trace.start /\ trace.start < trace.firstByte /\ trace.firstByte <= clock
    BY <1>a, <1>4 DEF MakeResponse, TimeInv
  <2> QED
    BY <1>c, <2>1, <2>2, <2>3 DEF TimeInv
<1>5. ASSUME NEW t \in Threads, ReadChunk(t) \/ ReadEOF(t) \/ ReadError(t) PROVE TimeInv'
  BY <1>a, <1>b, <1>5 DEF ReadChunk, ReadEOF, ReadError, AfterReadBody, TimeInv
<1>6. ASSUME NEW t \in Threads, StoreData(t) PROVE TimeInv'
  BY <1>a, <1>b, <1>6 DEF StoreData, TimeInv
<1>7. ASSUME /\ clock' = clock + 1 /\ timestamps' = [timestamps EXCEPT !.dataDone = clock + 1]
             /\ UNCHANGED trace
             /\ pc[Executor] \notin Early /\ pc'[Executor] \notin Early
      PROVE  TimeInv'
  <2>1. /\ timestamps'.start = timestamps.start /\ timestamps'.firstByte = timestamps.firstByte
        /\ timestamps'.dataDone = clock + 1
    BY <1>d, <1>7 DEF requestTimestamps
  <2> QED
    BY <1>a, <1>c, <1>7, <2>1 DEF TimeInv, Zero
<1>8. ASSUME NEW t \in Threads, StampData(t) PROVE TimeInv'
  <2>1. pc[Executor] \notin Early /\ pc'[Executor] \notin Early
    BY <1>b, <1>8, ReaderAlone DEF StampData, AfterReadBody
  <2> QED
    BY <1>7, <1>8, <2>1 DEF StampData
<1>9. ASSUME NEW c \in Callers, StampStream(c) PROVE TimeInv'
  <2>1. pc[Executor] \notin Early /\ pc'[Executor] \notin Early
    BY <1>b, <1>9, ConsumerDelivered DEF StampStream
  <2> QED
    BY <1>7, <1>9, <2>1 DEF StampStream
<1>10. ASSUME NEW c \in Callers,
              Data(c) \/ EnterOnce(c) \/ ReturnData(c) \/ Reader(c) \/ Close(c) \/ CloseStream(c)
       PROVE  TimeInv'
  BY <1>a, <1>b, <1>10 DEF Data, EnterOnce, ReturnData, Reader, Close, CloseStream, TimeInv
<1>11. ASSUME NEW c \in Callers,
              CheckUsed(c) \/ SetUsed(c) \/ ReadStream(c) \/ FinishStream(c)
       PROVE  TimeInv'
  BY <1>a, <1>b, <1>11 DEF CheckUsed, SetUsed, ReadStream, FinishStream, TimeInv
<1>12. CASE UNCHANGED vars
  BY <1>a, <1>12 DEF vars, TimeInv, Zero
<1> QED
  BY <1>1, <1>2, <1>3, <1>4, <1>5, <1>6, <1>8, <1>9, <1>10, <1>11, <1>12
  DEF Next, Execute, readBody, Consume

----------------------------------------------------------------------------
(* Results.                                                               *)

(* The inductive invariant holds in every reachable state.                *)
THEOREM Invariance == Spec => []IInv
<1>1. Init => IInv
  BY InitIInv
<1>2. IInv /\ [Next]_vars => IInv'
  BY TypeStep, OrderStep, ClosedStep, DataStep, ChunkStep, TimeStep DEF IInv
<1> QED
  BY <1>1, <1>2, PTL DEF Spec

(* The response's state has its type.                                     *)
THEOREM TypeCorrect == Spec => []TypeOK
<1>1. IInv => TypeOK
  BY DEF IInv
<1> QED
  BY <1>1, Invariance, PTL

(* Whoever calls Data and whenever, the data and the error are the same,  *)
(* and in-memory readers serve that data.                                 *)
THEOREM ConsumersAgree == Spec => []DataAgrees
<1>1. ASSUME IInv PROVE DataAgrees
  <2>1. answers \subseteq {[data |-> data, err |-> dataErr]} /\ \A s \in served : s = data
    BY <1>1 DEF IInv, DataInv
  <2>2. answers = {} \/ answers = {[data |-> data, err |-> dataErr]}
    BY <2>1
  <2>3. Cardinality(answers) = 0 \/ Cardinality(answers) = 1
    BY <2>2, FS_EmptySet, FS_Singleton, Zenon
  <2>4. Cardinality(answers) <= 1
    BY <2>3
  <2> QED
    BY <2>1, <2>4 DEF DataAgrees
<1> QED
  BY <1>1, Invariance, PTL

(* What is stored is the body, but for chunks a concurrent stream took.   *)
THEOREM DataComplete == Spec => []CompleteUnlessStreamed
<1>1. IInv => CompleteUnlessStreamed
  BY DEF IInv, ChunkInv
<1> QED
  BY <1>1, Invariance, PTL

(* readBody leaves no open body behind.                                   *)
THEOREM BodyClosed == Spec => []SourceClosed
<1>1. IInv => SourceClosed
  BY DEF IInv
<1> QED
  BY <1>1, Invariance, PTL

(* The times of a delivered response are in order and add up.             *)
THEOREM TimesAddUp == Spec => []TimesFit
<1>1. ASSUME IInv PROVE TimesFit
  <2>1. /\ timestamps.start \in Nat /\ timestamps.firstByte \in Nat
        /\ timestamps.dataDone \in Nat
    BY <1>1 DEF IInv, TypeOK, requestTimestamps
  <2>2. TimeInv
    BY <1>1 DEF IInv
  <2>3. /\ Metadata.Latency = IF timestamps.start # Zero /\ timestamps.firstByte # Zero
                              THEN timestamps.firstByte - timestamps.start ELSE 0
        /\ Metadata.DataTransfer = Duration(timestamps.firstByte, timestamps.dataDone)
        /\ Metadata.RequestTimeTotal = Duration(timestamps.start, timestamps.dataDone)
    BY DEF Metadata, TimeDataFromTimestamps
  <2> QED
    BY <2>1, <2>2, <2>3 DEF TimeInv, TimesFit, Duration, Zero
<1> QED
  BY <1>1, Invariance, PTL
============================================================================

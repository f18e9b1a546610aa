------------------------- MODULE EPollSession_proofs -------------------------
(***************************************************************************)
(* Theorems about EPollSession, for any number of clients, any pool and    *)
(* any streams: its type invariant, the conservation of the buffer pool,   *)
(* its events and what they promise, the order of the responses, and that  *)
(* every step is a step of EchoService.                                    *)
(***************************************************************************)
EXTENDS EPollSession, SequenceTheorems, TLAPS

-----------------------------------------------------------------------------
(* What the worker's position says about its local variables. *)

WorkerOK ==
    /\ pc \in {"write", "rearm", "read", "readIO", "parse"} => cur \in Clients
    /\ pc \in {"readIO", "parse"} <=> hand # None
    /\ pc = "parse" => /\ chunk.from \in 1..Len(Stream[cur])
                       /\ chunk.len \in 1..BufferSize

StreamsOK == \A c \in Clients : taken[c] <= sent[c] /\ sent[c] <= Len(Stream[c])

TInv == TypeOK /\ WorkerOK /\ StreamsOK

\* The cleared buffers of a queue of responses are buffers.
LEMMA ClearedBuffersType ==
    ASSUME NEW q \in Seq(Response)
    PROVE  /\ ClearedBuffers(q) \in Seq(Buffers)
           /\ Len(ClearedBuffers(q)) = Len(q)
           /\ \A i \in 1..Len(q) : ClearedBuffers(q)[i] = q[i].buf
  <1>1. \A i \in 1..Len(q) : q[i] \in Response
    BY ElementOfSeq
  <1>2. \A i \in 1..Len(q) : q[i].buf \in Buffers
    BY <1>1 DEF Response
  <1>3. Len(q) \in Nat
    BY LenProperties
  <1>4. ClearedBuffers(q) \in [1..Len(q) -> Buffers]
    BY <1>2 DEF ClearedBuffers
  <1> QED
    BY <1>3, <1>4, IsASeq, LenProperties DEF ClearedBuffers

\* handleClose keeps the types, whatever handler calls it.
LEMMA CloseType ==
    ASSUME TypeOK, NEW c \in Clients, handleClose(c)
    PROVE  /\ socks' \subseteq Clients
           /\ interest' \in [Clients -> {{}, Base, Base \cup {"OUT"}}]
           /\ ready' \subseteq Clients
           /\ queue' \in [Clients -> Seq(Response)]
           /\ closed' \subseteq Clients
  <1>1. <<>> \in Seq(Response)
    OBVIOUS
  <1>2. queue' \in [Clients -> Seq(Response)]
    BY <1>1 DEF TypeOK, handleClose, QueuesWithout
  <1>3. interest' \in [Clients -> {{}, Base, Base \cup {"OUT"}}]
    BY DEF TypeOK, handleClose, removeEvent
  <1> QED
    BY <1>2, <1>3 DEF TypeOK, handleClose, removeEvent

\* modifyEvent keeps the types of what it changes.
LEMMA ModifyType ==
    ASSUME TypeOK, NEW c \in Clients, NEW e \in {Base, Base \cup {"OUT"}},
           modifyEvent(c, e)
    PROVE  /\ interest' \in [Clients -> {{}, Base, Base \cup {"OUT"}}]
           /\ ready' \subseteq Clients
  BY DEF TypeOK, modifyEvent, Register, epollVars

\* What handleRead does on its way out keeps the types.
LEMMA AfterReadType ==
    ASSUME TypeOK, cur \in Clients, AfterRead
    PROVE  /\ batch' \in [Clients -> SUBSET {"IN", "OUT", "HUP"}]
           /\ pc' = "dispatch" /\ cur' = None /\ attempts' \in 0..MaxReads
  <1>1. batch' \in [Clients -> SUBSET {"IN", "OUT", "HUP"}]
    BY DEF AfterRead, TypeOK
  <1>2. attempts' \in 0..MaxReads
    BY SizeAssumption DEF AfterRead
  <1> QED
    BY <1>1, <1>2 DEF AfterRead

\* No chunk is one, of no cells.
LEMMA NoChunkType == NoChunk \in [from : Nat, len : 0..BufferSize]
  BY SizeAssumption DEF NoChunk

\* A client's stream is a sequence of cells.
LEMMA StreamType ==
    ASSUME NEW c \in Clients
    PROVE  /\ Stream[c] \in Seq([msg : Nat \ {0}, size : 0..BufferSize])
           /\ Len(Stream[c]) \in Nat
  BY StreamAssumption, LenProperties

\* The types hold at first.
LEMMA InitType == Init => TInv
  BY PoolAssumption, SizeAssumption, StreamAssumption, NoneAssumption
  DEF Init, TInv, TypeOK, WorkerOK, StreamsOK, NoChunk, Base

\* The kernel and the clients keep the types.
LEMMA KernelType == TInv /\ Kernel => TInv'
  <1> SUFFICES ASSUME TInv, NEW c \in Clients,
                      \/ \E k \in 1..Len(Stream[c]) : Arrive(c, k)
                      \/ Drain(c)
                      \/ Hangup(c)
               PROVE  TInv'
    BY DEF Kernel
  <1>0. Len(Stream[c]) \in Nat
    BY StreamAssumption
  <1>1. ASSUME NEW k \in 1..Len(Stream[c]), Arrive(c, k) PROVE TInv'
    <2>1. sent[c] \in Nat /\ sent[c] + k \in Nat /\ sent[c] <= sent[c] + k
      <3>1. sent[c] \in Nat
        BY DEF TInv, TypeOK
      <3> QED
        BY <1>0, <3>1
    <2>2. /\ sent' \in [Clients -> Nat]
          /\ ready' \subseteq Clients
      <3>1. sent' = [sent EXCEPT ![c] = sent[c] + k]
        BY <1>1 DEF Arrive
      <3>2. sent' \in [Clients -> Nat]
        BY <2>1, <3>1 DEF TInv, TypeOK
      <3>3. ready' \subseteq Clients
        BY <1>1 DEF Arrive, Wake, TInv, TypeOK
      <3> QED
        BY <3>2, <3>3
    <2>3. StreamsOK'
      <3> SUFFICES ASSUME NEW d \in Clients
                   PROVE  taken[d] <= sent'[d] /\ sent'[d] <= Len(Stream[d])
        BY <1>1 DEF Arrive, StreamsOK
      <3>1. taken[d] \in Nat /\ sent[d] \in Nat /\ taken[d] <= sent[d]
            /\ sent[d] <= Len(Stream[d])
        BY DEF TInv, TypeOK, StreamsOK
      <3>2. CASE d = c
        BY <1>1, <3>1, <3>2, <2>1 DEF Arrive, TInv, TypeOK
      <3>3. CASE d # c
        BY <1>1, <3>1, <3>3 DEF Arrive, TInv, TypeOK
      <3> QED
        BY <3>2, <3>3
    <2> QED
      BY <1>1, <2>2, <2>3 DEF Arrive, TInv, TypeOK, WorkerOK, poolVars, workerVars
  <1>2. CASE Drain(c)
    <2>1. inflight \in [Clients -> 0..SendSpace]
      BY DEF TInv, TypeOK
    <2>2. inflight' \in [Clients -> 0..SendSpace]
      <3>1. inflight[c] > 0 /\ inflight' = [inflight EXCEPT ![c] = inflight[c] - 1]
        BY <1>2 DEF Drain
      <3>2. inflight[c] - 1 \in 0..SendSpace
        BY <2>1, <3>1, SizeAssumption
      <3> QED
        BY <2>1, <3>1, <3>2
    <2>3. ready' \subseteq Clients
      BY <1>2 DEF Drain, Wake, TInv, TypeOK
    <2> QED
      BY <1>2, <2>2, <2>3 DEF Drain, TInv, TypeOK, WorkerOK, StreamsOK,
                              poolVars, workerVars
  <1>3. CASE Hangup(c)
    <2>1. peer' \in [Clients -> {"open", "finished", "reset", "broken"}]
      BY <1>3 DEF Hangup, TInv, TypeOK
    <2>2. ready' \subseteq Clients
      BY <1>3 DEF Hangup, Wake, TInv, TypeOK
    <2> QED
      BY <1>3, <2>1, <2>2 DEF Hangup, TInv, TypeOK, WorkerOK, StreamsOK,
                              poolVars, workerVars
  <1> QED
    BY <1>1, <1>2, <1>3

\* The listener's addClient keeps the types.
LEMMA ListenerType == TInv /\ Listener => TInv'
  <1> SUFFICES ASSUME TInv, Listener PROVE TInv'
    OBVIOUS
  <1>1. ASSUME NEW c \in Clients, AddRegister(c) PROVE TInv'
    BY <1>1 DEF AddRegister, Register, TInv, TypeOK, WorkerOK, StreamsOK,
                poolVars, workerVars, clientVars
  <1>2. CASE AddInsert
    BY <1>2 DEF AddInsert, TInv, TypeOK, WorkerOK, StreamsOK, poolVars,
                epollVars, workerVars, clientVars
  <1> QED
    BY <1>1, <1>2 DEF Listener

-----------------------------------------------------------------------------
(* The worker's steps keep the types. *)

\* epoll_wait and the end of a batch keep the types.
LEMMA WaitType == TInv /\ (WaitForEvents \/ BatchDone) => TInv'
  <1> USE DEF TInv, poolVars, epollVars, clientVars
  <1> SUFFICES ASSUME TInv, WaitForEvents \/ BatchDone PROVE TInv'
    OBVIOUS
  <1>1. CASE WaitForEvents
    <2>1. batch' \in [Clients -> SUBSET {"IN", "OUT", "HUP"}]
      BY <1>1 DEF WaitForEvents, Now, Readiness
    <2> QED
      BY <1>1, <2>1 DEF WaitForEvents, TypeOK, WorkerOK, StreamsOK
  <1>2. CASE BatchDone
    BY <1>2 DEF BatchDone, TypeOK, WorkerOK, StreamsOK
  <1> QED
    BY <1>1, <1>2

\* The three ways to dispatch an event keep the types.
LEMMA DispatchType ==
    ASSUME TInv, NEW c \in Clients
    PROVE  /\ DispatchUnknown(c) => TInv'
           /\ DispatchHangup(c) => TInv'
           /\ DispatchIO(c) => TInv'
  <1> USE DEF TInv, poolVars, epollVars, clientVars
  <1>1. ASSUME DispatchUnknown(c) PROVE TInv'
    BY <1>1 DEF DispatchUnknown, removeEvent, TypeOK, WorkerOK, StreamsOK
  <1>2. ASSUME DispatchHangup(c) PROVE TInv'
    <2>1. free' \in Seq(Buffers)
      BY <1>2, ClearedBuffersType, ConcatProperties DEF DispatchHangup, TypeOK
    <2> QED
      BY <1>2, <2>1, CloseType DEF DispatchHangup, TypeOK, WorkerOK, StreamsOK
  <1>3. ASSUME DispatchIO(c) PROVE TInv'
    BY <1>3 DEF DispatchIO, TypeOK, WorkerOK, StreamsOK
  <1> QED
    BY <1>1, <1>2, <1>3

\* handleWrite keeps the types.
LEMMA WriteType ==
    ASSUME TInv, handleWrite
    PROVE  TInv'
  <1> USE DEF TInv, poolVars, epollVars, clientVars
  <1>1. ASSUME NEW k \in 1..SendSpace, WriteSome(k) PROVE TInv'
    <2> DEFINE head == Head(queue[cur])
    <2>1. cur \in Clients /\ queue[cur] \in Seq(Response) /\ queue[cur] # <<>>
      BY <1>1 DEF WriteSome, WorkerOK, TypeOK, hasDataToWrite
    <2>2. /\ head \in Response /\ head = queue[cur][1]
          /\ Tail(queue[cur]) \in Seq(Response)
      BY <2>1, HeadTailProperties, ElementOfSeq, LenProperties
    <2>3. inflight' \in [Clients -> 0..SendSpace]
      <3>1. inflight[cur] \in 0..SendSpace
        BY <2>1 DEF TypeOK
      <3>2. inflight[cur] + k \in 0..SendSpace
        BY <1>1, <3>1, SizeAssumption DEF WriteSome
      <3> QED
        BY <1>1, <3>2, <2>1 DEF WriteSome, TypeOK
    <2>4. CASE k = head.left
      <3>1. /\ queue' = [queue EXCEPT ![cur] = Tail(@)]
            /\ free' = Append(free, head.buf)
            /\ delivered' = [delivered EXCEPT ![cur] = Append(@, head.msg)]
            /\ UNCHANGED pc
        BY <1>1, <2>4 DEF WriteSome, releaseBuffer
      <3>2. queue' \in [Clients -> Seq(Response)]
        BY <3>1, <2>1, <2>2 DEF TypeOK
      <3>3. free' \in Seq(Buffers)
        BY <3>1, <2>2, AppendProperties DEF TypeOK, Response
      <3>4. delivered' \in [Clients -> Seq(Nat)]
        <4>1. delivered[cur] \in Seq(Nat) /\ head.msg \in Nat
          BY <2>1, <2>2 DEF TypeOK, Response
        <4>2. Append(delivered[cur], head.msg) \in Seq(Nat)
          BY <4>1, AppendProperties
        <4> QED
          BY <3>1, <4>2 DEF TypeOK
      <3> QED
        BY <1>1, <2>3, <3>1, <3>2, <3>3, <3>4
        DEF WriteSome, TypeOK, WorkerOK, StreamsOK
    <2>5. CASE k # head.left
      <3>1. /\ queue' = [queue EXCEPT ![cur][1].left = @ - k]
            /\ pc' = "rearm" /\ UNCHANGED <<free, delivered>>
            /\ k <= head.left
        BY <1>1, <2>5 DEF WriteSome
      <3> DEFINE rest == [queue[cur][1] EXCEPT !.left = @ - k]
      <3>2. rest \in Response
        <4>1. /\ queue[cur][1] \in [buf : Buffers, msg : Nat, left : 1..BufferSize]
              /\ head.left - k \in 1..BufferSize
          BY <3>1, <2>2, <2>5, SizeAssumption DEF Response
        <4> QED
          BY <4>1, <2>2 DEF Response
      <3>3. [queue[cur] EXCEPT ![1] = rest] \in Seq(Response)
        BY <2>1, <3>2, ExceptSeq, LenProperties
      <3>4. queue' = [queue EXCEPT ![cur] = [queue[cur] EXCEPT ![1] = rest]]
        BY <3>1
      <3>5. queue' \in [Clients -> Seq(Response)]
        BY <3>3, <3>4, <2>1 DEF TypeOK
      <3> QED
        BY <1>1, <2>3, <3>1, <3>5 DEF WriteSome, TypeOK, WorkerOK, StreamsOK
    <2> QED
      BY <2>4, <2>5
  <1>2. CASE WriteStops
    BY <1>2 DEF WriteStops, TypeOK, WorkerOK, StreamsOK
  <1>3. CASE WriteFails
    <2>1. cur \in Clients
      BY <1>3 DEF WriteFails, WorkerOK
    <2>2. free' \in Seq(Buffers)
      BY <1>3, <2>1, ClearedBuffersType, ConcatProperties DEF WriteFails, TypeOK
    <2>3. batch' \in [Clients -> SUBSET {"IN", "OUT", "HUP"}]
      BY <1>3, <2>1 DEF WriteFails, AfterWrite, TypeOK
    <2> QED
      BY <1>3, <2>1, <2>2, <2>3, CloseType
      DEF WriteFails, AfterWrite, TypeOK, WorkerOK, StreamsOK
  <1>4. CASE WriteRaises
    BY <1>4 DEF WriteRaises, TypeOK, WorkerOK, StreamsOK
  <1>5. CASE Rearm
    <2>1. cur \in Clients
      BY <1>5 DEF Rearm, WorkerOK
    <2>2. RearmEvents(cur) \in {Base, Base \cup {"OUT"}}
      BY DEF RearmEvents
    <2>3. batch' \in [Clients -> SUBSET {"IN", "OUT", "HUP"}]
      BY <1>5, <2>1 DEF Rearm, AfterWrite, TypeOK
    <2> QED
      <3>1. /\ interest' \in [Clients -> {{}, Base, Base \cup {"OUT"}}]
            /\ ready' \subseteq Clients
        BY <1>5, <2>1, <2>2, ModifyType DEF Rearm
      <3>2. pc' \in {"read", "dispatch"} /\ cur' \in Clients \cup {None}
            /\ (pc' = "read" => cur' \in Clients) /\ hand = None
        BY <1>5, <2>1 DEF Rearm, AfterWrite, WorkerOK
      <3> QED
        BY <1>5, <2>3, <3>1, <3>2 DEF Rearm, TypeOK, WorkerOK, StreamsOK
  <1> QED
    BY <1>1, <1>2, <1>3, <1>4, <1>5 DEF handleWrite

\* handleRead keeps the types.
LEMMA ReadType ==
    ASSUME TInv, handleRead
    PROVE  TInv'
  <1> USE DEF TInv, poolVars, epollVars, clientVars
  <1>1. CASE ReadAllocate
    <2>1. Head(free) \in Buffers /\ Tail(free) \in Seq(Buffers)
      BY <1>1, HeadTailProperties DEF ReadAllocate, hasAvailableBuffers, TypeOK
    <2>2. attempts' \in 0..MaxReads
      BY <1>1, SizeAssumption DEF ReadAllocate, AttemptsLeft, TypeOK
    <2>3. hand' # None
      BY <1>1, <2>1, NoneAssumption DEF ReadAllocate
    <2> QED
      BY <1>1, <2>1, <2>2, <2>3 DEF ReadAllocate, TypeOK, WorkerOK, StreamsOK
  <1>2. CASE ReadGivesUp
    <2>1. cur \in Clients /\ hand = None
      BY <1>2 DEF ReadGivesUp, WorkerOK
    <2> QED
      BY <1>2, <2>1, AfterReadType DEF ReadGivesUp, TypeOK, WorkerOK, StreamsOK
  <1>3. CASE ReadSome
    <2> DEFINE there == sent[cur] - taken[cur]
               n == IF there < BufferSize THEN there ELSE BufferSize
    <2>1. /\ cur \in Clients /\ sent[cur] \in Nat /\ taken[cur] \in Nat
          /\ sent[cur] > taken[cur] /\ sent[cur] <= Len(Stream[cur])
          /\ Len(Stream[cur]) \in Nat
      BY <1>3, StreamType DEF ReadSome, WorkerOK, TypeOK, StreamsOK
    <2>2. n \in 1..BufferSize /\ taken[cur] + n <= sent[cur]
      BY <2>1, SizeAssumption
    <2>3. /\ chunk' = [from |-> taken[cur] + 1, len |-> n]
          /\ taken' = [taken EXCEPT ![cur] = @ + n]
      BY <1>3 DEF ReadSome
    <2>4. /\ chunk' \in [from : Nat, len : 0..BufferSize]
          /\ chunk'.from \in 1..Len(Stream[cur]) /\ chunk'.len \in 1..BufferSize
      BY <2>1, <2>2, <2>3, SizeAssumption
    <2>5. /\ taken' \in [Clients -> Nat]
          /\ \A c \in Clients : taken'[c] <= sent[c]
      <3>1. taken[cur] + n \in Nat
        BY <2>1, <2>2, SizeAssumption
      <3> HIDE DEF n
      <3> QED
        BY <2>1, <2>2, <2>3, <3>1 DEF TypeOK, StreamsOK
    <2> QED
      BY <1>3, <2>1, <2>4, <2>5 DEF ReadSome, TypeOK, WorkerOK, StreamsOK
  <1>4. CASE ReadNothing
    <2>1. hand \in Buffers /\ cur \in Clients
      BY <1>4 DEF ReadNothing, WorkerOK, TypeOK
    <2>2. free' \in Seq(Buffers)
      BY <1>4, <2>1, AppendProperties DEF ReadNothing, releaseBuffer, TypeOK
    <2> QED
      BY <1>4, <2>1, <2>2, AfterReadType
      DEF ReadNothing, TypeOK, WorkerOK, StreamsOK
  <1>5. CASE ReadFails
    <2>1. cur \in Clients /\ hand \in Buffers
      BY <1>5 DEF ReadFails, WorkerOK, TypeOK
    <2>2. Append(free, hand) \in Seq(Buffers)
      BY <2>1, AppendProperties DEF TypeOK
    <2>3. free' \in Seq(Buffers)
      BY <1>5, <2>1, <2>2, ClearedBuffersType, ConcatProperties
      DEF ReadFails, releaseBuffer, TypeOK
    <2> QED
      BY <1>5, <2>1, <2>3, CloseType, AfterReadType
      DEF ReadFails, TypeOK, WorkerOK, StreamsOK
  <1>6. ASSUME pc = "parse", ParseDone
        PROVE  /\ hand' = None /\ chunk' = NoChunk
               /\ batch' \in [Clients -> SUBSET {"IN", "OUT", "HUP"}]
               /\ pc' \in {"dispatch", "read"} /\ cur' \in Clients \cup {None}
               /\ pc' = "read" => cur' \in Clients
               /\ attempts' \in 0..MaxReads
    <2>1. cur \in Clients
      BY <1>6 DEF WorkerOK
    <2>2. CASE LastRead
      BY <1>6, <2>1, <2>2, AfterReadType DEF ParseDone
    <2>3. CASE ~LastRead
      BY <1>6, <2>1, <2>3 DEF ParseDone, TypeOK
    <2> QED
      BY <2>2, <2>3
  <1>7. CASE ParseEchoes
    <2>1. /\ cur \in Clients /\ hand \in Buffers
          /\ Stream[cur][chunk.from] \in [msg : Nat \ {0}, size : 0..BufferSize]
          /\ chunk.len \in 1..BufferSize
      BY <1>7, StreamAssumption, ElementOfSeq DEF ParseEchoes, WorkerOK, TypeOK
    <2>2. PICK e \in Echoes : queue' = addToClientQueue(cur,
                     [buf |-> Head(free), msg |-> e.msg, left |-> e.left])
      BY <1>7 DEF ParseEchoes
    <2>3. e.msg \in Nat /\ e.left \in 1..BufferSize
      BY <2>1, <2>2, SizeAssumption DEF Echoes, Garbage
    <2>4. Head(free) \in Buffers /\ Tail(free) \in Seq(Buffers)
      BY <1>7, HeadTailProperties DEF ParseEchoes, hasAvailableBuffers, TypeOK
    <2>5. free' \in Seq(Buffers)
      BY <1>7, <2>1, <2>4, AppendProperties DEF ParseEchoes
    <2>6. queue' \in [Clients -> Seq(Response)]
      <3>1. [buf |-> Head(free), msg |-> e.msg, left |-> e.left] \in Response
        BY <2>3, <2>4 DEF Response
      <3>2. queue[cur] \in Seq(Response)
        BY <2>1 DEF TypeOK
      <3>3. Append(queue[cur], [buf |-> Head(free), msg |-> e.msg, left |-> e.left])
                \in Seq(Response)
        BY <3>1, <3>2, AppendProperties
      <3> QED
        BY <2>2, <3>3 DEF addToClientQueue, TypeOK
    <2>7. /\ interest' \in [Clients -> {{}, Base, Base \cup {"OUT"}}]
          /\ ready' \subseteq Clients
      BY <1>7, <2>1, ModifyType DEF ParseEchoes
    <2> QED
      BY <1>6, <1>7, <2>5, <2>6, <2>7, NoChunkType
      DEF ParseEchoes, TypeOK, WorkerOK, StreamsOK
  <1>8. CASE ParseDrops
    <2>1. hand \in Buffers
      BY <1>8 DEF ParseDrops, WorkerOK, TypeOK
    <2>2. free' \in Seq(Buffers)
      BY <1>8, <2>1, AppendProperties DEF ParseDrops, releaseBuffer, TypeOK
    <2> QED
      BY <1>6, <1>8, <2>2, NoChunkType
      DEF ParseDrops, TypeOK, WorkerOK, StreamsOK
  <1> QED
    BY <1>1, <1>2, <1>3, <1>4, <1>5, <1>7, <1>8 DEF handleRead

\* Every step keeps the types.
LEMMA TypeInductive == TInv /\ [Next]_vars => TInv'
  <1> SUFFICES ASSUME TInv, [Next]_vars PROVE TInv'
    OBVIOUS
  <1>1. CASE Worker
    <2>1. ASSUME NEW c \in Clients,
                 DispatchUnknown(c) \/ DispatchHangup(c) \/ DispatchIO(c)
          PROVE  TInv'
      BY <2>1, DispatchType
    <2>2. CASE WaitForEvents \/ BatchDone
      BY <2>2, WaitType
    <2> QED
      BY <1>1, <2>1, <2>2, WriteType, ReadType DEF Worker
  <1>2. CASE Listener \/ Kernel
    BY <1>2, ListenerType, KernelType
  <1>3. CASE UNCHANGED vars
    BY <1>3 DEF vars, poolVars, epollVars, workerVars, clientVars, TInv,
                TypeOK, WorkerOK, StreamsOK
  <1> QED
    BY <1>1, <1>2, <1>3 DEF Next

\* The variables of a session have their types in every reachable state: the
\* fields of Session, EPoll and EPollBuffer, whatever clients and listener do.
THEOREM TypeCorrect == Spec => []TypeOK
  <1>1. TInv => TypeOK
    BY DEF TInv
  <1> QED
    BY <1>1, InitType, TypeInductive, PTL DEF Spec

-----------------------------------------------------------------------------
(* The pool is conserved: one lemma for each way a handler moves buffers.  *)
(* They are about values, so that a handler that does two can use both.    *)

Owners(f, h, q) ==
    /\ f \in Seq(Buffers)
    /\ h \in Buffers \cup {None}
    /\ q \in [Clients -> Seq(Response)]

PoolOK(f, h, q) ==
    /\ \A i, j \in DOMAIN f : f[i] = f[j] => i = j
    /\ \A i \in DOMAIN f : f[i] # h
    /\ \A c \in Clients : \A i \in DOMAIN q[c] :
          /\ q[c][i].buf # h
          /\ \A j \in DOMAIN f : q[c][i].buf # f[j]
    /\ \A c, d \in Clients : \A i \in DOMAIN q[c], j \in DOMAIN q[d] :
          q[c][i].buf = q[d][j].buf => c = d /\ i = j
    /\ \A b \in Buffers :
          \/ b = h
          \/ \E i \in DOMAIN f : f[i] = b
          \/ \E c \in Clients : \E i \in DOMAIN q[c] : q[c][i].buf = b

\* What owners are, in the terms the provers need.
LEMMA OwnersFacts ==
    ASSUME NEW f, NEW h, NEW q, Owners(f, h, q)
    PROVE  /\ Len(f) \in Nat /\ DOMAIN f = 1..Len(f)
           /\ \A i \in DOMAIN f : f[i] \in Buffers
           /\ \A c \in Clients : /\ q[c] \in Seq(Response)
                                 /\ Len(q[c]) \in Nat
                                 /\ DOMAIN q[c] = 1..Len(q[c])
           /\ \A c \in Clients : \A i \in DOMAIN q[c] : q[c][i].buf \in Buffers
  <1>1. /\ Len(f) \in Nat /\ DOMAIN f = 1..Len(f)
        /\ \A i \in DOMAIN f : f[i] \in Buffers
    BY LenProperties, ElementOfSeq DEF Owners
  <1>2. \A c \in Clients : /\ q[c] \in Seq(Response)
                           /\ Len(q[c]) \in Nat /\ DOMAIN q[c] = 1..Len(q[c])
    BY LenProperties DEF Owners
  <1>3. \A c \in Clients : \A i \in DOMAIN q[c] : q[c][i] \in Response
    BY <1>2, ElementOfSeq
  <1> QED
    BY <1>1, <1>2, <1>3 DEF Response

\* allocateBuffer: the head of the free list goes to the handler's hand.
LEMMA PoolTake ==
    ASSUME NEW f, NEW q, Owners(f, None, q), PoolOK(f, None, q), f # <<>>
    PROVE  PoolOK(Tail(f), Head(f), q)
  <1> DEFINE g == Tail(f)
             h == Head(f)
  <1>1. /\ Len(f) \in Nat /\ Len(f) > 0 /\ DOMAIN f = 1..Len(f)
        /\ h = f[1] /\ DOMAIN g = 1..(Len(f) - 1)
        /\ \A i \in 1..(Len(f) - 1) : g[i] = f[i + 1]
    BY HeadTailProperties, LenProperties DEF Owners
  <1>2. \A i \in DOMAIN f : i # 1 => i - 1 \in DOMAIN g /\ g[i - 1] = f[i]
    BY <1>1
  <1>3. \A i \in DOMAIN g : i + 1 \in DOMAIN f /\ g[i] = f[i + 1] /\ i + 1 # 1
    BY <1>1
  <1>4. 1 \in DOMAIN f
    BY <1>1
  <1>5. \A i, j \in DOMAIN g : i + 1 = j + 1 => i = j
    BY <1>1
  <1> HIDE DEF g, h
  <1>6. \A b \in Buffers : \/ b = h
                           \/ \E i \in DOMAIN g : g[i] = b
                           \/ \E c \in Clients : \E i \in DOMAIN q[c] : q[c][i].buf = b
    BY <1>1, <1>2, <1>4, NoneAssumption DEF PoolOK
  <1>7. PoolOK(g, h, q)
    BY <1>1, <1>3, <1>4, <1>5, <1>6 DEF PoolOK
  <1> QED
    BY <1>7 DEF g, h

\* releaseBuffer of the buffer in hand.
LEMMA PoolGive ==
    ASSUME NEW f, NEW h \in Buffers, NEW q, Owners(f, h, q), PoolOK(f, h, q)
    PROVE  PoolOK(Append(f, h), None, q)
  <1> DEFINE g == Append(f, h)
             n == Len(f)
  <1>1. /\ n \in Nat /\ DOMAIN f = 1..n
        /\ DOMAIN g = 1..(n + 1)
        /\ \A i \in 1..n : g[i] = f[i]
        /\ g[n + 1] = h
    BY AppendProperties, LenProperties DEF Owners
  <1>2. \A i \in DOMAIN g : (i \in DOMAIN f /\ g[i] = f[i]) \/ (i = n + 1 /\ g[i] = h)
    BY <1>1
  <1>3. n + 1 \in DOMAIN g /\ \A i \in DOMAIN f : i \in DOMAIN g /\ g[i] = f[i]
    BY <1>1
  <1>4. \A i \in DOMAIN g : g[i] # None
    BY <1>2, OwnersFacts, NoneAssumption
  <1>5. \A c \in Clients : \A i \in DOMAIN q[c] : q[c][i].buf # None
    BY OwnersFacts, NoneAssumption
  <1> HIDE DEF g, n
  <1>6. PoolOK(g, None, q)
    BY <1>1, <1>2, <1>3, <1>4, <1>5 DEF PoolOK
  <1> QED
    BY <1>6 DEF g

\* clearClientBuffers: the queue of a client goes back to the free list.
LEMMA PoolClear ==
    ASSUME NEW f, NEW h, NEW q, Owners(f, h, q), PoolOK(f, h, q), NEW c \in Clients
    PROVE  PoolOK(f \o ClearedBuffers(q[c]), h, [q EXCEPT ![c] = <<>>])
  <1> DEFINE n == Len(f)
             s == q[c]
             m == Len(s)
             g == f \o ClearedBuffers(s)
             r == [q EXCEPT ![c] = <<>>]
  <1>1. /\ n \in Nat /\ DOMAIN f = 1..n
        /\ s \in Seq(Response) /\ m \in Nat /\ DOMAIN s = 1..m
    BY OwnersFacts
  <1>2. /\ DOMAIN g = 1..(n + m)
        /\ \A i \in 1..n : g[i] = f[i]
        /\ \A i \in 1..m : g[n + i] = s[i].buf
    <2>1. /\ ClearedBuffers(s) \in Seq(Buffers) /\ Len(ClearedBuffers(s)) = m
          /\ \A i \in 1..m : ClearedBuffers(s)[i] = s[i].buf
      BY <1>1, ClearedBuffersType
    <2>2. f \in Seq(Buffers)
      BY DEF Owners
    <2> DEFINE t == ClearedBuffers(s)
    <2>3. g \in Seq(Buffers) /\ Len(g) = n + m
      <3>1. t \in Seq(Buffers) /\ Len(t) = m /\ g = f \o t
        BY <2>1
      <3> HIDE DEF t, m, g, s
      <3>2. f \o t \in Seq(Buffers) /\ Len(f \o t) = Len(f) + Len(t)
        BY <2>2, <3>1, ConcatProperties
      <3> QED
        BY <3>1, <3>2
    <2>4. DOMAIN g = 1..(n + m)
      BY <2>3, LenProperties
    <2>5. \A i \in 1..(n + m) :
             g[i] = IF i <= n THEN f[i] ELSE ClearedBuffers(s)[i - n]
      BY <2>1, <2>2, <2>3, ConcatProperties
    <2>6. \A i \in 1..n : g[i] = f[i]
      BY <1>1, <2>5
    <2>7. ASSUME NEW i \in 1..m PROVE g[n + i] = s[i].buf
      <3>1. n + i \in 1..(n + m) /\ ~(n + i <= n) /\ (n + i) - n = i
        BY <1>1
      <3> QED
        BY <2>1, <2>5, <3>1
    <2> QED
      BY <2>4, <2>6, <2>7
  <1> HIDE DEF n, m, g, s
  <1>3. \A i \in DOMAIN g : \/ i \in DOMAIN f /\ g[i] = f[i] /\ i <= n
                            \/ i - n \in DOMAIN s /\ g[i] = s[i - n].buf /\ ~(i <= n)
    <2>1. ASSUME NEW i \in DOMAIN g, i <= n
          PROVE  i \in DOMAIN f /\ g[i] = f[i]
      <3>1. i \in 1..n
        BY <1>1, <1>2, <2>1
      <3> QED
        BY <1>1, <1>2, <3>1
    <2>2. ASSUME NEW i \in DOMAIN g, ~(i <= n)
          PROVE  i - n \in DOMAIN s /\ g[i] = s[i - n].buf
      <3>1. i - n \in 1..m /\ n + (i - n) = i
        BY <1>1, <1>2, <2>2
      <3> QED
        BY <1>1, <1>2, <3>1
    <2>3. ASSUME NEW i \in DOMAIN g
          PROVE  \/ i \in DOMAIN f /\ g[i] = f[i] /\ i <= n
                 \/ i - n \in DOMAIN s /\ g[i] = s[i - n].buf /\ ~(i <= n)
      <3>1. CASE i <= n
        BY <2>1, <3>1
      <3>2. CASE ~(i <= n)
        BY <2>2, <3>2
      <3> QED
        BY <3>1, <3>2
    <2> QED
      BY <2>3
  <1>4. /\ \A i \in DOMAIN f : i \in DOMAIN g /\ g[i] = f[i]
        /\ \A i \in DOMAIN s : n + i \in DOMAIN g /\ g[n + i] = s[i].buf
    BY <1>1, <1>2
  <1>5. \A i, j \in DOMAIN g : i - n = j - n => i = j
    BY <1>1, <1>2
  <1>6. /\ DOMAIN r[c] = {}
        /\ \A d \in Clients : d # c => r[d] = q[d]
    <2>1. r[c] = <<>>
      BY DEF Owners
    <2> QED
      BY <2>1 DEF Owners
  <1> HIDE DEF r
  <1>7. \A i, j \in DOMAIN g : g[i] = g[j] => i = j
    BY <1>3, <1>5 DEF PoolOK, s
  <1>8. \A i \in DOMAIN g : g[i] # h
    BY <1>3 DEF PoolOK, s
  <1>9. \A d \in Clients : \A i \in DOMAIN r[d] :
          /\ r[d][i].buf # h
          /\ \A j \in DOMAIN g : r[d][i].buf # g[j]
    <2> SUFFICES ASSUME NEW d \in Clients, d # c, NEW i \in DOMAIN q[d]
                 PROVE  /\ q[d][i].buf # h
                        /\ \A j \in DOMAIN g : q[d][i].buf # g[j]
      BY <1>6
    <2> QED
      BY <1>3 DEF PoolOK, s
  <1>10. \A d, e \in Clients : \A i \in DOMAIN r[d], j \in DOMAIN r[e] :
            r[d][i].buf = r[e][j].buf => d = e /\ i = j
    BY <1>6 DEF PoolOK
  <1>11. \A b \in Buffers : \/ b = h
                            \/ \E i \in DOMAIN g : g[i] = b
                            \/ \E d \in Clients : \E i \in DOMAIN r[d] : r[d][i].buf = b
    <2> SUFFICES ASSUME NEW b \in Buffers, b # h, \A i \in DOMAIN g : g[i] # b
                 PROVE  \E d \in Clients : \E i \in DOMAIN r[d] : r[d][i].buf = b
      OBVIOUS
    <2>1. \A i \in DOMAIN f : f[i] # b
      BY <1>4
    <2>2. PICK d \in Clients : \E i \in DOMAIN q[d] : q[d][i].buf = b
      BY <2>1 DEF PoolOK
    <2>3. d # c
      BY <1>4, <2>2 DEF s
    <2> QED
      BY <1>6, <2>2, <2>3
  <1>12. PoolOK(g, h, r)
    BY <1>7, <1>8, <1>9, <1>10, <1>11 DEF PoolOK
  <1> QED
    BY <1>12 DEF g, r, s

\* removeProcessedBuffer: the first buffer of a queue goes back.
LEMMA PoolPop ==
    ASSUME NEW f, NEW h, NEW q, Owners(f, h, q), PoolOK(f, h, q),
           NEW c \in Clients, q[c] # <<>>
    PROVE  PoolOK(Append(f, Head(q[c]).buf), h, [q EXCEPT ![c] = Tail(@)])
  <1> DEFINE n == Len(f)
             s == q[c]
             b0 == s[1].buf
             g == Append(f, b0)
             r == [q EXCEPT ![c] = Tail(s)]
  <1>1. /\ n \in Nat /\ DOMAIN f = 1..n
        /\ s \in Seq(Response) /\ Len(s) \in Nat /\ DOMAIN s = 1..Len(s)
    BY OwnersFacts
  <1>2. /\ Head(s) = s[1] /\ 1 \in DOMAIN s
        /\ DOMAIN Tail(s) = 1..(Len(s) - 1)
        /\ \A i \in 1..(Len(s) - 1) : Tail(s)[i] = s[i + 1]
    <2>1. Len(s) > 0
      BY <1>1, LenProperties
    <2> QED
      BY <1>1, <2>1, HeadTailProperties, LenProperties
  <1>3. b0 \in Buffers
    BY <1>2, OwnersFacts
  <1>4. /\ DOMAIN g = 1..(n + 1) /\ g[n + 1] = b0
        /\ \A i \in 1..n : g[i] = f[i]
    BY <1>3, AppendProperties, LenProperties DEF Owners
  <1>5. /\ r[c] = Tail(s)
        /\ \A d \in Clients : d # c => r[d] = q[d]
    BY DEF Owners
  <1> HIDE DEF n, g, r
  <1>6. \A i \in DOMAIN g :
            (i \in DOMAIN f /\ g[i] = f[i]) \/ (i = n + 1 /\ g[i] = b0)
    BY <1>1, <1>4
  <1>7. /\ n + 1 \in DOMAIN g
        /\ \A i \in DOMAIN f : i \in DOMAIN g /\ g[i] = f[i] /\ i # n + 1
    BY <1>1, <1>4
  <1>8. \A i \in DOMAIN r[c] : i + 1 \in DOMAIN s /\ r[c][i] = s[i + 1] /\ i + 1 # 1
    BY <1>1, <1>2, <1>5
  <1>9. \A i \in DOMAIN s : i # 1 => i - 1 \in DOMAIN r[c] /\ r[c][i - 1] = s[i]
    BY <1>1, <1>2, <1>5
  <1>10. \A i, j \in DOMAIN r[c] : i + 1 = j + 1 => i = j
    BY <1>1, <1>2, <1>5
  <1>11. \A i \in DOMAIN f : f[i] # b0
    BY <1>2 DEF PoolOK
  <1>12. b0 # h
    BY <1>2 DEF PoolOK
  <1>13. \A d \in Clients : \A i \in DOMAIN r[d] : \E k \in DOMAIN q[d] :
            /\ r[d][i] = q[d][k]
            /\ d = c => k # 1 /\ k = i + 1
            /\ d # c => k = i
    <2> SUFFICES ASSUME NEW d \in Clients, NEW i \in DOMAIN r[d]
                 PROVE  \E k \in DOMAIN q[d] : /\ r[d][i] = q[d][k]
                                               /\ d = c => k # 1 /\ k = i + 1
                                               /\ d # c => k = i
      OBVIOUS
    <2>1. CASE d = c
      BY <1>8, <2>1
    <2>2. CASE d # c
      BY <1>5, <2>2
    <2> QED
      BY <2>1, <2>2
  <1>14. \A d \in Clients : \A i \in DOMAIN r[d] : r[d][i].buf # b0
    BY <1>2, <1>13 DEF PoolOK
  <1> HIDE DEF b0, s
  <1>15. \A i, j \in DOMAIN g : g[i] = g[j] => i = j
    BY <1>6, <1>11 DEF PoolOK
  <1>16. \A i \in DOMAIN g : g[i] # h
    BY <1>6, <1>12 DEF PoolOK
  <1>17. \A d \in Clients : \A i \in DOMAIN r[d] :
            /\ r[d][i].buf # h
            /\ \A j \in DOMAIN g : r[d][i].buf # g[j]
    BY <1>6, <1>13, <1>14 DEF PoolOK
  <1>18. \A d, e \in Clients : \A i \in DOMAIN r[d], j \in DOMAIN r[e] :
            r[d][i].buf = r[e][j].buf => d = e /\ i = j
    <2> SUFFICES ASSUME NEW d \in Clients, NEW e \in Clients,
                        NEW i \in DOMAIN r[d], NEW j \in DOMAIN r[e],
                        r[d][i].buf = r[e][j].buf
                 PROVE  d = e /\ i = j
      OBVIOUS
    <2>1. PICK k \in DOMAIN q[d] : /\ r[d][i] = q[d][k]
                                   /\ d = c => k = i + 1
                                   /\ d # c => k = i
      BY <1>13
    <2>2. PICK l \in DOMAIN q[e] : /\ r[e][j] = q[e][l]
                                   /\ e = c => l = j + 1
                                   /\ e # c => l = j
      BY <1>13
    <2>3. d = e /\ k = l
      BY <2>1, <2>2 DEF PoolOK
    <2> QED
      BY <1>10, <2>1, <2>2, <2>3
  <1>19. \A b \in Buffers : \/ b = h
                            \/ \E i \in DOMAIN g : g[i] = b
                            \/ \E d \in Clients : \E i \in DOMAIN r[d] : r[d][i].buf = b
    <2> SUFFICES ASSUME NEW b \in Buffers, b # h, \A i \in DOMAIN g : g[i] # b
                 PROVE  \E d \in Clients : \E i \in DOMAIN r[d] : r[d][i].buf = b
      OBVIOUS
    <2>1. \A i \in DOMAIN f : f[i] # b
      BY <1>7
    <2>2. PICK d \in Clients : \E k \in DOMAIN q[d] : q[d][k].buf = b
      BY <2>1 DEF PoolOK
    <2> PICK i \in DOMAIN q[d] : q[d][i].buf = b
      BY <2>2
    <2>3. b # b0
      BY <1>4, <1>7
    <2>4. CASE d = c
      <3>1. i # 1
        BY <2>3, <2>4 DEF b0, s
      <3> QED
        BY <1>9, <2>4, <3>1 DEF s
    <2>5. CASE d # c
      BY <1>5, <2>5
    <2> QED
      BY <2>4, <2>5
  <1>20. PoolOK(g, h, r)
    BY <1>15, <1>16, <1>17, <1>18, <1>19 DEF PoolOK
  <1> QED
    BY <1>2, <1>20 DEF g, r, b0, s

\* allocateBuffer and addToClientQueue in prepareWrite: the head of the free
\* list goes to the end of a client's queue.
LEMMA PoolEnqueue ==
    ASSUME NEW f, NEW h, NEW q, Owners(f, h, q), PoolOK(f, h, q), f # <<>>,
           NEW c \in Clients, NEW x \in Response, x.buf = Head(f)
    PROVE  PoolOK(Tail(f), h, [q EXCEPT ![c] = Append(@, x)])
  <1> DEFINE g == Tail(f)
             b0 == f[1]
             s == q[c]
             m == Len(s)
             r == [q EXCEPT ![c] = Append(s, x)]
  <1>1. /\ Len(f) \in Nat /\ Len(f) > 0 /\ DOMAIN f = 1..Len(f)
        /\ x.buf = b0 /\ DOMAIN g = 1..(Len(f) - 1)
        /\ \A i \in 1..(Len(f) - 1) : g[i] = f[i + 1]
    BY HeadTailProperties, LenProperties DEF Owners
  <1>2. s \in Seq(Response) /\ m \in Nat /\ DOMAIN s = 1..m
    BY OwnersFacts
  <1>3. /\ DOMAIN Append(s, x) = 1..(m + 1)
        /\ Append(s, x)[m + 1] = x
        /\ \A i \in 1..m : Append(s, x)[i] = s[i]
    BY <1>2, AppendProperties, LenProperties
  <1>4. /\ r[c] = Append(s, x)
        /\ \A d \in Clients : d # c => r[d] = q[d]
    BY DEF Owners
  <1>5. \A i \in DOMAIN g : i + 1 \in DOMAIN f /\ g[i] = f[i + 1] /\ i + 1 # 1
    BY <1>1
  <1>6. \A i \in DOMAIN f : i # 1 => i - 1 \in DOMAIN g /\ g[i - 1] = f[i]
    BY <1>1
  <1>7. \A i, j \in DOMAIN g : i + 1 = j + 1 => i = j
    BY <1>1
  <1>8. 1 \in DOMAIN f
    BY <1>1
  <1> HIDE DEF g, r, m
  <1>9. \A d \in Clients : \A i \in DOMAIN r[d] :
            \/ i \in DOMAIN q[d] /\ r[d][i] = q[d][i]
            \/ d = c /\ i = m + 1 /\ r[d][i] = x
    <2>1. \A i \in DOMAIN r[c] : \/ i \in DOMAIN s /\ r[c][i] = s[i]
                                 \/ i = m + 1 /\ r[c][i] = x
      <3>1. \A i \in 1..(m + 1) : i \in 1..m \/ i = m + 1
        BY <1>2
      <3> QED
        BY <1>2, <1>3, <1>4, <3>1
    <2> QED
      BY <1>4, <2>1
  <1>10. \A d \in Clients : \A i \in DOMAIN q[d] : i \in DOMAIN r[d] /\ r[d][i] = q[d][i]
    <2>1. \A i \in 1..m : i \in 1..(m + 1)
      BY <1>2
    <2>2. \A i \in DOMAIN s : i \in DOMAIN r[c] /\ r[c][i] = s[i]
      BY <1>2, <1>3, <1>4, <2>1, Zenon
    <2>3. ASSUME NEW d \in Clients, d # c
          PROVE  r[d] = q[d]
      BY <1>4, <2>3
    <2> QED
      BY <2>2, <2>3, Zenon
  <1>11. m + 1 \in DOMAIN r[c] /\ r[c][m + 1] = x
    BY <1>2, <1>3, <1>4
  <1>12. \A i \in DOMAIN g : g[i] # b0
    BY <1>5, <1>8 DEF PoolOK
  <1>13. b0 # h
    BY <1>8 DEF PoolOK
  <1>14. \A d \in Clients : \A i \in DOMAIN q[d] : q[d][i].buf # b0
    BY <1>8 DEF PoolOK
  <1> HIDE DEF b0, s
  <1>15. \A i, j \in DOMAIN g : g[i] = g[j] => i = j
    BY <1>5, <1>7 DEF PoolOK
  <1>16. \A i \in DOMAIN g : g[i] # h
    BY <1>5 DEF PoolOK
  <1>17. \A d \in Clients : \A i \in DOMAIN r[d] :
            /\ r[d][i].buf # h
            /\ \A j \in DOMAIN g : r[d][i].buf # g[j]
    BY <1>1, <1>5, <1>9, <1>12, <1>13 DEF PoolOK
  <1>18. \A d, e \in Clients : \A i \in DOMAIN r[d], j \in DOMAIN r[e] :
            r[d][i].buf = r[e][j].buf => d = e /\ i = j
    BY <1>1, <1>9, <1>14 DEF PoolOK
  <1>19. \A b \in Buffers : \/ b = h
                            \/ \E i \in DOMAIN g : g[i] = b
                            \/ \E d \in Clients : \E i \in DOMAIN r[d] : r[d][i].buf = b
    <2> SUFFICES ASSUME NEW b \in Buffers, b # h, \A i \in DOMAIN g : g[i] # b
                 PROVE  \E d \in Clients : \E i \in DOMAIN r[d] : r[d][i].buf = b
      OBVIOUS
    <2>1. CASE b = b0
      BY <1>1, <1>11, <2>1
    <2>2. CASE b # b0
      <3>1. \A i \in DOMAIN f : f[i] # b
        BY <1>6, <2>2 DEF b0
      <3>2. PICK d \in Clients : \E i \in DOMAIN q[d] : q[d][i].buf = b
        BY <3>1 DEF PoolOK
      <3> QED
        BY <1>10, <3>2
    <2> QED
      BY <2>1, <2>2
  <1>20. PoolOK(g, h, r)
    BY <1>15, <1>16, <1>17, <1>18, <1>19 DEF PoolOK
  <1> QED
    BY <1>20 DEF g, r, s

\* A partial write moves no buffer.
LEMMA PoolSame ==
    ASSUME NEW f, NEW h, NEW q, NEW r, PoolOK(f, h, q),
           \A c \in Clients : /\ DOMAIN r[c] = DOMAIN q[c]
                              /\ \A i \in DOMAIN q[c] : r[c][i].buf = q[c][i].buf
    PROVE  PoolOK(f, h, r)
  BY DEF PoolOK

-----------------------------------------------------------------------------
(* The pool's theorems. *)

PInv == TInv /\ PoolOK(free, hand, queue)

\* The variables of the pool have the types of owners.
LEMMA PInvOwners == TypeOK => Owners(free, hand, queue)
  BY DEF TypeOK, Owners

\* The constructor puts each buffer on the free list once.
LEMMA InitPool == Init => PoolOK(free, hand, queue)
  <1> SUFFICES ASSUME Init PROVE PoolOK(free, hand, queue)
    OBVIOUS
  <1>1. /\ free = InitialPool /\ hand = None
        /\ \A c \in Clients : DOMAIN queue[c] = {}
    BY DEF Init
  <1>2. \A i \in DOMAIN InitialPool : InitialPool[i] # None
    BY PoolAssumption, ElementOfSeq, LenProperties, NoneAssumption
  <1> QED
    BY <1>1, <1>2, PoolAssumption DEF PoolOK

\* handleWrite returns the buffers of what it has sent, and no other.
LEMMA WritePool == PInv /\ handleWrite => PoolOK(free', hand', queue')
  <1> SUFFICES ASSUME PInv, handleWrite PROVE PoolOK(free', hand', queue')
    OBVIOUS
  <1> USE DEF PInv, TInv
  <1>0. Owners(free, hand, queue)
    BY PInvOwners
  <1>1. ASSUME NEW k \in 1..SendSpace, WriteSome(k)
        PROVE  PoolOK(free', hand', queue')
    <2>1. cur \in Clients /\ queue[cur] # <<>> /\ hand' = hand
      BY <1>1 DEF WriteSome, WorkerOK, hasDataToWrite
    <2>2. CASE k = Head(queue[cur]).left
      <3>1. /\ queue' = [queue EXCEPT ![cur] = Tail(@)]
            /\ free' = Append(free, Head(queue[cur]).buf)
        BY <1>1, <2>2 DEF WriteSome, releaseBuffer
      <3>2. PoolOK(Append(free, Head(queue[cur]).buf), hand,
                   [queue EXCEPT ![cur] = Tail(@)])
        BY <1>0, <2>1, PoolPop
      <3> QED
        BY <2>1, <3>1, <3>2
    <2>3. CASE k # Head(queue[cur]).left
      <3>1. free' = free /\ queue' = [queue EXCEPT ![cur][1].left = @ - k]
        BY <1>1, <2>3 DEF WriteSome
      <3>2. 1 \in DOMAIN queue[cur] /\ queue[cur][1] \in Response
        <4>1. queue[cur] \in Seq(Response)
          BY <2>1 DEF TypeOK
        <4> QED
          BY <2>1, <4>1, ElementOfSeq, LenProperties
      <3>3. \A c \in Clients :
              /\ DOMAIN queue'[c] = DOMAIN queue[c]
              /\ \A i \in DOMAIN queue[c] : queue'[c][i].buf = queue[c][i].buf
        BY <2>1, <3>1, <3>2 DEF TypeOK, Response
      <3> QED
        BY <2>1, <3>1, <3>3, PoolSame
    <2> QED
      BY <2>2, <2>3
  <1>2. CASE WriteStops \/ WriteRaises \/ Rearm
    BY <1>2 DEF WriteStops, WriteRaises, Rearm, poolVars
  <1>3. CASE WriteFails
    <2>1. /\ cur \in Clients /\ hand' = hand
          /\ queue' = [queue EXCEPT ![cur] = <<>>]
          /\ free' = free \o ClearedBuffers(queue[cur])
      BY <1>3 DEF WriteFails, WorkerOK, handleClose, QueuesWithout
    <2> QED
      BY <1>0, <2>1, PoolClear
  <1> QED
    BY <1>1, <1>2, <1>3 DEF handleWrite

\* handleRead takes a buffer, queues one more with an answer, and gives back
\* what it holds on each way out.
LEMMA ReadPool == PInv /\ handleRead => PoolOK(free', hand', queue')
  <1> SUFFICES ASSUME PInv, handleRead PROVE PoolOK(free', hand', queue')
    OBVIOUS
  <1> USE DEF PInv, TInv
  <1>0. Owners(free, hand, queue)
    BY PInvOwners
  <1>1. CASE ReadAllocate
    <2>1. /\ hand = None /\ free # <<>> /\ queue' = queue
          /\ hand' = Head(free) /\ free' = Tail(free)
      BY <1>1 DEF ReadAllocate, WorkerOK, hasAvailableBuffers
    <2> QED
      BY <1>0, <2>1, PoolTake
  <1>2. CASE ReadGivesUp \/ ReadSome
    BY <1>2 DEF ReadGivesUp, ReadSome, poolVars
  <1>3. CASE ReadNothing \/ ParseDrops
    <2>1. /\ hand \in Buffers /\ queue' = queue
          /\ hand' = None /\ free' = Append(free, hand)
      BY <1>3 DEF ReadNothing, ParseDrops, ParseDone, WorkerOK, TypeOK, releaseBuffer
    <2> QED
      BY <1>0, <2>1, PoolGive
  <1>4. CASE ReadFails
    <2>1. /\ cur \in Clients /\ hand \in Buffers /\ hand' = None
          /\ queue' = [queue EXCEPT ![cur] = <<>>]
          /\ free' = Append(free, hand) \o ClearedBuffers(queue[cur])
      BY <1>4 DEF ReadFails, WorkerOK, TypeOK, handleClose, QueuesWithout, releaseBuffer
    <2>2. PoolOK(Append(free, hand), None, queue)
      BY <1>0, <2>1, PoolGive
    <2>3. Owners(Append(free, hand), None, queue)
      BY <1>0, <2>1, AppendProperties DEF Owners
    <2> QED
      BY <2>1, <2>2, <2>3, PoolClear
  <1>5. CASE ParseEchoes
    <2>1. /\ cur \in Clients /\ hand \in Buffers /\ free # <<>>
          /\ hand' = None /\ free' = Append(Tail(free), hand)
      BY <1>5 DEF ParseEchoes, ParseDone, WorkerOK, TypeOK, hasAvailableBuffers
    <2>2. PICK e \in Echoes : queue' = addToClientQueue(cur,
                     [buf |-> Head(free), msg |-> e.msg, left |-> e.left])
      BY <1>5 DEF ParseEchoes
    <2> DEFINE x == [buf |-> Head(free), msg |-> e.msg, left |-> e.left]
    <2>3. x \in Response
      <3>1. /\ Stream[cur][chunk.from] \in [msg : Nat \ {0}, size : 0..BufferSize]
            /\ chunk.len \in 1..BufferSize
        BY <1>5, <2>1, StreamType, ElementOfSeq DEF ParseEchoes, WorkerOK
      <3>2. e.msg \in Nat /\ e.left \in 1..BufferSize
        BY <3>1, SizeAssumption DEF Echoes, Garbage
      <3>3. Head(free) \in Buffers
        BY <2>1, HeadTailProperties DEF TypeOK
      <3> QED
        BY <3>2, <3>3 DEF Response
    <2>4. queue' = [queue EXCEPT ![cur] = Append(@, x)]
      BY <2>2 DEF addToClientQueue
    <2>5. x.buf = Head(free)
      OBVIOUS
    <2> HIDE DEF x
    <2>6. PoolOK(Tail(free), hand, queue')
      BY <1>0, <2>1, <2>3, <2>4, <2>5, PoolEnqueue
    <2>7. Owners(Tail(free), hand, queue')
      <3>1. Tail(free) \in Seq(Buffers)
        BY <2>1, HeadTailProperties DEF TypeOK
      <3>2. queue' \in [Clients -> Seq(Response)]
        BY ReadType DEF TypeOK
      <3> QED
        BY <2>1, <3>1, <3>2 DEF Owners
    <2> QED
      BY <2>1, <2>6, <2>7, PoolGive
  <1> QED
    BY <1>1, <1>2, <1>3, <1>4, <1>5 DEF handleRead

\* The worker's other steps leave the pool alone, or clear a client.
LEMMA WorkerPool == PInv /\ Worker => PoolOK(free', hand', queue')
  <1> SUFFICES ASSUME PInv, Worker PROVE PoolOK(free', hand', queue')
    OBVIOUS
  <1>1. CASE WaitForEvents \/ BatchDone
    BY <1>1 DEF WaitForEvents, BatchDone, poolVars, PInv
  <1>2. ASSUME NEW c \in Clients, DispatchUnknown(c) \/ DispatchIO(c)
        PROVE  PoolOK(free', hand', queue')
    BY <1>2 DEF DispatchUnknown, DispatchIO, poolVars, PInv
  <1>3. ASSUME NEW c \in Clients, DispatchHangup(c)
        PROVE  PoolOK(free', hand', queue')
    <2>1. /\ hand' = hand /\ queue' = [queue EXCEPT ![c] = <<>>]
          /\ free' = free \o ClearedBuffers(queue[c])
      BY <1>3 DEF DispatchHangup, handleClose, QueuesWithout
    <2> QED
      BY <2>1, PInvOwners, PoolClear DEF PInv, TInv
  <1> QED
    BY <1>1, <1>2, <1>3, WritePool, ReadPool DEF Worker

\* Every step keeps one owner for each buffer.
LEMMA PInvInductive == PInv /\ [Next]_vars => PInv'
  <1> SUFFICES ASSUME PInv, [Next]_vars PROVE PInv'
    OBVIOUS
  <1>1. TInv'
    BY TypeInductive DEF PInv
  <1>2. CASE Worker
    BY <1>1, <1>2, WorkerPool DEF PInv
  <1>3. CASE Listener \/ Kernel \/ UNCHANGED vars
    BY <1>1, <1>3 DEF PInv, Listener, Kernel, AddRegister, AddInsert, Arrive,
                      Drain, Hangup, poolVars, vars
  <1> QED
    BY <1>2, <1>3 DEF Next

\* Every buffer of the pool has exactly one owner at any time: the free list,
\* the read under way, or one place in one client's queue.  Whatever clients
\* do and whichever way the handlers return, none is shared and none is lost.
THEOREM PoolConserved == Spec => [](NoSharedBuffer /\ NoLostBuffer)
  <1>1. PInv => NoSharedBuffer /\ NoLostBuffer
    BY DEF PInv, PoolOK, NoSharedBuffer, NoLostBuffer
  <1>2. Init => PInv
    BY InitType, InitPool DEF PInv
  <1> QED
    BY <1>1, <1>2, PInvInductive, PTL DEF Spec

\* No pool buffer is lost, whichever way the handlers leave: clearClientBuffers,
\* releaseBuffer and removeProcessedBuffer bring every one back.
THEOREM BuffersKept == Spec => []NoLostBuffer
  BY PoolConserved, PTL

\* A handleRead always finds a buffer: at most all but one of the pool wait in
\* the queues, because an answer is queued only next to a buffer in hand.
THEOREM PoolNeverDry == Spec => []ReadFindsBuffer
  <1> DEFINE DInv == TInv /\ ReadFindsBuffer
  <1>1. Init => DInv
    BY InitType, PoolAssumption DEF Init, ReadFindsBuffer, hasAvailableBuffers
  <1>2. DInv /\ [Next]_vars => DInv'
    <2> SUFFICES ASSUME DInv, [Next]_vars PROVE ReadFindsBuffer'
      BY TypeInductive
    <2> USE DEF ReadFindsBuffer, hasAvailableBuffers
    <2>1. \A s \in Seq(Buffers), b \in Buffers : Append(s, b) # <<>>
      BY AppendProperties, LenProperties
    <2>2. CASE Worker
      <3> SUFFICES ASSUME hand' = None PROVE free' # <<>>
        OBVIOUS
      <3>1. CASE free' = free /\ hand' = hand
        BY <3>1
      <3>2. ASSUME NEW s \in Seq(Buffers), NEW t \in Seq(Buffers), s # <<>>
            PROVE  s \o t # <<>>
        BY <3>2, ConcatEqualIffEmpty
      <3>3. ASSUME NEW k \in 1..SendSpace, WriteSome(k) PROVE free' # <<>>
        <4>1. free # <<>> /\ free \in Seq(Buffers)
          BY <3>3 DEF WriteSome, TInv, TypeOK, WorkerOK
        <4>2. CASE free' = free
          BY <4>1, <4>2
        <4>3. CASE free' = Append(free, Head(queue[cur]).buf)
          <5>1. queue[cur] \in Seq(Response) /\ queue[cur] # <<>>
            BY <3>3 DEF WriteSome, hasDataToWrite, TInv, TypeOK, WorkerOK
          <5>2. Head(queue[cur]) \in Response
            BY <5>1, HeadTailProperties
          <5> QED
            BY <2>1, <4>1, <4>3, <5>2 DEF Response
        <4> QED
          BY <3>3, <4>2, <4>3 DEF WriteSome, releaseBuffer
      <3>4. ASSUME NEW c \in Clients, hand' = hand,
                   free' = free \o ClearedBuffers(queue[c])
            PROVE  free' # <<>>
        <4>1. free # <<>> /\ free \in Seq(Buffers) /\ queue[c] \in Seq(Response)
          BY <3>4 DEF TInv, TypeOK
        <4> QED
          BY <3>2, <3>4, <4>1, ClearedBuffersType
      <3>5. CASE handleWrite
        BY <3>1, <3>3, <3>4, <3>5 DEF handleWrite, WriteStops, WriteFails,
           WriteRaises, Rearm, WorkerOK, TInv, poolVars
      <3>6. CASE handleRead
        <4>1. CASE ReadAllocate
          BY <4>1, HeadTailProperties, NoneAssumption
          DEF ReadAllocate, TInv, TypeOK
        <4>2. CASE ReadGivesUp \/ ReadSome
          BY <3>1, <4>2 DEF ReadGivesUp, ReadSome, poolVars
        <4>3. CASE ReadNothing \/ ParseDrops
          BY <2>1, <4>3 DEF ReadNothing, ParseDrops, releaseBuffer, TInv, TypeOK, WorkerOK
        <4>4. CASE ReadFails
          <5>1. /\ cur \in Clients /\ hand \in Buffers /\ free \in Seq(Buffers)
                /\ free' = Append(free, hand) \o ClearedBuffers(queue[cur])
                /\ queue[cur] \in Seq(Response)
            BY <4>4 DEF ReadFails, releaseBuffer, TInv, TypeOK, WorkerOK
          <5>2. Append(free, hand) \in Seq(Buffers)
            BY <5>1, AppendProperties
          <5> QED
            BY <2>1, <3>2, <5>1, <5>2, ClearedBuffersType
        <4>5. CASE ParseEchoes
          <5>1. /\ hand \in Buffers /\ Tail(free) \in Seq(Buffers)
                /\ free' = Append(Tail(free), hand)
            BY <4>5, HeadTailProperties
            DEF ParseEchoes, hasAvailableBuffers, TInv, TypeOK, WorkerOK
          <5> QED
            BY <2>1, <5>1
        <4> QED
          BY <3>6, <4>1, <4>2, <4>3, <4>4, <4>5 DEF handleRead
      <3>7. ASSUME NEW c \in Clients,
                   DispatchUnknown(c) \/ DispatchHangup(c) \/ DispatchIO(c)
            PROVE  free' # <<>>
        BY <3>1, <3>4, <3>7 DEF DispatchUnknown, DispatchHangup, DispatchIO, poolVars
      <3>8. CASE WaitForEvents \/ BatchDone
        BY <3>1, <3>8 DEF WaitForEvents, BatchDone, poolVars
      <3> QED
        BY <2>2, <3>5, <3>6, <3>7, <3>8 DEF Worker
    <2>3. CASE Listener \/ Kernel \/ UNCHANGED vars
      BY <2>3 DEF Listener, Kernel, AddRegister, AddInsert, Arrive, Drain,
                  Hangup, poolVars, vars
    <2> QED
      BY <2>2, <2>3 DEF Next
  <1> QED
    BY <1>1, <1>2, PTL DEF Spec

-----------------------------------------------------------------------------
(* Events: what a client's registration, the ready list, the batch and the *)
(* map say of one another.                                                 *)

\* A closed client is out of everything, and its events are over.  One that is
\* not registered has no event either: DispatchUnknown took them.
Registered(c) ==
    /\ c \in closed =>
          /\ c \notin socks /\ c # adding /\ c \notin ready
          /\ interest[c] = {} /\ queue[c] = <<>>
          /\ c # cur => batch[c] = {}
    /\ c \notin closed /\ interest[c] = {} => c \notin ready /\ batch[c] = {}
    /\ c = adding => c \notin socks
    /\ c = cur => batch[c] # {} /\ c \in socks \cup closed
    /\ pc = "wait" => batch[c] = {}

HandlerOK ==
    /\ pc \in {"wait", "dispatch"} => cur = None
    /\ pc \in {"write", "rearm", "parse"} => cur \in socks

\* What is queued for a client waits for EPOLLOUT, or handleWrite is about to
\* ask for it.
Owed(c) ==
    hasDataToWrite(c) =>
        /\ c \in socks
        /\ "OUT" \in interest[c] \/ (c = cur /\ pc \in {"write", "rearm", "killed"})

\* A client does not have to be in the map for its wakeup to be kept.
Awaited(c) ==
    interest[c] # {} /\ sent[c] > taken[c] =>
        c \in ready \/ "IN" \in batch[c] \/ c \in ignored

\* The last read of a call took everything there was, and what has come since
\* raised an edge.
LastReadOK == pc = "parse" /\ LastRead => sent[cur] = taken[cur] \/ cur \in ready

EventsOK ==
    /\ HandlerOK /\ LastReadOK
    /\ \A c \in Clients : Registered(c) /\ Owed(c) /\ Awaited(c)

EInv == TInv /\ EventsOK

\* Everything one needs to know of a client's variables.
LEMMA ClientTypes ==
    ASSUME TInv, NEW c \in Clients
    PROVE  /\ interest[c] \in {{}, Base, Base \cup {"OUT"}}
           /\ batch[c] \in SUBSET {"IN", "OUT", "HUP"}
           /\ queue[c] \in Seq(Response)
           /\ sent[c] \in Nat /\ taken[c] \in Nat /\ taken[c] <= sent[c]
           /\ c # None
  BY NoneAssumption DEF TInv, TypeOK, StreamsOK

\* What a client is registered for.
LEMMA BaseEvents ==
    /\ Base # {} /\ "IN" \in Base /\ "HUP" \in Base
    /\ Base \cup {"OUT"} # {} /\ "IN" \in Base \cup {"OUT"}
    /\ "OUT" \in Base \cup {"OUT"} /\ "HUP" \in Base \cup {"OUT"}
  BY DEF Base

\* Nobody is registered, and nothing has arrived, at first.
LEMMA InitEvents == Init => EventsOK
  BY NoneAssumption DEF Init, EventsOK, HandlerOK, LastReadOK, Registered, Owed,
     Awaited, hasDataToWrite

\* The kernel only adds to the ready list, for events that are asked for.
LEMMA KernelEvents == EInv /\ Kernel => EventsOK'
  <1> SUFFICES ASSUME EInv, NEW d \in Clients,
                      \/ \E k \in 1..Len(Stream[d]) : Arrive(d, k)
                      \/ Drain(d)
                      \/ Hangup(d)
               PROVE  EventsOK'
    BY DEF Kernel
  <1>1. /\ UNCHANGED <<poolVars, socks, adding, interest, workerVars, closed,
                       taken, ignored>>
        /\ ready \subseteq ready'
        /\ ready' \subseteq ready \cup {d}
        /\ d \in ready' /\ d \notin ready => interest[d] # {}
    BY DEF Arrive, Drain, Hangup, Wake
  <1>2. /\ \A c \in Clients : c # d => sent'[c] = sent[c]
        /\ sent'[d] = sent[d] \/ ("IN" \in interest[d] => d \in ready')
    BY DEF Arrive, Drain, Hangup, Wake, EInv, TInv, TypeOK
  <1>3. ASSUME NEW c \in Clients PROVE (Registered(c) /\ Owed(c))'
    <2>1. Registered(c) /\ Owed(c)
      BY DEF EInv, EventsOK
    <2>2. Registered(c)'
      BY <1>1, <2>1, Zenon DEF Registered, poolVars, workerVars
    <2>3. Owed(c)'
      BY <1>1, <2>1, Zenon DEF Owed, hasDataToWrite, poolVars, workerVars
    <2> QED
      BY <2>2, <2>3
  <1>4. ASSUME NEW c \in Clients PROVE Awaited(c)'
    <2>1. Awaited(c) /\ (interest[c] # {} => "IN" \in interest[c])
      BY ClientTypes, BaseEvents DEF EInv, EventsOK
    <2> QED
      BY <1>1, <1>2, <2>1 DEF Awaited, workerVars
  <1>5. (HandlerOK /\ LastReadOK)'
    <2>1. /\ HandlerOK /\ LastReadOK
          /\ pc = "parse" => /\ cur \in Clients /\ cur \in socks
                             /\ cur \notin closed /\ "IN" \in interest[cur]
      <3>1. HandlerOK /\ LastReadOK /\ (pc = "parse" => cur \in Clients)
        BY DEF EInv, EventsOK, TInv, WorkerOK
      <3>2. ASSUME pc = "parse" PROVE cur \notin closed /\ interest[cur] # {}
        BY <3>1, <3>2 DEF HandlerOK, EInv, EventsOK, Registered
      <3> QED
        BY <3>1, <3>2, ClientTypes, BaseEvents DEF HandlerOK, EInv
    <2> QED
      BY <1>1, <1>2, <2>1 DEF HandlerOK, LastReadOK, LastRead, workerVars
  <1> QED
    BY <1>3, <1>4, <1>5 DEF EventsOK

\* addClient raises the edges that EPOLL_CTL_ADD finds.
LEMMA ListenerEvents == EInv /\ Listener => EventsOK'
  <1> SUFFICES ASSUME EInv, Listener PROVE EventsOK'
    OBVIOUS
  <1>1. ASSUME NEW d \in Clients, AddRegister(d) PROVE EventsOK'
    <2>1. /\ UNCHANGED <<poolVars, socks, workerVars, closed, clientVars, ignored>>
          /\ adding' = d /\ d \notin socks \cup closed /\ interest[d] = {}
          /\ ready \subseteq ready' /\ ready' \subseteq ready \cup {d}
          /\ interest'[d] = Base /\ adding = None
          /\ \A c \in Clients : c # d => interest'[c] = interest[c]
      BY <1>1 DEF AddRegister, Register, EInv, TInv, TypeOK
    <2>2. sent[d] > taken[d] => d \in ready'
      BY <1>1, BaseEvents DEF AddRegister, Register, Now, Readiness
    <2>3. ASSUME NEW c \in Clients PROVE (Registered(c) /\ Owed(c) /\ Awaited(c))'
      <3>1. Registered(c) /\ Owed(c) /\ Awaited(c) /\ c # None
        BY ClientTypes DEF EInv, EventsOK
      <3>2. Registered(c)'
        BY <2>1, <3>1, BaseEvents DEF Registered, poolVars, workerVars
      <3>3. Owed(c)'
        BY <2>1, <3>1 DEF Owed, hasDataToWrite, poolVars, workerVars
      <3>4. Awaited(c)'
        BY <2>1, <2>2, <3>1 DEF Awaited, workerVars, clientVars
      <3> QED
        BY <3>2, <3>3, <3>4
    <2>4. (HandlerOK /\ LastReadOK)'
      BY <2>1 DEF HandlerOK, LastReadOK, LastRead, workerVars, clientVars, EInv, EventsOK
    <2> QED
      BY <2>3, <2>4 DEF EventsOK
  <1>2. CASE AddInsert
    <2>1. /\ UNCHANGED <<poolVars, epollVars, workerVars, closed, clientVars, ignored>>
          /\ socks' = socks \cup {adding} /\ adding' = None
      BY <1>2 DEF AddInsert
    <2>2. ASSUME NEW c \in Clients PROVE (Registered(c) /\ Owed(c) /\ Awaited(c))'
      <3>1. Registered(c) /\ Owed(c) /\ Awaited(c) /\ c # None
        BY ClientTypes DEF EInv, EventsOK
      <3>2. Registered(c)'
        BY <2>1, <3>1 DEF Registered, poolVars, epollVars, workerVars
      <3>3. Owed(c)'
        BY <2>1, <3>1 DEF Owed, hasDataToWrite, poolVars, epollVars, workerVars
      <3>4. Awaited(c)'
        BY <2>1, <3>1 DEF Awaited, epollVars, workerVars, clientVars
      <3> QED
        BY <3>2, <3>3, <3>4
    <2>3. (HandlerOK /\ LastReadOK)'
      BY <2>1 DEF HandlerOK, LastReadOK, LastRead, epollVars, workerVars,
                  clientVars, EInv, EventsOK
    <2> QED
      BY <2>2, <2>3 DEF EventsOK
  <1> QED
    BY <1>1, <1>2 DEF Listener

\* An event moves from the kernel to the batch and stays on its way.
LEMMA WaitEvents == EInv /\ (WaitForEvents \/ BatchDone) => EventsOK'
  <1> SUFFICES ASSUME EInv, WaitForEvents \/ BatchDone PROVE EventsOK'
    OBVIOUS
  <1>1. CASE WaitForEvents
    <2>1. ASSUME NEW c \in Clients PROVE (Registered(c) /\ Owed(c) /\ Awaited(c))'
      <3>1. Registered(c) /\ Owed(c) /\ Awaited(c) /\ cur = None /\ c # None
        BY <1>1, ClientTypes DEF EInv, EventsOK, HandlerOK, WaitForEvents
      <3>2. batch'[c] = IF c \in ready THEN Now(c) \cap interest[c] ELSE {}
        BY <1>1 DEF WaitForEvents
      <3>3. interest[c] # {} => "IN" \in interest[c]
        BY ClientTypes, BaseEvents DEF EInv
      <3>4. sent[c] > taken[c] => "IN" \in Now(c)
        BY DEF Now, Readiness
      <3>5. Registered(c)'
        BY <1>1, <3>1, <3>2 DEF Registered, WaitForEvents, poolVars
      <3>6. Owed(c)'
        BY <1>1, <3>1 DEF Owed, WaitForEvents, hasDataToWrite, poolVars
      <3>7. Awaited(c)'
        BY <1>1, <3>1, <3>2, <3>3, <3>4 DEF Awaited, Registered, WaitForEvents, clientVars
      <3> QED
        BY <3>5, <3>6, <3>7
    <2>2. (HandlerOK /\ LastReadOK)'
      BY <1>1 DEF WaitForEvents, HandlerOK, LastReadOK, EInv, EventsOK
    <2> QED
      BY <2>1, <2>2 DEF EventsOK
  <1>2. CASE BatchDone
    <2>1. /\ pc = "dispatch" /\ pc' = "wait" /\ \A c \in Clients : batch[c] = {}
          /\ UNCHANGED <<poolVars, socks, adding, epollVars, batch, cur,
                         closed, clientVars, ignored>>
      BY <1>2 DEF BatchDone
    <2>2. ASSUME NEW c \in Clients PROVE (Registered(c) /\ Owed(c) /\ Awaited(c))'
      <3>1. Registered(c) /\ Owed(c) /\ Awaited(c)
        BY DEF EInv, EventsOK
      <3> QED
        BY <2>1, <3>1 DEF Registered, Owed, Awaited, hasDataToWrite, poolVars,
                          epollVars, clientVars
    <2>3. (HandlerOK /\ LastReadOK)'
      BY <2>1 DEF HandlerOK, LastReadOK, EInv, EventsOK
    <2> QED
      BY <2>2, <2>3 DEF EventsOK
  <1> QED
    BY <1>1, <1>2

\* handleClose takes a client out of everything, and touches no other.
LEMMA CloseEvents ==
    ASSUME TInv, NEW d \in Clients, handleClose(d)
    PROVE  /\ interest'[d] = {} /\ queue'[d] = <<>>
           /\ socks' = socks \ {d} /\ closed' = closed \cup {d}
           /\ ready' = ready \ {d}
           /\ \A c \in Clients : c # d =>
                 interest'[c] = interest[c] /\ queue'[c] = queue[c]
  BY DEF handleClose, removeEvent, QueuesWithout, TInv, TypeOK

\* The dispatched event is the one the handler is at work on.
LEMMA DispatchEvents ==
    ASSUME EInv, NEW d \in Clients
    PROVE  /\ DispatchUnknown(d) => EventsOK'
           /\ DispatchHangup(d) => EventsOK'
           /\ DispatchIO(d) => EventsOK'
  <1>1. ASSUME DispatchUnknown(d) PROVE EventsOK'
    <2>1. /\ UNCHANGED <<poolVars, socks, adding, pc, cur, chunk, closed, clientVars,
                         ignored>>
          /\ pc = "dispatch" /\ d \notin socks
          /\ interest'[d] = {} /\ batch'[d] = {} /\ ready' = ready \ {d}
          /\ \A c \in Clients : c # d =>
                interest'[c] = interest[c] /\ batch'[c] = batch[c]
      BY <1>1 DEF DispatchUnknown, removeEvent, EInv, TInv, TypeOK
    <2>2. ASSUME NEW c \in Clients PROVE (Registered(c) /\ Owed(c) /\ Awaited(c))'
      <3>1. Registered(c) /\ Owed(c) /\ Awaited(c) /\ cur = None /\ c # None
        BY <2>1, ClientTypes DEF EInv, EventsOK, HandlerOK
      <3> QED
        BY <2>1, <3>1 DEF Registered, Owed, Awaited, hasDataToWrite, poolVars, clientVars
    <2>3. (HandlerOK /\ LastReadOK)'
      BY <2>1 DEF HandlerOK, LastReadOK, EInv, EventsOK
    <2> QED
      BY <2>2, <2>3 DEF EventsOK
  <1>2. ASSUME DispatchHangup(d) PROVE EventsOK'
    <2>1. /\ UNCHANGED <<adding, pc, cur, clientVars, ignored>>
          /\ pc = "dispatch" /\ d \in socks /\ batch'[d] = {} /\ handleClose(d)
          /\ \A c \in Clients : c # d => batch'[c] = batch[c]
      BY <1>2 DEF DispatchHangup, EInv, TInv, TypeOK
    <2>2. ASSUME NEW c \in Clients PROVE (Registered(c) /\ Owed(c) /\ Awaited(c))'
      <3>1. Registered(c) /\ Owed(c) /\ Awaited(c) /\ cur = None /\ c # None
        BY <2>1, ClientTypes DEF EInv, EventsOK, HandlerOK
      <3>2. TInv
        BY DEF EInv
      <3>3. CASE c = d
        BY <2>1, <3>1, <3>2, <3>3, CloseEvents DEF Registered, Owed, Awaited, hasDataToWrite
      <3>4. CASE c # d
        BY <2>1, <3>1, <3>2, <3>4, CloseEvents
        DEF Registered, Owed, Awaited, hasDataToWrite, clientVars
      <3> QED
        BY <3>3, <3>4
    <2>3. (HandlerOK /\ LastReadOK)'
      BY <2>1 DEF HandlerOK, LastReadOK, EInv, EventsOK
    <2> QED
      BY <2>2, <2>3 DEF EventsOK
  <1>3. ASSUME DispatchIO(d) PROVE EventsOK'
    <2>1. /\ UNCHANGED <<poolVars, socks, adding, epollVars, batch, closed,
                         clientVars, ignored>>
          /\ pc = "dispatch" /\ cur' = d /\ pc' \in {"write", "read"}
          /\ d \in socks /\ batch[d] # {}
      BY <1>3 DEF DispatchIO
    <2>2. ASSUME NEW c \in Clients PROVE (Registered(c) /\ Owed(c) /\ Awaited(c))'
      <3>1. Registered(c) /\ Owed(c) /\ Awaited(c) /\ cur = None /\ c # None
        BY <2>1, ClientTypes DEF EInv, EventsOK, HandlerOK
      <3> QED
        BY <2>1, <3>1 DEF Registered, Owed, Awaited, hasDataToWrite, poolVars,
                          epollVars, clientVars
    <2>3. (HandlerOK /\ LastReadOK)'
      BY <2>1 DEF HandlerOK, LastReadOK
    <2> QED
      BY <2>2, <2>3 DEF EventsOK
  <1> QED
    BY <1>1, <1>2, <1>3

\* The client in a handler's hands: what a handler's step needs of it.
LEMMA CurrentEvents ==
    ASSUME EInv, pc \in {"write", "rearm", "read", "readIO", "parse"}
    PROVE  /\ TInv /\ cur \in Clients /\ cur # None /\ batch[cur] # {}
           /\ cur \in socks \cup closed
           /\ cur \in socks => /\ cur \notin closed /\ cur # adding
                               /\ "IN" \in interest[cur] /\ interest[cur] # {}
           /\ pc \in {"write", "rearm", "parse"} => cur \in socks
           /\ \A c \in Clients : Registered(c) /\ Owed(c) /\ Awaited(c)
  <1>1. /\ TInv /\ cur \in Clients /\ cur # None
        /\ HandlerOK /\ \A c \in Clients : Registered(c) /\ Owed(c) /\ Awaited(c)
    BY NoneAssumption DEF EInv, EventsOK, TInv, WorkerOK
  <1>2. /\ batch[cur] # {} /\ cur \in socks \cup closed
        /\ cur \in socks => /\ cur \notin closed /\ cur # adding /\ interest[cur] # {}
    BY <1>1 DEF Registered
  <1>3. interest[cur] # {} => "IN" \in interest[cur]
    BY <1>1, ClientTypes, BaseEvents
  <1> QED
    BY <1>1, <1>2, <1>3 DEF HandlerOK

\* When processEvents is done with a client, its batch entry goes.
LEMMA AfterWriteFacts ==
    ASSUME TInv, cur \in Clients, AfterWrite
    PROVE  /\ \A c \in Clients : c # cur => batch'[c] = batch[c]
           /\ \/ pc' = "read" /\ cur' = cur /\ batch'[cur] = batch[cur]
              \/ /\ pc' = "dispatch" /\ cur' = None /\ batch'[cur] = {}
                 /\ "IN" \notin batch[cur]
  BY DEF AfterWrite, TInv, TypeOK

\* handleRead's way out touches no other client's events.
LEMMA AfterReadFacts ==
    ASSUME TInv, cur \in Clients, AfterRead
    PROVE  /\ \A c \in Clients : c # cur => batch'[c] = batch[c]
           /\ pc' = "dispatch" /\ cur' = None /\ batch'[cur] = {}
  BY DEF AfterRead, TInv, TypeOK

\* epoll_ctl MOD of a registered descriptor.
LEMMA ModifyEvents ==
    ASSUME TInv, NEW d \in Clients, NEW e, modifyEvent(d, e), interest[d] # {}
    PROVE  /\ interest'[d] = e
           /\ \A c \in Clients : c # d => interest'[c] = interest[c]
           /\ ready \subseteq ready' /\ ready' \subseteq ready \cup {d}
  BY DEF modifyEvent, Register, TInv, TypeOK

\* handleWrite leaves what is owed armed, whichever way it returns.
LEMMA WriteEvents == EInv /\ handleWrite => EventsOK'
  <1> SUFFICES ASSUME EInv, handleWrite PROVE EventsOK'
    OBVIOUS
  <1>0. pc \in {"write", "rearm"}
    BY DEF handleWrite, WriteSome, WriteStops, WriteFails, WriteRaises, Rearm
  <1>1. /\ TInv /\ cur \in Clients /\ cur # None /\ batch[cur] # {}
        /\ cur \in socks /\ cur \notin closed /\ cur # adding
        /\ "IN" \in interest[cur] /\ interest[cur] # {}
        /\ \A c \in Clients : Registered(c) /\ Owed(c) /\ Awaited(c)
    BY <1>0, CurrentEvents
  <1>2. ASSUME NEW k \in 1..SendSpace, WriteSome(k) PROVE EventsOK'
    <2>1. /\ UNCHANGED <<socks, adding, epollVars, batch, cur, closed, sent, taken,
                         ignored>>
          /\ pc = "write" /\ pc' \in {"write", "rearm"} /\ hasDataToWrite(cur)
          /\ \A c \in Clients : c # cur => queue'[c] = queue[c]
      BY <1>1, <1>2 DEF WriteSome, TInv, TypeOK
    <2>2. ASSUME NEW c \in Clients PROVE (Registered(c) /\ Owed(c) /\ Awaited(c))'
      BY <1>1, <2>1 DEF Registered, Owed, Awaited, hasDataToWrite, epollVars
    <2>3. (HandlerOK /\ LastReadOK)'
      BY <1>1, <2>1 DEF HandlerOK, LastReadOK
    <2> QED
      BY <2>2, <2>3 DEF EventsOK
  <1>3. CASE WriteStops \/ WriteRaises
    <2>1. /\ UNCHANGED <<poolVars, socks, adding, epollVars, batch, cur, closed,
                         clientVars, ignored>>
          /\ pc = "write" /\ pc' \in {"rearm", "killed"}
      BY <1>3 DEF WriteStops, WriteRaises
    <2>2. ASSUME NEW c \in Clients PROVE (Registered(c) /\ Owed(c) /\ Awaited(c))'
      BY <1>1, <2>1 DEF Registered, Owed, Awaited, hasDataToWrite, epollVars,
                        poolVars, clientVars
    <2>3. (HandlerOK /\ LastReadOK)'
      BY <1>1, <2>1 DEF HandlerOK, LastReadOK
    <2> QED
      BY <2>2, <2>3 DEF EventsOK
  <1>4. CASE WriteFails
    <2>1. /\ UNCHANGED <<adding, clientVars, ignored>>
          /\ handleClose(cur) /\ AfterWrite
      BY <1>4 DEF WriteFails
    <2>2. ASSUME NEW c \in Clients PROVE (Registered(c) /\ Owed(c) /\ Awaited(c))'
      <3>1. CASE c = cur
        BY <1>1, <2>1, <3>1, CloseEvents, AfterWriteFacts
        DEF Registered, Owed, Awaited, hasDataToWrite
      <3>2. CASE c # cur
        <4>1. /\ c # cur' /\ batch'[c] = batch[c] /\ pc' # "wait"
              /\ c = cur' => FALSE
          BY <1>1, <2>1, <3>2, AfterWriteFacts, ClientTypes
        <4> QED
          BY <1>1, <2>1, <3>2, <4>1, CloseEvents
          DEF Registered, Owed, Awaited, hasDataToWrite, clientVars
      <3> QED
        BY <3>1, <3>2
    <2>3. (HandlerOK /\ LastReadOK)'
      BY <1>1, <2>1, AfterWriteFacts DEF HandlerOK, LastReadOK
    <2> QED
      BY <2>2, <2>3 DEF EventsOK
  <1>5. CASE Rearm
    <2>1. /\ UNCHANGED <<poolVars, socks, adding, closed, clientVars, ignored>>
          /\ modifyEvent(cur, RearmEvents(cur)) /\ AfterWrite
      BY <1>5 DEF Rearm
    <2>2. /\ interest'[cur] # {}
          /\ hasDataToWrite(cur) => "OUT" \in interest'[cur]
      BY <1>1, <2>1, ModifyEvents, BaseEvents DEF RearmEvents
    <2>3. /\ \A c \in Clients : c # cur => interest'[c] = interest[c]
          /\ ready \subseteq ready' /\ ready' \subseteq ready \cup {cur}
      BY <1>1, <2>1, ModifyEvents
    <2>4. ASSUME NEW c \in Clients PROVE (Registered(c) /\ Owed(c) /\ Awaited(c))'
      <3>1. CASE c = cur
        BY <1>1, <2>1, <2>2, <2>3, <3>1, AfterWriteFacts
        DEF Registered, Owed, Awaited, hasDataToWrite, poolVars, clientVars
      <3>2. CASE c # cur
        <4>1. /\ c # cur' /\ batch'[c] = batch[c] /\ pc' # "wait"
          BY <1>1, <2>1, <3>2, AfterWriteFacts, ClientTypes
        <4> QED
          BY <1>1, <2>1, <2>3, <3>2, <4>1
          DEF Registered, Owed, Awaited, hasDataToWrite, poolVars, clientVars
      <3> QED
        BY <3>1, <3>2
    <2>5. (HandlerOK /\ LastReadOK)'
      BY <1>1, <2>1, AfterWriteFacts DEF HandlerOK, LastReadOK
    <2> QED
      BY <2>4, <2>5 DEF EventsOK
  <1> QED
    BY <1>2, <1>3, <1>4, <1>5 DEF handleWrite

\* ParseDone: the loop goes on, or the call is over.
LEMMA ParseDoneFacts ==
    ASSUME TInv, cur \in Clients, ParseDone
    PROVE  /\ \A c \in Clients : c # cur => batch'[c] = batch[c]
           /\ \/ pc' = "read" /\ cur' = cur /\ batch'[cur] = batch[cur]
              \/ pc' = "dispatch" /\ cur' = None /\ batch'[cur] = {} /\ LastRead
  BY DEF ParseDone, AfterRead, TInv, TypeOK

\* handleRead leaves nothing unread without an edge to come, unless it gave
\* up on purpose.
LEMMA ReadEvents == EInv /\ handleRead => EventsOK'
  <1> SUFFICES ASSUME EInv, handleRead PROVE EventsOK'
    OBVIOUS
  <1>0. pc \in {"read", "readIO", "parse"}
    BY DEF handleRead, ReadAllocate, ReadGivesUp, ReadSome, ReadNothing, ReadFails,
           ParseEchoes, ParseDrops
  <1>1. /\ TInv /\ cur \in Clients /\ cur # None /\ batch[cur] # {}
        /\ cur \in socks \cup closed
        /\ cur \in socks => /\ cur \notin closed /\ cur # adding
                            /\ "IN" \in interest[cur] /\ interest[cur] # {}
        /\ pc = "parse" => cur \in socks
        /\ \A c \in Clients : Registered(c) /\ Owed(c) /\ Awaited(c)
    BY <1>0, CurrentEvents
  <1>2. /\ sent[cur] \in Nat /\ taken[cur] \in Nat /\ taken[cur] <= sent[cur]
        /\ \A c \in Clients : c # None
    BY <1>1, ClientTypes
  <1>3. CASE ReadAllocate
    <2>1. /\ UNCHANGED <<queue, socks, adding, epollVars, batch, cur, closed,
                         clientVars, ignored>>
          /\ pc = "read" /\ pc' = "readIO"
      BY <1>3 DEF ReadAllocate
    <2>2. ASSUME NEW c \in Clients PROVE (Registered(c) /\ Owed(c) /\ Awaited(c))'
      BY <1>1, <2>1 DEF Registered, Owed, Awaited, hasDataToWrite, epollVars, clientVars
    <2>3. (HandlerOK /\ LastReadOK)'
      BY <2>1 DEF HandlerOK, LastReadOK
    <2> QED
      BY <2>2, <2>3 DEF EventsOK
  <1>4. CASE ReadGivesUp \/ ReadNothing
    <2>1. /\ UNCHANGED <<queue, socks, adding, epollVars, closed, clientVars>>
          /\ AfterRead /\ pc \in {"read", "readIO"}
          /\ \/ ignored' = ignored \cup {cur}
             \/ ignored' = ignored /\ sent[cur] = taken[cur]
      BY <1>4 DEF ReadGivesUp, ReadNothing, poolVars
    <2>2. ASSUME NEW c \in Clients PROVE (Registered(c) /\ Owed(c) /\ Awaited(c))'
      <3>1. /\ c # cur => batch'[c] = batch[c]
            /\ batch'[cur] = {} /\ pc' = "dispatch" /\ cur' = None
        BY <1>1, <2>1, AfterReadFacts
      <3>2. Registered(c)'
        BY <1>1, <1>2, <2>1, <3>1 DEF Registered, epollVars
      <3>3. Owed(c)'
        BY <1>1, <1>2, <2>1, <3>1 DEF Owed, hasDataToWrite, epollVars
      <3>4. Awaited(c)'
        BY <1>1, <1>2, <2>1, <3>1 DEF Awaited, epollVars, clientVars
      <3> QED
        BY <3>2, <3>3, <3>4
    <2>3. (HandlerOK /\ LastReadOK)'
      BY <1>1, <2>1, AfterReadFacts DEF HandlerOK, LastReadOK
    <2> QED
      BY <2>2, <2>3 DEF EventsOK
  <1>5. CASE ReadSome
    <2> DEFINE there == sent[cur] - taken[cur]
               n == IF there < BufferSize THEN there ELSE BufferSize
    <2>1. /\ UNCHANGED <<queue, socks, adding, epollVars, batch, cur, closed, sent,
                         ignored>>
          /\ pc = "readIO" /\ pc' = "parse" /\ cur \notin closed
          /\ taken'[cur] = taken[cur] + n /\ chunk'.len = n
          /\ \A c \in Clients : c # cur => taken'[c] = taken[c]
      BY <1>1, <1>5 DEF ReadSome, poolVars, TInv, TypeOK
    <2>2. /\ n \in Nat /\ taken[cur] + n >= taken[cur]
          /\ n < BufferSize => sent[cur] = taken[cur] + n
      BY <1>2, SizeAssumption
    <2> HIDE DEF n
    <2>3. ASSUME NEW c \in Clients PROVE (Registered(c) /\ Owed(c) /\ Awaited(c))'
      <3>1. Registered(c)'
        BY <1>1, <2>1 DEF Registered, epollVars
      <3>2. Owed(c)'
        BY <1>1, <2>1 DEF Owed, hasDataToWrite, epollVars
      <3>3. sent'[c] > taken'[c] => sent[c] > taken[c]
        <4>1. CASE c = cur
          BY <1>2, <2>1, <2>2, <4>1
        <4>2. CASE c # cur
          BY <2>1, <4>2
        <4> QED
          BY <4>1, <4>2
      <3>4. Awaited(c)'
        BY <1>1, <2>1, <3>3 DEF Awaited, epollVars
      <3> QED
        BY <3>1, <3>2, <3>4
    <2>4. LastReadOK'
      BY <2>1, <2>2 DEF LastReadOK, LastRead
    <2>5. HandlerOK'
      BY <1>1, <2>1 DEF HandlerOK
    <2> QED
      BY <2>3, <2>4, <2>5 DEF EventsOK
  <1>6. CASE ReadFails
    <2>1. /\ UNCHANGED <<adding, clientVars, ignored>>
          /\ handleClose(cur) /\ AfterRead /\ pc = "readIO"
          /\ cur \in socks => cur # adding
      BY <1>1, <1>6 DEF ReadFails
    <2>2. cur # adding
      BY <1>1 DEF Registered
    <2>3. ASSUME NEW c \in Clients PROVE (Registered(c) /\ Owed(c) /\ Awaited(c))'
      <3>1. CASE c = cur
        BY <1>1, <2>1, <2>2, <3>1, CloseEvents, AfterReadFacts
        DEF Registered, Owed, Awaited, hasDataToWrite
      <3>2. CASE c # cur
        <4>1. c # cur' /\ batch'[c] = batch[c] /\ pc' = "dispatch"
          BY <1>1, <1>2, <2>1, <3>2, AfterReadFacts
        <4> QED
          BY <1>1, <2>1, <3>2, <4>1, CloseEvents
          DEF Registered, Owed, Awaited, hasDataToWrite, clientVars
      <3> QED
        BY <3>1, <3>2
    <2>4. (HandlerOK /\ LastReadOK)'
      BY <1>1, <2>1, AfterReadFacts DEF HandlerOK, LastReadOK
    <2> QED
      BY <2>3, <2>4 DEF EventsOK
  <1>7. CASE ParseEchoes \/ ParseDrops
    <2>1. /\ UNCHANGED <<socks, adding, closed, clientVars, ignored>>
          /\ pc = "parse" /\ ParseDone /\ cur \in socks
      BY <1>1, <1>7 DEF ParseEchoes, ParseDrops
    <2>2. /\ interest'[cur] # {}
          /\ queue'[cur] # <<>> => "OUT" \in interest'[cur]
          /\ ready \subseteq ready' /\ ready' \subseteq ready \cup {cur}
          /\ \A c \in Clients : c # cur =>
                interest'[c] = interest[c] /\ queue'[c] = queue[c]
      <3>1. CASE ParseEchoes
        <4>1. /\ modifyEvent(cur, Base \cup {"OUT"})
              /\ \A c \in Clients : c # cur => queue'[c] = queue[c]
          BY <1>1, <3>1 DEF ParseEchoes, addToClientQueue, TInv, TypeOK
        <4> QED
          BY <1>1, <2>1, <4>1, ModifyEvents, BaseEvents
      <3>2. CASE ParseDrops
        <4>1. UNCHANGED <<queue, epollVars>> /\ Owed(cur)
          BY <1>1, <3>2 DEF ParseDrops
        <4> QED
          BY <1>1, <2>1, <4>1 DEF epollVars, Owed, hasDataToWrite
      <3> QED
        BY <1>7, <3>1, <3>2
    <2>3. LastRead => sent[cur] = taken[cur] \/ cur \in ready
      BY <2>1 DEF LastReadOK, EInv, EventsOK
    <2>4. ASSUME NEW c \in Clients PROVE (Registered(c) /\ Owed(c) /\ Awaited(c))'
      <3>1. CASE c = cur
        <4>1. /\ pc' \in {"read", "dispatch"} /\ cur' \in {cur, None}
              /\ cur' = cur => batch'[cur] = batch[cur]
              /\ batch'[cur] = batch[cur] \/ LastRead
          BY <1>1, <2>1, ParseDoneFacts
        <4>2. Registered(c)'
          BY <1>1, <2>1, <2>2, <3>1, <4>1 DEF Registered
        <4>3. Owed(c)'
          BY <1>1, <2>1, <2>2, <3>1, <4>1 DEF Owed, hasDataToWrite
        <4>4. Awaited(c)'
          <5>1. UNCHANGED <<sent, taken, ignored>> /\ Awaited(c) /\ interest[c] # {}
                /\ ready \subseteq ready'
            BY <1>1, <2>1, <2>2, <3>1 DEF clientVars
          <5>2. CASE LastRead
            BY <1>2, <2>3, <3>1, <5>1, <5>2 DEF Awaited
          <5>3. CASE ~LastRead
            BY <3>1, <4>1, <5>1, <5>3 DEF Awaited
          <5> QED
            BY <5>2, <5>3
        <4> QED
          BY <4>2, <4>3, <4>4
      <3>2. CASE c # cur
        <4>1. c # cur' /\ batch'[c] = batch[c] /\ pc' \in {"read", "dispatch"}
          BY <1>1, <1>2, <2>1, <3>2, ParseDoneFacts
        <4>2. Registered(c)'
          BY <1>1, <2>1, <2>2, <3>2, <4>1 DEF Registered
        <4>3. Owed(c)'
          BY <1>1, <2>1, <2>2, <3>2, <4>1 DEF Owed, hasDataToWrite
        <4>4. Awaited(c)'
          BY <1>1, <2>1, <2>2, <3>2, <4>1 DEF Awaited, clientVars
        <4> QED
          BY <4>2, <4>3, <4>4
      <3> QED
        BY <3>1, <3>2
    <2>5. (HandlerOK /\ LastReadOK)'
      BY <1>1, <2>1, ParseDoneFacts DEF HandlerOK, LastReadOK
    <2> QED
      BY <2>4, <2>5 DEF EventsOK
  <1> QED
    BY <1>3, <1>4, <1>5, <1>6, <1>7 DEF handleRead

\* Every step keeps the events.
LEMMA EInvInductive == EInv /\ [Next]_vars => EInv'
  <1> SUFFICES ASSUME EInv, [Next]_vars PROVE EInv'
    OBVIOUS
  <1>1. TInv'
    BY TypeInductive DEF EInv
  <1>2. ASSUME Worker PROVE EventsOK'
    BY <1>2, WaitEvents, DispatchEvents, WriteEvents, ReadEvents DEF Worker
  <1>3. ASSUME Listener \/ Kernel PROVE EventsOK'
    BY <1>3, ListenerEvents, KernelEvents
  <1>4. ASSUME UNCHANGED vars PROVE EventsOK'
    BY <1>4, Zenon
    DEF vars, poolVars, epollVars, workerVars, clientVars, EInv, EventsOK, HandlerOK,
        LastReadOK, LastRead, Registered, Owed, Awaited, hasDataToWrite
  <1> QED
    BY <1>1, <1>2, <1>3, <1>4 DEF Next, EInv

\* A client that is owed a response is in the map and registered for EPOLLOUT,
\* unless a handler is at work on it (prepareWrite, modifyEvent, handleWrite's
\* rearm): whatever the interleaving of worker, listener and hangups.
THEOREM OwedStaysArmed == Spec => []OwedIsArmed
  <1>1. EInv => OwedIsArmed
    BY DEF EInv, EventsOK, Owed, OwedIsArmed
  <1>2. Init => EInv
    BY InitType, InitEvents DEF EInv
  <1> QED
    BY <1>1, <1>2, EInvInductive, PTL DEF Spec

\* Edge-triggered reading loses no wakeup (processEvents, handleRead): data
\* that is unread has an event on its way, or handleRead left it knowingly.
THEOREM WakeupsKept == Spec => []NoLostWakeup
  <1>1. EInv => NoLostWakeup
    BY DEF EInv, EventsOK, Awaited, NoLostWakeup, TInv, TypeOK
  <1>2. Init => EInv
    BY InitType, InitEvents DEF EInv
  <1> QED
    BY <1>1, <1>2, EInvInductive, PTL DEF Spec

-----------------------------------------------------------------------------
(* Responses as sequences: those delivered, followed by those queued. *)

Numbers(q) == [i \in DOMAIN q |-> q[i].msg]

Responses(c) == delivered[c] \o Numbers(queue[c])

\* The numbers of a queue's responses, in order.
LEMMA NumbersType ==
    ASSUME NEW q \in Seq(Response)
    PROVE  /\ Numbers(q) \in Seq(Nat) /\ Len(Numbers(q)) = Len(q) /\ Len(q) \in Nat
           /\ DOMAIN q = 1..Len(q)
           /\ \A i \in 1..Len(q) : Numbers(q)[i] = q[i].msg
  <1>1. \A i \in 1..Len(q) : q[i] \in Response
    BY ElementOfSeq
  <1>2. \A i \in 1..Len(q) : q[i].msg \in Nat
    BY <1>1 DEF Response
  <1>3. Len(q) \in Nat /\ DOMAIN q = 1..Len(q)
    BY LenProperties
  <1>4. Numbers(q) \in [1..Len(q) -> Nat]
    BY <1>2, <1>3 DEF Numbers
  <1> QED
    BY <1>3, <1>4, IsASeq, LenProperties DEF Numbers

\* Concatenation is associative.
LEMMA ConcatNumbers ==
    \A s, t, u \in Seq(Nat) : (s \o t) \o u = s \o (t \o u)
  <1>1. ASSUME NEW s \in Seq(Nat), NEW t \in Seq(Nat), NEW u \in Seq(Nat)
        PROVE  (s \o t) \o u = s \o (t \o u)
    BY ConcatAssociative, SMTT(30)
  <1> QED
    BY <1>1

\* Appending to the second of two sequences appends to both.
LEMMA ConcatAppend ==
    ASSUME NEW d \in Seq(Nat), NEW n \in Seq(Nat), NEW x \in Nat
    PROVE  d \o Append(n, x) = Append(d \o n, x)
  <1> DEFINE e == <<x>>
  <1>0. e \in Seq(Nat)
    OBVIOUS
  <1>1. Append(n, x) = n \o e
    BY AppendIsConcat
  <1>2. d \o n \in Seq(Nat)
    BY ConcatProperties
  <1>3. Append(d \o n, x) = (d \o n) \o e
    BY <1>2, AppendIsConcat
  <1> HIDE DEF e
  <1>4. (d \o n) \o e = d \o (n \o e)
    BY <1>0, ConcatNumbers, Zenon
  <1> QED
    BY <1>1, <1>3, <1>4, Zenon

\* n is t with x before it.
Shifts(n, t, x) ==
    Len(n) = Len(t) + 1 /\ n[1] = x /\ \A i \in 1..Len(t) : n[i + 1] = t[i]

\* Taking x from the front of a sequence and appending it to the one before.
LEMMA ConcatShift ==
    ASSUME NEW d \in Seq(Nat), NEW t \in Seq(Nat), NEW n \in Seq(Nat), NEW x \in Nat,
           Shifts(n, t, x)
    PROVE  Append(d, x) \o t = d \o n
  <1>0. Len(n) = Len(t) + 1 /\ n[1] = x /\ \A i \in 1..Len(t) : n[i + 1] = t[i]
    BY DEF Shifts
  <1> DEFINE e == <<x>>
  <1>1. e \in Seq(Nat) /\ Len(e) = 1 /\ e[1] = x
    OBVIOUS
  <1>2. Len(t) \in Nat
    BY LenProperties
  <1>3. /\ e \o t \in Seq(Nat) /\ Len(e \o t) = 1 + Len(t)
        /\ \A i \in 1..(1 + Len(t)) :
              (e \o t)[i] = IF i <= 1 THEN e[i] ELSE t[i - 1]
    BY <1>1, ConcatProperties
  <1> DEFINE m == e \o t
  <1>4. m[1] = n[1]
    BY <1>0, <1>1, <1>2, <1>3
  <1>5. ASSUME NEW i \in 1..Len(t) PROVE m[i + 1] = n[i + 1]
    <2>1. i + 1 \in 1..(1 + Len(t)) /\ ~(i + 1 <= 1) /\ (i + 1) - 1 = i
      BY <1>2
    <2>2. m[i + 1] = t[i]
      BY <1>3, <2>1
    <2> QED
      BY <1>0, <2>2
  <1>6. m \in Seq(Nat) /\ Len(m) = Len(n) /\ Len(n) = Len(t) + 1
    BY <1>0, <1>2, <1>3
  <1> HIDE DEF m
  <1>7. ASSUME NEW i \in 1..Len(m) PROVE m[i] = n[i]
    <2>1. CASE i = 1
      BY <1>4, <2>1
    <2>2. CASE i # 1
      <3>1. i - 1 \in 1..Len(t) /\ (i - 1) + 1 = i
        BY <1>2, <1>6, <2>2
      <3> QED
        BY <1>5, <3>1
    <2> QED
      BY <2>1, <2>2
  <1>8. m = n
    BY <1>6, <1>7, SeqEqual
  <1>9. Append(d, x) = d \o e
    BY AppendIsConcat
  <1>10. e \in Seq(Nat)
    BY <1>1
  <1> HIDE DEF e
  <1>11. (d \o e) \o t = d \o (e \o t)
    BY <1>10, ConcatNumbers, Zenon
  <1> QED
    BY <1>8, <1>9, <1>11, Zenon DEF m

\* A new response is the last.
LEMMA NumbersAppend ==
    ASSUME NEW d \in Seq(Nat), NEW q \in Seq(Response), NEW r \in Response
    PROVE  d \o Numbers(Append(q, r)) = Append(d \o Numbers(q), r.msg)
  <1>1. /\ Numbers(q) \in Seq(Nat) /\ Len(Numbers(q)) = Len(q) /\ Len(q) \in Nat
        /\ \A i \in 1..Len(q) : Numbers(q)[i] = q[i].msg
    BY NumbersType
  <1>2. /\ Append(q, r) \in Seq(Response) /\ Len(Append(q, r)) = Len(q) + 1
        /\ \A i \in 1..Len(q) : Append(q, r)[i] = q[i]
        /\ Append(q, r)[Len(q) + 1] = r
    BY AppendProperties
  <1>3. /\ Numbers(Append(q, r)) \in Seq(Nat)
        /\ Len(Numbers(Append(q, r))) = Len(q) + 1
        /\ \A i \in 1..(Len(q) + 1) : Numbers(Append(q, r))[i] = Append(q, r)[i].msg
    BY <1>2, NumbersType
  <1>4. r.msg \in Nat
    BY DEF Response
  <1>5. /\ Append(Numbers(q), r.msg) \in Seq(Nat)
        /\ Len(Append(Numbers(q), r.msg)) = Len(q) + 1
        /\ \A i \in 1..Len(q) : Append(Numbers(q), r.msg)[i] = Numbers(q)[i]
        /\ Append(Numbers(q), r.msg)[Len(q) + 1] = r.msg
    BY <1>1, <1>4, AppendProperties
  <1> DEFINE a == Numbers(Append(q, r))
             b == Append(Numbers(q), r.msg)
  <1>6. ASSUME NEW i \in 1..Len(q) PROVE a[i] = b[i]
    <2>1. i \in 1..(Len(q) + 1)
      BY <1>1
    <2> QED
      BY <1>1, <1>2, <1>3, <1>5, <2>1
  <1>7. a[Len(q) + 1] = b[Len(q) + 1]
    <2>1. Len(q) + 1 \in 1..(Len(q) + 1)
      BY <1>1
    <2> QED
      BY <1>2, <1>3, <1>5, <2>1
  <1>8. a \in Seq(Nat) /\ b \in Seq(Nat) /\ Len(a) = Len(q) + 1 /\ Len(b) = Len(q) + 1
    BY <1>3, <1>5
  <1> HIDE DEF a, b
  <1>9. ASSUME NEW i \in 1..Len(a) PROVE a[i] = b[i]
    <2>1. i \in 1..Len(q) \/ i = Len(q) + 1
      BY <1>1, <1>8
    <2> QED
      BY <1>6, <1>7, <2>1
  <1>10. a = b
    BY <1>8, <1>9, SeqEqual
  <1>11. d \o b = Append(d \o Numbers(q), r.msg)
    BY <1>1, <1>4, ConcatAppend DEF b
  <1> QED
    BY <1>10, <1>11, Zenon DEF a

\* Sending the first of the queue moves its number to the delivered ones.
LEMMA NumbersPop ==
    ASSUME NEW d \in Seq(Nat), NEW q \in Seq(Response), q # <<>>
    PROVE  /\ Append(d, Head(q).msg) \in Seq(Nat)
           /\ Append(d, Head(q).msg) \o Numbers(Tail(q)) = d \o Numbers(q)
  <1>1. /\ Head(q) \in Response /\ Head(q) = q[1] /\ Tail(q) \in Seq(Response)
        /\ Len(q) \in Nat /\ Len(q) > 0 /\ Len(Tail(q)) = Len(q) - 1
        /\ \A i \in 1..(Len(q) - 1) : Tail(q)[i] = q[i + 1]
    BY HeadTailProperties, LenProperties, EmptySeq
  <1>2. Head(q).msg \in Nat
    BY <1>1 DEF Response
  <1>3. /\ Numbers(q) \in Seq(Nat) /\ Len(Numbers(q)) = Len(q)
        /\ \A i \in 1..Len(q) : Numbers(q)[i] = q[i].msg
    BY NumbersType
  <1>4. /\ Numbers(Tail(q)) \in Seq(Nat) /\ Len(Numbers(Tail(q))) = Len(q) - 1
        /\ \A i \in 1..(Len(q) - 1) : Numbers(Tail(q))[i] = Tail(q)[i].msg
    BY <1>1, NumbersType
  <1> DEFINE n == Numbers(q)
             t == Numbers(Tail(q))
             x == Head(q).msg
  <1>5. Len(n) = Len(t) + 1
    <2>1. Len(n) = Len(q) /\ Len(t) = Len(q) - 1 /\ Len(q) \in Nat
      BY <1>1, <1>3, <1>4, Zenon
    <2>2. \A k \in Nat : k = (k - 1) + 1
      OBVIOUS
    <2> HIDE DEF n, t
    <2> QED
      BY <2>1, <2>2, Zenon
  <1>6. n[1] = x
    BY <1>1, <1>3
  <1>7. ASSUME NEW i \in 1..Len(t) PROVE n[i + 1] = t[i]
    <2>1. i \in 1..(Len(q) - 1) /\ i + 1 \in 1..Len(q)
      BY <1>1, <1>4
    <2> QED
      BY <1>1, <1>3, <1>4, <2>1
  <1>8. n \in Seq(Nat) /\ t \in Seq(Nat) /\ x \in Nat
    BY <1>2, <1>3, <1>4
  <1> HIDE DEF n, t, x
  <1>9. Shifts(n, t, x)
    BY <1>5, <1>6, <1>7 DEF Shifts
  <1>10. Append(d, x) \in Seq(Nat)
    BY <1>8, AppendProperties
  <1>11. Append(d, x) \o t = d \o n
    BY <1>8, <1>9, ConcatShift
  <1> QED
    BY <1>10, <1>11, Zenon DEF n, t, x

\* A response sent in part keeps its number.
LEMMA NumbersPart ==
    ASSUME NEW q \in Seq(Response), NEW p, p \in Seq(Response), Len(p) = Len(q),
           \A i \in 1..Len(q) : p[i].msg = q[i].msg
    PROVE  Numbers(p) = Numbers(q)
  <1>1. /\ Numbers(q) \in Seq(Nat) /\ Len(Numbers(q)) = Len(q)
        /\ \A i \in 1..Len(q) : Numbers(q)[i] = q[i].msg
    BY NumbersType
  <1>2. /\ Numbers(p) \in Seq(Nat) /\ Len(Numbers(p)) = Len(q)
        /\ \A i \in 1..Len(q) : Numbers(p)[i] = p[i].msg
    BY NumbersType
  <1> HIDE DEF Numbers
  <1>3. \A i \in 1..Len(Numbers(p)) : Numbers(p)[i] = Numbers(q)[i]
    BY <1>1, <1>2
  <1> QED
    BY <1>1, <1>2, <1>3, SeqEqual

\* An empty queue has no numbers.
LEMMA NumbersEmpty ==
    ASSUME NEW d \in Seq(Nat)
    PROVE  Numbers(<<>>) = <<>> /\ d \o Numbers(<<>>) = d
  <1>1. Numbers(<<>>) = <<>>
    BY DEF Numbers
  <1> QED
    BY <1>1, ConcatEmptySeq
\* Responses are those delivered, then those queued.
LEMMA ResponsesType ==
    ASSUME TInv, NEW c \in Clients
    PROVE  /\ delivered[c] \in Seq(Nat) /\ queue[c] \in Seq(Response)
           /\ Numbers(queue[c]) \in Seq(Nat) /\ Responses(c) \in Seq(Nat)
           /\ Len(delivered[c]) \in Nat /\ Len(queue[c]) \in Nat
           /\ Len(Responses(c)) = Len(delivered[c]) + Len(queue[c])
  <1>1. delivered[c] \in Seq(Nat) /\ queue[c] \in Seq(Response)
    BY DEF TInv, TypeOK
  <1>2. Numbers(queue[c]) \in Seq(Nat) /\ Len(Numbers(queue[c])) = Len(queue[c])
    BY <1>1, NumbersType
  <1>3. /\ Responses(c) \in Seq(Nat)
        /\ Len(Responses(c)) = Len(delivered[c]) + Len(Numbers(queue[c]))
    BY <1>1, <1>2, ConcatProperties DEF Responses
  <1>4. Len(delivered[c]) \in Nat /\ Len(queue[c]) \in Nat
    BY <1>1, LenProperties
  <1> QED
    BY <1>1, <1>2, <1>3, <1>4

-----------------------------------------------------------------------------
(* What a step of the session does to the responses. *)

\* Nothing is accepted, sent or given up.
Quiet ==
    /\ delivered' = delivered /\ closed' = closed
    /\ \A c \in Clients : Responses(c)' = Responses(c)

\* A response is sent in full.
Sends(c) ==
    /\ c \in Clients /\ pc = "write" /\ pc' = "write" /\ closed' = closed
    /\ queue[c] # <<>>
    /\ delivered' = [delivered EXCEPT ![c] = Append(@, Head(queue[c]).msg)]
    /\ \A d \in Clients : Responses(d)' = Responses(d)

\* A connection is closed, and what is queued for it is given up.
GivesUp(c) ==
    /\ c \in Clients /\ pc \in {"dispatch", "write", "readIO"} /\ pc' # "killed"
    /\ closed' = closed \cup {c} /\ delivered' = delivered
    /\ queue'[c] = <<>> /\ Responses(c)' = delivered[c]
    /\ \A d \in Clients : d # c => Responses(d)' = Responses(d)

\* The message that the chunk starts with is answered, or Garbage.
Accepts(m) ==
    /\ pc = "parse" /\ pc' \in {"read", "dispatch"}
    /\ UNCHANGED <<closed, delivered, taken>>
    /\ \/ m = Garbage
       \/ Stream[cur][chunk.from].size > 0 /\ m = Stream[cur][chunk.from].msg
    /\ Responses(cur) \in Seq(Nat)
    /\ \A d \in Clients :
          Responses(d)' = IF d = cur THEN Append(Responses(d), m) ELSE Responses(d)

\* Where queues, deliveries and closes stay, nothing happens.
LEMMA QuietUnchanged ==
    ASSUME UNCHANGED <<queue, delivered, closed>>
    PROVE  Quiet
  BY DEF Quiet, Responses

\* handleClose clears the client's queue and no other.
LEMMA CloseGivesUp ==
    ASSUME TInv, NEW c \in Clients, handleClose(c), delivered' = delivered,
           pc \in {"dispatch", "write", "readIO"}, pc' # "killed"
    PROVE  GivesUp(c)
  <1>1. /\ queue'[c] = <<>> /\ closed' = closed \cup {c}
        /\ \A d \in Clients : d # c => queue'[d] = queue[d]
    BY CloseEvents
  <1>2. Responses(c)' = delivered[c]
    BY <1>1, NumbersEmpty, ResponsesType DEF Responses
  <1>3. \A d \in Clients : d # c => Responses(d)' = Responses(d)
    BY <1>1 DEF Responses
  <1> QED
    BY <1>1, <1>2, <1>3 DEF GivesUp

\* A write ends the first response of the queue, or a part of it.
LEMMA WriteSomeEffect ==
    ASSUME TInv, NEW k \in 1..SendSpace, WriteSome(k)
    PROVE  Sends(cur) \/ (Quiet /\ pc' = "rearm")
  <1> DEFINE q == queue[cur]
             head == Head(q)
  <1>1. /\ cur \in Clients /\ q \in Seq(Response) /\ q # <<>>
        /\ pc = "write" /\ closed' = closed
    BY DEF WriteSome, WorkerOK, TypeOK, TInv, hasDataToWrite
  <1>2. CASE k = head.left
    <2>1. /\ queue' = [queue EXCEPT ![cur] = Tail(q)]
          /\ delivered' = [delivered EXCEPT ![cur] = Append(@, head.msg)]
          /\ pc' = "write"
      BY <1>1, <1>2 DEF WriteSome
    <2>2. /\ queue'[cur] = Tail(q)
          /\ delivered'[cur] = Append(delivered[cur], head.msg)
          /\ \A d \in Clients : d # cur =>
                queue'[d] = queue[d] /\ delivered'[d] = delivered[d]
      BY <1>1, <2>1 DEF TInv, TypeOK
    <2>3. Append(delivered[cur], head.msg) \o Numbers(Tail(q)) = Responses(cur)
      BY <1>1, NumbersPop, ResponsesType DEF Responses
    <2>4. \A d \in Clients : Responses(d)' = Responses(d)
      <3> SUFFICES ASSUME NEW d \in Clients
                   PROVE  delivered'[d] \o Numbers(queue'[d])
                             = delivered[d] \o Numbers(queue[d])
        BY DEF Responses
      <3>1. CASE d = cur
        BY <2>2, <2>3, <3>1 DEF Responses
      <3>2. CASE d # cur
        BY <2>2, <3>2
      <3> QED
        BY <3>1, <3>2
    <2> QED
      BY <1>1, <2>1, <2>4 DEF Sends
  <1>3. CASE k # head.left
    <2> DEFINE rest == [q[1] EXCEPT !.left = @ - k]
               p == [q EXCEPT ![1] = rest]
    <2>1. /\ queue' = [queue EXCEPT ![cur] = p]
          /\ delivered' = delivered /\ pc' = "rearm" /\ k <= head.left
      BY <1>1, <1>3 DEF WriteSome
    <2>2. /\ head \in Response /\ head = q[1] /\ 1 \in 1..Len(q)
      BY <1>1, HeadTailProperties, LenProperties, EmptySeq
    <2>3. rest \in Response /\ rest.msg = q[1].msg
      <3>1. /\ q[1] \in [buf : Buffers, msg : Nat, left : 1..BufferSize]
            /\ q[1].left - k \in 1..BufferSize
        BY <1>3, <2>1, <2>2, SizeAssumption DEF Response
      <3> QED
        BY <3>1 DEF Response
    <2> HIDE DEF rest
    <2>4. /\ p \in Seq(Response) /\ Len(p) = Len(q)
          /\ \A i \in 1..Len(q) : p[i] = IF i = 1 THEN rest ELSE q[i]
      BY <1>1, <2>2, <2>3, ExceptSeq
    <2>5. \A i \in 1..Len(q) : p[i].msg = q[i].msg
      BY <2>3, <2>4
    <2> HIDE DEF p, q
    <2>6. Numbers(p) = Numbers(q)
      BY <1>1, <2>4, <2>5, NumbersPart
    <2>7. /\ queue'[cur] = p
          /\ \A d \in Clients : d # cur => queue'[d] = queue[d]
      BY <1>1, <2>1 DEF TInv, TypeOK
    <2>8. \A d \in Clients : Responses(d)' = Responses(d)
      <3> SUFFICES ASSUME NEW d \in Clients
                   PROVE  delivered'[d] \o Numbers(queue'[d])
                             = delivered[d] \o Numbers(queue[d])
        BY DEF Responses
      <3>1. CASE d = cur
        BY <2>1, <2>6, <2>7, <3>1 DEF q
      <3>2. CASE d # cur
        BY <2>1, <2>7, <3>2
      <3> QED
        BY <3>1, <3>2
    <2> QED
      BY <1>1, <2>1, <2>8 DEF Quiet
  <1> QED
    BY <1>2, <1>3

\* An answer is queued last.
LEMMA ParseEchoesEffect ==
    ASSUME TInv, ParseEchoes
    PROVE  \E m \in Nat : Accepts(m)
  <1>1. /\ pc = "parse" /\ cur \in Clients /\ hasAvailableBuffers /\ ParseDone
        /\ UNCHANGED <<closed, delivered, taken>>
        /\ chunk.from \in 1..Len(Stream[cur]) /\ chunk.len \in 1..BufferSize
    BY DEF ParseEchoes, TInv, WorkerOK, clientVars
  <1>2. PICK e \in Echoes :
            queue' = [queue EXCEPT ![cur] =
                        Append(@, [buf |-> Head(free), msg |-> e.msg, left |-> e.left])]
    BY DEF ParseEchoes, addToClientQueue
  <1> DEFINE first == Stream[cur][chunk.from]
             r == [buf |-> Head(free), msg |-> e.msg, left |-> e.left]
  <1>3. first \in [msg : Nat \ {0}, size : 0..BufferSize]
    BY <1>1, StreamType, ElementOfSeq
  <1>4. /\ e.msg \in Nat /\ e.left \in 1..BufferSize
        /\ e.msg = Garbage \/ (first.size > 0 /\ e.msg = first.msg)
    <2>1. CASE first.size > 0
      <3>1. e.msg = first.msg /\ e.left = first.size
        BY <1>2, <2>1 DEF Echoes
      <3> QED
        BY <1>3, <2>1, <3>1
    <2>2. CASE ~(first.size > 0)
      <3>1. e \in [msg : {Garbage}, left : 1..chunk.len]
        BY <1>2, <2>2 DEF Echoes
      <3> QED
        BY <1>1, <3>1, SizeAssumption DEF Garbage
    <2> QED
      BY <2>1, <2>2
  <1>5. Head(free) \in Buffers
    BY <1>1, HeadTailProperties DEF TInv, TypeOK, hasAvailableBuffers
  <1>6. r \in Response /\ r.msg = e.msg
    BY <1>4, <1>5 DEF Response
  <1> HIDE DEF r
  <1>7. /\ queue'[cur] = Append(queue[cur], r)
        /\ \A d \in Clients : d # cur => queue'[d] = queue[d]
    BY <1>1, <1>2 DEF TInv, TypeOK, r
  <1>8. delivered[cur] \o Numbers(Append(queue[cur], r)) = Append(Responses(cur), e.msg)
    BY <1>1, <1>6, NumbersAppend, ResponsesType DEF Responses
  <1>9. ASSUME NEW d \in Clients
        PROVE  Responses(d)' = IF d = cur THEN Append(Responses(d), e.msg) ELSE Responses(d)
    <2>1. Responses(d)' = delivered[d] \o Numbers(queue'[d])
      BY <1>1 DEF Responses
    <2>2. CASE d = cur
      BY <1>7, <1>8, <2>1, <2>2
    <2>3. CASE d # cur
      BY <1>7, <2>1, <2>3 DEF Responses
    <2> QED
      BY <2>2, <2>3
  <1>10. pc' \in {"read", "dispatch"}
    BY <1>1 DEF ParseDone, AfterRead
  <1>11. Responses(cur) \in Seq(Nat)
    BY <1>1, ResponsesType
  <1> QED
    BY <1>1, <1>4, <1>9, <1>10, <1>11 DEF Accepts
\* Every step does one of these things; only a write ends the process.
LEMMA StepEffect ==
    ASSUME TInv, [Next]_vars
    PROVE  \/ Quiet /\ (pc = "killed" <=> pc' = "killed")
           \/ Quiet /\ pc = "write" /\ pc' = "killed"
           \/ \E c \in Clients : Sends(c)
           \/ \E c \in Clients : GivesUp(c)
           \/ \E m \in Nat : Accepts(m)
  <1>1. CASE handleWrite
    <2>1. ASSUME NEW k \in 1..SendSpace, WriteSome(k)
          PROVE  Sends(cur) \/ (Quiet /\ pc = "write" /\ pc' = "rearm")
      BY <2>1, WriteSomeEffect DEF WriteSome
    <2>2. cur \in Clients
      BY <1>1 DEF handleWrite, WriteSome, WriteStops, WriteFails, WriteRaises, Rearm,
                  TInv, WorkerOK
    <2>3. CASE WriteStops
      BY <2>3, QuietUnchanged DEF WriteStops, poolVars
    <2>4. CASE WriteFails
      BY <2>2, <2>4, CloseGivesUp DEF WriteFails, AfterWrite
    <2>5. CASE WriteRaises
      BY <2>5, QuietUnchanged DEF WriteRaises, poolVars
    <2>6. CASE Rearm
      BY <2>6, QuietUnchanged DEF Rearm, AfterWrite, poolVars
    <2> QED
      BY <1>1, <2>1, <2>2, <2>3, <2>4, <2>5, <2>6 DEF handleWrite
  <1>2. CASE handleRead
    <2>1. CASE ReadAllocate \/ ReadSome
      BY <2>1, QuietUnchanged DEF ReadAllocate, ReadSome, poolVars
    <2>2. CASE ReadGivesUp \/ ReadNothing
      BY <2>2, QuietUnchanged DEF ReadGivesUp, ReadNothing, AfterRead, poolVars
    <2>3. CASE ReadFails
      BY <2>3, CloseGivesUp DEF ReadFails, AfterRead, TInv, WorkerOK
    <2>4. CASE ParseDrops
      BY <2>4, QuietUnchanged DEF ParseDrops, ParseDone, AfterRead
    <2>5. CASE ParseEchoes
      BY <2>5, ParseEchoesEffect
    <2> QED
      BY <1>2, <2>1, <2>2, <2>3, <2>4, <2>5 DEF handleRead
  <1>3. ASSUME NEW c \in Clients,
               DispatchUnknown(c) \/ DispatchHangup(c) \/ DispatchIO(c)
        PROVE  (Quiet /\ (pc = "killed" <=> pc' = "killed")) \/ GivesUp(c)
    <2>1. CASE DispatchUnknown(c) \/ DispatchIO(c)
      BY <2>1, QuietUnchanged DEF DispatchUnknown, DispatchIO, poolVars
    <2>2. CASE DispatchHangup(c)
      BY <2>2, CloseGivesUp DEF DispatchHangup
    <2> QED
      BY <1>3, <2>1, <2>2
  <1>4. CASE WaitForEvents \/ BatchDone
    BY <1>4, QuietUnchanged DEF WaitForEvents, BatchDone, poolVars
  <1>5. CASE Listener \/ Kernel \/ UNCHANGED vars
    <2>1. UNCHANGED <<queue, delivered, closed, pc>>
      BY <1>5 DEF Listener, Kernel, AddRegister, AddInsert, Arrive, Drain, Hangup,
                  poolVars, workerVars, vars
    <2> QED
      BY <2>1, QuietUnchanged
  <1> QED
    BY <1>1, <1>2, <1>3, <1>4, <1>5 DEF Next, Worker

-----------------------------------------------------------------------------
(* Order.  How far the worker has read client c's stream, the chunk it is  *)
(* looking at excluded; every response comes from a message before that.   *)

ReadUpTo(c) == IF pc = "parse" /\ c = cur THEN chunk.from - 1 ELSE taken[c]

Ordered(s) ==
    \A i, j \in DOMAIN s :
        i < j /\ s[i] # Garbage /\ s[j] # Garbage => s[i] < s[j]

FromStream(s, c, n) ==
    \A i \in DOMAIN s : s[i] # Garbage =>
        \E p \in 1..n : Stream[c][p].size > 0 /\ s[i] = Stream[c][p].msg

ChunkOK == pc = "parse" => chunk.from <= taken[cur]

OrderOK ==
    /\ ChunkOK
    /\ \A c \in Clients : /\ Ordered(Responses(c))
                          /\ FromStream(Responses(c), c, ReadUpTo(c))

OInv == TInv /\ OrderOK

\* What has been looked at is a stretch of the stream.
LEMMA ReadUpToType ==
    ASSUME TInv, ChunkOK, NEW c \in Clients
    PROVE  ReadUpTo(c) \in Nat /\ ReadUpTo(c) <= Len(Stream[c])
  <1>1. /\ taken[c] \in Nat /\ sent[c] \in Nat /\ taken[c] <= sent[c]
        /\ sent[c] <= Len(Stream[c]) /\ Len(Stream[c]) \in Nat
    BY StreamType DEF TInv, TypeOK, StreamsOK
  <1>2. CASE pc = "parse" /\ c = cur
    <2>1. chunk.from \in 1..Len(Stream[c])
      BY <1>2 DEF TInv, WorkerOK
    <2> QED
      BY <1>1, <1>2, <2>1 DEF ReadUpTo
  <1>3. CASE ~(pc = "parse" /\ c = cur)
    BY <1>1, <1>3 DEF ReadUpTo
  <1> QED
    BY <1>2, <1>3

\* The same of the next state.
LEMMA ReadUpToTypeNext ==
    ASSUME TInv', ChunkOK', NEW c \in Clients
    PROVE  ReadUpTo(c)' \in Nat
  <1>1. (taken[c] \in Nat)'
    BY DEF TInv, TypeOK
  <1>2. (pc = "parse" => chunk.from \in 1..Len(Stream[cur]))'
    BY DEF TInv, WorkerOK
  <1> QED
    BY <1>1, <1>2 DEF ReadUpTo

\* The worker only reads forward.
LEMMA ReadUpToGrows ==
    ASSUME TInv, ChunkOK, [Next]_vars, TInv'
    PROVE  /\ ChunkOK'
           /\ \A c \in Clients : ReadUpTo(c) <= ReadUpTo(c)'
  <1>1. CASE UNCHANGED <<pc, cur, chunk, taken>>
    BY <1>1, ReadUpToType DEF ChunkOK, ReadUpTo
  <1>2. CASE pc # "parse" /\ pc' # "parse" /\ UNCHANGED taken
    BY <1>2, ReadUpToType DEF ChunkOK, ReadUpTo
  <1>3. CASE ReadSome
    <2> DEFINE there == sent[cur] - taken[cur]
               n == IF there < BufferSize THEN there ELSE BufferSize
    <2>1. /\ pc = "readIO" /\ pc' = "parse" /\ cur' = cur /\ cur \in Clients
          /\ chunk'.from = taken[cur] + 1
          /\ taken'[cur] = taken[cur] + n
          /\ \A c \in Clients : c # cur => taken'[c] = taken[c]
      BY <1>3 DEF ReadSome, TInv, TypeOK, WorkerOK
    <2>2. sent[cur] \in Nat /\ taken[cur] \in Nat /\ sent[cur] > taken[cur]
      BY <1>3, <2>1 DEF ReadSome, TInv, TypeOK
    <2>3. n \in Nat /\ n >= 1
      BY <2>2, SizeAssumption
    <2> HIDE DEF n
    <2>4. ChunkOK'
      BY <2>1, <2>2, <2>3 DEF ChunkOK
    <2>5. ASSUME NEW c \in Clients PROVE ReadUpTo(c) <= ReadUpTo(c)'
      <3>1. taken[c] \in Nat
        BY DEF TInv, TypeOK
      <3>2. CASE c = cur
        BY <2>1, <2>2, <2>3, <3>2 DEF ReadUpTo
      <3>3. CASE c # cur
        BY <2>1, <3>1, <3>3 DEF ReadUpTo
      <3> QED
        BY <3>2, <3>3
    <2> QED
      BY <2>4, <2>5
  <1>4. CASE pc = "parse" /\ pc' # "parse" /\ UNCHANGED taken
    <2>1. /\ cur \in Clients /\ chunk.from \in 1..Len(Stream[cur])
          /\ chunk.from <= taken[cur] /\ taken[cur] \in Nat
      BY <1>4 DEF TInv, TypeOK, WorkerOK, ChunkOK
    <2>2. ASSUME NEW c \in Clients PROVE ReadUpTo(c) <= ReadUpTo(c)'
      <3>0. taken[c] \in Nat /\ Len(Stream[cur]) \in Nat
        BY <2>1, StreamType DEF TInv, TypeOK
      <3>1. CASE c = cur
        BY <1>4, <2>1, <3>0, <3>1 DEF ReadUpTo
      <3>2. CASE c # cur
        BY <1>4, <3>0, <3>2 DEF ReadUpTo
      <3> QED
        BY <3>1, <3>2
    <2> QED
      BY <1>4, <2>2 DEF ChunkOK
  <1>5. CASE handleWrite
    BY <1>5, <1>2 DEF handleWrite, WriteSome, WriteStops, WriteFails, WriteRaises,
                      Rearm, AfterWrite, clientVars
  <1>6. CASE handleRead
    <2>1. CASE ReadAllocate \/ ReadGivesUp \/ ReadNothing \/ ReadFails
      BY <1>2, <2>1 DEF ReadAllocate, ReadGivesUp, ReadNothing, ReadFails, AfterRead,
                        clientVars
    <2>2. CASE ParseEchoes \/ ParseDrops
      BY <1>4, <2>2 DEF ParseEchoes, ParseDrops, ParseDone, AfterRead, clientVars
    <2> QED
      BY <1>3, <1>6, <2>1, <2>2 DEF handleRead
  <1>7. CASE \E c \in Clients :
                DispatchUnknown(c) \/ DispatchHangup(c) \/ DispatchIO(c)
    BY <1>2, <1>7 DEF DispatchUnknown, DispatchHangup, DispatchIO, clientVars
  <1>8. CASE WaitForEvents \/ BatchDone
    BY <1>2, <1>8 DEF WaitForEvents, BatchDone, clientVars
  <1>9. CASE Listener \/ Kernel \/ UNCHANGED vars
    BY <1>1, <1>9 DEF Listener, Kernel, AddRegister, AddInsert, Arrive, Drain, Hangup,
                      workerVars, clientVars, vars
  <1> QED
    BY <1>5, <1>6, <1>7, <1>8, <1>9 DEF Next, Worker
\* A prefix of an ordered sequence is ordered.
LEMMA OrderedPrefix ==
    ASSUME NEW d \in Seq(Nat), NEW e \in Seq(Nat), NEW c, NEW n \in Nat,
           Ordered(d \o e), FromStream(d \o e, c, n)
    PROVE  Ordered(d) /\ FromStream(d, c, n)
  <1>1. /\ Len(d) \in Nat /\ Len(e) \in Nat
        /\ d \o e \in Seq(Nat) /\ Len(d \o e) = Len(d) + Len(e)
        /\ \A i \in 1..(Len(d) + Len(e)) :
              (d \o e)[i] = IF i <= Len(d) THEN d[i] ELSE e[i - Len(d)]
    BY ConcatProperties, LenProperties
  <1>2. /\ DOMAIN d = 1..Len(d) /\ DOMAIN (d \o e) = 1..(Len(d) + Len(e))
    BY <1>1, LenProperties
  <1>3. \A i \in DOMAIN d : i \in DOMAIN (d \o e) /\ (d \o e)[i] = d[i]
    BY <1>1, <1>2
  <1> QED
    BY <1>3 DEF Ordered, FromStream

\* Appending what is later than all the rest keeps the order.
LEMMA OrderedAppend ==
    ASSUME NEW s \in Seq(Nat), NEW m \in Nat, Ordered(s),
           m = Garbage \/ \A i \in DOMAIN s : s[i] # Garbage => s[i] < m
    PROVE  Ordered(Append(s, m))
  <1> DEFINE t == Append(s, m)
  <1>1. /\ Len(s) \in Nat /\ DOMAIN s = 1..Len(s) /\ DOMAIN t = 1..(Len(s) + 1)
        /\ \A i \in 1..Len(s) : t[i] = s[i]
        /\ t[Len(s) + 1] = m
    BY AppendProperties, LenProperties
  <1> HIDE DEF t
  <1>2. Ordered(t)
    <2> SUFFICES ASSUME NEW i \in DOMAIN t, NEW j \in DOMAIN t,
                        i < j, t[i] # Garbage, t[j] # Garbage
                 PROVE  t[i] < t[j]
      BY DEF Ordered
    <2>1. i \in DOMAIN s /\ t[i] = s[i]
      BY <1>1
    <2>2. CASE j \in DOMAIN s
      BY <1>1, <2>1, <2>2 DEF Ordered
    <2>3. CASE j \notin DOMAIN s
      <3>1. t[j] = m
        BY <1>1, <2>3
      <3> QED
        BY <2>1, <3>1
    <2> QED
      BY <2>2, <2>3
  <1> QED
    BY <1>2 DEF t

\* One more response of a message that was looked at.
LEMMA FromStreamAppend ==
    ASSUME NEW s \in Seq(Nat), NEW m \in Nat, NEW c, NEW n \in Nat,
           FromStream(s, c, n),
           m # Garbage => \E p \in 1..n : Stream[c][p].size > 0 /\ m = Stream[c][p].msg
    PROVE  FromStream(Append(s, m), c, n)
  <1> DEFINE t == Append(s, m)
  <1>1. /\ Len(s) \in Nat /\ DOMAIN s = 1..Len(s) /\ DOMAIN t = 1..(Len(s) + 1)
        /\ \A i \in 1..Len(s) : t[i] = s[i]
        /\ t[Len(s) + 1] = m
    BY AppendProperties, LenProperties
  <1> HIDE DEF t
  <1>2. ASSUME NEW i \in DOMAIN t, t[i] # Garbage
        PROVE  \E p \in 1..n : Stream[c][p].size > 0 /\ t[i] = Stream[c][p].msg
    <2>1. CASE i \in DOMAIN s
      BY <1>1, <1>2, <2>1 DEF FromStream
    <2>2. CASE i \notin DOMAIN s
      <3>1. t[i] = m
        BY <1>1, <2>2
      <3> QED
        BY <1>2, <3>1
    <2> QED
      BY <2>1, <2>2
  <1> QED
    BY <1>2 DEF t, FromStream

\* Responses stay answers when more of the stream is looked at.
LEMMA FromStreamGrows ==
    ASSUME NEW s, NEW c, NEW m \in Nat, NEW n \in Nat, m <= n, FromStream(s, c, m)
    PROVE  FromStream(s, c, n)
  <1>1. \A p \in 1..m : p \in 1..n
    OBVIOUS
  <1> QED
    BY <1>1 DEF FromStream

\* The message a chunk starts with is later than all that were answered.
LEMMA AcceptedIsNew ==
    ASSUME TInv, OrderOK, NEW m \in Nat, Accepts(m)
    PROVE  /\ m = Garbage \/ \A i \in DOMAIN Responses(cur) :
                    Responses(cur)[i] # Garbage => Responses(cur)[i] < m
           /\ m # Garbage => \E p \in 1..taken[cur] :
                    Stream[cur][p].size > 0 /\ m = Stream[cur][p].msg
  <1> SUFFICES ASSUME m # Garbage
               PROVE  /\ \A i \in DOMAIN Responses(cur) :
                            Responses(cur)[i] # Garbage => Responses(cur)[i] < m
                      /\ \E p \in 1..taken[cur] :
                            Stream[cur][p].size > 0 /\ m = Stream[cur][p].msg
    OBVIOUS
  <1> DEFINE s == Responses(cur)
             q == chunk.from
  <1>1. /\ pc = "parse" /\ cur \in Clients /\ q \in 1..Len(Stream[cur])
        /\ Stream[cur][q].size > 0 /\ m = Stream[cur][q].msg
        /\ q <= taken[cur] /\ taken[cur] \in Nat /\ Len(Stream[cur]) \in Nat
    BY StreamType DEF Accepts, TInv, TypeOK, WorkerOK, OrderOK, ChunkOK
  <1>2. q \in 1..taken[cur]
    BY <1>1
  <1>3. ReadUpTo(cur) = q - 1 /\ FromStream(s, cur, q - 1)
    BY <1>1 DEF ReadUpTo, OrderOK
  <1>4. DOMAIN Stream[cur] = 1..Len(Stream[cur])
    BY <1>1, StreamType, LenProperties
  <1> HIDE DEF s, q
  <1>5. ASSUME NEW i \in DOMAIN s, s[i] # Garbage PROVE s[i] < m
    <2>1. PICK p \in 1..(q - 1) : Stream[cur][p].size > 0 /\ s[i] = Stream[cur][p].msg
      BY <1>3, <1>5 DEF FromStream
    <2>2. p \in DOMAIN Stream[cur] /\ q \in DOMAIN Stream[cur] /\ p < q
      BY <1>1, <1>4, <2>1
    <2> QED
      BY <1>1, <2>1, <2>2, NumberingAssumption
  <1> QED
    BY <1>1, <1>2, <1>5 DEF s, q

\* There are no responses at first.
LEMMA InitOrder == Init => OrderOK
  <1> SUFFICES ASSUME Init PROVE OrderOK
    OBVIOUS
  <1>1. \A c \in Clients : Responses(c) = <<>>
    BY NumbersEmpty, EmptySeq DEF Init, Responses
  <1>2. DOMAIN <<>> = {}
    OBVIOUS
  <1>3. \A c \in Clients : Ordered(Responses(c)) /\ FromStream(Responses(c), c, ReadUpTo(c))
    BY <1>1, <1>2 DEF Ordered, FromStream
  <1> QED
    BY <1>3 DEF Init, OrderOK, ChunkOK

\* Every step keeps the order.
LEMMA OInvInductive == OInv /\ [Next]_vars => OInv'
  <1> SUFFICES ASSUME OInv, [Next]_vars PROVE OInv'
    OBVIOUS
  <1>1. TInv /\ TInv' /\ ChunkOK /\ OrderOK
    BY TypeInductive DEF OInv, OrderOK
  <1>2. ChunkOK' /\ \A c \in Clients : ReadUpTo(c) <= ReadUpTo(c)'
    BY <1>1, ReadUpToGrows
  <1>3. ASSUME NEW c \in Clients
        PROVE  (Ordered(Responses(c)) /\ FromStream(Responses(c), c, ReadUpTo(c)))'
    <2>1. PICK m \in Nat : m = ReadUpTo(c)
      BY <1>1, ReadUpToType
    <2>2. ReadUpTo(c)' \in Nat
      BY <1>1, <1>2, ReadUpToTypeNext
    <2>3. PICK n \in Nat : n = ReadUpTo(c)' /\ m <= n
      BY <1>2, <2>1, <2>2
    <2>4. PICK s \in Seq(Nat) : s = Responses(c)
      BY <1>1, ResponsesType
    <2>5. Ordered(s) /\ FromStream(s, c, m)
      BY <1>1, <2>1, <2>4 DEF OrderOK
    <2>6. ASSUME NEW t, t = Responses(c)', Ordered(t), FromStream(t, c, n)
          PROVE  (Ordered(Responses(c)) /\ FromStream(Responses(c), c, ReadUpTo(c)))'
      BY <2>3, <2>6 DEF Ordered, FromStream
    <2>7. FromStream(s, c, n)
      BY <2>3, <2>5, FromStreamGrows
    <2>8. CASE Responses(c)' = Responses(c)
      BY <2>4, <2>5, <2>6, <2>7, <2>8
    <2>9. CASE Responses(c)' = delivered[c]
      <3>1. s = delivered[c] \o Numbers(queue[c])
        BY <2>4 DEF Responses
      <3>2. Ordered(delivered[c]) /\ FromStream(delivered[c], c, n)
        BY <1>1, <2>5, <2>7, <3>1, OrderedPrefix, ResponsesType
      <3> QED
        BY <2>6, <2>9, <3>2
    <2>10. ASSUME NEW a \in Nat, Accepts(a), c = cur
           PROVE  (Ordered(Responses(c)) /\ FromStream(Responses(c), c, ReadUpTo(c)))'
      <3>1. Responses(c)' = Append(s, a)
        BY <2>4, <2>10 DEF Accepts
      <3>2. n = taken[c]
        <4>1. taken' = taken /\ pc' # "parse"
          BY <2>10 DEF Accepts
        <4> QED
          BY <2>3, <4>1 DEF ReadUpTo
      <3>3. Ordered(Append(s, a))
        BY <1>1, <2>4, <2>5, <2>10, AcceptedIsNew, OrderedAppend
      <3>4. FromStream(Append(s, a), c, n)
        BY <1>1, <2>4, <2>7, <2>10, <3>2, AcceptedIsNew, FromStreamAppend
      <3> QED
        BY <2>6, <3>1, <3>3, <3>4
    <2>11. \/ Responses(c)' = Responses(c)
           \/ Responses(c)' = delivered[c]
           \/ \E a \in Nat : Accepts(a) /\ c = cur
      BY <1>1, StepEffect DEF Quiet, Sends, GivesUp, Accepts
    <2> QED
      BY <2>8, <2>9, <2>10, <2>11
  <1> QED
    BY <1>1, <1>2, <1>3 DEF OInv, OrderOK

\* Responses keep the order of the messages and answer none twice (handleRead,
\* prepareWrite, handleWrite), whatever was read in pieces or dropped.
THEOREM ResponsesInOrder == Spec => []EchoOrder
  <1>1. OInv => EchoOrder
    <2> SUFFICES ASSUME OInv, NEW c \in Clients PROVE Ordered(Responses(c))
      BY DEF EchoOrder, Ordered, Responses, Numbers
    <2> QED
      BY DEF OInv, OrderOK
  <1>2. Init => OInv
    BY InitType, InitOrder DEF OInv
  <1> QED
    BY <1>1, <1>2, OInvInductive, PTL DEF Spec

-----------------------------------------------------------------------------
(* The session implements the echo service. *)

\* The service's accepted messages, as ImplementsEcho maps them.
accepted ==
    [c \in Clients |->
        IF Dead THEN delivered[c]
        ELSE delivered[c] \o [i \in DOMAIN queue[c] |-> queue[c][i].msg]]

answered == [c \in Clients |-> Len(delivered[c])]

opened == IF Dead THEN {} ELSE Clients \ closed

\* The refinement's accepted messages: those delivered and queued, of a killed
\* process those delivered.
LEMMA AcceptedIs ==
    ASSUME NEW c \in Clients
    PROVE  accepted[c] = IF pc = "killed" THEN delivered[c] ELSE Responses(c)
  BY DEF accepted, Dead, Responses, Numbers

\* The same of the next state.
LEMMA AcceptedNext ==
    ASSUME NEW c \in Clients
    PROVE  accepted'[c] = IF pc' = "killed" THEN delivered'[c] ELSE Responses(c)'
  BY DEF accepted, Dead, Responses, Numbers

\* A closed connection is owed nothing.
LEMMA ClosedOwesNothing ==
    ASSUME EInv, NEW c \in closed
    PROVE  c \in Clients /\ Responses(c) = delivered[c]
  <1>1. c \in Clients /\ TInv
    BY DEF EInv, TInv, TypeOK
  <1>2. queue[c] = <<>>
    BY <1>1 DEF EInv, EventsOK, Registered
  <1> QED
    BY <1>1, <1>2, NumbersEmpty, ResponsesType DEF Responses

\* The first of two sequences is what the whole begins with.
LEMMA PrefixOfConcat ==
    ASSUME NEW d \in Seq(Nat), NEW e \in Seq(Nat)
    PROVE  SubSeq(d \o e, 1, Len(d)) = d
  <1> DEFINE s == d \o e
  <1>1. /\ Len(d) \in Nat /\ Len(e) \in Nat
        /\ \A i \in 1..(Len(d) + Len(e)) :
              s[i] = IF i <= Len(d) THEN d[i] ELSE e[i - Len(d)]
    BY ConcatProperties, LenProperties
  <1> HIDE DEF s
  <1>2. \A i \in 1..Len(d) : s[i] = d[i] /\ d[i] \in Nat
    BY <1>1, ElementOfSeq
  <1>3. /\ SubSeq(s, 1, Len(d)) \in Seq(Nat)
        /\ Len(SubSeq(s, 1, Len(d))) = IF 1 <= Len(d) THEN Len(d) - 1 + 1 ELSE 0
        /\ \A i \in 1..(Len(d) - 1 + 1) : SubSeq(s, 1, Len(d))[i] = s[1 + i - 1]
    BY <1>1, <1>2, SubSeqProperties
  <1> DEFINE t == SubSeq(s, 1, Len(d))
  <1>4. t \in Seq(Nat) /\ Len(t) = Len(d)
    BY <1>1, <1>3
  <1>5. ASSUME NEW i \in 1..Len(t) PROVE t[i] = d[i]
    BY <1>1, <1>2, <1>3, <1>4
  <1> HIDE DEF t
  <1>6. t = d
    BY <1>4, <1>5, SeqEqual
  <1> QED
    BY <1>6 DEF t, s

\* What stutters in the session's responses stutters in the service.
LEMMA QuietStutters ==
    ASSUME TInv, Quiet, pc = "killed" <=> pc' = "killed"
    PROVE  accepted' = accepted /\ answered' = answered /\ opened' = opened
  <1>1. \A c \in Clients : accepted'[c] = accepted[c]
    BY AcceptedIs, AcceptedNext DEF Quiet
  <1>2. accepted' = accepted
    BY <1>1 DEF accepted
  <1>3. answered' = answered /\ opened' = opened
    BY DEF Quiet, answered, opened, Dead
  <1> QED
    BY <1>2, <1>3

\* The service starts with nothing accepted.
LEMMA EchoInit == Init => Echo!Init
  <1> SUFFICES ASSUME Init PROVE Echo!Init
    OBVIOUS
  <1>1. /\ ~Dead /\ closed = {}
        /\ \A c \in Clients : delivered[c] = <<>> /\ Numbers(queue[c]) = <<>>
    BY NumbersEmpty, EmptySeq DEF Init, Dead
  <1>2. \A c \in Clients : accepted[c] = <<>> /\ Len(delivered[c]) = 0
    BY <1>1, AcceptedIs, ConcatEmptySeq, EmptySeq DEF Dead, Responses
  <1>3. accepted = [c \in Clients |-> <<>>] /\ answered = [c \in Clients |-> 0]
        /\ opened = Clients
    BY <1>1, <1>2 DEF accepted, answered, opened
  <1> QED
    BY <1>3 DEF Echo!Init, accepted, answered, opened

\* Every step of the session is a step of the service or leaves it alone.
LEMMA EchoStep == OInv /\ EInv /\ [Next]_vars => [Echo!Next]_(Echo!vars)
  <1> SUFFICES ASSUME OInv, EInv, [Next]_vars PROVE [Echo!Next]_(Echo!vars)
    OBVIOUS
  <1> DEFINE Stutter == UNCHANGED <<accepted, answered, opened>>
             Messages == UNION {{Stream[c][p].msg : p \in DOMAIN Stream[c]} : c \in Clients}
  <1>1. TInv /\ OrderOK
    BY DEF OInv
  <1>2. Stutter => [Echo!Next]_(Echo!vars)
    BY DEF Echo!vars, accepted, answered, opened
  <1>3. ASSUME Quiet, pc # "killed", pc' = "killed" PROVE [Echo!Next]_(Echo!vars)
    <2> PICK cs \in SUBSET Clients : cs = Clients \ closed
      OBVIOUS
    <2>1. opened = cs /\ opened' = {} /\ answered' = answered
      BY <1>3 DEF Quiet, opened, answered, Dead
    <2>2. ASSUME NEW c \in Clients
          PROVE  accepted'[c] = IF c \in cs THEN SubSeq(accepted[c], 1, answered[c])
                                            ELSE accepted[c]
      <3>1. accepted'[c] = delivered[c] /\ accepted[c] = Responses(c)
        BY <1>3, AcceptedIs, AcceptedNext DEF Quiet
      <3>2. SubSeq(Responses(c), 1, answered[c]) = delivered[c]
        BY <1>1, PrefixOfConcat, ResponsesType DEF Responses, answered
      <3>3. c \in closed => Responses(c) = delivered[c]
        BY ClosedOwesNothing
      <3> QED
        BY <3>1, <3>2, <3>3
    <2>3. accepted' = [c \in Clients |->
                IF c \in cs THEN SubSeq(accepted[c], 1, answered[c]) ELSE accepted[c]]
      BY <2>2 DEF accepted
    <2>4. Echo!Close(cs)
      BY <2>1, <2>3 DEF Echo!Close, accepted, answered, opened
    <2> QED
      BY <2>4 DEF Echo!Next
  <1>4. ASSUME NEW c \in Clients, Sends(c) PROVE [Echo!Next]_(Echo!vars)
    <2>1. c \notin closed /\ pc # "killed" /\ pc' # "killed" /\ closed' = closed
      BY <1>4, ClosedOwesNothing DEF Sends, EInv, EventsOK, Registered
    <2>2. c \in opened /\ opened' = opened
      BY <2>1 DEF opened, Dead
    <2>3. accepted' = accepted
      <3>1. \A d \in Clients : accepted'[d] = accepted[d]
        BY <1>4, <2>1, AcceptedIs, AcceptedNext DEF Sends
      <3> QED
        BY <3>1 DEF accepted
    <2>4. /\ delivered[c] \in Seq(Nat) /\ Head(queue[c]).msg \in Nat
          /\ Len(delivered[c]) < Len(accepted[c])
      <3>1. /\ queue[c] \in Seq(Response) /\ queue[c] # <<>>
            /\ delivered[c] \in Seq(Nat) /\ Len(delivered[c]) \in Nat
            /\ Len(Responses(c)) = Len(delivered[c]) + Len(queue[c])
        BY <1>1, <1>4, ResponsesType DEF Sends
      <3>2. Len(queue[c]) \in Nat \ {0} /\ Head(queue[c]) \in Response
        BY <3>1, EmptySeq, HeadTailProperties
      <3>3. accepted[c] = Responses(c)
        BY <2>1, AcceptedIs
      <3>4. Head(queue[c]).msg \in Nat
        BY <3>2 DEF Response
      <3>5. Len(delivered[c]) < Len(Responses(c))
        <4>1. /\ Len(delivered[c]) \in Nat /\ Len(queue[c]) \in Nat \ {0}
              /\ Len(Responses(c)) = Len(delivered[c]) + Len(queue[c])
          BY <3>1, <3>2
        <4>2. \A a \in Nat, b \in Nat \ {0} : a < a + b
          OBVIOUS
        <4> QED
          BY <4>1, <4>2, Zenon
      <3> QED
        BY <3>1, <3>3, <3>4, <3>5
    <2>5. answered' = [answered EXCEPT ![c] = @ + 1]
      <3>1. delivered'[c] = Append(delivered[c], Head(queue[c]).msg)
            /\ \A d \in Clients : d # c => delivered'[d] = delivered[d]
        BY <1>1, <1>4 DEF Sends, TInv, TypeOK
      <3>2. Len(delivered'[c]) = Len(delivered[c]) + 1
        BY <2>4, <3>1, AppendProperties
      <3>3. \A d \in Clients :
               Len(delivered'[d]) = IF d = c THEN answered[c] + 1 ELSE answered[d]
        BY <3>1, <3>2 DEF answered
      <3>4. answered' = [d \in Clients |-> Len(delivered'[d])]
        BY DEF answered
      <3> QED
        BY <3>3, <3>4 DEF answered
    <2>6. Echo!Answer(c)
      <3>1. c \in opened /\ answered[c] < Len(accepted[c])
            /\ answered' = [answered EXCEPT ![c] = @ + 1]
            /\ UNCHANGED <<accepted, opened>>
        BY <2>2, <2>3, <2>4, <2>5 DEF answered
      <3> QED
        BY <3>1 DEF Echo!Answer, accepted, answered, opened
    <2> QED
      BY <2>6 DEF Echo!Next
  <1>5. ASSUME NEW c \in Clients, GivesUp(c) PROVE [Echo!Next]_(Echo!vars)
    <2>1. /\ pc # "killed" /\ pc' # "killed" /\ closed' = closed \cup {c}
          /\ delivered' = delivered /\ Responses(c)' = delivered[c]
          /\ \A d \in Clients : d # c => Responses(d)' = Responses(d)
      BY <1>5 DEF GivesUp
    <2>2. /\ answered' = answered
          /\ opened = Clients \ closed /\ opened' = opened \ {c}
      BY <2>1 DEF answered, opened, Dead
    <2>3. /\ accepted'[c] = delivered[c] /\ accepted[c] = Responses(c)
          /\ \A d \in Clients : d # c => accepted'[d] = accepted[d]
      BY <2>1, AcceptedIs, AcceptedNext
    <2>4. CASE c \in closed
      <3>1. \A d \in Clients : accepted'[d] = accepted[d]
        BY <2>3, <2>4, ClosedOwesNothing
      <3>2. accepted' = accepted
        BY <3>1 DEF accepted
      <3>3. opened' = opened
        BY <2>2, <2>4
      <3> QED
        BY <1>2, <2>2, <3>2, <3>3
    <2>5. CASE c \notin closed
      <3>1. SubSeq(accepted[c], 1, answered[c]) = delivered[c]
        BY <1>1, <2>3, PrefixOfConcat, ResponsesType DEF Responses, answered
      <3>2. accepted' = [d \in Clients |->
                IF d \in {c} THEN SubSeq(accepted[d], 1, answered[d]) ELSE accepted[d]]
        <4>1. \A d \in Clients : accepted'[d] =
                 IF d \in {c} THEN SubSeq(accepted[d], 1, answered[d]) ELSE accepted[d]
          BY <2>3, <3>1
        <4> QED
          BY <4>1 DEF accepted
      <3>3. {c} \subseteq opened
        BY <2>2, <2>5
      <3>4. Echo!Close({c})
        BY <2>2, <3>2, <3>3 DEF Echo!Close, accepted, answered, opened
      <3> QED
        BY <3>4 DEF Echo!Next
    <2> QED
      BY <2>4, <2>5
  <1>6. ASSUME NEW m \in Nat, Accepts(m) PROVE [Echo!Next]_(Echo!vars)
    <2>1. /\ pc = "parse" /\ pc' # "killed" /\ cur \in Clients
          /\ UNCHANGED <<closed, delivered>>
          /\ \A e \in Clients :
                Responses(e)' = IF e = cur THEN Append(Responses(e), m) ELSE Responses(e)
      BY <1>1, <1>6 DEF Accepts, TInv, WorkerOK
    <2> PICK d \in Clients : d = cur
      BY <2>1
    <2>2. cur \notin closed
      BY <2>1, CurrentEvents
    <2>3. cur \in opened /\ opened' = opened /\ answered' = answered
      BY <2>1, <2>2 DEF opened, answered, Dead
    <2>4. /\ \A e \in Clients : accepted[e] = Responses(e)
          /\ \A e \in Clients : accepted'[e] = Responses(e)'
      BY <2>1, AcceptedIs, AcceptedNext
    <2>5. accepted' = [accepted EXCEPT ![cur] = Append(@, m)]
      <3>1. \A e \in Clients : accepted'[e] =
               IF e = cur THEN Append(accepted[e], m) ELSE accepted[e]
        BY <2>1, <2>4
      <3> QED
        BY <2>1, <3>1 DEF accepted
    <2>6. Echo!InOrder(accepted[cur], m)
      <3>1. m = Garbage \/ \A i \in DOMAIN Responses(cur) :
               Responses(cur)[i] # Garbage => Responses(cur)[i] < m
        BY <1>1, <1>6, AcceptedIsNew
      <3> QED
        BY <2>1, <2>4, <3>1 DEF Echo!InOrder
    <2>7. m \in Messages \cup {Garbage}
      <3>1. m = Garbage \/ m = Stream[cur][chunk.from].msg
        BY <1>6 DEF Accepts
      <3>2. chunk.from \in DOMAIN Stream[cur]
        BY <1>1, <2>1, StreamType, LenProperties DEF TInv, WorkerOK
      <3>3. Stream[cur][chunk.from].msg \in {Stream[cur][p].msg : p \in DOMAIN Stream[cur]}
        BY <3>2
      <3> QED
        BY <2>1, <3>1, <3>3
    <2>8. Echo!Accept(d, m)
      BY <2>3, <2>5, <2>6 DEF Echo!Accept, accepted, answered, opened
    <2> QED
      BY <2>1, <2>7, <2>8 DEF Echo!Next
  <1>7. CASE Quiet /\ (pc = "killed" <=> pc' = "killed")
    BY <1>1, <1>2, <1>7, QuietStutters
  <1> QED
    BY <1>1, <1>3, <1>4, <1>5, <1>6, <1>7, StepEffect

\* The session implements the echo service (EchoService): whatever happens, the
\* responses a client gets are those of messages it sent, in their order, each
\* once, and none after the close.
THEOREM SessionImplementsEcho == Spec => ImplementsEcho
  <1>1. Init => OInv /\ EInv /\ Echo!Init
    BY InitType, InitEvents, InitOrder, EchoInit DEF OInv, EInv
  <1> QED
    BY <1>1, OInvInductive, EInvInductive, EchoStep, PTL
    DEF Spec, ImplementsEcho, Echo!Spec
=============================================================================

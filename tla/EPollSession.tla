---------------------------- MODULE EPollSession ----------------------------
(***************************************************************************)
(* One session of the epoll echo server: its worker thread                 *)
(* (Session::processEvents and the handlers it calls), its buffer pool     *)
(* (EPollBuffer), its epoll set (EPoll) and the listener thread that adds  *)
(* clients to it (Session::addClient) while the worker runs.               *)
(*                                                                         *)
(* The worker's program is cut at its system calls, so that the kernel,    *)
(* the clients and the listener interleave with it there.  The kernel      *)
(* side (edge-triggered readiness, the receive queue, the send buffer) is  *)
(* modelled from how the session uses it.  A byte stream is a sequence of  *)
(* cells: the first cell of a message carries its header, and a buffer     *)
(* holds BufferSize of them.                                               *)
(***************************************************************************)
EXTENDS Integers, Sequences

CONSTANTS
    Clients,      \* connections of this session, named by their descriptor
    Buffers,      \* indexes of the pool's buffers
    BufferSize,   \* cells one buffer holds (IO_BUFFER_SIZE)
    MaxReads,     \* MAX_READ_ATTEMPTS of one handleRead
    SendSpace,    \* cells a socket takes before a write would block
    Stream,       \* Stream[c]: the cells client c sends, in order
    InitialPool,  \* the free list the constructor builds
    None          \* no buffer, no client

ASSUME SizeAssumption ==
    /\ BufferSize \in Nat \ {0}
    /\ MaxReads \in Nat \ {0}
    /\ SendSpace \in Nat \ {0}

ASSUME NoneAssumption == None \notin Buffers /\ None \notin Clients

\* The constructor pushes the indexes 0 .. buffer_count - 1, each once.
ASSUME PoolAssumption ==
    /\ InitialPool \in Seq(Buffers) /\ InitialPool # <<>>
    /\ \A b \in Buffers : \E i \in DOMAIN InitialPool : InitialPool[i] = b
    /\ \A i, j \in DOMAIN InitialPool :
          InitialPool[i] = InitialPool[j] => i = j

\* A cell that starts a message has that message's size; the others have 0.
ASSUME StreamAssumption ==
    Stream \in [Clients -> Seq([msg : Nat \ {0}, size : 0..BufferSize])]

\* Messages are named by their number: later in the stream, later in number.
ASSUME NumberingAssumption ==
    \A c \in Clients : \A p, q \in DOMAIN Stream[c] :
        p < q /\ Stream[c][p].size > 0 /\ Stream[c][q].size > 0
            => Stream[c][p].msg < Stream[c][q].msg

Garbage == 0      \* the message a misread header seems to start

VARIABLES
    free,         \* free_buffers_
    hand,         \* the buffer handleRead holds, or None
    queue,        \* client_buffers_: the responses waiting for each client
    socks,        \* keys of client_sockets_
    adding,       \* the client inside Session::addClient, or None
    interest,     \* events each descriptor is registered for, {} if it is not
    ready,        \* descriptors on the kernel's ready list
    batch,        \* events of the current epoll_wait still to dispatch
    pc,           \* where the worker is
    cur,          \* the client whose event is being handled, or None
    attempts,     \* read_attempts
    chunk,        \* the cells handleRead has just read
    closed,       \* descriptors that have been closed
    sent,         \* cells of Stream[c] that reached the server's socket
    taken,        \* cells of Stream[c] read from it
    inflight,     \* cells written that the client has not received yet
    peer,         \* what the client's side did to the connection
    delivered,    \* history: messages whose response was written in full
    ignored       \* history: clients whose data a handleRead left unread

poolVars   == <<free, hand, queue>>
epollVars  == <<interest, ready>>
workerVars == <<batch, pc, cur, attempts, chunk>>
clientVars == <<sent, taken, inflight, peer>>
vars == <<poolVars, socks, adding, epollVars, workerVars, closed, clientVars,
          delivered, ignored>>

Base == {"IN", "HUP"}            \* BASE_EVENTS; HUP stands for RDHUP|HUP|ERR
Response == [buf : Buffers, msg : Nat, left : 1..BufferSize]
NoChunk  == [from |-> 0, len |-> 0]

-----------------------------------------------------------------------------
(* The kernel's side. *)

\* What poll() would report for a descriptor.
Readiness(c, s, t, f, p) ==
    (IF s[c] > t[c] \/ p[c] # "open" THEN {"IN"} ELSE {}) \cup
    (IF f[c] < SendSpace \/ p[c] \in {"reset", "broken"} THEN {"OUT"} ELSE {}) \cup
    (IF p[c] # "open" THEN {"HUP"} ELSE {})

Now(c) == Readiness(c, sent, taken, inflight, peer)

\* epoll_ctl ADD and MOD look at the descriptor once, whatever the edge.
Register(c, events) ==
    /\ interest' = [interest EXCEPT ![c] = events]
    /\ ready' = IF Now(c) \cap events # {} THEN ready \cup {c} ELSE ready

\* EPOLL_CTL_MOD, which fails on a descriptor that is not registered.
modifyEvent(c, events) ==
    IF interest[c] # {} THEN Register(c, events) ELSE UNCHANGED epollVars

removeEvent(c) ==
    /\ interest' = [interest EXCEPT ![c] = {}]
    /\ ready' = ready \ {c}

\* An edge: the socket wakes the epoll set if the event is asked for.
Wake(c, event) ==
    ready' = IF event \in interest[c] THEN ready \cup {c} ELSE ready

\* k more cells of the stream arrive in the receive queue.
Arrive(c, k) ==
    /\ peer[c] = "open"
    /\ sent[c] + k <= Len(Stream[c])
    /\ sent' = [sent EXCEPT ![c] = @ + k]
    /\ Wake(c, "IN")
    /\ UNCHANGED <<poolVars, socks, adding, interest, workerVars, closed,
                   taken, inflight, peer, delivered, ignored>>

\* The client receives a cell; the send buffer wakes a writer it had stopped.
Drain(c) ==
    /\ inflight[c] > 0
    /\ inflight' = [inflight EXCEPT ![c] = @ - 1]
    /\ IF inflight[c] = SendSpace THEN Wake(c, "OUT") ELSE UNCHANGED ready
    /\ UNCHANGED <<poolVars, socks, adding, interest, workerVars, closed,
                   sent, taken, peer, delivered, ignored>>

\* FIN.  A RST after it makes the next write raise SIGPIPE ("broken"), a RST
\* on its own makes it fail with ECONNRESET ("reset").
Hangup(c) ==
    /\ \/ /\ peer[c] = "open"
          /\ peer' = [peer EXCEPT ![c] = "finished"]
       \/ /\ peer[c] = "open"
          /\ peer' = [peer EXCEPT ![c] = "reset"]
       \/ /\ peer[c] = "finished"
          /\ peer' = [peer EXCEPT ![c] = "broken"]
    /\ Wake(c, "HUP")
    /\ UNCHANGED <<poolVars, socks, adding, interest, workerVars, closed,
                   sent, taken, inflight, delivered, ignored>>

-----------------------------------------------------------------------------
(* The listener thread, inside Session::addClient. *)

\* epoll_->prepareRead(client_fd)
AddRegister(c) ==
    /\ pc # "killed"
    /\ adding = None
    /\ c \notin socks \cup closed /\ interest[c] = {}
    /\ adding' = c
    /\ Register(c, Base)
    /\ UNCHANGED <<poolVars, socks, workerVars, closed, clientVars,
                   delivered, ignored>>

\* client_sockets_[client_fd] = client_socket
AddInsert ==
    /\ pc # "killed"
    /\ adding # None
    /\ socks' = socks \cup {adding}
    /\ adding' = None
    /\ UNCHANGED <<poolVars, epollVars, workerVars, closed, clientVars,
                   delivered, ignored>>

-----------------------------------------------------------------------------
(* The buffer pool. *)

hasAvailableBuffers == free # <<>>

\* The free list takes a buffer back without looking for it there.
releaseBuffer_Twice(b) == free \o <<b, b>>

releaseBuffer_Never(b) == free

releaseBuffer(b) == Append(free, b)

hasDataToWrite(c) == queue[c] # <<>>

addToClientQueue_Front(c, r) == [queue EXCEPT ![c] = <<r>> \o @]

addToClientQueue(c, r) == [queue EXCEPT ![c] = Append(@, r)]

\* The buffers clearClientBuffers gives back to the free list, in queue order.
ClearedBuffers_SkipFirst(q) == [i \in 1..(Len(q) - 1) |-> q[i + 1].buf]

ClearedBuffers(q) == [i \in 1..Len(q) |-> q[i].buf]

QueuesWithout_Kept(c) == queue

QueuesWithout(c) == [queue EXCEPT ![c] = <<>>]

-----------------------------------------------------------------------------
(* The worker: processEvents. *)

\* An empty session sleeps; waitForEvents takes the whole ready list.
WaitForEvents ==
    /\ pc = "wait"
    /\ socks # {}
    /\ ready # {}
    /\ batch' = [c \in Clients |->
                    IF c \in ready THEN Now(c) \cap interest[c] ELSE {}]
    /\ ready' = {}
    /\ ignored' = ignored \ ready
    /\ pc' = "dispatch"
    /\ UNCHANGED <<poolVars, socks, adding, interest, cur, attempts, chunk,
                   closed, clientVars, delivered>>

\* handleClose: leave epoll and the map, free the queued responses, close.
handleClose(c) ==
    /\ removeEvent(c)
    /\ socks' = socks \ {c}
    /\ queue' = QueuesWithout(c)
    /\ closed' = closed \cup {c}

\* An event of a descriptor that is not in the map (yet) is unregistered.
DispatchUnknown(c) ==
    /\ pc = "dispatch"
    /\ batch[c] # {} /\ c \notin socks
    /\ batch' = [batch EXCEPT ![c] = {}]
    /\ removeEvent(c)
    /\ UNCHANGED <<poolVars, socks, adding, pc, cur, attempts, chunk, closed,
                   clientVars, delivered, ignored>>

DispatchHangup(c) ==
    /\ pc = "dispatch"
    /\ c \in socks /\ "HUP" \in batch[c]
    /\ batch' = [batch EXCEPT ![c] = {}]
    /\ handleClose(c)
    /\ free' = free \o ClearedBuffers(queue[c])
    /\ UNCHANGED <<hand, adding, pc, cur, attempts, chunk, clientVars,
                   delivered, ignored>>

\* EPOLLOUT first, then EPOLLIN, for the socket found in the map.
DispatchIO(c) ==
    /\ pc = "dispatch"
    /\ c \in socks /\ batch[c] # {} /\ "HUP" \notin batch[c]
    /\ cur' = c
    /\ pc' = IF "OUT" \in batch[c] THEN "write" ELSE "read"
    /\ UNCHANGED <<poolVars, socks, adding, epollVars, batch, attempts, chunk,
                   closed, clientVars, delivered, ignored>>

BatchDone ==
    /\ pc = "dispatch"
    /\ \A c \in Clients : batch[c] = {}
    /\ pc' = "wait"
    /\ UNCHANGED <<poolVars, socks, adding, epollVars, batch, cur, attempts,
                   chunk, closed, clientVars, delivered, ignored>>

\* Where processEvents goes when handleWrite has returned.
AfterWrite ==
    IF "IN" \in batch[cur]
    THEN /\ pc' = "read"
         /\ UNCHANGED <<batch, cur>>
    ELSE /\ pc' = "dispatch"
         /\ batch' = [batch EXCEPT ![cur] = {}]
         /\ cur' = None

AfterRead ==
    /\ pc' = "dispatch"
    /\ batch' = [batch EXCEPT ![cur] = {}]
    /\ cur' = None
    /\ attempts' = 0

-----------------------------------------------------------------------------
(* The worker: handleWrite. *)

\* writeFromBuffer took k cells of the response at the head of the queue.
WriteSome(k) ==
    /\ pc = "write" /\ hasDataToWrite(cur)
    /\ peer[cur] \in {"open", "finished"}
    /\ k <= SendSpace - inflight[cur]
    /\ inflight' = [inflight EXCEPT ![cur] = @ + k]
    /\ LET head == Head(queue[cur]) IN
       /\ k <= head.left
       /\ IF k = head.left
          THEN /\ queue' = [queue EXCEPT ![cur] = Tail(@)]  \* removeProcessedBuffer
               /\ free' = releaseBuffer(head.buf)
               /\ delivered' = [delivered EXCEPT ![cur] = Append(@, head.msg)]
               /\ UNCHANGED pc
          ELSE /\ queue' = [queue EXCEPT ![cur][1].left = @ - k]
               /\ pc' = "rearm"
               /\ UNCHANGED <<free, delivered>>
    /\ UNCHANGED <<hand, socks, adding, epollVars, batch, cur, attempts, chunk,
                   closed, sent, taken, peer, ignored>>

\* EAGAIN, or nothing left to write.
WriteStops ==
    /\ pc = "write"
    /\ \/ ~hasDataToWrite(cur)
       \/ peer[cur] \in {"open", "finished"} /\ inflight[cur] = SendSpace
    /\ pc' = "rearm"
    /\ UNCHANGED <<poolVars, socks, adding, epollVars, batch, cur, attempts,
                   chunk, closed, clientVars, delivered, ignored>>

\* ECONNRESET: handleClose, and processEvents goes on with the same socket.
WriteFails ==
    /\ pc = "write" /\ hasDataToWrite(cur) /\ peer[cur] = "reset"
    /\ handleClose(cur)
    /\ free' = free \o ClearedBuffers(queue[cur])
    /\ AfterWrite
    /\ UNCHANGED <<hand, adding, attempts, chunk, clientVars, delivered,
                   ignored>>

\* EPIPE: no handler and no MSG_NOSIGNAL, so SIGPIPE ends the process.
WriteRaises ==
    /\ pc = "write" /\ hasDataToWrite(cur) /\ peer[cur] = "broken"
    /\ pc' = "killed"
    /\ UNCHANGED <<poolVars, socks, adding, epollVars, batch, cur, attempts,
                   chunk, closed, clientVars, delivered, ignored>>

\* EPOLLOUT stays on while there is something to write.
RearmEvents_Base(c) == Base

RearmEvents(c) == IF hasDataToWrite(c) THEN Base \cup {"OUT"} ELSE Base

Rearm ==
    /\ pc = "rearm"
    /\ modifyEvent(cur, RearmEvents(cur))
    /\ AfterWrite
    /\ UNCHANGED <<poolVars, socks, adding, attempts, chunk, closed,
                   clientVars, delivered, ignored>>

-----------------------------------------------------------------------------
(* The worker: handleRead. *)

AttemptsLeft_OneMore == attempts <= MaxReads

AttemptsLeft == attempts < MaxReads

ReadAllocate ==
    /\ pc = "read"
    /\ AttemptsLeft /\ hasAvailableBuffers
    /\ attempts' = attempts + 1
    /\ hand' = Head(free)
    /\ free' = Tail(free)
    /\ pc' = "readIO"
    /\ UNCHANGED <<queue, socks, adding, epollVars, batch, cur, chunk, closed,
                   clientVars, delivered, ignored>>

\* No free buffer, or the attempts are used up: the event is left as it is.
ReadGivesUp ==
    /\ pc = "read"
    /\ ~AttemptsLeft \/ ~hasAvailableBuffers
    /\ ignored' = ignored \cup {cur}
    /\ AfterRead
    /\ UNCHANGED <<poolVars, socks, adding, epollVars, chunk, closed,
                   clientVars, delivered>>

\* read() returned cells: all there are, up to the buffer's size.
ReadSome ==
    /\ pc = "readIO"
    /\ cur \notin closed
    /\ sent[cur] > taken[cur]
    /\ LET there == sent[cur] - taken[cur]
           n == IF there < BufferSize THEN there ELSE BufferSize
       IN /\ chunk' = [from |-> taken[cur] + 1, len |-> n]
          /\ taken' = [taken EXCEPT ![cur] = @ + n]
    /\ pc' = "parse"
    /\ UNCHANGED <<poolVars, socks, adding, epollVars, batch, cur, attempts,
                   closed, sent, inflight, peer, delivered, ignored>>

\* EAGAIN and end of file both come back as 0.
ReadNothing ==
    /\ pc = "readIO"
    /\ cur \notin closed
    /\ sent[cur] = taken[cur] /\ peer[cur] \in {"open", "finished"}
    /\ free' = releaseBuffer(hand)
    /\ hand' = None
    /\ AfterRead
    /\ UNCHANGED <<queue, socks, adding, epollVars, chunk, closed,
                   clientVars, delivered, ignored>>

\* A reset connection, or a descriptor that handleWrite has just closed (that
\* the listener may have been given that number again is EPollServer's matter).
ReadFails ==
    /\ pc = "readIO"
    /\ \/ cur \in closed
       \/ sent[cur] = taken[cur] /\ peer[cur] \in {"reset", "broken"}
    /\ handleClose(cur)
    /\ free' = releaseBuffer(hand) \o ClearedBuffers(queue[cur])
    /\ hand' = None
    /\ AfterRead
    /\ UNCHANGED <<adding, chunk, clientVars, delivered, ignored>>

\* The responses a chunk can get: the message its first cell starts, if all of
\* it was read; from the middle of a message, whatever the bytes seem to say.
Echoes ==
    LET first == Stream[cur][chunk.from] IN
    IF first.size > 0
    THEN {e \in {[msg |-> first.msg, left |-> first.size]} : e.left <= chunk.len}
    ELSE [msg : {Garbage}, left : 1..chunk.len]

\* The loop goes on only after a read that filled the buffer.
LastRead_Always == TRUE

LastRead == chunk.len < BufferSize

ParseDone ==
    /\ hand' = None
    /\ chunk' = NoChunk
    /\ IF LastRead
       THEN AfterRead
       ELSE pc' = "read" /\ UNCHANGED <<batch, cur, attempts>>

\* The header check passes and prepareWrite finds a buffer.
ParseEchoes ==
    /\ pc = "parse"
    /\ hasAvailableBuffers
    /\ \E e \in Echoes :
          queue' = addToClientQueue(cur,
                     [buf |-> Head(free), msg |-> e.msg, left |-> e.left])
    /\ free' = Append(Tail(free), hand)
    /\ modifyEvent(cur, Base \cup {"OUT"})
    /\ ParseDone
    /\ UNCHANGED <<socks, adding, closed, clientVars, delivered, ignored>>

\* An incomplete or invalid message, or no buffer to answer from.
ParseDrops ==
    /\ pc = "parse"
    /\ \/ ~hasAvailableBuffers
       \/ Echoes = {}
       \/ Stream[cur][chunk.from].size = 0
    /\ free' = releaseBuffer(hand)
    /\ ParseDone
    /\ UNCHANGED <<queue, socks, adding, epollVars, closed, clientVars,
                   delivered, ignored>>

-----------------------------------------------------------------------------
Init ==
    /\ free = InitialPool
    /\ hand = None
    /\ queue = [c \in Clients |-> <<>>]
    /\ socks = {} /\ adding = None
    /\ interest = [c \in Clients |-> {}] /\ ready = {}
    /\ batch = [c \in Clients |-> {}]
    /\ pc = "wait" /\ cur = None /\ attempts = 0 /\ chunk = NoChunk
    /\ closed = {}
    /\ sent = [c \in Clients |-> 0] /\ taken = [c \in Clients |-> 0]
    /\ inflight = [c \in Clients |-> 0]
    /\ peer = [c \in Clients |-> "open"]
    /\ delivered = [c \in Clients |-> <<>>]
    /\ ignored = {}

handleWrite ==
    \/ \E k \in 1..SendSpace : WriteSome(k)
    \/ WriteStops \/ WriteFails \/ WriteRaises \/ Rearm

handleRead ==
    \/ ReadAllocate \/ ReadGivesUp
    \/ ReadSome \/ ReadNothing \/ ReadFails
    \/ ParseEchoes \/ ParseDrops

Worker ==
    \/ WaitForEvents
    \/ \E c \in Clients : DispatchUnknown(c) \/ DispatchHangup(c) \/ DispatchIO(c)
    \/ BatchDone
    \/ handleWrite
    \/ handleRead

Listener == (\E c \in Clients : AddRegister(c)) \/ AddInsert

Kernel ==
    \E c \in Clients :
        \/ \E k \in 1..Len(Stream[c]) : Arrive(c, k)
        \/ Drain(c)
        \/ Hangup(c)

Next == Worker \/ Listener \/ Kernel

Spec == Init /\ [][Next]_vars

\* The worker and the listener are threads the scheduler keeps running; Drain
\* is fair when the clients go on reading their responses.
FairSpec ==
    /\ Spec
    /\ WF_vars(Worker)
    /\ WF_vars(Listener)
    /\ \A c \in Clients : WF_vars(Drain(c))

-----------------------------------------------------------------------------
(* What must hold. *)

\* The values the variables take (fields of Session, EPoll and EPollBuffer).
TypeOK ==
    /\ free \in Seq(Buffers)
    /\ hand \in Buffers \cup {None}
    /\ queue \in [Clients -> Seq(Response)]
    /\ socks \subseteq Clients
    /\ adding \in Clients \cup {None}
    /\ interest \in [Clients -> {{}, Base, Base \cup {"OUT"}}]
    /\ ready \subseteq Clients
    /\ batch \in [Clients -> SUBSET {"IN", "OUT", "HUP"}]
    /\ pc \in {"wait", "dispatch", "write", "rearm", "read", "readIO", "parse",
              "killed"}
    /\ cur \in Clients \cup {None}
    /\ attempts \in 0..MaxReads
    /\ chunk \in [from : Nat, len : 0..BufferSize]
    /\ closed \subseteq Clients
    /\ sent \in [Clients -> Nat] /\ taken \in [Clients -> Nat]
    /\ inflight \in [Clients -> 0..SendSpace]
    /\ peer \in [Clients -> {"open", "finished", "reset", "broken"}]
    /\ delivered \in [Clients -> Seq(Nat)]
    /\ ignored \subseteq Clients

\* No pool buffer has two owners: the free list, the handler's hand and the
\* clients' queues never name the same one twice (allocateBuffer,
\* releaseBuffer, which checks nothing, and the queues' three exits).
NoSharedBuffer ==
    /\ \A i, j \in DOMAIN free : free[i] = free[j] => i = j
    /\ \A i \in DOMAIN free : free[i] # hand
    /\ \A c \in Clients : \A i \in DOMAIN queue[c] :
          /\ queue[c][i].buf # hand
          /\ \A j \in DOMAIN free : queue[c][i].buf # free[j]
    /\ \A c, d \in Clients : \A i \in DOMAIN queue[c], j \in DOMAIN queue[d] :
          queue[c][i].buf = queue[d][j].buf => c = d /\ i = j

\* No pool buffer is lost, whichever way the handlers leave.
NoLostBuffer ==
    \A b \in Buffers :
        \/ b = hand
        \/ \E i \in DOMAIN free : free[i] = b
        \/ \E c \in Clients : \E i \in DOMAIN queue[c] : queue[c][i].buf = b

\* The pool is never dry when no handler holds a buffer, however many
\* responses wait: an answer needs a buffer next to the one being read into,
\* so it is the answer that is refused (EPoll::prepareWrite), and the check
\* for buffers at the head of handleRead's loop always succeeds.
ReadFindsBuffer == hand = None => hasAvailableBuffers

\* A client that is owed a response is in the map and registered for
\* EPOLLOUT, except while a handler is at work on it: nothing else would ever
\* send the response or give its buffer back.
OwedIsArmed ==
    \A c \in Clients :
        hasDataToWrite(c) /\ c # cur => c \in socks /\ "OUT" \in interest[c]

\* Edge-triggered reading loses no wakeup: when data of a registered client is
\* unread, an event for it is coming or in the batch, or its last handleRead
\* gave up for want of buffers or attempts.
NoLostWakeup ==
    \A c \in socks :
        interest[c] # {} /\ sent[c] > taken[c] =>
            c \in ready \/ "IN" \in batch[c] \/ c \in ignored

\* Responses keep the order of the messages and answer none twice.
EchoOrder ==
    \A c \in Clients :
        LET owed == [i \in DOMAIN queue[c] |-> queue[c][i].msg]
            all  == delivered[c] \o owed
        IN \A i, j \in DOMAIN all :
              i < j /\ all[i] # Garbage /\ all[j] # Garbage => all[i] < all[j]

Dead == pc = "killed"

Echo == INSTANCE EchoService WITH
    Messages <- UNION {{Stream[c][p].msg : p \in DOMAIN Stream[c]} : c \in Clients},
    accepted <- [c \in Clients |->
                    IF Dead THEN delivered[c]
                    ELSE delivered[c] \o [i \in DOMAIN queue[c] |-> queue[c][i].msg]],
    answered <- [c \in Clients |-> Len(delivered[c])],
    open     <- IF Dead THEN {} ELSE Clients \ closed

\* The session implements the echo service: responses in order, at most once,
\* none after the close.
ImplementsEcho == Echo!Spec

\* Whatever is queued for a client leaves, if the client goes on reading:
\* EPOLLOUT is rearmed after every partial write and every EAGAIN.
OwedIsAnswered == Echo!EventuallySettled

\* Data that arrives is read, unless the connection is closed or handleRead
\* gave up on it.
DataIsRead ==
    \A c \in Clients :
        sent[c] > taken[c] /\ c \in socks /\ interest[c] # {}
            ~> sent[c] = taken[c] \/ c \in closed \cup ignored \/ Dead

-----------------------------------------------------------------------------
(* What the code's comments say, and a run refutes. *)

\* "Register the client socket for read events ... add it to the session's
\* client list": a client of the list is registered.
ClientsAreRegistered == \A c \in socks : interest[c] # {}
=============================================================================

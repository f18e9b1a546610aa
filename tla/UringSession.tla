---------------------------- MODULE UringSession ----------------------------
(***************************************************************************)
(* One session of the io_uring chat server: its worker thread              *)
(* (Session::processEvents and the handlers it calls), its ring (IOUring:  *)
(* submission queue, completion queue, multishot receives), its buffer     *)
(* ring (UringBuffer) and the listener thread that adds clients to it.     *)
(*                                                                         *)
(* The kernel is modelled from how the session uses it.  It receives into  *)
(* the buffer at the head of the buffer ring and says which one in the     *)
(* completion's flags; the session takes the index from user_data, where   *)
(* prepareRead has put 0.  A receive returns one message; CLIENT_JOIN,     *)
(* which moves a client to another session, is in UringJoin.               *)
(***************************************************************************)
EXTENDS Integers, Sequences, FiniteSets

CONSTANTS
    Clients,      \* connections of this session, named by their descriptor
    NumBuffers,   \* NUM_IO_BUFFERS
    Batch,        \* CQE_BATCH_SIZE
    Kinds,        \* the kinds of messages clients send
    MaxMessages,  \* bound: MaxMessages[c] is how many messages client c sends
    None          \* an empty buffer, no client

ASSUME SizeAssumption ==
    /\ NumBuffers \in Nat \ {0} /\ Batch \in Nat \ {0}
    /\ MaxMessages \in [Clients -> Nat]

ASSUME KindAssumption == Kinds \subseteq {"chat", "command", "leave"}

Buffers == 0..(NumBuffers - 1)

Message == [from : Clients, kind : Kinds]

ASSUME NoneAssumption == None \notin Message \cup Clients

VARIABLES
    ring,         \* the buffer ring: indexes the kernel may receive into
    contents,     \* the message in each buffer
    socks,        \* keys of client_sockets_
    open,         \* descriptors that are open
    adding,       \* the client inside Session::addClient, or None
    joined,       \* history: clients the listener has added
    sq,           \* SQEs prepared and not submitted
    sub,          \* SQEs of the io_uring_enter the worker is in
    armed,        \* clients with a multishot receive in the kernel
    cq,           \* the completion queue
    pc,           \* where the worker is
    batch,        \* CQEs of this round still to handle
    inbox,        \* messages the kernel holds for each client
    left,         \* messages each client may still send
    hungup,       \* clients that have closed their side
    starved,      \* history: clients whose receive ended with an ignored error
    echoed        \* history: contents of each client's responses

bufVars    == <<ring, contents>>
sockVars   == <<socks, open, adding, joined>>
workerVars == <<sub, pc, batch>>
peerVars   == <<inbox, left, hungup>>
vars == <<bufVars, sockVars, sq, workerVars, armed, cq, peerVars, starved,
          echoed>>

Op == [op : {"read", "write", "close"}, c : Clients]

\* What a completion says: the operation, its client, its result, and for a
\* receive whether more completions follow (IORING_CQE_F_MORE).
Cqe(o, r, m) == [op |-> o.op, c |-> o.c, res |-> r, more |-> m]

Results == {"data", "eof", "reset", "ok", "again", "nobufs", "fatal"}

-----------------------------------------------------------------------------
(* The clients and the kernel. *)

Alive == pc # "killed"    \* a signal may end the process

Send(c, k) ==
    /\ Alive /\ c \in joined \ hungup /\ left[c] > 0
    /\ left' = [left EXCEPT ![c] = @ - 1]
    /\ inbox' = [inbox EXCEPT ![c] = Append(@, [from |-> c, kind |-> k])]
    /\ UNCHANGED <<bufVars, sockVars, sq, workerVars, armed, cq, hungup,
                   starved, echoed>>

Hangup(c) ==
    /\ Alive /\ c \in joined \ hungup
    /\ hungup' = hungup \cup {c}
    /\ UNCHANGED <<bufVars, sockVars, sq, workerVars, armed, cq, inbox, left,
                   starved, echoed>>

\* A multishot receive takes the head of the buffer ring; it may end itself.
\* Closing the descriptor does not end it.
Receive(c) ==
    /\ Alive /\ c \in armed /\ inbox[c] # <<>> /\ ring # <<>>
    /\ ring' = Tail(ring)
    /\ contents' = [contents EXCEPT ![Head(ring)] = Head(inbox[c])]
    /\ inbox' = [inbox EXCEPT ![c] = Tail(@)]
    /\ \E more \in BOOLEAN :
          /\ cq' = Append(cq, Cqe([op |-> "read", c |-> c], "data", more))
          /\ armed' = IF more THEN armed ELSE armed \ {c}
    /\ UNCHANGED <<sockVars, sq, workerVars, left, hungup, starved, echoed>>

\* No buffer (ENOBUFS), end of file, reset or another result end the receive.
ReceiveEnds(c) ==
    /\ Alive /\ c \in armed
    /\ \E r \in {"nobufs", "eof", "reset", "again"} :
          /\ IF r = "nobufs" THEN inbox[c] # <<>> /\ ring = <<>>
                             ELSE inbox[c] = <<>>
          /\ r \in {"eof", "reset"} => c \in hungup
          /\ cq' = Append(cq, Cqe([op |-> "read", c |-> c], r, FALSE))
    /\ armed' = armed \ {c}
    /\ UNCHANGED <<bufVars, sockVars, sq, workerVars, peerVars, starved, echoed>>

-----------------------------------------------------------------------------
(* The listener thread, inside Session::addClient. *)

\* client_sockets_[client_fd] = client_socket, which the worker sees at once.
AddInsert(c) ==
    /\ Alive /\ adding = None /\ c \notin joined
    /\ adding' = c
    /\ joined' = joined \cup {c}
    /\ open' = open \cup {c}
    /\ socks' = socks \cup {c}
    /\ UNCHANGED <<bufVars, sq, workerVars, armed, cq, peerVars, starved, echoed>>

\* prepareRead, which does not submit.
AddPrepare ==
    /\ Alive /\ adding # None
    /\ sq' = Append(sq, [op |-> "read", c |-> adding])
    /\ adding' = None
    /\ UNCHANGED <<bufVars, socks, open, joined, workerVars, armed, cq, peerVars,
                   starved, echoed>>

-----------------------------------------------------------------------------
(* The worker: processEvents. *)

\* peekCQE hands out Batch completions at most.
Peeked_All == cq

Peeked == SubSeq(cq, 1, IF Len(cq) < Batch THEN Len(cq) ELSE Batch)

\* peekCQE finds completions: the round handles them.
Peek ==
    /\ pc = "wait" /\ socks # {}
    /\ cq # <<>>
    /\ batch' = Peeked
    /\ pc' = "handle"
    /\ UNCHANGED <<bufVars, sockVars, sq, sub, armed, cq, peerVars, starved,
                   echoed>>

\* It finds none: submitAndWait.
SubmitAndWait ==
    /\ pc = "wait" /\ socks # {}
    /\ cq = <<>>
    /\ sub' = sq
    /\ sq' = <<>>
    /\ pc' = "enterWait"
    /\ UNCHANGED <<bufVars, sockVars, batch, armed, cq, peerVars, starved,
                   echoed>>

\* The kernel takes the next submitted entry.  A close always finds its number
\* closed already, by handleClose: EBADF.
Issue(o) ==
    CASE o.c \notin open ->
            /\ cq' = Append(cq, Cqe(o, "fatal", FALSE))     \* EBADF
            /\ UNCHANGED <<armed, echoed>>
      [] o.c \in open /\ o.op = "read" ->
            /\ armed' = armed \cup {o.c}
            /\ UNCHANGED <<cq, echoed>>
      [] o.c \in open /\ o.op = "write" ->
            \E r \in {"ok", "again"} \cup
                     (IF o.c \in hungup THEN {"reset", "fatal"} ELSE {}) :
                /\ cq' = Append(cq, Cqe(o, r, FALSE))
                /\ echoed' = IF r = "ok" THEN [echoed EXCEPT ![o.c] = @ \cup {contents[0]}]
                                         ELSE echoed
                /\ UNCHANGED armed

Enter ==
    /\ pc \in {"enterWait", "enter"} /\ sub # <<>>
    /\ Issue(Head(sub))
    /\ sub' = Tail(sub)
    /\ UNCHANGED <<bufVars, sockVars, sq, pc, batch, peerVars, starved>>

\* A write on a connection the client has broken raises SIGPIPE, for it is
\* prepared without MSG_NOSIGNAL and main leaves the signal its default: the
\* process may end here.
SigPipe ==
    /\ pc \in {"enterWait", "enter"} /\ sub # <<>>
    /\ Head(sub).op = "write" /\ Head(sub).c \in open \cap hungup
    /\ pc' = "killed"
    /\ UNCHANGED <<bufVars, sockVars, sq, sub, batch, armed, cq, peerVars,
                   starved, echoed>>

\* submitAndWait returns with a completion; the batch is peeked as before.
Wakes ==
    /\ pc = "enterWait" /\ sub = <<>>
    /\ cq # <<>>
    /\ pc' = "wait"
    /\ UNCHANGED <<bufVars, sockVars, sq, sub, batch, armed, cq, peerVars,
                   starved, echoed>>

\* The final submit() does not wait.
Submitted ==
    /\ pc = "enter" /\ sub = <<>>
    /\ pc' = "wait"
    /\ UNCHANGED <<bufVars, sockVars, sq, sub, batch, armed, cq, peerVars,
                   starved, echoed>>

\* advanceCQ and submit, when the round is over.
Advance ==
    /\ pc = "handle" /\ batch = <<>>
    /\ sub' = sq
    /\ sq' = <<>>
    /\ pc' = "enter"
    /\ UNCHANGED <<bufVars, sockVars, batch, armed, cq, peerVars, starved,
                   echoed>>

-----------------------------------------------------------------------------
(* The worker: the handlers.  Each takes the next completion of the batch   *)
(* (the kernel's queue is advanced entry by entry here; nobody can tell).   *)

TakeCqe(op, results) ==
    /\ pc = "handle" /\ batch # <<>>
    /\ Head(batch).op = op /\ Head(batch).res \in results
    /\ batch' = Tail(batch)
    /\ cq' = Tail(cq)
    /\ UNCHANGED <<sub, pc>>

\* EBADF and every other error but EAGAIN and ECONNRESET: logged only.
SkipError ==
    /\ \E op \in {"read", "write", "close"} : TakeCqe(op, {"fatal", "nobufs"})
    /\ starved' = IF Head(batch).op = "read" THEN starved \cup {Head(batch).c}
                                             ELSE starved
    /\ UNCHANGED <<bufVars, sockVars, sq, armed, peerVars, echoed>>

Removed_Kept(c) == socks

Removed(c) == socks \ {c}

\* handleClose: removeClient, removeSession, whose Socket on the same number
\* closes it at once, and prepareClose.
handleClose(c) ==
    /\ socks' = Removed(c)
    /\ open' = open \ {c}
    /\ UNCHANGED <<adding, joined>>

CloseOp(c) == <<[op |-> "close", c |-> c]>>

\* A receive of a client that is not in the map any more.
ReadUnknown ==
    /\ TakeCqe("read", {"data", "eof", "reset", "again"})
    /\ Head(batch).c \notin socks
    /\ UNCHANGED <<bufVars, sockVars, sq, armed, peerVars, starved, echoed>>

\* EAGAIN passes processEvents' test and is closed on here, as every negative
\* result but ENOBUFS.
ReadEnds ==
    /\ TakeCqe("read", {"eof", "reset", "again"})
    /\ LET c == Head(batch).c IN
       /\ c \in socks
       /\ handleClose(c)
       /\ sq' = sq \o CloseOp(c)
    /\ UNCHANGED <<bufVars, armed, peerVars, starved, echoed>>

\* The message handleRead looks at: getBufferAddr of the index in user_data.
Seen == contents[0]

\* A new receive is prepared if this was the last completion of the old one.
Rearm_Never(cqe) == <<>>

Rearm(cqe) == IF cqe.more THEN <<>> ELSE <<[op |-> "read", c |-> cqe.c]>>

\* IORING_CQE_F_BUFFER is missing, or a check of the header fails, its length
\* against the result of this completion too: handleClose, and no new receive.
\* The header and the result may be of two messages, so any may be refused.
ReadBad ==
    /\ TakeCqe("read", {"data"})
    /\ LET c == Head(batch).c IN
       /\ c \in socks
       /\ handleClose(c)
       /\ sq' = sq \o CloseOp(c)
    /\ UNCHANGED <<bufVars, armed, peerVars, starved, echoed>>

\* CLIENT_LEAVE closes too, but handleRead does not know and goes on.
ReadLeave ==
    /\ TakeCqe("read", {"data"})
    /\ LET c == Head(batch).c IN
       /\ c \in socks /\ Seen.kind = "leave"
       /\ handleClose(c)
       /\ sq' = sq \o CloseOp(c) \o Rearm(Head(batch))
    /\ UNCHANGED <<bufVars, armed, peerVars, starved, echoed>>

\* CLIENT_CHAT is echoed from the buffer it is read from; CLIENT_COMMAND is
\* ignored.
Reply(c) ==
    IF Seen.kind = "chat" THEN <<[op |-> "write", c |-> c]>> ELSE <<>>

ReadMessage ==
    /\ TakeCqe("read", {"data"})
    /\ LET c == Head(batch).c IN
       /\ c \in socks /\ Seen.kind \in {"chat", "command"}
       /\ sq' = sq \o Reply(c) \o Rearm(Head(batch))
    /\ UNCHANGED <<bufVars, sockVars, armed, peerVars, starved, echoed>>

\* handleWriteComplete gives the buffer of user_data back, whatever the result.
Released_Twice == ring \o <<0, 0>>

Released == Append(ring, 0)

handleWrite ==
    /\ TakeCqe("write", {"ok", "again", "reset"})
    /\ ring' = Released
    /\ UNCHANGED <<contents, sockVars, sq, armed, peerVars, starved, echoed>>

-----------------------------------------------------------------------------
Init ==
    /\ ring = [i \in 1..NumBuffers |-> i - 1]
    /\ contents = [b \in Buffers |-> None]
    /\ socks = {} /\ open = {} /\ joined = {} /\ adding = None
    /\ sq = <<>> /\ sub = <<>> /\ armed = {} /\ cq = <<>>
    /\ pc = "wait" /\ batch = <<>>
    /\ inbox = [c \in Clients |-> <<>>]
    /\ left = MaxMessages
    /\ hungup = {} /\ starved = {}
    /\ echoed = [c \in Clients |-> {}]

handleRead == ReadUnknown \/ ReadEnds \/ ReadBad \/ ReadLeave \/ ReadMessage

Worker ==
    \/ Peek \/ SubmitAndWait \/ Enter \/ SigPipe \/ Wakes \/ Submitted \/ Advance
    \/ SkipError \/ handleRead \/ handleWrite

Kernel == \E c \in Clients : Receive(c) \/ ReceiveEnds(c)

Client == \E c \in Clients : Hangup(c) \/ \E k \in Kinds : Send(c, k)

addClient == (\E c \in Clients : AddInsert(c)) \/ AddPrepare

Next == Worker \/ Kernel \/ Client \/ addClient

Spec == Init /\ [][Next]_vars

-----------------------------------------------------------------------------
(* What must hold. *)

\* The values the variables take.
TypeOK ==
    /\ ring \in Seq(Buffers)
    /\ contents \in [Buffers -> Message \cup {None}]
    /\ socks \subseteq Clients /\ open \subseteq Clients /\ joined \subseteq Clients
    /\ adding \in Clients \cup {None}
    /\ sq \in Seq(Op) /\ sub \in Seq(Op)
    /\ armed \subseteq Clients
    /\ cq \in Seq([op : {"read", "write", "close"}, c : Clients,
                   res : Results, more : BOOLEAN])
    /\ batch = SubSeq(cq, 1, Len(batch)) /\ Len(batch) <= Batch
    /\ pc \in {"wait", "enterWait", "enter", "handle", "killed"}
    /\ inbox \in [Clients -> Seq(Message)]
    /\ left \in [Clients -> Nat]
    /\ hungup \subseteq Clients /\ starved \subseteq Clients
    /\ echoed \in [Clients -> SUBSET (Message \cup {None})]

Prepared(op, c) ==
    Cardinality({i \in DOMAIN sq : sq[i] = [op |-> op, c |-> c]}) +
    Cardinality({i \in DOMAIN sub : sub[i] = [op |-> op, c |-> c]})

\* The receives of a client: prepared, in the kernel, or ended by a
\* completion that is still to be handled.
Receives(c) ==
    Prepared("read", c) + (IF c \in armed THEN 1 ELSE 0) +
    Cardinality({i \in DOMAIN cq : cq[i].op = "read" /\ cq[i].c = c /\ ~cq[i].more})

\* A client of the map has one receive at work, unless the last one ended with
\* an error that processEvents ignores; and no client has two, which would
\* take its stream apart between them (the IORING_CQE_F_MORE test).
OneReceive ==
    \A c \in Clients :
        /\ Receives(c) <= 1
        /\ c \in socks \ (starved \cup {adding}) => Receives(c) = 1

\* A client is closed once: one close request at most is prepared for its
\* number, however many completions for it wait in the batch.
ClosesOnce ==
    \A c \in Clients :
        Prepared("close", c) + (IF c \in socks THEN 1 ELSE 0) +
        Cardinality({i \in DOMAIN cq : cq[i].op = "close" /\ cq[i].c = c}) <= 1

\* What is given back never overruns the buffer ring: with the writes at work
\* it holds NUM_IO_BUFFERS entries at most.
RingFits ==
    Len(ring)
    + Cardinality({i \in DOMAIN sq : sq[i].op = "write"})
    + Cardinality({i \in DOMAIN sub : sub[i].op = "write"})
    + Cardinality({i \in DOMAIN cq : cq[i].op = "write" \/ cq[i].res = "data"})
        <= NumBuffers

-----------------------------------------------------------------------------
(* What the code's comments say, and a run refutes. *)

\* "Send the echo message to the sender": the responses of a client are
\* messages of that client.
EchoIsOwn == \A c \in Clients : \A m \in echoed[c] : m.from = c
=============================================================================

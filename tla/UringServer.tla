----------------------------- MODULE UringServer -----------------------------
(***************************************************************************)
(* The io_uring chat server around its sessions: main, the Listener and    *)
(* its ring with multishot accepts, the SessionManager (start, stop,       *)
(* assignClientToSession, removeSession) and the descriptor table, whose   *)
(* numbers are given out again as soon as they are closed.                 *)
(*                                                                         *)
(* Of a session there is its map, its ring's receives and what it does to  *)
(* close a client.  Messages that are answered, buffers, and when a ring   *)
(* is entered are in UringSession; moving clients is in UringJoin.         *)
(***************************************************************************)
EXTENDS Integers, Sequences

CONSTANTS
    Conns,        \* connections that clients make
    NumFds,       \* descriptors left under RLIMIT_NOFILE
    NumSessions,  \* num_threads: ids and indexes 0 .. NumSessions - 1 agree
    None          \* no connection, no session, no number

ASSUME SizeAssumption == NumFds \in Nat \ {0} /\ NumSessions \in Nat \ {0}

Fds == 0..(NumFds - 1)
Sessions == 0..(NumSessions - 1)

Failed == NumFds              \* the result of an accept that failed

ASSUME NoneAssumption ==
    None \notin Conns /\ None \notin Fds \cup Sessions \cup {Failed}

VARIABLES
    fdTable,      \* the connection behind each descriptor, or None
    joined,       \* history: clients that have connected
    backlog,      \* connections that wait to be accepted
    inbox,        \* connections with a closing message in the kernel
    spoken,       \* history: clients that have sent their message
    hungup,       \* clients that have closed their side
    mpc,          \* where main is
    lsq,          \* accepts prepared in the listener's ring
    accepting,    \* multishot accepts in the kernel
    lcq,          \* completions of the listener's ring
    lbatch,       \* how many of them this round still handles
    lfd,          \* the number processEvents is at, or None
    assigned,     \* history: how many clients were assigned to a session
    failures,     \* history: how many accepts failed
    mrunning,     \* SessionManager::running_
    nextIndex,    \* next_session_index_, modulo the number of sessions
    mapped,       \* client_sessions_
    socks,        \* socks[s]: keys of the session's client_sockets_
    sq,           \* sq[s]: entries prepared in the session's ring
    armed,        \* armed[s][<<fd, c>>]: receives on c, prepared for the number fd
    wpc,          \* where each worker is
    wfd           \* the number whose client it closes, and what to rearm

peerVars     == <<joined, inbox, spoken, hungup>>
ringVars     == <<lsq, accepting, lcq, failures>>
listenerVars == <<mpc, lbatch, lfd, assigned>>
managerVars  == <<mrunning, nextIndex, mapped>>
sessionVars  == <<socks, sq, armed>>
workerVars   == <<wpc, wfd>>
vars == <<fdTable, backlog, peerVars, ringVars, listenerVars,
          managerVars, sessionVars, workerVars>>

Op(op, fd) == [op |-> op, fd |-> fd]
Idle == [fd |-> None, rearm |-> FALSE]

Free == {fd \in Fds : fdTable[fd] = None}

\* close(2), by whoever believes that the number is still theirs.
Closed_Kept(fd) == fdTable

Closed(fd) == [fdTable EXCEPT ![fd] = None]

-----------------------------------------------------------------------------
(* The clients. *)

Connect(c) ==
    /\ mpc \in {"peek", "handle", "reset", "assign"}
    /\ c \notin joined
    /\ joined' = joined \cup {c}
    /\ backlog' = backlog \cup {c}
    /\ UNCHANGED <<fdTable, inbox, spoken, hungup, ringVars,
                   listenerVars, managerVars, sessionVars, workerVars>>

\* A message after which the server closes the client.
Send(c) ==
    /\ c \in joined \ (hungup \cup spoken)
    /\ inbox' = inbox \cup {c}
    /\ spoken' = spoken \cup {c}
    /\ UNCHANGED <<fdTable, backlog, joined, hungup, ringVars,
                   listenerVars, managerVars, sessionVars, workerVars>>

Hangup(c) ==
    /\ c \in joined \ hungup
    /\ hungup' = hungup \cup {c}
    /\ UNCHANGED <<fdTable, backlog, joined, inbox, spoken, ringVars,
                   listenerVars, managerVars, sessionVars, workerVars>>

-----------------------------------------------------------------------------
(* The kernel's side of the listener's ring. *)

\* A multishot accept takes the lowest free number and stays (it would end if
\* the completion queue, of 16384 entries, were full).
Accept(c) ==
    /\ accepting > 0 /\ c \in backlog
    /\ \E fd \in Free :
          /\ \A other \in Free : fd <= other
          /\ lcq' = Append(lcq, fd)
          /\ fdTable' = [fdTable EXCEPT ![fd] = c]
    /\ backlog' = backlog \ {c}
    /\ UNCHANGED <<peerVars, lsq, accepting, failures, listenerVars,
                   managerVars, sessionVars, workerVars>>

\* EMFILE ends it, and the connection waits on.
AcceptFails ==
    /\ accepting > 0 /\ backlog # {} /\ Free = {}
    /\ lcq' = Append(lcq, Failed)
    /\ accepting' = accepting - 1
    /\ failures' = failures + 1
    /\ UNCHANGED <<fdTable, backlog, peerVars, lsq, listenerVars, managerVars,
                   sessionVars, workerVars>>

-----------------------------------------------------------------------------
(* main: start and the end of a start that fails. *)

\* SessionManager::initialize and start: one thread per session.
StartManager ==
    /\ mpc = "init"
    /\ mrunning' = TRUE
    /\ wpc' = [s \in Sessions |-> "loop"]
    /\ mpc' = "listen"
    /\ UNCHANGED <<fdTable, backlog, peerVars, ringVars, lbatch, lfd, assigned,
                   nextIndex, mapped, sessionVars, wfd>>

\* A ring cannot be made (initialize), or the port is taken (Listener::start):
\* the exception reaches main's handler, "return 1".
StartThrows ==
    /\ mpc \in {"init", "listen"}
    /\ mpc' = "destroy"
    /\ UNCHANGED <<fdTable, backlog, peerVars, ringVars, lbatch, lfd, assigned,
                   managerVars, sessionVars, workerVars>>

\* Listener::start prepares the first accept, and leaves it unsubmitted.
StartListener ==
    /\ mpc = "listen"
    /\ lsq' = 1
    /\ mpc' = "peek"
    /\ UNCHANGED <<fdTable, backlog, peerVars, accepting, lcq, failures,
                   lbatch, lfd, assigned, managerVars, sessionVars, workerVars>>

\* ~SessionManager, a static object, runs stop after main has returned.
StopFlag_Forgotten == mrunning

StopFlag == FALSE

Stop ==
    /\ mpc = "destroy"
    /\ mrunning' = StopFlag
    /\ mpc' = "join"
    /\ UNCHANGED <<fdTable, backlog, peerVars, ringVars, lbatch, lfd, assigned,
                   nextIndex, mapped, sessionVars, workerVars>>

\* stop joins every thread it finds joinable.
Join ==
    /\ mpc = "join"
    /\ \A s \in Sessions : wpc[s] \in {"none", "done"}
    /\ mpc' = "exited"
    /\ UNCHANGED <<fdTable, backlog, peerVars, ringVars, lbatch, lfd, assigned,
                   managerVars, sessionVars, workerVars>>

-----------------------------------------------------------------------------
(* main's loop: Listener::processEvents. *)

\* peekCQE finds completions.
Peek ==
    /\ mpc = "peek" /\ lcq # <<>>
    /\ lbatch' = Len(lcq)
    /\ mpc' = "handle"
    /\ UNCHANGED <<fdTable, backlog, peerVars, ringVars, lfd, assigned,
                   managerVars, sessionVars, workerVars>>

\* What io_uring_submit leaves in the submission queue, and in the kernel.
SubmittedAccepts == accepting + lsq

\* It finds none: submitAndWait, which returns when there is one to peek.
SubmitAndWait ==
    /\ mpc = "peek" /\ lcq = <<>> /\ lsq > 0
    /\ accepting' = SubmittedAccepts
    /\ lsq' = 0
    /\ UNCHANGED <<fdTable, backlog, peerVars, lcq, failures, listenerVars,
                   managerVars, sessionVars, workerVars>>

\* The next completion of the batch (the queue is advanced entry by entry
\* here; nobody can tell).
NextCqe ==
    /\ mpc = "handle" /\ lbatch > 0
    /\ lcq' = Tail(lcq)
    /\ lbatch' = lbatch - 1

\* "Accept failed" is logged, and that is all.
LogFailure ==
    /\ NextCqe
    /\ Head(lcq) = Failed
    /\ UNCHANGED <<fdTable, backlog, peerVars, lsq, accepting, failures, mpc, lfd,
                   assigned, managerVars, sessionVars, workerVars>>

\* A Socket for the number; setNonBlocking fails if somebody has closed it.
TakeSocket ==
    /\ NextCqe
    /\ Head(lcq) # Failed
    /\ lfd' = Head(lcq)
    /\ mpc' = IF fdTable[Head(lcq)] = None THEN "reset" ELSE "assign"
    /\ UNCHANGED <<fdTable, backlog, peerVars, lsq, accepting, failures,
                   assigned, managerVars, sessionVars, workerVars>>

\* clientSocket.reset() closes the number once more; no accept is prepared.
ResetSocket ==
    /\ mpc = "reset"
    /\ fdTable' = Closed(lfd)
    /\ lfd' = None
    /\ mpc' = "handle"
    /\ UNCHANGED <<backlog, peerVars, ringVars, lbatch, assigned, managerVars,
                   sessionVars, workerVars>>

\* mutex_ is held by a worker inside removeSession.
MutexHeld == \E s \in Sessions : wpc[s] = "temp"

\* An accept is prepared again for every client that was assigned.
Reprepared_Never == lsq

Reprepared == lsq + 1

\* available_sessions_ is gone round.
NextIndex_Unbounded == nextIndex + 1

NextIndex == (nextIndex + 1) % NumSessions

\* assignClientToSession, under the mutex, and addClient in it; a Socket that
\* the session still has under the number is replaced, and closes it.
Assign ==
    LET s == nextIndex IN
    /\ mpc = "assign" /\ ~MutexHeld
    /\ nextIndex' = NextIndex
    /\ assigned' = assigned + 1
    /\ mapped' = [mapped EXCEPT ![lfd] = s]
    /\ fdTable' = IF lfd \in socks[s] THEN Closed(lfd) ELSE fdTable
    /\ socks' = [socks EXCEPT ![s] = @ \cup {lfd}]
    /\ sq' = [sq EXCEPT ![s] = Append(@, Op("read", lfd))]
    /\ lsq' = Reprepared
    /\ lfd' = None
    /\ mpc' = "handle"
    /\ UNCHANGED <<backlog, peerVars, accepting, lcq, failures, lbatch,
                   mrunning, armed, workerVars>>

\* advanceCQ, submit, and main's sleep of 10 ms: running is never cleared.
RoundEnds ==
    /\ mpc = "handle" /\ lbatch = 0
    /\ accepting' = SubmittedAccepts
    /\ lsq' = 0
    /\ mpc' = "peek"
    /\ UNCHANGED <<fdTable, backlog, peerVars, lcq, failures, lbatch, lfd,
                   assigned, managerVars, sessionVars, workerVars>>

-----------------------------------------------------------------------------
(* The worker of session s. *)

Goto(s, label) == wpc' = [wpc EXCEPT ![s] = label]

\* sessionWorker's loop ends when stop has cleared the flag.
WorkerEnds(s) ==
    /\ wpc[s] = "loop" /\ ~mrunning
    /\ Goto(s, "done")
    /\ UNCHANGED <<fdTable, backlog, peerVars, ringVars, listenerVars,
                   managerVars, sessionVars, wfd>>

\* processEvents is at its completions: it needs a client to begin with, not
\* to go on.
Busy(s) ==
    \/ wpc[s] = "batch"
    \/ wpc[s] = "loop" /\ mrunning /\ socks[s] # {}

\* A completion of a receive: the end of the stream, or a message after which
\* handleClose is called.  removeClient is its first step; a number that is
\* not in the map is passed over.  Only CLIENT_LEAVE goes on to the test for
\* a new receive.
Removed(s, fd) == [socks EXCEPT ![s] = @ \ {fd}]

Take(s, fd, c) ==
    /\ Busy(s)
    /\ armed[s][<<fd, c>>] > 0
    /\ \E more, rearm \in BOOLEAN :
          /\ IF c \in inbox THEN ~(more /\ rearm)
                            ELSE c \in hungup /\ ~more /\ ~rearm
          /\ armed' = [armed EXCEPT ![s][<<fd, c>>] = IF more THEN @ ELSE @ - 1]
          /\ inbox' = inbox \ {c}
          /\ IF fd \in socks[s]
             THEN /\ socks' = Removed(s, fd)
                  /\ wfd' = [wfd EXCEPT ![s] = [fd |-> fd, rearm |-> rearm]]
                  /\ Goto(s, "unmap")
             ELSE Goto(s, "batch") /\ UNCHANGED <<socks, wfd>>
    /\ UNCHANGED <<fdTable, backlog, joined, spoken, hungup, ringVars,
                   listenerVars, managerVars, sq>>

\* The entry of client_sessions_ is erased.
Unmapped_Kept(fd) == mapped

Unmapped(fd) == [mapped EXCEPT ![fd] = None]

\* removeSession takes the mutex and asks the session that the number is
\* mapped to, not always this one, to drop its Socket.  The Socket made for
\* that call closes the number as well, now or in DropTemporary.
Unmap(s) ==
    LET fd == wfd[s].fd
        m  == mapped[fd]
    IN
    /\ wpc[s] = "unmap" /\ ~MutexHeld
    /\ \/ /\ m = None
          /\ Goto(s, "drop")
          /\ UNCHANGED <<fdTable, mapped, socks>>
       \/ /\ m # None /\ fd \notin socks[m]
          /\ fdTable' = Closed(fd)
          /\ mapped' = Unmapped(fd)
          /\ Goto(s, "drop")
          /\ UNCHANGED socks
       \/ /\ m # None /\ fd \in socks[m]
          /\ fdTable' = Closed(fd)
          /\ socks' = Removed(m, fd)
          /\ Goto(s, "temp")
          /\ UNCHANGED mapped
    /\ UNCHANGED <<backlog, peerVars, ringVars, listenerVars, mrunning,
                   nextIndex, sq, armed, wfd>>

DropTemporary(s) ==
    /\ wpc[s] = "temp"
    /\ fdTable' = Closed(wfd[s].fd)
    /\ mapped' = Unmapped(wfd[s].fd)
    /\ Goto(s, "drop")
    /\ UNCHANGED <<backlog, peerVars, ringVars, listenerVars, mrunning,
                   nextIndex, sessionVars, wfd>>

\* prepareClose, the new receive if one is due, and handleRead's own Socket.
DropSocket(s) ==
    LET fd == wfd[s].fd IN
    /\ wpc[s] = "drop"
    /\ sq' = [sq EXCEPT ![s] = @ \o <<Op("close", fd)>> \o
                IF wfd[s].rearm THEN <<Op("read", fd)>> ELSE <<>>]
    /\ fdTable' = Closed(fd)
    /\ wfd' = [wfd EXCEPT ![s] = Idle]
    /\ Goto(s, "batch")
    /\ UNCHANGED <<backlog, peerVars, ringVars, listenerVars,
                   managerVars, socks, armed>>

\* The ring's entries reach the kernel in order; EBADF is passed over.
Submit(s) ==
    /\ Busy(s) /\ sq[s] # <<>>
    /\ LET o == Head(sq[s])
           c == fdTable[o.fd]
       IN
       /\ armed' = IF o.op = "read" /\ c # None
                   THEN [armed EXCEPT ![s][<<o.fd, c>>] = @ + 1] ELSE armed
       /\ fdTable' = IF o.op = "close" THEN Closed(o.fd) ELSE fdTable
    /\ sq' = [sq EXCEPT ![s] = Tail(@)]
    /\ UNCHANGED <<backlog, peerVars, ringVars, listenerVars,
                   managerVars, socks, workerVars>>

\* processEvents returns when everything prepared is submitted.
Submitted(s) ==
    /\ wpc[s] = "batch" /\ sq[s] = <<>>
    /\ Goto(s, "loop")
    /\ UNCHANGED <<fdTable, backlog, peerVars, ringVars, listenerVars,
                   managerVars, sessionVars, wfd>>

-----------------------------------------------------------------------------
Init ==
    /\ fdTable = [fd \in Fds |-> None]
    /\ joined = {} /\ backlog = {} /\ inbox = {} /\ spoken = {} /\ hungup = {}
    /\ mpc = "init" /\ lfd = None
    /\ lsq = 0 /\ accepting = 0 /\ lcq = <<>> /\ lbatch = 0
    /\ assigned = 0 /\ failures = 0
    /\ mrunning = FALSE /\ nextIndex = 0
    /\ mapped = [fd \in Fds |-> None]
    /\ socks = [s \in Sessions |-> {}]
    /\ sq = [s \in Sessions |-> <<>>]
    /\ armed = [s \in Sessions |-> [p \in Fds \X Conns |-> 0]]
    /\ wpc = [s \in Sessions |-> "none"]
    /\ wfd = [s \in Sessions |-> Idle]

Main ==
    \/ StartManager \/ StartThrows \/ StartListener \/ Stop \/ Join
    \/ Peek \/ SubmitAndWait
    \/ LogFailure \/ TakeSocket \/ ResetSocket \/ Assign \/ RoundEnds

Worker(s) ==
    \/ WorkerEnds(s)
    \/ \E fd \in Fds, c \in Conns : Take(s, fd, c)
    \/ Unmap(s) \/ DropTemporary(s) \/ DropSocket(s)
    \/ Submit(s) \/ Submitted(s)

Client(c) == Connect(c) \/ Hangup(c) \/ Send(c)

Next ==
    \/ Main
    \/ \E s \in Sessions : Worker(s)
    \/ \E c \in Conns : Client(c) \/ Accept(c)
    \/ AcceptFails

Spec == Init /\ [][Next]_vars

-----------------------------------------------------------------------------
(* What must hold. *)

\* The values the variables take: in particular the index at which
\* assignClientToSession looks a session up is always one that exists.
TypeOK ==
    /\ fdTable \in [Fds -> Conns \cup {None}]
    /\ joined \subseteq Conns /\ backlog \subseteq joined
    /\ hungup \subseteq joined /\ spoken \subseteq joined
    /\ inbox \subseteq spoken
    /\ mpc \in {"init", "listen", "destroy", "join", "exited",
                "peek", "handle", "reset", "assign"}
    /\ lsq \in Nat /\ accepting \in Nat
    /\ assigned \in Nat /\ failures \in Nat
    /\ lcq \in Seq(Fds \cup {Failed}) /\ lbatch \in 0..Len(lcq)
    /\ lfd \in Fds \cup {None}
    /\ mrunning \in BOOLEAN /\ nextIndex \in Sessions
    /\ mapped \in [Fds -> Sessions \cup {None}]
    /\ socks \in [Sessions -> SUBSET Fds]
    /\ sq \in [Sessions -> Seq([op : {"read", "close"}, fd : Fds])]
    /\ armed \in [Sessions -> [Fds \X Conns -> Nat]]
    /\ wpc \in [Sessions -> {"none", "loop", "batch", "unmap", "temp", "drop", "done"}]
    /\ wfd \in [Sessions -> [fd : Fds \cup {None}, rearm : BOOLEAN]]

\* What client_sessions_ says of a number is true: the session it names lists
\* the number, or a worker is just closing it.
ManagerAgrees ==
    \A fd \in Fds :
        mapped[fd] # None =>
            \/ fd \in socks[mapped[fd]]
            \/ \E s \in Sessions : wfd[s].fd = fd /\ wpc[s] \in {"unmap", "temp"}

\* No descriptor leaks, whatever stale numbers are closed: an open one is
\* about to be handed to a session, is listed by one, or is being closed.
OpenIsOwned ==
    \A fd \in Fds \ Free :
        \/ \E i \in DOMAIN lcq : lcq[i] = fd
        \/ lfd = fd
        \/ \E s \in Sessions : fd \in socks[s] \/ wfd[s].fd = fd

Listening == mpc \in {"peek", "handle", "reset", "assign"}

\* The listener does not go deaf while accepts succeed: each client that is
\* assigned leaves one accept more than before, so only more failed accepts
\* (Listener.cpp:85 prepares none for them) than clients served can end it.
ListenerHears ==
    Listening /\ failures <= assigned => lsq + accepting > 0

\* stop() returns: a worker it joins after a failed start is ending, or is at
\* the test of the flags with no client, so not in an io_uring wait that
\* nothing would wake.
JoinReturns ==
    mpc = "join" =>
        \A s \in Sessions :
            \/ wpc[s] \in {"none", "done"}
            \/ wpc[s] = "loop" /\ ~mrunning /\ socks[s] = {}
=============================================================================

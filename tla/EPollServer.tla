----------------------------- MODULE EPollServer -----------------------------
(***************************************************************************)
(* The epoll server's connections and the descriptors that name them: the  *)
(* listener's accept loop (Listener::processEvents), round-robin           *)
(* assignment to sessions (SessionManager::assignClientToSession,          *)
(* Session::addClient), and the closing of a connection by the workers     *)
(* (Session::processEvents, handleClose, EPoll::prepareClose, ~Socket).    *)
(*                                                                         *)
(* What EPollSession abstracts from is the subject here: a descriptor is a *)
(* number the kernel hands out again as soon as it is closed, a Socket     *)
(* object closes its number when its last owner lets go of it, and the     *)
(* sessions' threads and the listener's thread share the descriptor table. *)
(* Data is left out: what is kept of a handler is whether it closes the    *)
(* connection, on a hangup or because a write or a read failed.            *)
(***************************************************************************)
EXTENDS Integers, FiniteSets

CONSTANTS
    Conns,        \* the connections clients make
    Descriptors,  \* the descriptor numbers the process may use
    NumSessions,  \* num_sessions
    CounterSpan,  \* values of next_session_index_ before it wraps around
    None          \* no connection, no descriptor

ASSUME DescriptorAssumption == Descriptors \subseteq Nat
ASSUME ConnsAssumption == IsFiniteSet(Conns)
ASSUME SessionAssumption ==
    NumSessions \in Nat \ {0} /\ CounterSpan \in Nat \ {0}
ASSUME NoneAssumption == None \notin Conns /\ None \notin Nat

Sessions == 0..(NumSessions - 1)     \* available_sessions_

VARIABLES
    fdTable,      \* the process's descriptor table: connection behind each fd
    backlog,      \* connections waiting to be accepted
    gone,         \* connections whose client has hung up
    ended,        \* connections the server has closed
    socks,        \* socks[s][fd]: connection the Socket in client_sockets_ was made for
    watched,      \* watched[s]: connections registered in the session's epoll set
    assigned,     \* client_sessions_
    nextIndex,    \* next_session_index_
    lpc,          \* where the listener is
    lfd, lconn,   \* client_fd it has accepted, and the connection it was for
    lses,         \* the session it picked
    wpc,          \* where each session's worker is
    wfd,          \* the descriptor whose event it handles
    placed,       \* history: how many connections each session was given
    wraps         \* history: how often next_session_index_ has wrapped around

listener == <<lpc, lfd, lconn, lses>>
workers  == <<wpc, wfd>>
history  == <<placed, wraps>>
vars == <<fdTable, backlog, gone, ended, socks, watched, assigned, nextIndex,
          listener, workers, history>>

-----------------------------------------------------------------------------
(* The kernel. *)

Free == {fd \in Descriptors : fdTable[fd] = None}

LowestFree == CHOOSE fd \in Free : \A g \in Free : fd <= g

\* close(): the number is free again, and the connection behind it is over and
\* leaves every epoll set.  On a number that is not in use: EBADF.
Close(fd) ==
    IF fdTable[fd] = None
    THEN UNCHANGED <<fdTable, ended, watched>>
    ELSE /\ fdTable' = [fdTable EXCEPT ![fd] = None]
         /\ ended' = ended \cup {fdTable[fd]}
         /\ watched' = [s \in Sessions |-> watched[s] \ {fdTable[fd]}]

Connect(k) ==
    /\ k \notin backlog \cup gone \cup ended
    /\ \A fd \in Descriptors : fdTable[fd] # k
    /\ backlog' = backlog \cup {k}
    /\ UNCHANGED <<fdTable, gone, ended, socks, watched, assigned, nextIndex,
                   listener, workers, history>>

Hangup(k) ==
    /\ k \notin gone
    /\ k \in backlog \/ \E fd \in Descriptors : fdTable[fd] = k
    /\ gone' = gone \cup {k}
    /\ UNCHANGED <<fdTable, backlog, ended, socks, watched, assigned,
                   nextIndex, listener, workers, history>>

-----------------------------------------------------------------------------
(* The listener thread. *)

Accept ==
    /\ lpc = "accept"
    /\ backlog # {} /\ Free # {}
    /\ \E k \in backlog :
          /\ backlog' = backlog \ {k}
          /\ fdTable' = [fdTable EXCEPT ![LowestFree] = k]
          /\ lconn' = k
    /\ lfd' = LowestFree
    /\ lpc' = "nonblock"
    /\ UNCHANGED <<gone, ended, socks, watched, assigned, nextIndex, lses,
                   workers, history>>

\* setNonBlocking works on any open descriptor; it fails when somebody has
\* closed the number, and the new Socket is dropped.
SetNonBlocking ==
    /\ lpc = "nonblock"
    /\ IF fdTable[lfd] # None
       THEN lpc' = "assign" /\ UNCHANGED <<lfd, lconn>>
       ELSE lpc' = "accept" /\ lfd' = None /\ lconn' = None
    /\ UNCHANGED <<fdTable, backlog, gone, ended, socks, watched, assigned,
                   nextIndex, lses, workers, history>>

RoundRobin_Fixed(i) == 0

RoundRobin_OneBased(i) == (i % NumSessions) + 1

RoundRobin(i) == i % NumSessions

MapClient_Old(fd, s) == IF assigned[fd] = None THEN [assigned EXCEPT ![fd] = s]
                                             ELSE assigned

MapClient(fd, s) == [assigned EXCEPT ![fd] = s]

Assign ==
    /\ lpc = "assign"
    /\ lses' = RoundRobin(nextIndex)
    /\ nextIndex' = (nextIndex + 1) % CounterSpan
    /\ assigned' = MapClient(lfd, lses')
    /\ placed' = [placed EXCEPT ![lses'] = @ + 1]
    /\ wraps' = IF nextIndex' = 0 THEN wraps + 1 ELSE wraps
    /\ lpc' = "register"
    /\ UNCHANGED <<fdTable, backlog, gone, ended, socks, watched, lfd, lconn,
                   workers>>

\* prepareRead: EPOLL_CTL_ADD of whatever the number names now.
Register ==
    /\ lpc = "register"
    /\ watched' = IF fdTable[lfd] = None THEN watched
                  ELSE [watched EXCEPT ![lses] = @ \cup {fdTable[lfd]}]
    /\ lpc' = "insert"
    /\ UNCHANGED <<fdTable, backlog, gone, ended, socks, assigned, nextIndex,
                   lfd, lconn, lses, workers, history>>

\* client_sockets_[client_fd] = client_socket: a Socket that was there is
\* destroyed, and closes its number.
Insert ==
    /\ lpc = "insert"
    /\ socks' = [socks EXCEPT ![lses][lfd] = lconn]
    /\ IF socks[lses][lfd] # None
       THEN Close(lfd)
       ELSE UNCHANGED <<fdTable, ended, watched>>
    /\ lpc' = "accept"
    /\ lfd' = None /\ lconn' = None
    /\ UNCHANGED <<backlog, gone, assigned, nextIndex, lses, workers, history>>

-----------------------------------------------------------------------------
(* The worker of session s. *)

\* epoll_wait returns an event of a registered connection: its hangup, or that
\* it can be read or written.
Poll(s) ==
    /\ wpc[s] = "poll"
    /\ \E fd \in Descriptors : socks[s][fd] # None   \* the session is not empty
    /\ \E fd \in Descriptors :
          /\ fdTable[fd] \in watched[s]
          /\ wfd' = [wfd EXCEPT ![s] = fd]
          /\ wpc' = [wpc EXCEPT ![s] =
                        IF fdTable[fd] \in gone THEN "hangup" ELSE "ready"]
    /\ UNCHANGED <<fdTable, backlog, gone, ended, socks, watched, assigned,
                   nextIndex, listener, history>>

Unwatched(s, fd) == [watched EXCEPT ![s] = @ \ {fdTable[fd]}]

\* No Socket for the event's descriptor: removeEvent.
NotFound(s) ==
    /\ wpc[s] \in {"hangup", "ready"}
    /\ socks[s][wfd[s]] = None
    /\ watched' = Unwatched(s, wfd[s])
    /\ wpc' = [wpc EXCEPT ![s] = "poll"]
    /\ wfd' = [wfd EXCEPT ![s] = None]
    /\ UNCHANGED <<fdTable, backlog, gone, ended, socks, assigned, nextIndex,
                   listener, history>>

\* handleWrite and handleRead go well, or do nothing.
Serve(s) ==
    /\ wpc[s] = "ready"
    /\ socks[s][wfd[s]] # None
    /\ wpc' = [wpc EXCEPT ![s] = "poll"]
    /\ wfd' = [wfd EXCEPT ![s] = None]
    /\ UNCHANGED <<fdTable, backlog, gone, ended, socks, watched, assigned,
                   nextIndex, listener, history>>

\* handleClose: removeEvent and erase; processEvents still holds the Socket.
Erased_All(s, fd) == [socks EXCEPT ![s] = [d \in Descriptors |-> None]]

Erased(s, fd) == [socks EXCEPT ![s][fd] = None]

Forget(s, next) ==
    /\ socks[s][wfd[s]] # None
    /\ watched' = Unwatched(s, wfd[s])
    /\ socks' = Erased(s, wfd[s])
    /\ wpc' = [wpc EXCEPT ![s] = next]
    /\ UNCHANGED <<fdTable, backlog, gone, ended, assigned, nextIndex, wfd,
                   listener, history>>

\* The event says that the connection is over.
HangupSeen(s) == wpc[s] = "hangup" /\ Forget(s, "close")

\* A read or a write of the number fails: the client has reset the connection
\* it names now, or it names none.
Fails(fd) == fdTable[fd] \in gone \cup {None}

\* handleWrite closes; processEvents goes on to handleRead with the Socket it
\* holds.
WriteFails(s) == wpc[s] = "ready" /\ Fails(wfd[s]) /\ Forget(s, "wclose")

ReadFails(s) == wpc[s] = "ready" /\ Fails(wfd[s]) /\ Forget(s, "close")

\* handleRead after handleWrite has closed: the number may name another
\* connection by now, and the map hold the Socket the listener made for it.
\* The erase destroys that one, which closes the number before prepareClose.
ReadFailsAgain(s) ==
    /\ wpc[s] = "read"
    /\ Fails(wfd[s])
    /\ IF socks[s][wfd[s]] # None
       THEN Close(wfd[s])
       ELSE watched' = Unwatched(s, wfd[s]) /\ UNCHANGED <<fdTable, ended>>
    /\ socks' = Erased(s, wfd[s])
    /\ wpc' = [wpc EXCEPT ![s] = "close"]
    /\ UNCHANGED <<backlog, gone, assigned, nextIndex, wfd, listener, history>>

\* The event has no EPOLLIN, or the read takes what the number gives.
ReadOn(s) ==
    /\ wpc[s] = "read"
    /\ wpc' = [wpc EXCEPT ![s] = "drop"]
    /\ UNCHANGED <<fdTable, backlog, gone, ended, socks, watched, assigned,
                   nextIndex, wfd, listener, history>>

\* prepareClose: close(client_fd).
PrepareClose(s) ==
    /\ wpc[s] \in {"close", "wclose"}
    /\ Close(wfd[s])
    /\ wpc' = [wpc EXCEPT ![s] = IF @ = "close" THEN "drop" ELSE "read"]
    /\ UNCHANGED <<backlog, gone, socks, assigned, nextIndex, wfd, listener,
                   history>>

\* The last SharedPtr goes at the end of the iteration: ~Socket closes the
\* number again.
DropSocket(s) ==
    /\ wpc[s] = "drop"
    /\ Close(wfd[s])
    /\ wpc' = [wpc EXCEPT ![s] = "poll"]
    /\ wfd' = [wfd EXCEPT ![s] = None]
    /\ UNCHANGED <<backlog, gone, socks, assigned, nextIndex, listener, history>>

WorkerSteps == {"poll", "hangup", "ready", "close", "wclose", "read", "drop"}

-----------------------------------------------------------------------------
Init ==
    /\ fdTable = [fd \in Descriptors |-> None]
    /\ backlog = {} /\ gone = {} /\ ended = {}
    /\ socks = [s \in Sessions |-> [fd \in Descriptors |-> None]]
    /\ watched = [s \in Sessions |-> {}]
    /\ assigned = [fd \in Descriptors |-> None]
    /\ nextIndex = 0
    /\ lpc = "accept" /\ lfd = None /\ lconn = None /\ lses = 0
    /\ wpc = [s \in Sessions |-> "poll"]
    /\ wfd = [s \in Sessions |-> None]
    /\ placed = [s \in Sessions |-> 0] /\ wraps = 0

Worker(s) ==
    \/ Poll(s) \/ NotFound(s) \/ Serve(s)
    \/ HangupSeen(s) \/ WriteFails(s) \/ ReadFails(s)
    \/ PrepareClose(s) \/ ReadFailsAgain(s) \/ ReadOn(s) \/ DropSocket(s)

Listener == Accept \/ SetNonBlocking \/ Assign \/ Register \/ Insert

Next ==
    \/ Listener
    \/ \E s \in Sessions : Worker(s)
    \/ \E k \in Conns : Connect(k) \/ Hangup(k)

Spec == Init /\ [][Next]_vars

-----------------------------------------------------------------------------
(* What must hold. *)

\* The values the variables take (fields of SessionManager and Session).
TypeOK ==
    /\ fdTable \in [Descriptors -> Conns \cup {None}]
    /\ backlog \subseteq Conns /\ gone \subseteq Conns /\ ended \subseteq Conns
    /\ socks \in [Sessions -> [Descriptors -> Conns \cup {None}]]
    /\ watched \in [Sessions -> SUBSET Conns]
    /\ assigned \in [Descriptors -> Sessions \cup {None}]
    /\ nextIndex \in 0..(CounterSpan - 1)
    /\ lpc \in {"accept", "nonblock", "assign", "register", "insert"}
    /\ lfd \in Descriptors \cup {None} /\ lconn \in Conns \cup {None}
    /\ lses \in Sessions
    /\ wpc \in [Sessions -> WorkerSteps]
    /\ wfd \in [Sessions -> Descriptors \cup {None}]
    /\ placed \in [Sessions -> 0..Cardinality(Conns)] /\ wraps \in Nat

\* Round robin spreads the connections evenly (fetch_add % size): the loads
\* differ by one, and by one more for each time the counter has wrapped.
RoundRobinBalance ==
    \A s, t \in Sessions :
        placed[s] - placed[t] <= 1 + wraps

\* client_sessions_ is never cleaned when a connection closes, and still what
\* it says of a live connection's descriptor is right: the session it names is
\* the one that watches it.
AssignmentMatches ==
    \A fd \in Descriptors, s \in Sessions :
        fdTable[fd] \in watched[s] => assigned[fd] = s

\* A worker that gets the event of a connection finds a Socket under its
\* descriptor, whatever was closed and reused in the meantime, except while
\* the listener is inside addClient with it.
WatchedIsListed ==
    \A fd \in Descriptors, s \in Sessions :
        fdTable[fd] \in watched[s] =>
            \/ socks[s][fd] # None
            \/ lpc = "insert" /\ lfd = fd /\ lses = s

-----------------------------------------------------------------------------
(* What the code's comments say, and a run refutes. *)

\* The Socket owns its descriptor and closing frees the resources of the
\* client that left: the server closes a connection only if its client hung up.
OnlyGoneAreClosed == ended \subseteq gone
=============================================================================

------------------------------ MODULE UringJoin ------------------------------
(***************************************************************************)
(* CLIENT_JOIN in the io_uring chat server: a worker moves a client from   *)
(* its own session to another one while the other workers and the listener *)
(* run (Session::handleJoinSession, onClientJoinSession, removeClient,     *)
(* addClient, SessionManager::assignClientToSession, removeSession).       *)
(*                                                                         *)
(* A number that is closed is given out again by the next accept.  A       *)
(* Socket goes by the connection it was made for; it closes its number     *)
(* when its last owner lets go of it, whoever has the number by then.  A   *)
(* receive in the kernel keeps its connection when the number is closed.   *)
(* The messages are JOIN requests; answers and buffers are in UringSession *)
(* and the listener's own steps in UringServer.                            *)
(***************************************************************************)
EXTENDS Integers, Sequences

CONSTANTS
    Conns,        \* connections
    NumFds,       \* descriptors left under RLIMIT_NOFILE
    NumSessions,  \* num_threads: ids and indexes 0 .. NumSessions - 1 agree
    MaxJoins,     \* bound: JOIN requests one client sends
    None          \* no connection, no number, no session

ASSUME BoundAssumption ==
    NumFds \in Nat \ {0} /\ NumSessions \in Nat \ {0} /\ MaxJoins \in Nat

Fds == 0..(NumFds - 1)
Sessions == 0..(NumSessions - 1)

Unknown == NumSessions        \* a number that no session has

ASSUME NoneAssumption ==
    None \notin Conns /\ None \notin Fds \cup Sessions \cup {Unknown}

VARIABLES
    fdTable,      \* the connection behind each descriptor, or None
    joined,       \* history: connections accepted so far
    accepted,     \* accepts that the listener has not come to, oldest first
    socks,        \* socks[s][fd]: the Socket in client_sockets_, or None
    mapped,       \* client_sessions_
    sq,           \* sq[s]: entries prepared in the session's ring
    armed,        \* armed[s][<<fd, c>>]: receives on c, prepared for the number fd
    asked,        \* asked[c]: JOIN requests the kernel holds for c
    left,         \* requests each client may still send
    hungup,       \* clients that have closed their side
    wpc,          \* where each worker is
    hand,         \* what it handles: number, Socket, session asked for (None:
                  \* the stream has ended), IORING_CQE_F_MORE
    refused       \* history: numbers refused a session since they were assigned

clientVars == <<asked, left, hungup>>
ringVars   == <<sq, armed>>
workVars   == <<wpc, hand>>
vars == <<fdTable, joined, accepted, socks, mapped, ringVars, clientVars,
          workVars, refused>>

At(s, label) == wpc[s] = label
Goto(s, label) == wpc' = [wpc EXCEPT ![s] = label]
Op(op, fd) == [op |-> op, fd |-> fd]
Prepare(s, o) == [sq EXCEPT ![s] = Append(@, o)]
EmptyHand == [fd |-> None, sock |-> None, goal |-> None, more |-> FALSE]

Free == {fd \in Fds : fdTable[fd] = None}

Closed(fd) == [fdTable EXCEPT ![fd] = None]

\* ~Socket, when d has left a map or a hand under the number fd and these maps
\* and hands are what is left: the last owner closes the number.
Released_Never(fd, d, maps, hands) == fdTable

Released(fd, d, maps, hands) ==
    IF \/ d = None
       \/ \E t \in Sessions : maps[t][fd] = d \/ hands[t].sock = d
    THEN fdTable ELSE Closed(fd)

-----------------------------------------------------------------------------
(* The clients. *)

AskJoin(c, t) ==
    /\ c \in joined \ hungup /\ left[c] > 0
    /\ asked' = [asked EXCEPT ![c] = Append(@, t)]
    /\ left' = [left EXCEPT ![c] = @ - 1]
    /\ UNCHANGED <<fdTable, joined, accepted, socks, mapped, ringVars, hungup,
                   workVars, refused>>

Hangup(c) ==
    /\ c \in joined \ hungup
    /\ hungup' = hungup \cup {c}
    /\ UNCHANGED <<fdTable, joined, accepted, socks, mapped, ringVars, asked,
                   left, workVars, refused>>

-----------------------------------------------------------------------------
(* The listener. *)

\* A multishot accept takes the lowest free number.
Accept(c) ==
    /\ c \notin joined
    /\ joined' = joined \cup {c}
    /\ \E fd \in Free :
          /\ \A other \in Free : fd <= other
          /\ fdTable' = [fdTable EXCEPT ![fd] = c]
          /\ accepted' = Append(accepted, [fd |-> fd, c |-> c])
    /\ UNCHANGED <<socks, mapped, ringVars, clientVars, workVars, refused>>

\* setNonBlocking finds that somebody has closed the number; reset() closes it
\* again.
DropAccepted ==
    /\ accepted # <<>>
    /\ fdTable[Head(accepted).fd] = None
    /\ accepted' = Tail(accepted)
    /\ UNCHANGED <<fdTable, joined, socks, mapped, ringVars, clientVars,
                   workVars, refused>>

\* mutex_ is held by a worker inside removeSession.
MutexHeld == \E s \in Sessions : At(s, "temp")

\* client_sessions_[client_fd] = session_id
MapTo_Count(s) == s + 1

MapTo(s) == s

\* assignClientToSession under the mutex, and addClient in it; the round robin
\* may have come to any session.  The Socket that the session still has under
\* the number is replaced.
Assign(s) ==
    LET fd   == Head(accepted).fd
        maps == [socks EXCEPT ![s][fd] = Head(accepted).c]
    IN
    /\ accepted # <<>> /\ fdTable[fd] # None /\ ~MutexHeld
    /\ accepted' = Tail(accepted)
    /\ mapped' = [mapped EXCEPT ![fd] = MapTo(s)]
    /\ socks' = maps
    /\ fdTable' = Released(fd, socks[s][fd], maps, hand)
    /\ sq' = Prepare(s, Op("read", fd))
    /\ refused' = refused \ {fd}
    /\ UNCHANGED <<joined, armed, clientVars, workVars>>

-----------------------------------------------------------------------------
(* The worker of session s. *)

Listed(s) == {fd \in Fds : socks[s][fd] # None}

\* processEvents is at its completions: it needs a client to begin with, not
\* to go on.
Busy(s) == At(s, "batch") \/ (At(s, "wait") /\ Listed(s) # {})

\* A receive brings a JOIN request or the end of the stream; a number that is
\* not in the map ("Cannot find socket") is passed over, and the Socket found
\* is whichever the map has.
Take(s, fd, c) ==
    /\ Busy(s)
    /\ armed[s][<<fd, c>>] > 0
    /\ \E more \in BOOLEAN :
          /\ IF asked[c] # <<>>
             THEN asked' = [asked EXCEPT ![c] = Tail(@)]
             ELSE c \in hungup /\ ~more /\ UNCHANGED asked
          /\ armed' = [armed EXCEPT ![s][<<fd, c>>] = IF more THEN @ ELSE @ - 1]
          /\ IF fd \in Listed(s)
             THEN /\ hand' = [hand EXCEPT ![s] =
                        [fd |-> fd, sock |-> socks[s][fd], more |-> more,
                         goal |-> IF asked[c] # <<>> THEN Head(asked[c]) ELSE None]]
                  /\ Goto(s, "found")
             ELSE Goto(s, "batch") /\ UNCHANGED hand
    /\ UNCHANGED <<fdTable, joined, accepted, socks, mapped, sq, left, hungup,
                   refused>>

\* The client is in that session already: SERVER_ACK.
JoinSame(s) ==
    /\ At(s, "found") /\ hand[s].goal = s
    /\ Goto(s, "rearm")
    /\ UNCHANGED <<fdTable, joined, accepted, socks, mapped, ringVars,
                   clientVars, hand, refused>>

\* client_sockets_.erase(client_fd)
Removed_Kept(s, fd) == socks

Removed(s, fd) == [socks EXCEPT ![s][fd] = None]

\* removeClient, the first step of onClientJoinSession and of handleClose;
\* the Socket that it erases may have come since.
Remove(s) ==
    LET fd == hand[s].fd IN
    /\ At(s, "found") /\ hand[s].goal # s
    /\ socks' = Removed(s, fd)
    /\ fdTable' = Released(fd, socks[s][fd], Removed(s, fd), hand)
    /\ Goto(s, "removed")
    /\ UNCHANGED <<joined, accepted, mapped, ringVars, clientVars, hand, refused>>

\* getSessionByIndex, under the mutex: the target is looked up only now, and
\* the exception becomes a SERVER_ERROR.
JoinRefuse(s) ==
    /\ At(s, "removed") /\ hand[s].goal = Unknown /\ ~MutexHeld
    /\ refused' = refused \cup {hand[s].fd}
    /\ Goto(s, "rearm")
    /\ UNCHANGED <<fdTable, joined, accepted, socks, mapped, ringVars,
                   clientVars, hand>>

\* The entry of client_sessions_ is erased.
Unmapped_Kept(fd) == mapped

Unmapped(fd) == [mapped EXCEPT ![fd] = None]

\* Back to onClientJoinSession or handleClose.
AfterUnmap(s) == IF hand[s].goal = None THEN "close" ELSE "add"

\* removeSession takes the mutex and asks the session that the number is
\* mapped to, not always this one, to drop its Socket.  The Socket made for
\* that call closes the number as well, now or in DropTemporary.
Unmap(s) ==
    LET fd == hand[s].fd
        m  == mapped[fd]
    IN
    /\ At(s, "removed") /\ hand[s].goal # Unknown /\ ~MutexHeld
    /\ \/ /\ m = None
          /\ Goto(s, AfterUnmap(s))
          /\ UNCHANGED <<fdTable, mapped, socks>>
       \/ /\ m # None /\ socks[m][fd] = None
          /\ fdTable' = Closed(fd)
          /\ mapped' = Unmapped(fd)
          /\ Goto(s, AfterUnmap(s))
          /\ UNCHANGED socks
       \/ /\ m # None /\ socks[m][fd] # None
          /\ fdTable' = Released(fd, socks[m][fd], Removed(m, fd), hand)
          /\ socks' = Removed(m, fd)
          /\ Goto(s, "temp")
          /\ UNCHANGED mapped
    /\ UNCHANGED <<joined, accepted, ringVars, clientVars, hand, refused>>

DropTemporary(s) ==
    /\ At(s, "temp")
    /\ fdTable' = Closed(hand[s].fd)
    /\ mapped' = Unmapped(hand[s].fd)
    /\ Goto(s, AfterUnmap(s))
    /\ UNCHANGED <<joined, accepted, socks, ringVars, clientVars, hand, refused>>

\* targetSession->addClient: the Socket goes into the other session's map,
\* and a read of its number, closed by now or somebody else's, into its ring.
JoinAdd(s) ==
    LET fd   == hand[s].fd
        t    == hand[s].goal
        maps == [socks EXCEPT ![t][fd] = hand[s].sock]
    IN
    /\ At(s, "add")
    /\ socks' = maps
    /\ fdTable' = Released(fd, socks[t][fd], maps, hand)
    /\ sq' = Prepare(t, Op("read", fd))
    /\ Goto(s, "rearm")
    /\ UNCHANGED <<joined, accepted, mapped, armed, clientVars, hand, refused>>

\* The end of handleRead: its copy of the Socket goes.
LetGo(s) ==
    LET hands == [hand EXCEPT ![s] = EmptyHand] IN
    /\ hand' = hands
    /\ fdTable' = Released(hand[s].fd, hand[s].sock, socks, hands)
    /\ Goto(s, "batch")
    /\ UNCHANGED <<joined, accepted, socks, mapped, armed, clientVars, refused>>

\* A new receive is due if this was the last completion of the old one.
RearmDue_Never(s) == FALSE

RearmDue(s) == ~hand[s].more

Rearm(s) ==
    /\ At(s, "rearm")
    /\ sq' = IF RearmDue(s) THEN Prepare(s, Op("read", hand[s].fd)) ELSE sq
    /\ LetGo(s)

\* prepareClose, the last step of handleClose.
Close(s) ==
    /\ At(s, "close")
    /\ sq' = Prepare(s, Op("close", hand[s].fd))
    /\ LetGo(s)

\* The ring's entries reach the kernel in order, and work on whoever has the
\* number by then; EBADF is passed over.
Submit(s) ==
    /\ Busy(s) /\ sq[s] # <<>>
    /\ LET o == Head(sq[s])
           c == fdTable[o.fd]
       IN
       /\ armed' = IF o.op = "read" /\ c # None
                   THEN [armed EXCEPT ![s][<<o.fd, c>>] = @ + 1] ELSE armed
       /\ fdTable' = IF o.op = "close" THEN Closed(o.fd) ELSE fdTable
    /\ sq' = [sq EXCEPT ![s] = Tail(@)]
    /\ UNCHANGED <<joined, accepted, socks, mapped, clientVars, workVars,
                   refused>>

\* processEvents returns when everything prepared is submitted.
Submitted(s) ==
    /\ At(s, "batch") /\ sq[s] = <<>>
    /\ Goto(s, "wait")
    /\ UNCHANGED <<fdTable, joined, accepted, socks, mapped, ringVars,
                   clientVars, hand, refused>>

-----------------------------------------------------------------------------
Init ==
    /\ fdTable = [fd \in Fds |-> None]
    /\ joined = {} /\ hungup = {} /\ refused = {} /\ accepted = <<>>
    /\ socks = [s \in Sessions |-> [fd \in Fds |-> None]]
    /\ mapped = [fd \in Fds |-> None]
    /\ sq = [s \in Sessions |-> <<>>]
    /\ armed = [s \in Sessions |-> [p \in Fds \X Conns |-> 0]]
    /\ asked = [c \in Conns |-> <<>>]
    /\ left = [c \in Conns |-> MaxJoins]
    /\ wpc = [s \in Sessions |-> "wait"]
    /\ hand = [s \in Sessions |-> EmptyHand]

Worker(s) ==
    \/ \E fd \in Fds, c \in Conns : Take(s, fd, c)
    \/ JoinSame(s) \/ Remove(s) \/ JoinRefuse(s)
    \/ Unmap(s) \/ DropTemporary(s) \/ JoinAdd(s) \/ Rearm(s) \/ Close(s)
    \/ Submit(s) \/ Submitted(s)

Client(c) == Hangup(c) \/ \E t \in Sessions \cup {Unknown} : AskJoin(c, t)

Next ==
    \/ DropAccepted
    \/ \E s \in Sessions : Assign(s) \/ Worker(s)
    \/ \E c \in Conns : Accept(c) \/ Client(c)

Spec == Init /\ [][Next]_vars

-----------------------------------------------------------------------------
(* What must hold. *)

\* The values the variables take.
TypeOK ==
    /\ fdTable \in [Fds -> Conns \cup {None}]
    /\ joined \subseteq Conns /\ hungup \subseteq joined /\ refused \subseteq Fds
    /\ accepted \in Seq([fd : Fds, c : Conns])
    /\ socks \in [Sessions -> [Fds -> Conns \cup {None}]]
    /\ mapped \in [Fds -> Sessions \cup {None}]
    /\ sq \in [Sessions -> Seq([op : {"read", "close"}, fd : Fds])]
    /\ armed \in [Sessions -> [Fds \X Conns -> Nat]]
    /\ asked \in [Conns -> Seq(Sessions \cup {Unknown})]
    /\ left \in [Conns -> 0..MaxJoins]
    /\ wpc \in [Sessions -> {"wait", "batch", "found", "removed", "temp", "add",
                             "rearm", "close"}]
    /\ hand \in [Sessions -> [fd : Fds \cup {None}, sock : Conns \cup {None},
                              goal : Sessions \cup {Unknown, None}, more : BOOLEAN]]

\* What client_sessions_ says of a number is true: the session it names lists
\* the number, unless a worker is on its way to take it out of the map or has
\* refused the client a session (handleClose, removeSession and
\* onClientJoinSession keep the two in step, also for a number that goes to a
\* new client in between).
ManagerAgrees ==
    \A fd \in Fds :
        mapped[fd] # None =>
            \/ socks[mapped[fd]][fd] # None
            \/ fd \in refused
            \/ \E s \in Sessions : hand[s].fd = fd /\ wpc[s] \in {"removed", "temp"}

\* The listener has not come to the connection behind the number.
Waiting(fd) ==
    \E i \in DOMAIN accepted : accepted[i] = [fd |-> fd, c |-> fdTable[fd]]

\* A client is in one session: no worker's move, and no number that is used
\* again, puts a Socket in the maps of two sessions.
OneSession ==
    \A s, t \in Sessions :
        s # t => \A fd, other \in Fds :
                     socks[s][fd] = socks[t][other] => socks[s][fd] = None

\* No descriptor leaks and none is cross-wired: the Socket made for an open
\* connection, once the listener has assigned it, is in the map of the session
\* that the manager names, or in the hand of that session's worker.
OpenIsListed ==
    \A fd \in Fds \ Free :
        \/ Waiting(fd)
        \/ /\ mapped[fd] # None
           /\ fdTable[fd] \in {socks[mapped[fd]][fd], hand[mapped[fd]].sock}

\* No client is left with nobody reading it: its session has a receive on its
\* connection or is about to submit one, whatever is moved or closed around it,
\* unless the worker of that session is at work on the number (a receive that
\* ended for want of a buffer is UringSession's matter).
OpenIsRead ==
    \A fd \in Fds \ Free :
        LET m == mapped[fd] IN
        \/ Waiting(fd)
        \/ /\ m # None
           /\ \/ hand[m].fd = fd
              \/ armed[m][<<fd, fdTable[fd]>>] > 0
              \/ \E i \in DOMAIN sq[m] : sq[m][i] = Op("read", fd)
=============================================================================

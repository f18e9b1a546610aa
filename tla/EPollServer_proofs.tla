-------------------------- MODULE EPollServer_proofs --------------------------
(***************************************************************************)
(* Proofs about EPollServer, for any number of sessions, descriptors and   *)
(* connections: the types, the agreement of client_sessions_ and of        *)
(* client_sockets_ with the epoll sets, and the balance of the round robin.*)
(*                                                                         *)
(* Inv says what the kernel keeps true (a connection has one number, and   *)
(* what is watched is open), and what is known of the descriptor in the    *)
(* listener's hand: nobody watches it before prepareRead.                  *)
(***************************************************************************)
EXTENDS EPollServer, FiniteSetTheorems, WellFoundedInduction, TLAPS

Types ==
    /\ fdTable \in [Descriptors -> Conns \cup {None}]
    /\ backlog \subseteq Conns /\ gone \subseteq Conns /\ ended \subseteq Conns
    /\ socks \in [Sessions -> [Descriptors -> Conns \cup {None}]]
    /\ watched \in [Sessions -> SUBSET Conns]
    /\ assigned \in [Descriptors -> Sessions \cup {None}]
    /\ nextIndex \in 0..(CounterSpan - 1)
    /\ lpc \in {"accept", "nonblock", "assign", "register", "insert"}
    /\ lfd \in Descriptors \cup {None} /\ lconn \in Conns \cup {None}
    /\ lses \in Sessions
    /\ wpc \in [Sessions -> WorkerSteps]
    /\ wfd \in [Sessions -> Descriptors \cup {None}]
    /\ placed \in [Sessions -> Nat] /\ wraps \in Nat

\* One number for a connection; a connection waits, is open or has ended; the
\* epoll sets hold open connections only.
KernelOK ==
    /\ \A fd, gd \in Descriptors :
          fdTable[fd] # None /\ fdTable[fd] = fdTable[gd] => fd = gd
    /\ \A fd \in Descriptors : fdTable[fd] \notin backlog \cup ended
    /\ backlog \cap ended = {}
    /\ \A s \in Sessions : \A k \in watched[s] :
          \E fd \in Descriptors : fdTable[fd] = k

\* What the listener and the workers hold.
HandsOK ==
    /\ lpc # "accept" => lfd \in Descriptors /\ lconn \in Conns
    /\ lpc \in {"register", "insert"} => assigned[lfd] = lses
    /\ lpc \in {"nonblock", "assign", "register"} =>
          \A s \in Sessions : fdTable[lfd] \notin watched[s]
    /\ \A s \in Sessions : wpc[s] # "poll" => wfd[s] \in Descriptors

Inv == Types /\ KernelOK /\ HandsOK

-----------------------------------------------------------------------------
(* The smallest free descriptor exists: < is well-founded on the naturals. *)

\* A set of numbers with a member has a smallest one.
LEMMA SmallestExists ==
    ASSUME NEW T, T \subseteq Nat, T # {}
    PROVE  \E m \in T : \A n \in T : m <= n
  <1> DEFINE R == OpToRel(<, Nat)
  <1>1. IsWellFoundedOn(R, Nat)
    BY NatLessThanWellFounded, Zenon
  <1>2. \A x, y \in Nat : <<y, x>> \in R <=> y < x
    BY DEF OpToRel
  <1> HIDE DEF R
  <1>3. PICK x \in T : \A y \in T : ~ (<<y, x>> \in R)
    BY <1>1, WFMin
  <1>4. ASSUME NEW y \in T PROVE x <= y
    <2>1. x \in Nat /\ y \in Nat
      BY <1>3
    <2>2. ~(y < x)
      BY <1>2, <1>3, <2>1
    <2> QED
      BY <2>1, <2>2
  <1> QED
    BY <1>4

\* The number accept gives out is one of the table's, and free.
LEMMA LowestIsFree ==
    ASSUME Free # {}
    PROVE  LowestFree \in Descriptors /\ fdTable[LowestFree] = None
  <1>1. Free \subseteq Nat
    BY DescriptorAssumption DEF Free
  <1>2. \E m \in Free : \A n \in Free : m <= n
    BY <1>1, SmallestExists
  <1>3. LowestFree \in Free
    BY <1>2 DEF LowestFree
  <1> QED
    BY <1>3 DEF Free

-----------------------------------------------------------------------------
(* Steps that open nothing: the descriptors they free belong to connections *)
(* that have ended and are watched no more.                                 *)

Closing ==
    /\ \A fd \in Descriptors :
          \/ fdTable'[fd] = fdTable[fd]
          \/ /\ fdTable'[fd] = None
             /\ fdTable[fd] \in ended'
             /\ \A s \in Sessions : fdTable[fd] \notin watched'[s]
    /\ backlog' = backlog
    /\ ended \subseteq ended'
    /\ \A k \in ended' :
          \/ k \in ended
          \/ \E fd \in Descriptors : fdTable[fd] = k /\ fdTable'[fd] = None
    /\ \A s \in Sessions : watched'[s] \subseteq watched[s]

\* What close(fd) does: the number is free, and nothing is opened by it.
LEMMA CloseCloses ==
    ASSUME Types, NEW fd \in Descriptors, Close(fd), backlog' = backlog
    PROVE  /\ fdTable' \in [Descriptors -> Conns \cup {None}]
           /\ ended' \subseteq Conns
           /\ watched' \in [Sessions -> SUBSET Conns]
           /\ Closing
           /\ fdTable'[fd] = None
  <1>1. CASE fdTable[fd] = None
    BY <1>1 DEF Close, Types, Closing
  <1>2. CASE fdTable[fd] # None
    <2>1. /\ fdTable' = [fdTable EXCEPT ![fd] = None]
          /\ ended' = ended \cup {fdTable[fd]}
          /\ watched' = [s \in Sessions |-> watched[s] \ {fdTable[fd]}]
      BY <1>2 DEF Close
    <2>2. fdTable[fd] \in Conns
      BY <1>2 DEF Types
    <2>3. /\ fdTable' \in [Descriptors -> Conns \cup {None}]
          /\ ended' \subseteq Conns
          /\ watched' \in [Sessions -> SUBSET Conns]
      BY <2>1, <2>2 DEF Types
    <2>4. fdTable'[fd] = None /\ \A g \in Descriptors : g # fd => fdTable'[g] = fdTable[g]
      BY <2>1 DEF Types
    <2>5. \A s \in Sessions : watched'[s] = watched[s] \ {fdTable[fd]}
      BY <2>1
    <2>6. Closing
      BY <2>1, <2>4, <2>5 DEF Closing
    <2> QED
      BY <2>3, <2>4, <2>6
  <1> QED
    BY <1>1, <1>2

\* A step that only closes keeps what the kernel keeps true; what is still
\* watched was watched before, under the same number.
LEMMA ClosingKeeps ==
    ASSUME Types, KernelOK, Closing, ended' \subseteq Conns
    PROVE  /\ KernelOK'
           /\ \A fd \in Descriptors, s \in Sessions :
                 fdTable'[fd] \in watched'[s] =>
                    fdTable'[fd] = fdTable[fd] /\ fdTable[fd] \in watched[s]
  <1>1. None \notin Conns
    BY NoneAssumption
  <1>2. ASSUME NEW fd \in Descriptors
        PROVE  fdTable'[fd] = fdTable[fd] \/ fdTable'[fd] = None
    BY DEF Closing
  <1>3. ASSUME NEW fd \in Descriptors, NEW gd \in Descriptors,
               fdTable'[fd] # None, fdTable'[fd] = fdTable'[gd]
        PROVE  fd = gd
    <2>1. fdTable'[fd] = fdTable[fd] /\ fdTable'[gd] = fdTable[gd]
      BY <1>2, <1>3
    <2> QED
      BY <1>3, <2>1 DEF KernelOK
  <1>4. ASSUME NEW k \in ended'
        PROVE  k \notin backlog /\ \A fd \in Descriptors : fdTable'[fd] = k => fdTable'[fd] = None
    <2>1. CASE k \in ended
      BY <1>2, <2>1 DEF KernelOK
    <2>2. CASE k \notin ended
      <3>1. PICK g \in Descriptors : fdTable[g] = k /\ fdTable'[g] = None
        BY <2>2 DEF Closing
      <3>2. k \notin backlog
        BY <3>1 DEF KernelOK
      <3>3. ASSUME NEW fd \in Descriptors, fdTable'[fd] = k, fdTable'[fd] # None
            PROVE  FALSE
        <4>1. fdTable[fd] = fdTable[g] /\ fdTable[fd] # None
          BY <1>2, <3>1, <3>3
        <4>2. fd = g
          BY <4>1 DEF KernelOK
        <4> QED
          BY <3>1, <3>3, <4>2
      <3> QED
        BY <3>2, <3>3
    <2> QED
      BY <2>1, <2>2
  <1>5. None \notin ended' /\ None \notin backlog
    BY <1>1 DEF Types
  <1>6. ASSUME NEW fd \in Descriptors
        PROVE  fdTable'[fd] \notin backlog' \cup ended'
    <2>1. fdTable'[fd] \notin ended'
      BY <1>4, <1>5
    <2>2. fdTable'[fd] \notin backlog
      BY <1>2, <1>5 DEF KernelOK
    <2> QED
      BY <2>1, <2>2 DEF Closing
  <1>7. backlog' \cap ended' = {}
    BY <1>4 DEF Closing
  <1>8. ASSUME NEW s \in Sessions, NEW k \in watched'[s]
        PROVE  \E fd \in Descriptors : fdTable'[fd] = k
    <2>1. PICK fd \in Descriptors : fdTable[fd] = k
      BY <1>8 DEF Closing, KernelOK
    <2>2. fdTable'[fd] = k
      BY <2>1, <1>8 DEF Closing
    <2> QED
      BY <2>2
  <1>9. KernelOK'
    BY <1>3, <1>6, <1>7, <1>8 DEF KernelOK
  <1>10. ASSUME NEW fd \in Descriptors, NEW s \in Sessions,
                fdTable'[fd] \in watched'[s]
         PROVE  fdTable'[fd] = fdTable[fd] /\ fdTable[fd] \in watched[s]
    <2>1. watched'[s] \subseteq watched[s]
      BY DEF Closing
    <2>2. fdTable'[fd] # None
      BY <1>1, <1>10, <2>1 DEF Types
    <2> QED
      BY <1>2, <1>10, <2>1, <2>2
  <1> QED
    BY <1>9, <1>10

-----------------------------------------------------------------------------
\* Nothing is open, listed or watched at first.
THEOREM InvInit == Init => Inv
  <1> SUFFICES ASSUME Init PROVE Inv
    OBVIOUS
  <1>1. 0 \in Sessions /\ 0 \in 0..(CounterSpan - 1)
    BY SessionAssumption DEF Sessions
  <1>2. Types
    BY <1>1 DEF Init, Types, WorkerSteps
  <1>3. KernelOK
    BY NoneAssumption DEF Init, KernelOK
  <1>4. HandsOK
    BY DEF Init, HandsOK
  <1> QED
    BY <1>2, <1>3, <1>4 DEF Inv

\* The clients' steps.
LEMMA ClientKeeps ==
    ASSUME Inv, NEW k \in Conns, Connect(k) \/ Hangup(k)
    PROVE  Inv'
  <1>1. CASE Connect(k)
    <2>1. /\ UNCHANGED <<fdTable, gone, ended, socks, watched, assigned, nextIndex,
                         listener, workers, history>>
          /\ backlog' = backlog \cup {k}
          /\ k \notin ended /\ \A fd \in Descriptors : fdTable[fd] # k
      BY <1>1 DEF Connect
    <2>2. Types'
      BY <2>1 DEF Inv, Types, listener, workers, history
    <2>3. KernelOK'
      BY <2>1 DEF Inv, KernelOK
    <2>4. HandsOK'
      BY <2>1 DEF Inv, HandsOK, listener, workers
    <2> QED
      BY <2>2, <2>3, <2>4 DEF Inv
  <1>2. CASE Hangup(k)
    <2>1. /\ UNCHANGED <<fdTable, backlog, ended, socks, watched, assigned, nextIndex,
                         listener, workers, history>>
          /\ gone' = gone \cup {k}
      BY <1>2 DEF Hangup
    <2>2. Types'
      BY <2>1 DEF Inv, Types, listener, workers, history
    <2>3. KernelOK'
      BY <2>1 DEF Inv, KernelOK
    <2>4. HandsOK'
      BY <2>1 DEF Inv, HandsOK, listener, workers
    <2> QED
      BY <2>2, <2>3, <2>4 DEF Inv
  <1> QED
    BY <1>1, <1>2

\* accept(): the lowest free number, for a connection that had none.
LEMMA AcceptTakes ==
    ASSUME Inv, Accept
    PROVE  \E k \in backlog, fd \in Descriptors :
              /\ k \in Conns /\ k \notin ended /\ fdTable[fd] = None
              /\ \A g \in Descriptors : fdTable[g] # k
              /\ fdTable' = [fdTable EXCEPT ![fd] = k]
              /\ fdTable'[fd] = k
              /\ \A g \in Descriptors : g # fd => fdTable'[g] = fdTable[g]
              /\ backlog' = backlog \ {k}
              /\ lfd' = fd /\ lconn' = k /\ lpc' = "nonblock"
              /\ \A s \in Sessions : k \notin watched[s]
  <1>1. LowestFree \in Descriptors /\ fdTable[LowestFree] = None
    BY LowestIsFree DEF Accept
  <1>2. PICK k \in backlog : /\ backlog' = backlog \ {k}
                             /\ fdTable' = [fdTable EXCEPT ![LowestFree] = k]
                             /\ lconn' = k
    BY DEF Accept
  <1>3. lfd' = LowestFree /\ lpc' = "nonblock"
    BY DEF Accept
  <1> DEFINE fd == LowestFree
  <1> HIDE DEF fd
  <1>4. k \in Conns /\ k \notin ended
    BY <1>2 DEF Inv, Types, KernelOK
  <1>5. \A g \in Descriptors : fdTable[g] # k
    BY <1>2 DEF Inv, KernelOK
  <1>6. \A s \in Sessions : k \notin watched[s]
    BY <1>5 DEF Inv, KernelOK
  <1>7. fd \in Descriptors /\ fdTable[fd] = None
    BY <1>1 DEF fd
  <1>8. fdTable' = [fdTable EXCEPT ![fd] = k] /\ lfd' = fd
    BY <1>2, <1>3 DEF fd
  <1>9. fdTable'[fd] = k /\ \A g \in Descriptors : g # fd => fdTable'[g] = fdTable[g]
    BY <1>7, <1>8 DEF Inv, Types
  <1> QED
    BY <1>2, <1>3, <1>4, <1>5, <1>6, <1>7, <1>8, <1>9

\* The accepted connection has its number alone: it was free.
LEMMA AcceptKeeps ==
    ASSUME Inv, Accept
    PROVE  Inv'
  <1>1. PICK k \in backlog, fd \in Descriptors :
              /\ k \in Conns /\ k \notin ended /\ fdTable[fd] = None
              /\ \A g \in Descriptors : fdTable[g] # k
              /\ fdTable' = [fdTable EXCEPT ![fd] = k]
              /\ fdTable'[fd] = k
              /\ \A g \in Descriptors : g # fd => fdTable'[g] = fdTable[g]
              /\ backlog' = backlog \ {k}
              /\ lfd' = fd /\ lconn' = k /\ lpc' = "nonblock"
              /\ \A s \in Sessions : k \notin watched[s]
    BY AcceptTakes
  <1>2. UNCHANGED <<gone, ended, socks, watched, assigned, nextIndex, lses,
                    workers, history>>
    BY DEF Accept
  <1>3. Types'
    BY <1>1, <1>2 DEF Inv, Types, workers, history
  <1>4. KernelOK'
    <2>1. ASSUME NEW g \in Descriptors, NEW h \in Descriptors,
                 fdTable'[g] # None, fdTable'[g] = fdTable'[h]
          PROVE  g = h
      BY <1>1, <2>1 DEF Inv, KernelOK
    <2>2. ASSUME NEW g \in Descriptors PROVE fdTable'[g] \notin backlog' \cup ended'
      BY <1>1, <1>2 DEF Inv, KernelOK
    <2>3. backlog' \cap ended' = {}
      BY <1>1, <1>2 DEF Inv, KernelOK
    <2>4. ASSUME NEW s \in Sessions, NEW c \in watched'[s]
          PROVE  \E g \in Descriptors : fdTable'[g] = c
      <3>1. PICK g \in Descriptors : fdTable[g] = c
        BY <1>2 DEF Inv, KernelOK
      <3>2. c # None
        BY <1>2, <2>4, NoneAssumption DEF Inv, Types
      <3> QED
        BY <1>1, <3>1, <3>2
    <2> QED
      BY <2>1, <2>2, <2>3, <2>4 DEF KernelOK
  <1>5. HandsOK'
    BY <1>1, <1>2 DEF Inv, HandsOK, workers
  <1> QED
    BY <1>3, <1>4, <1>5 DEF Inv

\* The rest of the listener's steps.
LEMMA ListenerKeeps ==
    ASSUME Inv, SetNonBlocking \/ Assign \/ Register \/ Insert
    PROVE  Inv'
  <1>1. CASE SetNonBlocking
    <2>1. /\ UNCHANGED <<fdTable, backlog, gone, ended, socks, watched, assigned,
                         nextIndex, lses, workers, history>>
          /\ lpc = "nonblock"
          /\ \/ lpc' = "assign" /\ UNCHANGED <<lfd, lconn>>
             \/ lpc' = "accept" /\ lfd' = None /\ lconn' = None
      BY <1>1 DEF SetNonBlocking
    <2>2. Types'
      BY <2>1 DEF Inv, Types, workers, history
    <2>3. KernelOK'
      BY <2>1 DEF Inv, KernelOK
    <2>4. HandsOK'
      BY <2>1 DEF Inv, HandsOK, workers
    <2> QED
      BY <2>2, <2>3, <2>4 DEF Inv
  <1>2. CASE Assign
    <2>1. /\ UNCHANGED <<fdTable, backlog, gone, ended, socks, watched, lfd, lconn,
                         workers>>
          /\ lpc = "assign" /\ lpc' = "register"
          /\ lses' = nextIndex % NumSessions
          /\ nextIndex' = (nextIndex + 1) % CounterSpan
          /\ assigned' = [assigned EXCEPT ![lfd] = lses']
          /\ placed' = [placed EXCEPT ![lses'] = placed[lses'] + 1]
          /\ wraps' \in {wraps, wraps + 1}
      BY <1>2 DEF Assign, RoundRobin, MapClient
    <2>2. lses' \in Sessions /\ nextIndex' \in 0..(CounterSpan - 1)
      <3>1. nextIndex \in Nat
        BY SessionAssumption DEF Inv, Types
      <3>2. nextIndex % NumSessions \in 0..(NumSessions - 1)
        BY <3>1, SessionAssumption
      <3>3. (nextIndex + 1) % CounterSpan \in 0..(CounterSpan - 1)
        BY <3>1, SessionAssumption
      <3> QED
        BY <2>1, <3>2, <3>3 DEF Sessions
    <2>3. lfd \in Descriptors
      BY <2>1 DEF Inv, HandsOK
    <2>4. placed' \in [Sessions -> Nat] /\ wraps' \in Nat
      BY <2>1, <2>2 DEF Inv, Types
    <2>5. assigned' \in [Descriptors -> Sessions \cup {None}]
      BY <2>1, <2>2, <2>3 DEF Inv, Types
    <2>6. Types'
      BY <2>1, <2>2, <2>4, <2>5 DEF Inv, Types, workers
    <2>7. KernelOK'
      BY <2>1 DEF Inv, KernelOK
    <2>8. assigned'[lfd] = lses'
      BY <2>1, <2>3 DEF Inv, Types
    <2>9. HandsOK'
      BY <2>1, <2>3, <2>8 DEF Inv, HandsOK, workers
    <2> QED
      BY <2>6, <2>7, <2>9 DEF Inv
  <1>3. CASE Register
    <2>1. /\ UNCHANGED <<fdTable, backlog, gone, ended, socks, assigned, nextIndex,
                         lfd, lconn, lses, workers, history>>
          /\ lpc = "register" /\ lpc' = "insert"
      BY <1>3 DEF Register
    <2>2. lfd \in Descriptors /\ lses \in Sessions
      BY <2>1 DEF Inv, HandsOK, Types
    <2>3. /\ watched' \in [Sessions -> SUBSET Conns]
          /\ \A s \in Sessions : \A k \in watched'[s] :
                k \in watched[s] \/ k = fdTable[lfd]
      BY <1>3, <2>2 DEF Register, Inv, Types
    <2>4. Types'
      BY <2>1, <2>3 DEF Inv, Types, workers, history
    <2>5. KernelOK'
      BY <2>1, <2>2, <2>3 DEF Inv, KernelOK
    <2>6. HandsOK'
      BY <2>1 DEF Inv, HandsOK, workers
    <2> QED
      BY <2>4, <2>5, <2>6 DEF Inv
  <1>4. CASE Insert
    <2>1. /\ UNCHANGED <<backlog, gone, assigned, nextIndex, lses, workers, history>>
          /\ lpc = "insert" /\ lpc' = "accept" /\ lfd' = None /\ lconn' = None
          /\ socks' = [socks EXCEPT ![lses][lfd] = lconn]
      BY <1>4 DEF Insert
    <2>2. lfd \in Descriptors /\ lses \in Sessions /\ lconn \in Conns
      BY <2>1 DEF Inv, HandsOK, Types
    <2>3. /\ fdTable' \in [Descriptors -> Conns \cup {None}]
          /\ ended' \subseteq Conns
          /\ watched' \in [Sessions -> SUBSET Conns]
          /\ Closing
      <3>1. CASE Close(lfd)
        BY <2>1, <2>2, <3>1, CloseCloses DEF Inv
      <3>2. CASE UNCHANGED <<fdTable, ended, watched>>
        BY <2>1, <3>2 DEF Inv, Types, Closing
      <3> QED
        BY <1>4, <3>1, <3>2 DEF Insert
    <2>4. socks' \in [Sessions -> [Descriptors -> Conns \cup {None}]]
      BY <2>1, <2>2 DEF Inv, Types
    <2>5. Types'
      BY <2>1, <2>3, <2>4 DEF Inv, Types, workers, history
    <2>6. KernelOK'
      BY <2>3, ClosingKeeps DEF Inv
    <2>7. HandsOK'
      BY <2>1 DEF Inv, HandsOK, workers
    <2> QED
      BY <2>5, <2>6, <2>7 DEF Inv
  <1> QED
    BY <1>1, <1>2, <1>3, <1>4

\* A worker at a step other than "poll" has an event's descriptor.
LEMMA WorkerMoves ==
    ASSUME Inv, NEW s \in Sessions, NEW p \in WorkerSteps,
           NEW d \in Descriptors \cup {None}, p # "poll" => d \in Descriptors,
           wpc' = [wpc EXCEPT ![s] = p], wfd' = [wfd EXCEPT ![s] = d]
    PROVE  /\ wpc' \in [Sessions -> WorkerSteps]
           /\ wfd' \in [Sessions -> Descriptors \cup {None}]
           /\ \A t \in Sessions : wpc'[t] # "poll" => wfd'[t] \in Descriptors
  <1>1. wpc' \in [Sessions -> WorkerSteps] /\ wfd' \in [Sessions -> Descriptors \cup {None}]
    BY DEF Inv, Types
  <1>2. ASSUME NEW t \in Sessions, wpc'[t] # "poll" PROVE wfd'[t] \in Descriptors
    <2>1. CASE t = s
      BY <1>2, <2>1 DEF Inv, Types
    <2>2. CASE t # s
      BY <1>2, <2>2 DEF Inv, Types, HandsOK
    <2> QED
      BY <2>1, <2>2
  <1> QED
    BY <1>1, <1>2

\* handleClose's removeEvent and erase, for any of its three causes.
LEMMA ForgetErases ==
    ASSUME NEW s \in Sessions, HangupSeen(s) \/ WriteFails(s) \/ ReadFails(s)
    PROVE  /\ UNCHANGED <<fdTable, backlog, gone, ended, assigned, nextIndex, wfd,
                          listener, history>>
           /\ wpc[s] # "poll"
           /\ watched' = [watched EXCEPT ![s] = watched[s] \ {fdTable[wfd[s]]}]
           /\ socks' = [socks EXCEPT ![s][wfd[s]] = None]
           /\ \E p \in {"close", "wclose"} : wpc' = [wpc EXCEPT ![s] = p]
  <1>1. PICK p \in {"close", "wclose"} : wpc[s] # "poll" /\ Forget(s, p)
    BY DEF HangupSeen, WriteFails, ReadFails
  <1> QED
    BY <1>1 DEF Forget, Unwatched, Erased

\* The second handleClose of an event: the number it names is closed, or no
\* longer watched.
LEMMA AgainErases ==
    ASSUME Inv, NEW s \in Sessions, ReadFailsAgain(s)
    PROVE  /\ UNCHANGED <<backlog, gone, assigned, nextIndex, wfd, listener, history>>
           /\ wpc[s] # "poll" /\ wfd[s] \in Descriptors
           /\ wpc' = [wpc EXCEPT ![s] = "close"]
           /\ socks' = [socks EXCEPT ![s][wfd[s]] = None]
           /\ fdTable' \in [Descriptors -> Conns \cup {None}]
           /\ ended' \subseteq Conns
           /\ watched' \in [Sessions -> SUBSET Conns]
           /\ Closing
           /\ fdTable'[wfd[s]] \notin watched'[s]
  <1>1. /\ UNCHANGED <<backlog, gone, assigned, nextIndex, wfd, listener, history>>
        /\ wpc[s] # "poll"
        /\ wpc' = [wpc EXCEPT ![s] = "close"]
        /\ socks' = [socks EXCEPT ![s][wfd[s]] = None]
    BY DEF ReadFailsAgain, Erased
  <1>2. wfd[s] \in Descriptors
    BY <1>1 DEF Inv, HandsOK
  <1>3. CASE Close(wfd[s])
    <2>1. /\ fdTable' \in [Descriptors -> Conns \cup {None}]
          /\ ended' \subseteq Conns
          /\ watched' \in [Sessions -> SUBSET Conns]
          /\ Closing
          /\ fdTable'[wfd[s]] = None
      BY <1>1, <1>2, <1>3, CloseCloses DEF Inv
    <2> QED
      BY <1>1, <1>2, <2>1, NoneAssumption
  <1>4. CASE watched' = Unwatched(s, wfd[s]) /\ UNCHANGED <<fdTable, ended>>
    <2>1. watched' = [watched EXCEPT ![s] = watched[s] \ {fdTable[wfd[s]]}]
      BY <1>4 DEF Unwatched
    <2>2. /\ watched' \in [Sessions -> SUBSET Conns]
          /\ \A t \in Sessions : watched'[t] \subseteq watched[t]
          /\ fdTable[wfd[s]] \notin watched'[s]
      BY <2>1 DEF Inv, Types
    <2>3. Closing
      BY <1>1, <1>4, <2>2 DEF Closing
    <2> QED
      BY <1>1, <1>2, <1>4, <2>2, <2>3 DEF Inv, Types
  <1> QED
    BY <1>3, <1>4 DEF ReadFailsAgain

\* The steps of a worker open nothing.
LEMMA WorkerCloses ==
    ASSUME Inv, NEW s \in Sessions, Worker(s)
    PROVE  /\ Closing
           /\ fdTable' \in [Descriptors -> Conns \cup {None}]
           /\ ended' \subseteq Conns
           /\ watched' \in [Sessions -> SUBSET Conns]
           /\ socks' \in [Sessions -> [Descriptors -> Conns \cup {None}]]
           /\ wpc' \in [Sessions -> WorkerSteps]
           /\ wfd' \in [Sessions -> Descriptors \cup {None}]
           /\ \A t \in Sessions : wpc'[t] # "poll" => wfd'[t] \in Descriptors
           /\ UNCHANGED <<backlog, gone, assigned, nextIndex, listener, history>>
  <1>a. wpc[s] # "poll" => wfd[s] \in Descriptors
    BY DEF Inv, HandsOK
  <1>b. wfd = [wfd EXCEPT ![s] = wfd[s]]
    BY DEF Inv, Types
  <1>1. CASE Poll(s)
    <2>1. PICK fd \in Descriptors, p \in {"hangup", "ready"} :
              wfd' = [wfd EXCEPT ![s] = fd] /\ wpc' = [wpc EXCEPT ![s] = p]
      BY <1>1 DEF Poll
    <2>2. UNCHANGED <<fdTable, backlog, gone, ended, socks, watched, assigned,
                      nextIndex, listener, history>>
      BY <1>1 DEF Poll
    <2>3. Closing
      BY <2>2 DEF Closing
    <2>4. p \in WorkerSteps
      BY DEF WorkerSteps
    <2>5. /\ wpc' \in [Sessions -> WorkerSteps]
          /\ wfd' \in [Sessions -> Descriptors \cup {None}]
          /\ \A t \in Sessions : wpc'[t] # "poll" => wfd'[t] \in Descriptors
      BY <2>1, <2>4, WorkerMoves
    <2> QED
      BY <2>2, <2>3, <2>5 DEF Inv, Types
  <1>2. CASE NotFound(s) \/ Serve(s)
    <2>1. /\ UNCHANGED <<fdTable, backlog, gone, ended, socks, assigned, nextIndex,
                         listener, history>>
          /\ wpc' = [wpc EXCEPT ![s] = "poll"] /\ wfd' = [wfd EXCEPT ![s] = None]
      BY <1>2 DEF NotFound, Serve
    <2>2. \/ watched' = watched
          \/ watched' = [watched EXCEPT ![s] = watched[s] \ {fdTable[wfd[s]]}]
      BY <1>2 DEF NotFound, Serve, Unwatched
    <2>3. /\ wpc' \in [Sessions -> WorkerSteps]
          /\ wfd' \in [Sessions -> Descriptors \cup {None}]
          /\ \A t \in Sessions : wpc'[t] # "poll" => wfd'[t] \in Descriptors
      <3>1. "poll" \in WorkerSteps
        BY DEF WorkerSteps
      <3> QED
        BY <2>1, <3>1, WorkerMoves
    <2>4. /\ watched' \in [Sessions -> SUBSET Conns]
          /\ \A t \in Sessions : watched'[t] \subseteq watched[t]
      BY <2>2 DEF Inv, Types
    <2>5. Closing
      BY <2>1, <2>4 DEF Closing
    <2> QED
      BY <2>1, <2>3, <2>4, <2>5 DEF Inv, Types
  <1>3. CASE HangupSeen(s) \/ WriteFails(s) \/ ReadFails(s)
    <2>1. /\ UNCHANGED <<fdTable, backlog, gone, ended, assigned, nextIndex, wfd,
                         listener, history>>
          /\ wpc[s] # "poll"
          /\ watched' = [watched EXCEPT ![s] = watched[s] \ {fdTable[wfd[s]]}]
          /\ socks' = [socks EXCEPT ![s][wfd[s]] = None]
      BY <1>3, ForgetErases
    <2>2. PICK p \in {"close", "wclose"} : wpc' = [wpc EXCEPT ![s] = p]
      BY <1>3, ForgetErases
    <2>3. p \in WorkerSteps
      BY DEF WorkerSteps
    <2>4. /\ wpc' \in [Sessions -> WorkerSteps]
          /\ wfd' \in [Sessions -> Descriptors \cup {None}]
          /\ \A t \in Sessions : wpc'[t] # "poll" => wfd'[t] \in Descriptors
      BY <1>a, <1>b, <2>1, <2>2, <2>3, WorkerMoves
    <2>5. socks' \in [Sessions -> [Descriptors -> Conns \cup {None}]]
      BY <1>a, <2>1 DEF Inv, Types
    <2>6. /\ watched' \in [Sessions -> SUBSET Conns]
          /\ \A t \in Sessions : watched'[t] \subseteq watched[t]
      BY <2>1 DEF Inv, Types
    <2>7. Closing
      BY <2>1, <2>6 DEF Closing
    <2> QED
      BY <2>1, <2>4, <2>5, <2>6, <2>7 DEF Inv, Types
  <1>4. CASE ReadFailsAgain(s)
    <2>1. /\ wpc' \in [Sessions -> WorkerSteps]
          /\ wfd' \in [Sessions -> Descriptors \cup {None}]
          /\ \A t \in Sessions : wpc'[t] # "poll" => wfd'[t] \in Descriptors
      <3>1. "close" \in WorkerSteps
        BY DEF WorkerSteps
      <3> QED
        BY <1>4, <1>b, <3>1, AgainErases, WorkerMoves
    <2>2. socks' \in [Sessions -> [Descriptors -> Conns \cup {None}]]
      <3>1. wfd[s] \in Descriptors /\ socks' = [socks EXCEPT ![s][wfd[s]] = None]
        BY <1>4, AgainErases
      <3> QED
        BY <3>1 DEF Inv, Types
    <2> QED
      BY <1>4, <2>1, <2>2, AgainErases
  <1>5. CASE ReadOn(s)
    <2>1. /\ UNCHANGED <<fdTable, backlog, gone, ended, socks, watched, assigned,
                         nextIndex, wfd, listener, history>>
          /\ wpc[s] # "poll" /\ wpc' = [wpc EXCEPT ![s] = "drop"]
      BY <1>5 DEF ReadOn
    <2>2. "drop" \in WorkerSteps
      BY DEF WorkerSteps
    <2>3. /\ wpc' \in [Sessions -> WorkerSteps]
          /\ wfd' \in [Sessions -> Descriptors \cup {None}]
          /\ \A t \in Sessions : wpc'[t] # "poll" => wfd'[t] \in Descriptors
      BY <1>a, <1>b, <2>1, <2>2, WorkerMoves
    <2>4. Closing
      BY <2>1 DEF Closing
    <2> QED
      BY <2>1, <2>3, <2>4 DEF Inv, Types
  <1>6. CASE PrepareClose(s) \/ DropSocket(s)
    <2>1. /\ UNCHANGED <<backlog, gone, socks, assigned, nextIndex, listener, history>>
          /\ wpc[s] # "poll" /\ Close(wfd[s])
      BY <1>6 DEF PrepareClose, DropSocket
    <2>2. PICK p \in {"drop", "read", "poll"}, d \in {wfd[s], None} :
              /\ wpc' = [wpc EXCEPT ![s] = p] /\ wfd' = [wfd EXCEPT ![s] = d]
              /\ p # "poll" => d = wfd[s]
      BY <1>6, <1>b DEF PrepareClose, DropSocket
    <2>3. /\ wpc' \in [Sessions -> WorkerSteps]
          /\ wfd' \in [Sessions -> Descriptors \cup {None}]
          /\ \A t \in Sessions : wpc'[t] # "poll" => wfd'[t] \in Descriptors
      <3>1. p \in WorkerSteps
        BY DEF WorkerSteps
      <3>2. d \in Descriptors \cup {None} /\ (p # "poll" => d \in Descriptors)
        BY <1>a, <2>1, <2>2
      <3> QED
        BY <2>2, <3>1, <3>2, WorkerMoves
    <2>4. /\ fdTable' \in [Descriptors -> Conns \cup {None}]
          /\ ended' \subseteq Conns
          /\ watched' \in [Sessions -> SUBSET Conns]
          /\ Closing
      BY <1>a, <2>1, CloseCloses DEF Inv
    <2> QED
      BY <2>1, <2>3, <2>4 DEF Inv, Types
  <1> QED
    BY <1>1, <1>2, <1>3, <1>4, <1>5, <1>6 DEF Worker

\* A worker's step, at any of its closes.
LEMMA WorkerKeeps ==
    ASSUME Inv, NEW s \in Sessions, Worker(s)
    PROVE  Inv'
  <1>1. /\ Closing
        /\ ended' \subseteq Conns
        /\ \A t \in Sessions : wpc'[t] # "poll" => wfd'[t] \in Descriptors
        /\ UNCHANGED <<backlog, gone, assigned, nextIndex, listener, history>>
    BY WorkerCloses
  <1>2. Types'
    BY <1>1, WorkerCloses DEF Inv, Types, listener, history
  <1>3. /\ KernelOK'
        /\ \A fd \in Descriptors, t \in Sessions :
              fdTable'[fd] \in watched'[t] =>
                 fdTable'[fd] = fdTable[fd] /\ fdTable[fd] \in watched[t]
    BY <1>1, ClosingKeeps DEF Inv
  <1>4. UNCHANGED <<assigned, lpc, lfd, lconn, lses>>
    BY <1>1 DEF listener
  <1>5. HandsOK'
    BY <1>1, <1>3, <1>4 DEF Inv, HandsOK
  <1> QED
    BY <1>2, <1>3, <1>5 DEF Inv

\* Every step keeps the invariant.
LEMMA InvStep ==
    ASSUME Inv, [Next]_vars
    PROVE  Inv'
  <1>1. CASE Accept
    BY <1>1, AcceptKeeps
  <1>2. CASE SetNonBlocking \/ Assign \/ Register \/ Insert
    BY <1>2, ListenerKeeps
  <1>3. ASSUME NEW s \in Sessions, Worker(s) PROVE Inv'
    BY <1>3, WorkerKeeps
  <1>4. ASSUME NEW k \in Conns, Connect(k) \/ Hangup(k) PROVE Inv'
    BY <1>4, ClientKeeps
  <1>5. CASE UNCHANGED vars
    BY <1>5 DEF vars, listener, workers, history, Inv, Types, KernelOK, HandsOK
  <1> QED
    BY <1>1, <1>2, <1>3, <1>4, <1>5 DEF Next, Listener

\* The kernel's table, the epoll sets and the listener's hand agree always
\* (accept, addClient and the two closes of handleClose).
THEOREM InvHolds == Spec => []Inv
  BY InvInit, InvStep, PTL DEF Spec

-----------------------------------------------------------------------------
(* client_sessions_ and client_sockets_ against the epoll sets. *)

\* Insert, too, opens nothing.
LEMMA InsertCloses ==
    ASSUME Inv, Insert
    PROVE  /\ lpc = "insert" /\ lfd \in Descriptors /\ lses \in Sessions
           /\ lconn \in Conns /\ assigned' = assigned
           /\ socks' = [socks EXCEPT ![lses][lfd] = lconn]
           /\ Closing /\ ended' \subseteq Conns
  <1>1. /\ UNCHANGED <<backlog, assigned>> /\ lpc = "insert"
        /\ socks' = [socks EXCEPT ![lses][lfd] = lconn]
    BY DEF Insert
  <1>2. lfd \in Descriptors /\ lses \in Sessions /\ lconn \in Conns
    BY <1>1 DEF Inv, HandsOK, Types
  <1>3. CASE Close(lfd)
    BY <1>1, <1>2, <1>3, CloseCloses DEF Inv
  <1>4. CASE UNCHANGED <<fdTable, ended, watched>>
    BY <1>1, <1>2, <1>4 DEF Inv, Types, Closing
  <1> QED
    BY <1>3, <1>4 DEF Insert

\* prepareRead: the connection under the listener's number is watched by the
\* session it picked.
LEMMA RegisterWatches ==
    ASSUME Inv, Register
    PROVE  /\ lpc = "register" /\ lpc' = "insert" /\ lfd \in Descriptors
           /\ UNCHANGED <<fdTable, socks, assigned, lfd, lses>>
           /\ \A fd \in Descriptors, s \in Sessions :
                 fdTable[fd] \in watched'[s] =>
                    fdTable[fd] \in watched[s] \/ (fd = lfd /\ s = lses)
  <1>1. /\ UNCHANGED <<fdTable, socks, assigned, lfd, lses>>
        /\ lpc = "register" /\ lpc' = "insert"
    BY DEF Register
  <1>2. lfd \in Descriptors /\ lses \in Sessions
    BY <1>1 DEF Inv, HandsOK, Types
  <1>3. CASE fdTable[lfd] = None
    BY <1>1, <1>2, <1>3 DEF Register
  <1>4. CASE fdTable[lfd] # None
    <2>1. watched' = [watched EXCEPT ![lses] = watched[lses] \cup {fdTable[lfd]}]
      BY <1>4 DEF Register
    <2>2. ASSUME NEW fd \in Descriptors, NEW s \in Sessions,
                 fdTable[fd] \in watched'[s], fdTable[fd] \notin watched[s]
          PROVE  fd = lfd /\ s = lses
      <3>1. s = lses /\ fdTable[fd] = fdTable[lfd]
        BY <1>2, <2>1, <2>2 DEF Inv, Types
      <3> QED
        BY <1>2, <1>4, <3>1 DEF Inv, KernelOK
    <2> QED
      BY <1>1, <1>2, <2>2
  <1> QED
    BY <1>3, <1>4

\* What client_sessions_ says of a watched connection's number is right,
\* though the entry is never cleaned.
THEOREM AssignmentAgrees == Spec => []AssignmentMatches
  <1>1. Init => AssignmentMatches
    BY DEF Init, AssignmentMatches
  <1>2. ASSUME Inv, AssignmentMatches, [Next]_vars
        PROVE  AssignmentMatches'
    <2>1. CASE Accept
      <3>1. PICK k \in backlog, fd \in Descriptors :
                  /\ fdTable'[fd] = k
                  /\ \A g \in Descriptors : g # fd => fdTable'[g] = fdTable[g]
                  /\ \A s \in Sessions : k \notin watched[s]
        BY <1>2, <2>1, AcceptTakes
      <3>2. UNCHANGED <<watched, assigned>>
        BY <2>1 DEF Accept
      <3> QED
        BY <1>2, <3>1, <3>2 DEF AssignmentMatches
    <2>2. CASE Assign
      <3>1. /\ UNCHANGED <<fdTable, watched>> /\ lpc = "assign"
            /\ \E t \in {lses'} : assigned' = [assigned EXCEPT ![lfd] = t]
        BY <2>2 DEF Assign, MapClient
      <3>2. \A s \in Sessions : fdTable[lfd] \notin watched[s]
        BY <1>2, <3>1 DEF Inv, HandsOK
      <3>3. \A fd \in Descriptors : fd # lfd => assigned'[fd] = assigned[fd]
        BY <1>2, <3>1 DEF Inv, Types
      <3> QED
        BY <1>2, <3>1, <3>2, <3>3 DEF AssignmentMatches
    <2>3. CASE Register
      <3>1. assigned[lfd] = lses
        BY <1>2, <2>3, RegisterWatches DEF Inv, HandsOK
      <3> QED
        BY <1>2, <2>3, <3>1, RegisterWatches DEF AssignmentMatches
    <2>4. ASSUME Closing, ended' \subseteq Conns, assigned' = assigned
          PROVE  AssignmentMatches'
      <3>1. \A fd \in Descriptors, s \in Sessions :
               fdTable'[fd] \in watched'[s] =>
                  fdTable'[fd] = fdTable[fd] /\ fdTable[fd] \in watched[s]
        BY <1>2, <2>4, ClosingKeeps DEF Inv
      <3> QED
        BY <1>2, <2>4, <3>1 DEF AssignmentMatches
    <2>5. CASE Insert
      BY <1>2, <2>4, <2>5, InsertCloses
    <2>6. ASSUME NEW s \in Sessions, Worker(s) PROVE AssignmentMatches'
      <3>1. Closing /\ ended' \subseteq Conns /\ assigned' = assigned
        BY <1>2, <2>6, WorkerCloses
      <3> QED
        BY <2>4, <3>1
    <2>7. CASE UNCHANGED <<fdTable, watched, assigned>>
      BY <1>2, <2>7 DEF AssignmentMatches
    <2>8. SetNonBlocking => UNCHANGED <<fdTable, watched, assigned>>
      BY DEF SetNonBlocking
    <2>9. \A k \in Conns : Connect(k) \/ Hangup(k) =>
                              UNCHANGED <<fdTable, watched, assigned>>
      BY DEF Connect, Hangup
    <2>10. UNCHANGED vars => UNCHANGED <<fdTable, watched, assigned>>
      BY DEF vars
    <2> QED
      BY <1>2, <2>1, <2>2, <2>3, <2>5, <2>6, <2>7, <2>8, <2>9, <2>10
      DEF Next, Listener
  <1> QED
    BY <1>1, <1>2, InvHolds, PTL DEF Spec

\* A worker finds a Socket under the number of what its epoll set watches.
THEOREM WatchedAreListed == Spec => []WatchedIsListed
  <1>1. Init => WatchedIsListed
    BY DEF Init, WatchedIsListed
  <1>2. ASSUME Inv, WatchedIsListed, [Next]_vars
        PROVE  WatchedIsListed'
    <2>1. CASE Accept
      <3>1. PICK k \in backlog, fd \in Descriptors :
                  /\ fdTable'[fd] = k
                  /\ \A g \in Descriptors : g # fd => fdTable'[g] = fdTable[g]
                  /\ \A s \in Sessions : k \notin watched[s]
        BY <1>2, <2>1, AcceptTakes
      <3>2. UNCHANGED <<watched, socks>> /\ lpc = "accept"
        BY <2>1 DEF Accept
      <3> QED
        BY <1>2, <3>1, <3>2 DEF WatchedIsListed
    <2>2. CASE SetNonBlocking \/ Assign
      <3>1. UNCHANGED <<fdTable, watched, socks>> /\ lpc # "insert"
        BY <2>2 DEF SetNonBlocking, Assign
      <3> QED
        BY <1>2, <3>1 DEF WatchedIsListed
    <2>3. CASE Register
      BY <1>2, <2>3, RegisterWatches DEF WatchedIsListed
    <2>4. ASSUME Closing, ended' \subseteq Conns
          PROVE  \A fd \in Descriptors, s \in Sessions :
                    fdTable'[fd] \in watched'[s] =>
                       /\ fdTable'[fd] = fdTable[fd] /\ fdTable[fd] \in watched[s]
                       /\ socks[s][fd] # None \/ (lpc = "insert" /\ lfd = fd /\ lses = s)
      BY <1>2, <2>4, ClosingKeeps DEF Inv, WatchedIsListed
    <2>5. CASE Insert
      <3>1. lconn # None /\ lses \in Sessions /\ lfd \in Descriptors
        BY <1>2, <2>5, InsertCloses, NoneAssumption
      <3>2. /\ socks'[lses][lfd] = lconn
            /\ \A fd \in Descriptors, s \in Sessions :
                  ~(fd = lfd /\ s = lses) => socks'[s][fd] = socks[s][fd]
        BY <1>2, <2>5, <3>1, InsertCloses DEF Inv, Types
      <3>3. Closing /\ ended' \subseteq Conns
        BY <1>2, <2>5, InsertCloses
      <3>4. ASSUME NEW fd \in Descriptors, NEW s \in Sessions,
                   fdTable'[fd] \in watched'[s]
            PROVE  socks'[s][fd] # None
        BY <2>4, <3>1, <3>2, <3>3, <3>4
      <3> QED
        BY <3>4 DEF WatchedIsListed
    <2>6. ASSUME NEW s \in Sessions, Worker(s) PROVE WatchedIsListed'
      <3>1. Closing /\ ended' \subseteq Conns /\ UNCHANGED <<lpc, lfd, lses>>
        BY <1>2, <2>6, WorkerCloses DEF listener
      <3>2. ASSUME NEW fd \in Descriptors, NEW t \in Sessions,
                   fdTable'[fd] \in watched'[t], socks[t][fd] # None
            PROVE  socks'[t][fd] # None
        <4>1. CASE HangupSeen(s) \/ WriteFails(s) \/ ReadFails(s)
          <5>1. /\ socks' = [socks EXCEPT ![s][wfd[s]] = None]
                /\ watched' = [watched EXCEPT ![s] = watched[s] \ {fdTable[wfd[s]]}]
                /\ fdTable' = fdTable
            BY <4>1, ForgetErases
          <5>2. ~(t = s /\ fd = wfd[s])
            BY <1>2, <3>2, <5>1 DEF Inv, Types
          <5>3. socks'[t][fd] = socks[t][fd]
            BY <1>2, <5>1, <5>2 DEF Inv, Types
          <5> QED
            BY <3>2, <5>3
        <4>2. CASE ReadFailsAgain(s)
          <5>1. /\ socks' = [socks EXCEPT ![s][wfd[s]] = None]
                /\ fdTable'[wfd[s]] \notin watched'[s]
            BY <1>2, <4>2, AgainErases
          <5>2. ~(t = s /\ fd = wfd[s])
            BY <3>2, <5>1
          <5>3. socks'[t][fd] = socks[t][fd]
            BY <1>2, <5>1, <5>2 DEF Inv, Types
          <5> QED
            BY <3>2, <5>3
        <4>3. CASE Poll(s) \/ NotFound(s) \/ Serve(s) \/ ReadOn(s)
                      \/ PrepareClose(s) \/ DropSocket(s)
          <5>1. socks' = socks
            BY <4>3 DEF Poll, NotFound, Serve, ReadOn, PrepareClose, DropSocket
          <5> QED
            BY <3>2, <5>1
        <4> QED
          BY <2>6, <4>1, <4>2, <4>3 DEF Worker
      <3> QED
        BY <2>4, <3>1, <3>2 DEF WatchedIsListed
    <2>7. CASE UNCHANGED <<fdTable, watched, socks, lpc, lfd, lses>>
      BY <1>2, <2>7 DEF WatchedIsListed
    <2>8. \A k \in Conns : Connect(k) \/ Hangup(k) =>
                              UNCHANGED <<fdTable, watched, socks, lpc, lfd, lses>>
      BY DEF Connect, Hangup, listener
    <2>9. UNCHANGED vars => UNCHANGED <<fdTable, watched, socks, lpc, lfd, lses>>
      BY DEF vars, listener
    <2> QED
      BY <1>2, <2>1, <2>2, <2>3, <2>5, <2>6, <2>7, <2>8, <2>9 DEF Next, Listener
  <1> QED
    BY <1>1, <1>2, InvHolds, PTL DEF Spec

-----------------------------------------------------------------------------
(* The balance of the round robin. *)

\* The remainder goes up by one, and from the last one back to zero.
LEMMA NextRemainder ==
    ASSUME NEW i \in Nat, NEW n \in Nat \ {0}
    PROVE  (i + 1) % n = IF i % n = n - 1 THEN 0 ELSE (i % n) + 1
  <1>1. i = n * (i \div n) + (i % n) /\ i \div n \in Int /\ i % n \in 0..(n - 1)
    OBVIOUS
  <1>2. /\ i + 1 = n * ((i + 1) \div n) + ((i + 1) % n)
        /\ (i + 1) \div n \in Int /\ (i + 1) % n \in 0..(n - 1)
    OBVIOUS
  <1>3. \A a, b, q, r \in Int, m \in Nat :
           /\ 0 <= a /\ a < m /\ 0 <= b /\ b < m
           /\ m * q + a = m * r + b
           => a = b
    <2> SUFFICES ASSUME NEW a \in Int, NEW b \in Int, NEW q \in Int, NEW r \in Int,
                        NEW m \in Nat, 0 <= a, a < m, 0 <= b, b < m,
                        m * q + a = m * r + b
                 PROVE  a = b
      OBVIOUS
    <2>1. PICK d \in Int : d = q - r
      OBVIOUS
    <2>2. m * (q - r) = b - a
      OBVIOUS
    <2>3. d > 0 => m * d >= m
      OBVIOUS
    <2>4. d < 0 => m * d <= -m
      OBVIOUS
    <2>5. d = 0
      BY <2>1, <2>2, <2>3, <2>4
    <2> QED
      BY <2>1, <2>5
  <1>4. CASE i % n = n - 1
    <2>1. i + 1 = n * ((i \div n) + 1) + 0
      BY <1>1, <1>4
    <2> QED
      BY <1>1, <1>2, <1>3, <1>4, <2>1
  <1>5. CASE i % n # n - 1
    <2>1. i + 1 = n * (i \div n) + ((i % n) + 1) /\ (i % n) + 1 \in 0..(n - 1)
      BY <1>1, <1>5
    <2> QED
      BY <1>1, <1>2, <1>3, <1>5, <2>1
  <1> QED
    BY <1>4, <1>5

\* Session s has had its turn in the present round.
Lead(s) == IF s < nextIndex % NumSessions THEN 1 ELSE 0

\* The balance within a round; a wrap of the counter breaks a round off.
RoundBalance ==
    \A s, t \in Sessions : placed[s] - placed[t] <= (wraps + Lead(s)) - Lead(t)

\* assignClientToSession gives the next client to the session after the last
\* one's; when the counter wraps it starts over.
LEMMA AssignBalances ==
    ASSUME Inv, RoundBalance, Assign
    PROVE  RoundBalance'
  <1> DEFINE p == nextIndex % NumSessions
             One(s) == IF s = p THEN 1 ELSE 0
             Ahead(s) == IF s < nextIndex' % NumSessions THEN 1 ELSE 0
  <1>1. nextIndex \in Nat /\ NumSessions \in Nat \ {0} /\ CounterSpan \in Nat \ {0}
        /\ wraps \in Nat /\ nextIndex < CounterSpan
    BY SessionAssumption DEF Inv, Types
  <1>2. p \in Sessions
    <2>1. p \in 0..(NumSessions - 1)
      BY <1>1
    <2> QED
      BY <2>1 DEF Sessions
  <1>3. /\ placed' = [placed EXCEPT ![p] = placed[p] + 1]
        /\ nextIndex' = (nextIndex + 1) % CounterSpan
        /\ wraps' = IF nextIndex' = 0 THEN wraps + 1 ELSE wraps
    BY DEF Assign, RoundRobin
  <1>4. \A s \in Sessions : placed[s] \in Nat /\ placed'[s] = placed[s] + One(s)
    BY <1>2, <1>3 DEF Inv, Types
  <1>5. \A s \in Sessions : s \in Int /\ 0 <= s /\ s <= NumSessions - 1
    BY <1>1 DEF Sessions
  <1>6. ASSUME NEW s \in Sessions, NEW t \in Sessions
        PROVE  placed[s] - placed[t] <= (wraps + Lead(s)) - Lead(t)
    BY DEF RoundBalance
  <1>7. CASE nextIndex + 1 = CounterSpan
    <2>1. nextIndex' = 0
      BY <1>1, <1>3, <1>7
    <2>2. \A s \in Sessions : Ahead(s) = 0
      <3>1. 0 % NumSessions = 0
        BY <1>1
      <3> QED
        BY <1>5, <2>1, <3>1
    <2>3. wraps' = wraps + 1
      BY <1>3, <2>1
    <2>4. ASSUME NEW s \in Sessions, NEW t \in Sessions
          PROVE  placed'[s] - placed'[t] <= (wraps' + Ahead(s)) - Ahead(t)
      <3>1. One(s) + Lead(s) <= 1 /\ One(t) + Lead(t) >= 0
        BY <1>2, <1>5 DEF Lead
      <3>2. Lead(s) \in Int /\ Lead(t) \in Int /\ One(s) \in Int /\ One(t) \in Int
        BY DEF Lead
      <3> HIDE DEF One, Ahead, Lead
      <3> QED
        BY <1>1, <1>4, <1>6, <2>2, <2>3, <3>1, <3>2
    <2> QED
      BY <2>4 DEF RoundBalance, Lead
  <1>8. CASE nextIndex + 1 # CounterSpan
    <2>1. nextIndex' = nextIndex + 1 /\ nextIndex' # 0
      BY <1>1, <1>3, <1>8
    <2>2. wraps' = wraps
      BY <1>3, <2>1
    <2>3. nextIndex' % NumSessions = IF p = NumSessions - 1 THEN 0 ELSE p + 1
      BY <1>1, <2>1, NextRemainder
    <2>4. ASSUME NEW s \in Sessions, NEW t \in Sessions
          PROVE  placed'[s] - placed'[t] <= (wraps' + Ahead(s)) - Ahead(t)
      <3>1. CASE p = NumSessions - 1
        <4>1. /\ One(s) + Lead(s) = 1 /\ One(t) + Lead(t) = 1
              /\ Ahead(s) = 0 /\ Ahead(t) = 0
          BY <1>1, <1>2, <1>5, <2>3, <3>1 DEF Lead
        <4>2. Lead(s) \in Int /\ Lead(t) \in Int /\ One(s) \in Int /\ One(t) \in Int
          BY DEF Lead
        <4> HIDE DEF One, Ahead, Lead
        <4> QED
          BY <1>1, <1>4, <1>6, <2>2, <4>1, <4>2
      <3>2. CASE p # NumSessions - 1
        <4>1. /\ One(s) + Lead(s) = Ahead(s) /\ One(t) + Lead(t) = Ahead(t)
          BY <1>1, <1>2, <1>5, <2>3, <3>2 DEF Lead
        <4>2. Lead(s) \in Int /\ Lead(t) \in Int /\ One(s) \in Int /\ One(t) \in Int
          BY DEF Lead
        <4> HIDE DEF One, Ahead, Lead
        <4> QED
          BY <1>1, <1>4, <1>6, <2>2, <4>1, <4>2
      <3> QED
        BY <3>1, <3>2
    <2> QED
      BY <2>4 DEF RoundBalance, Lead
  <1> QED
    BY <1>7, <1>8

\* The loads of two sessions differ by one, and by one more for each time the
\* counter has wrapped.
THEOREM RoundRobinBalances == Spec => []RoundRobinBalance
  <1>1. ASSUME Init PROVE RoundBalance
    <2>1. 0 % NumSessions = 0
      BY SessionAssumption
    <2>2. \A s \in Sessions : Lead(s) = 0
      BY <1>1, <2>1, SessionAssumption DEF Init, Lead, Sessions
    <2> QED
      BY <1>1, <2>2 DEF Init, RoundBalance
  <1>2. ASSUME Inv, RoundBalance, [Next]_vars PROVE RoundBalance'
    <2>1. CASE Assign
      BY <1>2, <2>1, AssignBalances
    <2>2. CASE UNCHANGED <<nextIndex, history>>
      BY <1>2, <2>2 DEF RoundBalance, Lead, history
    <2>3. Accept \/ SetNonBlocking \/ Register \/ Insert => UNCHANGED <<nextIndex, history>>
      BY DEF Accept, SetNonBlocking, Register, Insert
    <2>4. \A s \in Sessions : Worker(s) => UNCHANGED <<nextIndex, history>>
      BY DEF Worker, Poll, NotFound, Serve, HangupSeen, WriteFails, ReadFails,
             Forget, PrepareClose, ReadFailsAgain, ReadOn, DropSocket
    <2>5. \A k \in Conns : Connect(k) \/ Hangup(k) => UNCHANGED <<nextIndex, history>>
      BY DEF Connect, Hangup
    <2>6. UNCHANGED vars => UNCHANGED <<nextIndex, history>>
      BY DEF vars
    <2> QED
      BY <1>2, <2>1, <2>2, <2>3, <2>4, <2>5, <2>6 DEF Next, Listener
  <1>3. ASSUME Inv, RoundBalance PROVE RoundRobinBalance
    <2>1. ASSUME NEW s \in Sessions, NEW t \in Sessions
          PROVE  placed[s] - placed[t] <= 1 + wraps
      <3>1. placed[s] \in Nat /\ placed[t] \in Nat /\ wraps \in Nat
        BY <1>3 DEF Inv, Types
      <3>2. Lead(s) \in 0..1 /\ Lead(t) \in 0..1
        BY DEF Lead
      <3>3. placed[s] - placed[t] <= (wraps + Lead(s)) - Lead(t)
        BY <1>3 DEF RoundBalance
      <3> QED
        BY <3>1, <3>2, <3>3
    <2> QED
      BY <2>1 DEF RoundRobinBalance
  <1> QED
    BY <1>1, <1>2, <1>3, InvHolds, PTL DEF Spec

-----------------------------------------------------------------------------
(* The types, and with them a bound: a session is given no more connections *)
(* than there are.                                                          *)

\* Connections that were accepted, but for one not assigned yet.
Accepted(k) == k \in ended \/ \E fd \in Descriptors : fdTable[fd] = k

InHand(k) == lpc \in {"nonblock", "assign"} /\ k = lconn

Settled == {k \in Conns : Accepted(k) /\ ~InHand(k)}

Counted ==
    /\ lpc \in {"nonblock", "assign"} => Accepted(lconn)
    /\ \A s \in Sessions : placed[s] <= Cardinality(Settled)

\* The connections that have been given to a session can be counted.
LEMMA SettledFinite ==
    /\ IsFiniteSet(Settled) /\ Cardinality(Settled) \in Nat
    /\ IsFiniteSet(Conns) /\ Cardinality(Settled) <= Cardinality(Conns)
  <1>1. Settled \subseteq Conns /\ IsFiniteSet(Conns)
    BY ConnsAssumption DEF Settled
  <1> QED
    BY <1>1, FS_Subset, FS_CardinalityType

\* More connections settle, and nobody is given one.
LEMMA CountedKept ==
    ASSUME Inv, Inv', Counted, placed' = placed, Settled \subseteq Settled',
           lpc' \in {"nonblock", "assign"} => Accepted(lconn)'
    PROVE  Counted'
  <1>1. PICK Old : Old = Settled
    OBVIOUS
  <1>2. PICK New : New = Settled'
    OBVIOUS
  <1>3. New \subseteq Conns /\ IsFiniteSet(Conns)
    BY <1>2, ConnsAssumption DEF Settled
  <1>4. IsFiniteSet(New)
    BY <1>3, FS_Subset
  <1>5. Cardinality(Old) <= Cardinality(New) /\ Cardinality(Old) \in Nat
        /\ Cardinality(New) \in Nat
    <2>1. Old \subseteq New
      BY <1>1, <1>2
    <2> QED
      BY <1>4, <2>1, FS_Subset, FS_CardinalityType
  <1>6. ASSUME NEW s \in Sessions PROVE placed[s] <= Cardinality(New)
    <2>1. placed[s] \in Nat
      BY DEF Inv, Types
    <2>2. placed[s] <= Cardinality(Old)
      BY <1>1 DEF Counted
    <2> QED
      BY <1>5, <2>1, <2>2
  <1> QED
    BY <1>2, <1>6 DEF Counted

\* What is closed had been accepted.
LEMMA ClosingAccepts ==
    ASSUME Inv, Closing, ended' \subseteq Conns, NEW k \in Conns
    PROVE  Accepted(k)' <=> Accepted(k)
  <1>1. k # None
    BY NoneAssumption
  <1>2. Accepted(k) => Accepted(k)'
    BY DEF Accepted, Closing
  <1>3. Accepted(k)' => Accepted(k)
    BY <1>1 DEF Accepted, Closing
  <1> QED
    BY <1>2, <1>3

\* Every step keeps the count of the clients given to sessions.
LEMMA CountedStep ==
    ASSUME Inv, Inv', Counted, [Next]_vars
    PROVE  Counted'
  <1>1. CASE Accept
    <2>1. PICK k \in backlog, fd \in Descriptors :
              /\ k \in Conns /\ k \notin ended /\ fdTable[fd] = None
              /\ \A g \in Descriptors : fdTable[g] # k
              /\ fdTable'[fd] = k
              /\ \A g \in Descriptors : g # fd => fdTable'[g] = fdTable[g]
              /\ lconn' = k /\ lpc' = "nonblock"
      BY <1>1, AcceptTakes
    <2>2. ended' = ended /\ placed' = placed /\ lpc = "accept"
      BY <1>1 DEF Accept, history
    <2>3. Accepted(lconn)'
      BY <2>1 DEF Accepted
    <2>4. ASSUME NEW c \in Settled PROVE c \in Settled'
      <3>1. c \in Conns /\ Accepted(c) /\ c # None
        BY NoneAssumption DEF Settled
      <3>2. c # k
        BY <2>1, <3>1 DEF Accepted
      <3>3. Accepted(c)'
        BY <2>1, <2>2, <3>1 DEF Accepted
      <3> QED
        BY <2>1, <3>1, <3>2, <3>3 DEF Settled, InHand
    <2>5. Settled \subseteq Settled'
      BY <2>4
    <2> QED
      BY <2>2, <2>3, <2>5, CountedKept
  <1>2. CASE SetNonBlocking
    <2>1. /\ UNCHANGED <<fdTable, ended, placed>> /\ lpc = "nonblock"
          /\ \/ lpc' = "assign" /\ lconn' = lconn
             \/ lpc' = "accept"
      BY <1>2 DEF SetNonBlocking, history
    <2>2. lpc' \in {"nonblock", "assign"} => Accepted(lconn)'
      BY <2>1 DEF Counted, Accepted
    <2>3. Settled \subseteq Settled'
      BY <2>1 DEF Settled, Accepted, InHand
    <2> QED
      BY <2>1, <2>2, <2>3, CountedKept
  <1>3. CASE Assign
    <2>1. /\ UNCHANGED <<fdTable, ended, lconn>> /\ lpc = "assign" /\ lpc' = "register"
          /\ \E t \in {lses'} : placed' = [placed EXCEPT ![t] = placed[t] + 1]
      BY <1>3 DEF Assign
    <2>2. lconn \in Conns /\ Accepted(lconn)
      BY <2>1 DEF Inv, HandsOK, Counted
    <2> PICK x : x = lconn
      OBVIOUS
    <2>3. PICK Old : Old = Settled
      OBVIOUS
    <2>4. x \notin Old
      BY <2>1, <2>3 DEF Settled, InHand
    <2>5. Settled' = Old \cup {x}
      BY <2>1, <2>2, <2>3 DEF Settled, InHand, Accepted
    <2>6. Cardinality(Old \cup {x}) = Cardinality(Old) + 1 /\ Cardinality(Old) \in Nat
      BY <2>3, <2>4, SettledFinite, FS_AddElement
    <2>7. ASSUME NEW s \in Sessions PROVE placed'[s] <= Cardinality(Old) + 1
      <3>1. placed[s] \in Nat /\ placed'[s] \in {placed[s], placed[s] + 1}
        BY <2>1 DEF Inv, Types
      <3>2. placed[s] <= Cardinality(Old)
        BY <2>3 DEF Counted
      <3> QED
        BY <2>6, <3>1, <3>2
    <2> QED
      BY <2>1, <2>5, <2>6, <2>7 DEF Counted
  <1>4. CASE Register
    <2>1. /\ UNCHANGED <<fdTable, ended, placed, lconn>>
          /\ lpc = "register" /\ lpc' = "insert"
      BY <1>4 DEF Register, history
    <2>2. Settled \subseteq Settled'
      BY <2>1 DEF Settled, Accepted, InHand
    <2> QED
      BY <2>1, <2>2, CountedKept
  <1>5. ASSUME Closing, ended' \subseteq Conns, placed' = placed,
               \/ UNCHANGED <<lpc, lconn>>
               \/ lpc = "insert" /\ lpc' = "accept"
        PROVE  Counted'
    <2>1. \A k \in Conns : Accepted(k)' <=> Accepted(k)
      BY <1>5, ClosingAccepts
    <2>2. Settled \subseteq Settled'
      BY <1>5, <2>1 DEF Settled, InHand
    <2>3. lpc' \in {"nonblock", "assign"} => Accepted(lconn)'
      BY <1>5, <2>1 DEF Counted, Inv, HandsOK, Accepted
    <2> QED
      BY <1>5, <2>2, <2>3, CountedKept
  <1>6. CASE Insert
    <2>1. placed' = placed /\ lpc = "insert" /\ lpc' = "accept"
      BY <1>6 DEF Insert, history
    <2> QED
      BY <1>5, <1>6, <2>1, InsertCloses
  <1>7. ASSUME NEW s \in Sessions, Worker(s) PROVE Counted'
    <2>1. Closing /\ ended' \subseteq Conns /\ UNCHANGED <<listener, history>>
      BY <1>7, WorkerCloses
    <2> QED
      BY <1>5, <2>1 DEF listener, history
  <1>8. CASE UNCHANGED <<fdTable, ended, placed, lpc, lconn>>
    <2>1. Settled' = Settled /\ (Accepted(lconn) => Accepted(lconn)')
      BY <1>8 DEF Settled, Accepted, InHand
    <2> QED
      BY <1>8, <2>1 DEF Counted
  <1>9. \A k \in Conns : Connect(k) \/ Hangup(k) =>
                            UNCHANGED <<fdTable, ended, placed, lpc, lconn>>
    BY DEF Connect, Hangup, listener, history
  <1>10. UNCHANGED vars => UNCHANGED <<fdTable, ended, placed, lpc, lconn>>
    BY DEF vars, listener, history
  <1> QED
    BY <1>1, <1>2, <1>3, <1>4, <1>6, <1>7, <1>8, <1>9, <1>10 DEF Next, Listener

\* The types, and that a session is given each connection once at most.
THEOREM TypesHold == Spec => []TypeOK
  <1>1. ASSUME Init PROVE Counted
    <2>1. \A s \in Sessions : placed[s] = 0
      BY <1>1 DEF Init
    <2> QED
      BY <1>1, <2>1, SettledFinite DEF Init, Counted
  <1>2. ASSUME Inv, Counted PROVE TypeOK
    <2>1. ASSUME NEW s \in Sessions PROVE placed[s] \in 0..Cardinality(Conns)
      <3>1. placed[s] \in Nat /\ placed[s] <= Cardinality(Settled)
        BY <1>2 DEF Inv, Types, Counted
      <3>2. Cardinality(Conns) \in Nat /\ Cardinality(Settled) \in Nat
        BY SettledFinite, FS_CardinalityType
      <3> QED
        BY <3>1, <3>2, SettledFinite
    <2>2. placed \in [Sessions -> 0..Cardinality(Conns)]
      BY <1>2, <2>1 DEF Inv, Types
    <2> QED
      BY <1>2, <2>2 DEF Inv, Types, TypeOK
  <1> QED
    BY <1>1, <1>2, InvHolds, CountedStep, PTL DEF Spec

=============================================================================

-------------------------- MODULE UringServer_proofs --------------------------
(***************************************************************************)
(* For any connections, descriptors and sessions: the map of the manager   *)
(* tells the truth, no descriptor leaks, the listener keeps an accept, and *)
(* stop can join its threads.                                              *)
(*                                                                         *)
(* The types tie the locals of main and of the workers to where they are,  *)
(* without which a step could lose the number it holds.  AcceptsCounted    *)
(* is a balance: what is prepared, in the kernel or has failed is one more *)
(* than what was assigned; ListenerHears follows from it and is not        *)
(* inductive alone.  NobodyServed says that before main listens, and for   *)
(* good if it never does, no session has a client.                         *)
(***************************************************************************)
EXTENDS UringServer, TLAPS

Closing == {"unmap", "temp", "drop"}

AcceptsCounted ==
    /\ Listening => lsq + accepting + failures = assigned + 1
    /\ mpc \in {"init", "listen"} =>
          lsq = 0 /\ accepting = 0 /\ failures = 0 /\ assigned = 0

NobodyServed ==
    /\ ~Listening =>
          \A s \in Sessions : socks[s] = {} /\ wpc[s] \in {"none", "loop", "done"}
    /\ mpc = "join" => ~mrunning

-----------------------------------------------------------------------------
\* The tail of a queue has everything but the head.
LEMMA TailKeeps ==
    ASSUME NEW S, NEW q \in Seq(S), q # <<>>, NEW i \in DOMAIN q, q[i] # Head(q)
    PROVE  \E j \in DOMAIN Tail(q) : Tail(q)[j] = q[i]
<1>1. i \in 2..Len(q) /\ i - 1 \in DOMAIN Tail(q) /\ Tail(q)[i - 1] = q[i]
  OBVIOUS
<1> QED BY <1>1

\* Appending keeps everything and adds the last.
LEMMA AppendKeeps ==
    ASSUME NEW S, NEW q \in Seq(S), NEW e \in S
    PROVE  /\ Append(q, e)[Len(q) + 1] = e
           /\ Len(q) + 1 \in DOMAIN Append(q, e)
           /\ \A i \in DOMAIN q : i \in DOMAIN Append(q, e) /\ Append(q, e)[i] = q[i]
  OBVIOUS

\* A function stays in its type when one of its values is replaced.
LEMMA UpdateKeepsType ==
    ASSUME NEW D, NEW T, NEW f \in [D -> T], NEW x \in D, NEW v \in T
    PROVE  [f EXCEPT ![x] = v] \in [D -> T]
  OBVIOUS

-----------------------------------------------------------------------------
(* Types and positions, in the three groups that the steps touch. *)

KernelType ==
    /\ fdTable \in [Fds -> Conns \cup {None}]
    /\ joined \subseteq Conns /\ backlog \subseteq joined
    /\ hungup \subseteq joined /\ spoken \subseteq joined
    /\ inbox \subseteq spoken

ListenerType ==
    /\ mpc \in {"init", "listen", "destroy", "join", "exited",
                "peek", "handle", "reset", "assign"}
    /\ lsq \in Nat /\ accepting \in Nat
    /\ assigned \in Nat /\ failures \in Nat
    /\ lcq \in Seq(Fds \cup {Failed}) /\ lbatch \in 0..Len(lcq)
    /\ lfd \in Fds \cup {None}
    /\ mpc \in {"reset", "assign"} => lfd \in Fds
    /\ mpc \notin {"reset", "assign"} => lfd = None

Entries == [op : {"read", "close"}, fd : Fds]

SessionType ==
    /\ mrunning \in BOOLEAN /\ nextIndex \in Sessions
    /\ mapped \in [Fds -> Sessions \cup {None}]
    /\ socks \in [Sessions -> SUBSET Fds]
    /\ sq \in [Sessions -> Seq(Entries)]
    /\ armed \in [Sessions -> [Fds \X Conns -> Nat]]

WorkerType ==
    /\ wpc \in [Sessions -> {"none", "loop", "batch", "unmap", "temp", "drop", "done"}]
    /\ wfd \in [Sessions -> [fd : Fds \cup {None}, rearm : BOOLEAN]]
    /\ \A s \in Sessions :
          /\ wpc[s] \in Closing => wfd[s].fd \in Fds
          /\ wpc[s] \notin Closing => wfd[s].fd = None

Types == KernelType /\ ListenerType /\ SessionType /\ WorkerType

\* Together they say what TypeOK says.
LEMMA TypeParts == Types => TypeOK
  BY Zenon DEF Types, TypeOK, KernelType, ListenerType, SessionType, WorkerType, Entries

\* The initial state has the types.
LEMMA InitType == Init => Types
<1> SUFFICES ASSUME Init PROVE Types
  OBVIOUS
<1>1. KernelType
  BY DEF Init, KernelType
<1>2. ListenerType
  BY DEF Init, ListenerType
<1>3. SessionType
  <2>1. nextIndex \in Sessions
    BY SizeAssumption DEF Init, Sessions
  <2>2. sq \in [Sessions -> Seq(Entries)]
    BY DEF Init
  <2>3. armed \in [Sessions -> [Fds \X Conns -> Nat]]
    BY DEF Init
  <2>4. /\ mapped \in [Fds -> Sessions \cup {None}]
        /\ socks \in [Sessions -> SUBSET Fds]
        /\ mrunning \in BOOLEAN
    BY DEF Init
  <2> QED BY <2>1, <2>2, <2>3, <2>4 DEF SessionType
<1>4. WorkerType
  BY DEF Init, WorkerType, Closing, Idle
<1> QED BY <1>1, <1>2, <1>3, <1>4 DEF Types

\* The steps of clients and kernel leave sessions and workers alone.
LEMMA KernelStepType ==
    ASSUME Types,
           AcceptFails \/ \E c \in Conns : Client(c) \/ Accept(c)
    PROVE  Types'
<1> USE DEF Types
<1> USE DEF peerVars, ringVars, listenerVars, managerVars, sessionVars, workerVars
<1>1. UNCHANGED <<managerVars, sessionVars, workerVars>>
  BY Zenon DEF AcceptFails, Client, Connect, Send, Hangup, Accept
<1>2. SessionType' /\ WorkerType'
  BY <1>1 DEF SessionType, WorkerType
<1>3. ASSUME NEW c \in Conns, Client(c) PROVE KernelType' /\ ListenerType'
  BY <1>3 DEF Client, Connect, Send, Hangup, KernelType, ListenerType
<1>4. ASSUME NEW c \in Conns, Accept(c) PROVE KernelType' /\ ListenerType'
  BY <1>4 DEF Accept, Free, KernelType, ListenerType
<1>5. CASE AcceptFails
  <2>1. KernelType'
    BY <1>5 DEF AcceptFails, KernelType
  <2>2. lcq' = Append(lcq, Failed) /\ lbatch' = lbatch
    BY <1>5 DEF AcceptFails
  <2>3. lcq \in Seq(Fds \cup {Failed}) /\ lbatch \in 0..Len(lcq)
    BY DEF ListenerType
  <2>4. lcq' \in Seq(Fds \cup {Failed}) /\ lbatch' \in 0..Len(lcq')
    BY <2>2, <2>3
  <2>5. /\ lsq' \in Nat /\ accepting' \in Nat
        /\ assigned' \in Nat /\ failures' \in Nat
    BY <1>5 DEF AcceptFails, ListenerType
  <2>6. mpc' = mpc /\ lfd' = lfd
    BY <1>5 DEF AcceptFails
  <2>7. ListenerType'
    BY Zenon, <2>4, <2>5, <2>6 DEF ListenerType
  <2> QED BY <1>2, <2>1, <2>7
<1> QED BY <1>2, <1>3, <1>4, <1>5

\* main's steps.
LEMMA MainStepType ==
    ASSUME Types, NobodyServed, Main
    PROVE  Types'
<1> USE DEF Types
<1> USE DEF peerVars, ringVars, listenerVars, managerVars, sessionVars, workerVars
<1>1. CASE StartManager
  <2>1. SessionType' /\ KernelType' /\ ListenerType'
    BY <1>1 DEF StartManager, SessionType, KernelType, ListenerType
  <2>2. WorkerType'
    <3>1. \A s \in Sessions : wfd[s].fd = None
      BY <1>1 DEF StartManager, NobodyServed, Listening, WorkerType, Closing
    <3> QED BY <1>1, <3>1 DEF StartManager, WorkerType, Closing
  <2> QED BY <2>1, <2>2
<1>2. CASE StartThrows \/ StartListener \/ Stop \/ Join
  <2>1. KernelType' /\ WorkerType'
    BY <1>2 DEF StartThrows, StartListener, Stop, Join, KernelType, WorkerType
  <2>2. ListenerType'
    BY <1>2 DEF StartThrows, StartListener, Stop, Join, ListenerType
  <2>3. SessionType'
    BY <1>2 DEF StartThrows, StartListener, Stop, StopFlag, Join, SessionType
  <2> QED BY <2>1, <2>2, <2>3
<1>3. CASE Peek \/ SubmitAndWait \/ RoundEnds
  <2>1. KernelType' /\ WorkerType' /\ SessionType'
    BY <1>3 DEF Peek, SubmitAndWait, RoundEnds, KernelType, WorkerType, SessionType
  <2>2. ListenerType'
    BY <1>3 DEF Peek, SubmitAndWait, RoundEnds, SubmittedAccepts, ListenerType
  <2> QED BY <2>1, <2>2
<1>4. CASE LogFailure \/ TakeSocket
  <2>1. KernelType' /\ WorkerType' /\ SessionType'
    BY <1>4 DEF LogFailure, TakeSocket, KernelType, WorkerType, SessionType
  <2>2. /\ mpc = "handle" /\ lcq # <<>> /\ Head(lcq) \in Fds \cup {Failed}
        /\ lcq' \in Seq(Fds \cup {Failed}) /\ lbatch' \in 0..Len(lcq')
    <3>1. lcq \in Seq(Fds \cup {Failed}) /\ lcq # <<>> /\ lbatch \in 0..Len(lcq)
          /\ lbatch > 0 /\ mpc = "handle" /\ lcq' = Tail(lcq) /\ lbatch' = lbatch - 1
      BY <1>4 DEF LogFailure, TakeSocket, NextCqe, ListenerType
    <3>2. Head(lcq) \in Fds \cup {Failed} /\ Tail(lcq) \in Seq(Fds \cup {Failed})
          /\ Len(Tail(lcq)) = Len(lcq) - 1
      BY <3>1
    <3> QED BY <3>1, <3>2
  <2>3. ListenerType'
    BY <1>4, <2>2 DEF LogFailure, TakeSocket, ListenerType
  <2> QED BY <2>1, <2>3
<1>5. CASE ResetSocket
  BY <1>5 DEF ResetSocket, Closed, KernelType, ListenerType, WorkerType, SessionType
<1>6. CASE Assign
  <2>1. NextIndex \in Sessions
    <3>1. nextIndex + 1 \in Nat /\ NumSessions \in Nat \ {0}
      BY SizeAssumption DEF SessionType, Sessions
    <3>2. (nextIndex + 1) % NumSessions \in 0..(NumSessions - 1)
      BY <3>1
    <3> QED BY <3>2 DEF NextIndex, Sessions
  <2>2. lfd \in Fds
    BY <1>6 DEF Assign, ListenerType
  <2>3. KernelType' /\ WorkerType'
    BY <1>6, <2>2 DEF Assign, Closed, KernelType, WorkerType
  <2>4. ListenerType'
    BY <1>6 DEF Assign, Reprepared, ListenerType
  <2>5. sq' \in [Sessions -> Seq(Entries)]
    <3>1. Op("read", lfd) \in Entries
      BY <2>2 DEF Op, Entries
    <3>2. sq' = [sq EXCEPT ![nextIndex] = Append(sq[nextIndex], Op("read", lfd))]
      BY <1>6 DEF Assign
    <3>3. nextIndex \in Sessions /\ sq \in [Sessions -> Seq(Entries)]
      BY DEF SessionType
    <3>4. Append(sq[nextIndex], Op("read", lfd)) \in Seq(Entries)
      BY <3>1, <3>3
    <3> QED BY <3>2, <3>3, <3>4, UpdateKeepsType
  <2>6. mapped' \in [Fds -> Sessions \cup {None}]
    BY <1>6, <2>2 DEF Assign, SessionType
  <2>7. socks' \in [Sessions -> SUBSET Fds]
    <3>1. socks' = [socks EXCEPT ![nextIndex] = socks[nextIndex] \cup {lfd}]
      BY <1>6 DEF Assign
    <3>2. nextIndex \in Sessions /\ socks \in [Sessions -> SUBSET Fds]
      BY DEF SessionType
    <3>3. socks[nextIndex] \cup {lfd} \in SUBSET Fds
      BY <2>2, <3>2
    <3> QED BY <3>1, <3>2, <3>3, UpdateKeepsType
  <2>8. UNCHANGED <<mrunning, armed>> /\ nextIndex' = NextIndex
    BY <1>6 DEF Assign
  <2>9. SessionType'
    BY <2>1, <2>5, <2>6, <2>7, <2>8 DEF SessionType
  <2> QED BY <2>3, <2>4, <2>9
<1> QED BY <1>1, <1>2, <1>3, <1>4, <1>5, <1>6 DEF Main

\* The workers' steps.
LEMMA WorkerStepType ==
    ASSUME Types, NEW s \in Sessions, Worker(s)
    PROVE  Types'
<1> USE DEF Types
<1> USE DEF peerVars, ringVars, listenerVars, managerVars, sessionVars, workerVars
<1>1. ListenerType'
  <2>1. UNCHANGED <<ringVars, listenerVars>>
    BY Zenon DEF Worker, WorkerEnds, Take, Unmap, DropTemporary, DropSocket,
                 Submit, Submitted
  <2> QED BY <2>1 DEF ListenerType
<1>2. CASE WorkerEnds(s) \/ Submitted(s)
  <2>1. KernelType' /\ SessionType'
    BY <1>2 DEF WorkerEnds, Submitted, KernelType, SessionType
  <2>2. WorkerType'
    BY <1>2 DEF WorkerEnds, Submitted, Goto, WorkerType, Closing
  <2> QED BY <1>1, <2>1, <2>2
<1>3. ASSUME NEW fd \in Fds, NEW c \in Conns, Take(s, fd, c)
      PROVE  Types'
  <2>1. KernelType'
    BY <1>3 DEF Take, KernelType
  <2>2. armed' \in [Sessions -> [Fds \X Conns -> Nat]]
    <3>1. PICK more \in BOOLEAN :
            armed' = [armed EXCEPT ![s][<<fd, c>>] = IF more THEN @ ELSE @ - 1]
      BY <1>3 DEF Take
    <3>2. <<fd, c>> \in Fds \X Conns /\ armed[s][<<fd, c>>] > 0
      BY <1>3 DEF Take
    <3> DEFINE n == IF more THEN armed[s][<<fd, c>>] ELSE armed[s][<<fd, c>>] - 1
    <3>3. armed[s] \in [Fds \X Conns -> Nat]
      BY DEF SessionType
    <3>4. n \in Nat
      BY <3>2, <3>3
    <3>5. armed' = [armed EXCEPT ![s] = [armed[s] EXCEPT ![<<fd, c>>] = n]]
      BY <3>1
    <3> HIDE DEF n
    <3>6. [armed[s] EXCEPT ![<<fd, c>>] = n] \in [Fds \X Conns -> Nat]
      BY <3>2, <3>3, <3>4, UpdateKeepsType
    <3>7. armed \in [Sessions -> [Fds \X Conns -> Nat]]
      BY DEF SessionType
    <3> QED BY <3>5, <3>6, <3>7, UpdateKeepsType
  <2>3. socks' \in [Sessions -> SUBSET Fds]
    <3>1. socks' = socks \/ socks' = Removed(s, fd)
      BY <1>3 DEF Take
    <3>2. socks \in [Sessions -> SUBSET Fds]
      BY DEF SessionType
    <3>3. socks[s] \ {fd} \in SUBSET Fds
      BY <3>2
    <3>4. Removed(s, fd) = [socks EXCEPT ![s] = socks[s] \ {fd}]
      BY DEF Removed
    <3> QED BY <3>1, <3>2, <3>3, <3>4, UpdateKeepsType
  <2>4. SessionType'
    <3>1. UNCHANGED <<managerVars, sq>>
      BY <1>3 DEF Take
    <3> QED BY <2>2, <2>3, <3>1 DEF SessionType
  <2>5. WorkerType'
    BY <1>3 DEF Take, Busy, Goto, WorkerType, Closing
  <2> QED BY <1>1, <2>1, <2>4, <2>5
<1>4. CASE Unmap(s) \/ DropTemporary(s)
  <2>1. wfd[s].fd \in Fds
    BY <1>4 DEF Unmap, DropTemporary, WorkerType, Closing
  <2>2. KernelType'
    BY <1>4, <2>1 DEF Unmap, DropTemporary, Closed, KernelType
  <2>3. SessionType'
    <3>1. mapped' \in [Fds -> Sessions \cup {None}]
      BY <1>4, <2>1 DEF Unmap, DropTemporary, Unmapped, SessionType
    <3>2. socks' = socks \/ \E m \in Sessions : socks' = Removed(m, wfd[s].fd)
      BY <1>4, <2>1 DEF Unmap, DropTemporary, SessionType
    <3>3. socks' \in [Sessions -> SUBSET Fds]
      BY <3>2 DEF Removed, SessionType
    <3>4. UNCHANGED <<mrunning, nextIndex, sq, armed>>
      BY <1>4 DEF Unmap, DropTemporary
    <3> QED BY <3>1, <3>3, <3>4 DEF SessionType
  <2>4. WorkerType'
    BY <1>4 DEF Unmap, DropTemporary, Goto, WorkerType, Closing
  <2> QED BY <1>1, <2>2, <2>3, <2>4
<1>5. CASE DropSocket(s)
  <2>1. wfd[s].fd \in Fds
    BY <1>5 DEF DropSocket, WorkerType, Closing
  <2>2. KernelType'
    BY <1>5, <2>1 DEF DropSocket, Closed, KernelType
  <2>3. WorkerType'
    BY <1>5 DEF DropSocket, Goto, Idle, WorkerType, Closing
  <2>4. sq' \in [Sessions -> Seq(Entries)]
    <3> DEFINE again == IF wfd[s].rearm THEN <<Op("read", wfd[s].fd)>> ELSE <<>>
               close == <<Op("close", wfd[s].fd)>>
    <3>1. Op("close", wfd[s].fd) \in Entries /\ Op("read", wfd[s].fd) \in Entries
      BY <2>1 DEF Op, Entries
    <3>2. close \in Seq(Entries) /\ again \in Seq(Entries)
      <4> HIDE DEF Op, Entries
      <4> QED BY <3>1
    <3>3. sq' = [sq EXCEPT ![s] = sq[s] \o close \o again]
      BY <1>5 DEF DropSocket
    <3>4. sq \in [Sessions -> Seq(Entries)]
      BY DEF SessionType
    <3> HIDE DEF close, again
    <3>5. sq[s] \o close \o again \in Seq(Entries)
      BY <3>2, <3>4
    <3> QED BY <3>3, <3>4, <3>5, UpdateKeepsType
  <2>5. SessionType'
    <3>1. UNCHANGED <<managerVars, socks, armed>>
      BY <1>5 DEF DropSocket
    <3> QED BY <2>4, <3>1 DEF SessionType
  <2> QED BY <1>1, <2>2, <2>3, <2>5
<1>6. CASE Submit(s)
  <2>1. Head(sq[s]) \in Entries
    <3>1. sq[s] \in Seq(Entries) /\ sq[s] # <<>>
      BY <1>6 DEF Submit, SessionType
    <3> QED BY <3>1
  <2> DEFINE fd == Head(sq[s]).fd
             c  == fdTable[fd]
  <2>0. fd \in Fds
    BY <2>1 DEF Entries
  <2>2. KernelType' /\ WorkerType'
    BY <1>6, <2>0 DEF Submit, Closed, KernelType, WorkerType
  <2>3. armed' \in [Sessions -> [Fds \X Conns -> Nat]]
    <3>1. armed \in [Sessions -> [Fds \X Conns -> Nat]] /\ c \in Conns \cup {None}
      BY <2>0 DEF KernelType, SessionType
    <3>2. CASE armed' = armed
      BY <3>1, <3>2
    <3>3. CASE c # None /\ armed' = [armed EXCEPT ![s][<<fd, c>>] = @ + 1]
      <4> DEFINE n == armed[s][<<fd, c>>] + 1
      <4>1. <<fd, c>> \in Fds \X Conns /\ armed[s] \in [Fds \X Conns -> Nat]
        BY <2>0, <3>1, <3>3
      <4>2. n \in Nat
        BY <4>1
      <4>3. armed' = [armed EXCEPT ![s] = [armed[s] EXCEPT ![<<fd, c>>] = n]]
        BY <3>3
      <4> HIDE DEF n, fd, c
      <4>4. [armed[s] EXCEPT ![<<fd, c>>] = n] \in [Fds \X Conns -> Nat]
        BY <4>1, <4>2, UpdateKeepsType
      <4> QED BY <3>1, <4>3, <4>4, UpdateKeepsType
    <3>4. armed' = armed \/ (c # None /\ armed' = [armed EXCEPT ![s][<<fd, c>>] = @ + 1])
      BY <1>6 DEF Submit
    <3> QED BY <3>2, <3>3, <3>4
  <2>4. sq' \in [Sessions -> Seq(Entries)]
    <3>1. sq \in [Sessions -> Seq(Entries)] /\ sq[s] # <<>>
          /\ sq' = [sq EXCEPT ![s] = Tail(sq[s])]
      BY <1>6 DEF Submit, SessionType
    <3>2. Tail(sq[s]) \in Seq(Entries)
      BY <3>1
    <3> QED BY <3>1, <3>2, UpdateKeepsType
  <2>5. SessionType'
    <3>1. UNCHANGED <<managerVars, socks>>
      BY <1>6 DEF Submit
    <3> QED BY <2>3, <2>4, <3>1 DEF SessionType
  <2> QED BY <1>1, <2>2, <2>5
<1> QED BY <1>2, <1>3, <1>4, <1>5, <1>6 DEF Worker

-----------------------------------------------------------------------------
(* The listener's balance, and a manager that never served. *)

\* Each accept that ends makes a failure or an assignment, and an assignment
\* prepares one.
LEMMA AcceptsCountedStep ==
    ASSUME Types, AcceptsCounted, [Next]_vars
    PROVE  AcceptsCounted'
<1> USE DEF Types, ListenerType, AcceptsCounted, Listening
<1> USE DEF peerVars, ringVars, listenerVars, managerVars, sessionVars, workerVars
<1>1. CASE UNCHANGED <<mpc, lsq, accepting, failures, assigned>>
  BY <1>1
<1>2. ASSUME NEW c \in Conns, Client(c) \/ Accept(c)
      PROVE  UNCHANGED <<mpc, lsq, accepting, failures, assigned>>
  BY <1>2 DEF Client, Connect, Send, Hangup, Accept
<1>3. ASSUME NEW s \in Sessions, Worker(s)
      PROVE  UNCHANGED <<mpc, lsq, accepting, failures, assigned>>
  BY Zenon, <1>3 DEF Worker, WorkerEnds, Take, Unmap, DropTemporary, DropSocket,
                 Submit, Submitted
<1>4. CASE AcceptFails
  BY <1>4 DEF AcceptFails
<1>5. CASE Main
  <2>1. CASE StartManager \/ StartThrows \/ StartListener \/ Stop \/ Join
    BY <2>1 DEF StartManager, StartThrows, StartListener, Stop, Join
  <2>2. CASE Peek \/ LogFailure \/ TakeSocket \/ ResetSocket
    BY <2>2 DEF Peek, LogFailure, TakeSocket, NextCqe, ResetSocket
  <2>3. CASE SubmitAndWait \/ RoundEnds
    BY <2>3 DEF SubmitAndWait, RoundEnds, SubmittedAccepts
  <2>4. CASE Assign
    BY <2>4 DEF Assign, Reprepared
  <2> QED BY <1>5, <2>1, <2>2, <2>3, <2>4 DEF Main
<1>6. CASE UNCHANGED vars
  BY <1>6 DEF vars
<1> QED BY <1>1, <1>2, <1>3, <1>4, <1>5, <1>6 DEF Next

\* Clients only come to a server that listens, and it never stops listening.
LEMMA NobodyServedStep ==
    ASSUME Types, NobodyServed, [Next]_vars
    PROVE  NobodyServed'
<1> USE DEF Types, NobodyServed, Listening
<1> USE DEF peerVars, ringVars, listenerVars, managerVars, sessionVars, workerVars
<1>1. CASE UNCHANGED <<mpc, mrunning, socks, wpc>>
  BY <1>1
<1>2. ASSUME NEW c \in Conns, Client(c) \/ Accept(c)
      PROVE  UNCHANGED <<mpc, mrunning, socks, wpc>>
  BY <1>2 DEF Client, Connect, Send, Hangup, Accept
<1>3. CASE AcceptFails
  BY <1>3 DEF AcceptFails
<1>4. CASE Main
  <2>1. CASE StartManager \/ StartThrows \/ StartListener \/ Join
    BY <2>1 DEF StartManager, StartThrows, StartListener, Join
  <2>2. CASE Stop
    BY <2>2 DEF Stop, StopFlag
  <2>3. CASE Peek \/ LogFailure \/ TakeSocket \/ ResetSocket
    BY <2>3 DEF Peek, LogFailure, TakeSocket, NextCqe, ResetSocket
  <2>4. CASE SubmitAndWait \/ RoundEnds \/ Assign
    BY <2>4 DEF SubmitAndWait, RoundEnds, Assign
  <2> QED BY <1>4, <2>1, <2>2, <2>3, <2>4 DEF Main
<1>5. ASSUME NEW s \in Sessions, Worker(s)
      PROVE  NobodyServed'
  <2>1. UNCHANGED <<mpc, mrunning>>
    BY Zenon, <1>5 DEF Worker, WorkerEnds, Take, Unmap, DropTemporary, DropSocket,
                   Submit, Submitted
  <2>2. CASE mpc \in {"peek", "handle", "reset", "assign"}
    BY <2>1, <2>2
  <2>3. CASE mpc \notin {"peek", "handle", "reset", "assign"}
    <3>1. socks[s] = {} /\ wpc[s] \in {"none", "loop", "done"}
      BY <2>3
    <3>2. WorkerEnds(s) \/ Submitted(s)
      BY <1>5, <3>1 DEF Worker, Take, Submit, Busy, Unmap, DropTemporary,
                        DropSocket, WorkerEnds
    <3>3. wpc' = [wpc EXCEPT ![s] = "done"] /\ UNCHANGED socks
      BY <3>1, <3>2 DEF WorkerEnds, Submitted, Goto
    <3> QED BY <2>1, <2>3, <3>3 DEF WorkerType
  <2> QED BY <2>2, <2>3
<1>6. CASE UNCHANGED vars
  BY <1>6 DEF vars
<1> QED BY <1>1, <1>2, <1>3, <1>4, <1>5, <1>6 DEF Next

-----------------------------------------------------------------------------
(* The manager's map, and the owners of descriptors. *)

\* What a session drops from its map, its worker is closing; what removeSession
\* drops from another session's map, it takes out of the manager's.
LEMMA ManagerAgreesStep ==
    ASSUME Types, NobodyServed, ManagerAgrees, [Next]_vars
    PROVE  ManagerAgrees'
<1> USE DEF Types
<1> USE DEF peerVars, ringVars, listenerVars, managerVars, sessionVars, workerVars
<1>1. ASSUME UNCHANGED <<mapped, socks, wpc, wfd>>
      PROVE  ManagerAgrees'
  BY <1>1 DEF ManagerAgrees
<1>2. ASSUME NEW c \in Conns, Client(c) \/ Accept(c)
      PROVE  UNCHANGED <<mapped, socks, wpc, wfd>>
  BY <1>2 DEF Client, Connect, Send, Hangup, Accept
<1>3. CASE AcceptFails
  BY <1>1, <1>3 DEF AcceptFails
<1>4. CASE StartManager
  <2>1. \A s \in Sessions : wpc[s] \notin {"unmap", "temp"}
    BY <1>4 DEF StartManager, NobodyServed, Listening
  <2>2. UNCHANGED <<mapped, socks>>
    BY <1>4 DEF StartManager
  <2> QED BY <2>1, <2>2 DEF ManagerAgrees
<1>5. CASE Assign
  <2>1. /\ lfd \in Fds /\ nextIndex \in Sessions
        /\ mapped \in [Fds -> Sessions \cup {None}] /\ socks \in [Sessions -> SUBSET Fds]
    BY <1>5 DEF Assign, ListenerType, SessionType
  <2>2. /\ mapped' = [mapped EXCEPT ![lfd] = nextIndex]
        /\ socks' = [socks EXCEPT ![nextIndex] = @ \cup {lfd}]
        /\ UNCHANGED <<wpc, wfd>>
    BY <1>5 DEF Assign
  <2> QED BY <2>1, <2>2 DEF ManagerAgrees
<1>6. CASE Main
  <2>1. StartManager \/ Assign \/ UNCHANGED <<mapped, socks, wpc, wfd>>
    BY Zenon, <1>6 DEF Main, StartThrows, StartListener, Stop, Join, Peek, SubmitAndWait,
                   LogFailure, TakeSocket, ResetSocket, RoundEnds
  <2> QED BY <1>1, <1>4, <1>5, <2>1
<1>7. ASSUME NEW s \in Sessions, Worker(s)
      PROVE  ManagerAgrees'
  <2> USE DEF SessionType, WorkerType
  <2>1. CASE WorkerEnds(s) \/ Submitted(s)
    <3>1. UNCHANGED <<mapped, socks, wfd>> /\ wpc[s] \notin {"unmap", "temp"}
          /\ \A t \in Sessions \ {s} : wpc'[t] = wpc[t]
      BY <2>1 DEF WorkerEnds, Submitted, Goto
    <3> QED BY <3>1 DEF ManagerAgrees
  <2>2. ASSUME NEW fd \in Fds, NEW c \in Conns, Take(s, fd, c)
        PROVE  ManagerAgrees'
    <3>1. wpc[s] \notin {"unmap", "temp", "drop"}
      BY <2>2 DEF Take, Busy
    <3>2. /\ UNCHANGED mapped /\ \A t \in Sessions \ {s} : wpc'[t] = wpc[t] /\ wfd'[t] = wfd[t]
          /\ socks' = socks \/ (socks' = Removed(s, fd) /\ wpc'[s] = "unmap" /\ wfd'[s].fd = fd)
      BY <2>2 DEF Take, Goto
    <3> SUFFICES ASSUME NEW x \in Fds, mapped'[x] # None
                 PROVE  \/ x \in socks'[mapped'[x]]
                        \/ \E t \in Sessions : wfd'[t].fd = x /\ wpc'[t] \in {"unmap", "temp"}
      BY DEF ManagerAgrees
    <3>3. CASE x \in socks[mapped[x]]
      <4>1. CASE socks' = socks
        BY <3>2, <3>3, <4>1
      <4>2. CASE x = fd /\ wpc'[s] = "unmap" /\ wfd'[s].fd = fd
        BY <4>2
      <4>3. CASE x # fd /\ socks' = Removed(s, fd)
        BY <3>2, <3>3, <4>3 DEF Removed
      <4> QED BY <3>2, <4>1, <4>2, <4>3
    <3>4. ASSUME NEW t \in Sessions, wfd[t].fd = x, wpc[t] \in {"unmap", "temp"}
          PROVE  wfd'[t].fd = x /\ wpc'[t] \in {"unmap", "temp"}
      BY <3>1, <3>2, <3>4
    <3> QED BY <3>2, <3>3, <3>4 DEF ManagerAgrees
  <2>3. CASE Unmap(s)
    <3> DEFINE fd == wfd[s].fd
               m  == mapped[fd]
    <3>1. /\ fd \in Fds /\ m \in Sessions \cup {None} /\ UNCHANGED wfd
          /\ \A t \in Sessions \ {s} : wpc'[t] = wpc[t]
      BY <2>3 DEF Unmap, Goto, Closing
    <3>2. CASE m = None /\ UNCHANGED <<mapped, socks>>
      BY <3>1, <3>2 DEF ManagerAgrees
    <3>3. CASE mapped' = Unmapped(fd) /\ UNCHANGED socks
      BY <3>1, <3>3 DEF ManagerAgrees, Unmapped
    <3>4. CASE socks' = Removed(m, fd) /\ m # None /\ wpc'[s] = "temp" /\ UNCHANGED mapped
      <4>1. \A x \in Fds : x # fd /\ mapped[x] # None /\ x \in socks[mapped[x]]
                            => x \in socks'[mapped[x]]
        BY <3>1, <3>4 DEF Removed
      <4>2. wfd'[s].fd = fd /\ wpc'[s] \in {"unmap", "temp"}
        BY <3>1, <3>4
      <4>3. \A t \in Sessions : wpc[t] \in {"unmap", "temp"} => wpc'[t] \in {"unmap", "temp"}
        BY <3>1, <4>2
      <4> HIDE DEF fd, m
      <4> QED BY <3>1, <3>4, <4>1, <4>2, <4>3 DEF ManagerAgrees
    <3>5. \/ m = None /\ UNCHANGED <<mapped, socks>>
          \/ mapped' = Unmapped(fd) /\ UNCHANGED socks
          \/ socks' = Removed(m, fd) /\ m # None /\ wpc'[s] = "temp" /\ UNCHANGED mapped
      BY <2>3 DEF Unmap, Goto
    <3> QED BY <3>2, <3>3, <3>4, <3>5
  <2>4. CASE DropTemporary(s)
    <3>1. /\ wfd[s].fd \in Fds /\ UNCHANGED <<wfd, socks>> /\ mapped' = Unmapped(wfd[s].fd)
          /\ \A t \in Sessions \ {s} : wpc'[t] = wpc[t]
      BY <2>4 DEF DropTemporary, Goto, Closing
    <3> QED BY <3>1 DEF ManagerAgrees, Unmapped
  <2>5. CASE DropSocket(s)
    <3>1. /\ wpc[s] = "drop" /\ UNCHANGED <<mapped, socks>>
          /\ \A t \in Sessions \ {s} : wpc'[t] = wpc[t] /\ wfd'[t] = wfd[t]
      BY <2>5 DEF DropSocket, Goto
    <3> SUFFICES ASSUME NEW x \in Fds, mapped'[x] # None
                 PROVE  \/ x \in socks'[mapped'[x]]
                        \/ \E t \in Sessions : wfd'[t].fd = x /\ wpc'[t] \in {"unmap", "temp"}
      BY DEF ManagerAgrees
    <3>2. CASE x \in socks[mapped[x]]
      BY <3>1, <3>2
    <3>3. ASSUME NEW t \in Sessions, wfd[t].fd = x, wpc[t] \in {"unmap", "temp"}
          PROVE  wfd'[t].fd = x /\ wpc'[t] \in {"unmap", "temp"}
      BY <3>1, <3>3
    <3> QED BY <3>1, <3>2, <3>3 DEF ManagerAgrees
  <2>6. CASE Submit(s)
    BY <1>1, <2>6 DEF Submit
  <2> QED BY <1>7, <2>1, <2>2, <2>3, <2>4, <2>5, <2>6 DEF Worker
<1>8. CASE UNCHANGED vars
  BY <1>1, <1>8 DEF vars
<1> QED BY <1>1, <1>2, <1>3, <1>6, <1>7, <1>8 DEF Next

\* A number leaves one owner only for the next, or after it was closed.
LEMMA OpenIsOwnedStep ==
    ASSUME Types, NobodyServed, OpenIsOwned, [Next]_vars
    PROVE  OpenIsOwned'
<1> USE DEF Types, Free
<1> USE DEF peerVars, ringVars, listenerVars, managerVars, sessionVars, workerVars
<1> DEFINE Waits(x) == \E i \in DOMAIN lcq : lcq[i] = x
           Served(x) == \E s \in Sessions : x \in socks[s] \/ wfd[s].fd = x
           Owned(x) == Waits(x) \/ lfd = x \/ Served(x)
           OpenStays == \A x \in Fds : fdTable'[x] # None => fdTable[x] # None
<1>0. OpenIsOwned <=> \A x \in Fds : fdTable[x] # None => Owned(x)
  BY DEF OpenIsOwned
<1>00. OpenIsOwned' <=> \A x \in Fds : fdTable'[x] # None => Owned(x)'
  BY DEF OpenIsOwned
<1>1. ASSUME UNCHANGED <<lcq, lfd, socks, wfd>>, OpenStays
      PROVE  OpenIsOwned'
  BY <1>0, <1>00, <1>1
<1>2. ASSUME NEW fd \in Fds PROVE \A x \in Fds : Closed(fd)[x] # None => x # fd /\ fdTable[x] # None
  BY DEF Closed, KernelType
<1> HIDE DEF OpenStays
<1>3. ASSUME NEW c \in Conns, Client(c)
      PROVE  OpenIsOwned'
  <2>1. UNCHANGED <<lcq, lfd, socks, wfd, fdTable>>
    BY <1>3 DEF Client, Connect, Send, Hangup
  <2> QED BY <1>1, <2>1 DEF OpenStays
<1>4. ASSUME NEW c \in Conns, Accept(c)
      PROVE  OpenIsOwned'
  <2>1. PICK fd \in Fds : lcq' = Append(lcq, fd) /\ fdTable' = [fdTable EXCEPT ![fd] = c]
    BY <1>4 DEF Accept
  <2>2. UNCHANGED <<lfd, socks, wfd>> /\ lcq \in Seq(Fds \cup {Failed})
    BY <1>4 DEF Accept, ListenerType
  <2>3. Waits(fd)'
    BY <2>1, <2>2, AppendKeeps
  <2>4. \A x : Waits(x) => Waits(x)'
    BY <2>1, <2>2, AppendKeeps
  <2>5. \A x \in Fds : x # fd => fdTable'[x] = fdTable[x]
    BY <2>1 DEF KernelType
  <2> HIDE DEF Waits
  <2> QED BY <1>0, <1>00, <2>2, <2>3, <2>4, <2>5
<1>5. CASE AcceptFails
  <2>1. lcq' = Append(lcq, Failed) /\ UNCHANGED <<lfd, socks, wfd, fdTable>>
        /\ lcq \in Seq(Fds \cup {Failed})
    BY <1>5 DEF AcceptFails, ListenerType
  <2>2. \A x : Waits(x) => Waits(x)'
    BY <2>1, AppendKeeps
  <2> HIDE DEF Waits
  <2> QED BY <1>0, <1>00, <2>1, <2>2
<1>6. CASE Main
  <2>1. CASE LogFailure \/ TakeSocket
    <3>1. /\ lcq \in Seq(Fds \cup {Failed}) /\ lcq # <<>> /\ lcq' = Tail(lcq)
          /\ UNCHANGED <<socks, wfd, fdTable>> /\ lfd = None
      BY <2>1 DEF LogFailure, TakeSocket, NextCqe, ListenerType
    <3>2. \A x : Waits(x) /\ x # Head(lcq) => Waits(x)'
      BY <3>1, TailKeeps
    <3>3. Head(lcq) = Failed \/ lfd' = Head(lcq)
      BY <2>1 DEF LogFailure, TakeSocket
    <3>4. \A x \in Fds : x # Failed /\ x # None
      BY SizeAssumption, NoneAssumption DEF Fds, Failed
    <3> HIDE DEF Waits
    <3> QED BY <1>0, <1>00, <3>1, <3>2, <3>3, <3>4
  <2>2. CASE ResetSocket
    <3>1. lfd \in Fds /\ fdTable' = Closed(lfd) /\ UNCHANGED <<lcq, socks, wfd>>
      BY <2>2 DEF ResetSocket, ListenerType
    <3> HIDE DEF Waits
    <3>2. \A x : Waits(x)' = Waits(x)
      BY <3>1 DEF Waits
    <3> QED BY <1>0, <1>00, <1>2, <3>1, <3>2
  <2>3. CASE Assign
    <3>1. /\ lfd \in Fds /\ nextIndex \in Sessions /\ UNCHANGED <<lcq, wfd>>
          /\ fdTable' = Closed(lfd) \/ fdTable' = fdTable
          /\ socks' = [socks EXCEPT ![nextIndex] = @ \cup {lfd}]
          /\ socks \in [Sessions -> SUBSET Fds]
      BY <2>3 DEF Assign, ListenerType, SessionType
    <3>2. \A x : Waits(x) => Waits(x)'
      BY <3>1
    <3>3. \A x : Served(x) \/ x = lfd => Served(x)'
      BY <3>1
    <3> HIDE DEF Waits, Served
    <3> QED BY <1>0, <1>00, <1>2, <3>1, <3>2, <3>3
  <2>4. CASE UNCHANGED <<lcq, lfd, socks, wfd, fdTable>>
    BY <1>1, <2>4 DEF OpenStays
  <2> QED BY Zenon, <1>6, <2>1, <2>2, <2>3, <2>4 DEF Main, StartManager, StartThrows,
             StartListener, Stop, Join, Peek, SubmitAndWait, RoundEnds
<1>7. ASSUME NEW s \in Sessions, Worker(s)
      PROVE  OpenIsOwned'
  <2> USE DEF SessionType, WorkerType
  <2>1. UNCHANGED <<lcq, lfd>>
    BY Zenon, <1>7 DEF Worker, WorkerEnds, Take, Unmap, DropTemporary, DropSocket,
                   Submit, Submitted
  <2>2. \A x : Waits(x) \/ lfd = x => Waits(x)' \/ lfd' = x
    BY <2>1
  <2> HIDE DEF Waits
  <2>3. ASSUME \A x \in Fds : fdTable'[x] # None => fdTable[x] # None /\ (Served(x) => Served(x)')
        PROVE  OpenIsOwned'
    <3> HIDE DEF Served
    <3> QED BY <1>0, <1>00, <2>2, <2>3
  <2>4. CASE WorkerEnds(s) \/ Submitted(s)
    <3>1. UNCHANGED <<socks, wfd, fdTable>>
      BY <2>4 DEF WorkerEnds, Submitted
    <3> QED BY <2>3, <3>1
  <2>5. ASSUME NEW fd \in Fds, NEW c \in Conns, Take(s, fd, c)
        PROVE  OpenIsOwned'
    <3>1. UNCHANGED fdTable
      BY <2>5 DEF Take
    <3>2. wfd[s].fd = None
      BY <2>5 DEF Take, Busy, Closing
    <3>3. UNCHANGED <<socks, wfd>> \/ (socks' = Removed(s, fd) /\ wfd'[s].fd = fd)
      BY <2>5 DEF Take
    <3>4. \A t \in Sessions \ {s} : wfd'[t] = wfd[t]
      BY <2>5 DEF Take
    <3>5. \A x \in Fds : x # None
      BY NoneAssumption
    <3>6. ASSUME NEW x \in Fds, Served(x) PROVE Served(x)'
      <4>1. PICK t \in Sessions : x \in socks[t] \/ wfd[t].fd = x
        BY <3>6
      <4>2. CASE x \in socks[t]
        <5>1. x \in socks'[t] \/ wfd'[s].fd = x
          BY <3>3, <4>2 DEF Removed
        <5> QED BY <5>1
      <4>3. CASE wfd[t].fd = x
        BY <3>2, <3>4, <3>5, <4>3
      <4> QED BY <4>1, <4>2, <4>3
    <3> HIDE DEF Served
    <3> QED BY <2>3, <3>1, <3>6
  <2>6. CASE Unmap(s) \/ DropTemporary(s)
    <3>1. wfd[s].fd \in Fds /\ UNCHANGED wfd
      BY <2>6 DEF Unmap, DropTemporary, Closing
    <3>2. \/ UNCHANGED <<fdTable, socks>>
          \/ fdTable' = Closed(wfd[s].fd) /\ UNCHANGED socks
          \/ fdTable' = Closed(wfd[s].fd) /\ \E m \in Sessions : socks' = Removed(m, wfd[s].fd)
      BY <2>6, <3>1 DEF Unmap, DropTemporary
    <3>3. ASSUME NEW x \in Fds, fdTable'[x] # None
          PROVE  fdTable[x] # None /\ (Served(x) => Served(x)')
      <4>1. CASE UNCHANGED socks
        BY <1>2, <3>1, <3>2, <3>3, <4>1
      <4>2. ASSUME NEW m \in Sessions, socks' = Removed(m, wfd[s].fd), fdTable' = Closed(wfd[s].fd)
            PROVE  fdTable[x] # None /\ (Served(x) => Served(x)')
        <5>1. x # wfd[s].fd /\ fdTable[x] # None
          BY <1>2, <3>1, <3>3, <4>2
        <5>2. \A t \in Sessions : x \in socks[t] => x \in socks'[t]
          BY <4>2, <5>1 DEF Removed
        <5> QED BY <3>1, <5>1, <5>2
      <4> QED BY <3>2, <4>1, <4>2
    <3> QED BY <2>3, <3>3
  <2>7. CASE DropSocket(s)
    <3>1. /\ wfd[s].fd \in Fds /\ UNCHANGED socks /\ fdTable' = Closed(wfd[s].fd)
          /\ \A t \in Sessions \ {s} : wfd'[t] = wfd[t]
      BY <2>7 DEF DropSocket, Closing
    <3>2. ASSUME NEW x \in Fds, fdTable'[x] # None
          PROVE  fdTable[x] # None /\ (Served(x) => Served(x)')
      <4>1. x # wfd[s].fd /\ fdTable[x] # None
        BY <1>2, <3>1, <3>2
      <4> QED BY <3>1, <4>1
    <3> QED BY <2>3, <3>2
  <2>8. CASE Submit(s)
    <3>1. UNCHANGED <<socks, wfd>>
      BY <2>8 DEF Submit
    <3>2. Head(sq[s]) \in Entries
      BY <2>8 DEF Submit
    <3>3. fdTable' = fdTable \/ fdTable' = Closed(Head(sq[s]).fd)
      BY <2>8 DEF Submit
    <3>4. \A x \in Fds : fdTable'[x] # None => fdTable[x] # None
      BY <1>2, <3>2, <3>3 DEF Entries
    <3> QED BY <2>3, <3>1, <3>4
  <2> QED BY <1>7, <2>4, <2>5, <2>6, <2>7, <2>8 DEF Worker
<1>8. CASE UNCHANGED vars
  <2>1. UNCHANGED <<lcq, lfd, socks, wfd, fdTable>>
    BY <1>8 DEF vars
  <2> QED BY <1>1, <2>1 DEF OpenStays
<1> QED BY <1>3, <1>4, <1>5, <1>6, <1>7, <1>8 DEF Next

-----------------------------------------------------------------------------
(* The inductive invariant, and what follows from it. *)

IInv ==
    /\ Types
    /\ ManagerAgrees /\ OpenIsOwned
    /\ AcceptsCounted /\ NobodyServed

\* The invariant holds before main starts.
LEMMA InitInv == Init => IInv
<1> SUFFICES ASSUME Init PROVE IInv
  OBVIOUS
<1>1. Types
  BY InitType
<1>2. AcceptsCounted /\ NobodyServed
  BY DEF Init, AcceptsCounted, NobodyServed, Listening
<1>3. ManagerAgrees /\ OpenIsOwned
  BY DEF Init, ManagerAgrees, OpenIsOwned, Free
<1> QED BY <1>1, <1>2, <1>3 DEF IInv

\* Every step keeps the invariant.
LEMMA StepInv == IInv /\ [Next]_vars => IInv'
<1> SUFFICES ASSUME IInv, [Next]_vars PROVE IInv'
  OBVIOUS
<1>1. Types /\ NobodyServed /\ ManagerAgrees /\ OpenIsOwned /\ AcceptsCounted
  BY DEF IInv
<1>2. Types'
  <2>1. CASE UNCHANGED vars
    BY <1>1, <2>1 DEF vars, peerVars, ringVars, listenerVars, managerVars, sessionVars,
         workerVars, Types, KernelType, ListenerType, SessionType, WorkerType
  <2> QED BY <1>1, <2>1, KernelStepType, MainStepType, WorkerStepType DEF Next
<1>3. AcceptsCounted' /\ NobodyServed' /\ ManagerAgrees' /\ OpenIsOwned'
  BY <1>1, AcceptsCountedStep, NobodyServedStep, ManagerAgreesStep, OpenIsOwnedStep
<1> QED BY <1>2, <1>3 DEF IInv

\* Three of the properties are parts of the invariant, or follow from it.
LEMMA InvConsequences == IInv => TypeOK /\ ListenerHears /\ JoinReturns
<1> SUFFICES ASSUME IInv PROVE TypeOK /\ ListenerHears /\ JoinReturns
  OBVIOUS
<1>1. TypeOK
  BY TypeParts DEF IInv
<1>2. ListenerHears
  BY DEF IInv, AcceptsCounted, ListenerHears, Types, ListenerType
<1>3. JoinReturns
  BY DEF IInv, NobodyServed, JoinReturns, Listening
<1> QED BY <1>1, <1>2, <1>3

\* The invariant holds in every state.
LEMMA AlwaysInv == Spec => []IInv
  BY InitInv, StepInv, PTL DEF Spec

\* The variables keep their types: the index at which the next client's
\* session is looked up exists, and so does the number being handled.
THEOREM TypeCorrect == Spec => []TypeOK
  BY AlwaysInv, InvConsequences, PTL

\* Whatever stale numbers are closed and given out again, the manager's map
\* names a session that lists the number, or the removal is under way.
THEOREM ManagerTellsTruth == Spec => []ManagerAgrees
<1>1. IInv => ManagerAgrees
  BY DEF IInv
<1> QED BY <1>1, AlwaysInv, PTL

\* Every open descriptor waits for the listener, is listed by a session or is
\* being closed by one: none leaks.
THEOREM NoDescriptorLeaks == Spec => []OpenIsOwned
<1>1. IInv => OpenIsOwned
  BY DEF IInv
<1> QED BY <1>1, AlwaysInv, PTL

\* The listener is left without an accept only if more of them failed than
\* clients were assigned.
THEOREM ListenerKeepsAccept == Spec => []ListenerHears
  BY AlwaysInv, InvConsequences, PTL

\* When stop joins after a failed start, no worker waits in its ring.
THEOREM StopCanJoin == Spec => []JoinReturns
  BY AlwaysInv, InvConsequences, PTL

=============================================================================

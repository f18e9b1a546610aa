--------------------------- MODULE UringJoin_proofs ---------------------------
(***************************************************************************)
(* Proofs about UringJoin, for any connections, descriptors, sessions and  *)
(* requests: the types, the truth of client_sessions_, that a client is in *)
(* one session, that no descriptor leaks and no client is left unread.     *)
(*                                                                         *)
(* The argument follows Sockets, not numbers.  A Socket has one number for *)
(* life (NumberFixed) and is in one session or in one worker's move        *)
(* (OneClaim).  As long as the connection it was made for is open, it is   *)
(* where the manager says (Home): a move unmaps the number before it adds  *)
(* the Socket elsewhere, and unmapping closes the number for good (Gone).  *)
(* So what a moved client's Socket does later under that number can close  *)
(* the number's next client, never leave it open and out of reach.         *)
(***************************************************************************)
EXTENDS UringJoin, SequenceTheorems, TLAPS

Goals == Sessions \cup {Unknown}

Entries == [op : {"read", "close"}, fd : Fds]

Arrivals == [fd : Fds, c : Conns]

Hands == [fd : Fds \cup {None}, sock : Conns \cup {None},
          goal : Goals \cup {None}, more : BOOLEAN]

Places == {"wait", "batch", "found", "removed", "temp", "add", "rearm", "close"}

Idle == {"wait", "batch"}

\* Where a worker has a client, and what it knows of the target.
Busied ==
    \A s \in Sessions :
        /\ wpc[s] \in Idle => hand[s] = EmptyHand
        /\ wpc[s] \notin Idle => hand[s].fd \in Fds /\ hand[s].sock \in Conns
        /\ wpc[s] \in {"removed", "temp", "add"} => hand[s].goal # s
        /\ wpc[s] = "temp" => hand[s].goal # Unknown
        /\ wpc[s] = "add" => hand[s].goal \in Sessions
        /\ wpc[s] = "rearm" => hand[s].goal # None

Base == TypeOK /\ Busied

-----------------------------------------------------------------------------
(* Sockets and numbers. *)

Queued(fd, c) == \E i \in DOMAIN accepted : accepted[i].fd = fd /\ accepted[i].c = c

Held(s, fd, c) == socks[s][fd] = c \/ (hand[s].fd = fd /\ hand[s].sock = c)

\* A connection, or its Socket, goes by the number.
Uses(fd, c) ==
    fdTable[fd] = c \/ Queued(fd, c) \/ \E s \in Sessions : Held(s, fd, c)

\* A connection has one number, and one that was not accepted has none.
NumberFixed ==
    \A c \in Conns :
        /\ \A fd, g \in Fds : Uses(fd, c) /\ Uses(g, c) => fd = g
        /\ \A fd \in Fds : Uses(fd, c) => c \in joined

\* Each accept is in the queue once; its Socket is not made yet; and the last
\* entry with a number that is open is the one for the connection behind it.
QueueOrder ==
    /\ \A i, j \in DOMAIN accepted : accepted[i].c = accepted[j].c => i = j
    /\ \A g, fd \in Fds, c \in Conns, s \in Sessions :
          Queued(g, c) => ~Held(s, fd, c)
    /\ \A i \in DOMAIN accepted :
          fdTable[accepted[i].fd] # None =>
              \E j \in DOMAIN accepted :
                  /\ i <= j /\ accepted[j].fd = accepted[i].fd
                  /\ accepted[j].c = fdTable[accepted[i].fd]

\* A worker is between removeClient and addClient.
Moves(s, c) == hand[s].sock = c /\ wpc[s] \in {"found", "removed", "temp", "add"}

Claims(s, c) == Moves(s, c) \/ \E fd \in Fds : socks[s][fd] = c

\* A Socket is in one session, or in one worker's move out of its session.
OneClaim ==
    /\ \A c \in Conns, s, t \in Sessions : Claims(s, c) /\ Claims(t, c) => s = t
    /\ \A s \in Sessions : wpc[s] \in {"removed", "temp", "add"} =>
          socks[s][hand[s].fd] # hand[s].sock

\* A connection whose Socket has been moved, or is to be closed by the ring, is
\* not open.
Parted(s) ==
    \/ wpc[s] \in {"add", "close"}
    \/ wpc[s] = "rearm" /\ hand[s].goal \notin {s, Unknown}

Gone == \A s \in Sessions, fd \in Fds : Parted(s) => fdTable[fd] # hand[s].sock

\* Where the Socket of an open connection is.
AtHome(fd, c) ==
    /\ mapped[fd] # None
    /\ Held(mapped[fd], fd, c)
    /\ \A u \in Sessions \ {mapped[fd]} : ~Held(u, fd, c)

Home ==
    \A fd \in Fds, c \in Conns :
        fdTable[fd] = c => Queued(fd, c) \/ AtHome(fd, c)

-----------------------------------------------------------------------------
(* Receives and the manager's map. *)

Prepared(s, fd) == \E i \in DOMAIN sq[s] : sq[s][i] = Op("read", fd)

Reads(s, fd, c) ==
    \/ hand[s].sock = c /\ ~hand[s].more
    \/ armed[s][<<fd, c>>] > 0
    \/ Prepared(s, fd)

\* The session of an open connection reads it, or its worker will see to it.
Read ==
    \A fd \in Fds, c \in Conns :
        fdTable[fd] = c => Queued(fd, c) \/ (mapped[fd] # None /\ Reads(mapped[fd], fd, c))

Inv ==
    /\ Base
    /\ NumberFixed /\ QueueOrder /\ OneClaim
    /\ Gone /\ Home /\ Read /\ ManagerAgrees

-----------------------------------------------------------------------------
(* What the helpers do, point by point. *)

\* Letting go of a Socket closes its number or leaves the Socket an owner.
LEMMA ReleasedOrOwned ==
    ASSUME TypeOK, NEW fd \in Fds, NEW d, NEW maps, NEW hands,
           fdTable' = Released(fd, d, maps, hands)
    PROVE  /\ fdTable' \in [Fds -> Conns \cup {None}]
           /\ \A g \in Fds : fdTable'[g] = fdTable[g] \/ (g = fd /\ fdTable'[g] = None)
           /\ \/ fdTable'[fd] = None
              \/ d = None
              \/ \E t \in Sessions : maps[t][fd] = d \/ hands[t].sock = d
  <1>1. CASE fdTable' = fdTable
           /\ (d = None \/ \E t \in Sessions : maps[t][fd] = d \/ hands[t].sock = d)
    BY <1>1 DEF TypeOK
  <1>2. CASE fdTable' = Closed(fd)
    BY <1>2 DEF TypeOK, Closed
  <1> QED
    BY <1>1, <1>2 DEF Released

\* Closing a number.
LEMMA ClosedNumber ==
    ASSUME TypeOK, NEW fd \in Fds, fdTable' = Closed(fd)
    PROVE  /\ fdTable' \in [Fds -> Conns \cup {None}]
           /\ fdTable'[fd] = None
           /\ \A g \in Fds : g # fd => fdTable'[g] = fdTable[g]
  BY DEF TypeOK, Closed

\* Erasing an entry of client_sessions_.
LEMMA UnmappedNumber ==
    ASSUME TypeOK, NEW fd \in Fds, mapped' = Unmapped(fd)
    PROVE  /\ mapped' \in [Fds -> Sessions \cup {None}]
           /\ mapped'[fd] = None
           /\ \A g \in Fds : g # fd => mapped'[g] = mapped[g]
  BY DEF TypeOK, Unmapped

\* A worker goes to a place.
LEMMA Arrived ==
    ASSUME TypeOK, NEW s \in Sessions, NEW label \in Places, Goto(s, label)
    PROVE  /\ wpc' \in [Sessions -> Places]
           /\ wpc'[s] = label
           /\ \A t \in Sessions : t # s => wpc'[t] = wpc[t]
  BY DEF TypeOK, Goto, Places

\* Preparing an entry: the queue keeps what it has.
LEMMA PrepareKeeps ==
    ASSUME TypeOK, NEW s \in Sessions, NEW op \in {"read", "close"}, NEW fd \in Fds,
           sq' = Prepare(s, Op(op, fd))
    PROVE  /\ sq' \in [Sessions -> Seq(Entries)]
           /\ op = "read" => Prepared(s, fd)'
           /\ \A t \in Sessions, g \in Fds : Prepared(t, g) => Prepared(t, g)'
  <1> DEFINE e == Op(op, fd)
  <1>1. e \in Entries
    BY DEF Op, Entries
  <1>2. sq \in [Sessions -> Seq(Entries)] /\ sq[s] \in Seq(Entries)
    BY DEF TypeOK, Entries
  <1>3. sq' = [sq EXCEPT ![s] = Append(sq[s], e)]
    BY DEF Prepare
  <1> HIDE DEF e
  <1>4. /\ Append(sq[s], e) \in Seq(Entries)
        /\ DOMAIN sq[s] = 1..Len(sq[s])
        /\ DOMAIN Append(sq[s], e) = 1..(Len(sq[s]) + 1)
        /\ Append(sq[s], e)[Len(sq[s]) + 1] = e
        /\ \A i \in 1..Len(sq[s]) : Append(sq[s], e)[i] = sq[s][i]
        /\ Len(sq[s]) \in Nat
    BY <1>1, <1>2, AppendProperties, LenProperties
  <1>5. sq'[s] = Append(sq[s], e) /\ \A t \in Sessions : t # s => sq'[t] = sq[t]
    BY <1>2, <1>3
  <1>6. sq' \in [Sessions -> Seq(Entries)]
    BY <1>2, <1>3, <1>4
  <1>7. \A i \in 1..Len(sq[s]) : i \in 1..(Len(sq[s]) + 1)
    BY <1>4
  <1>8. Len(sq[s]) + 1 \in 1..(Len(sq[s]) + 1)
    BY <1>4
  <1>9. ASSUME NEW t \in Sessions, NEW g \in Fds, Prepared(t, g) PROVE Prepared(t, g)'
    <2>1. PICK i \in DOMAIN sq[t] : sq[t][i] = Op("read", g)
      BY <1>9 DEF Prepared
    <2>2. i \in DOMAIN sq'[t] /\ sq'[t][i] = Op("read", g)
      <3>1. CASE t = s
        BY <1>4, <1>5, <1>7, <2>1, <3>1
      <3>2. CASE t # s
        BY <1>5, <2>1, <3>2
      <3> QED
        BY <3>1, <3>2
    <2> QED
      BY <2>2 DEF Prepared, Op
  <1>10. ASSUME op = "read" PROVE Prepared(s, fd)'
    <2>1. sq'[s][Len(sq[s]) + 1] = Op("read", fd) /\ Len(sq[s]) + 1 \in DOMAIN sq'[s]
      BY <1>4, <1>5, <1>8, <1>10 DEF e
    <2> QED
      BY <2>1 DEF Prepared, Op
  <1> QED
    BY <1>6, <1>9, <1>10

\* Submitting takes the first entry.
LEMMA SubmitTakes ==
    ASSUME TypeOK, NEW s \in Sessions, sq[s] # <<>>,
           sq' = [sq EXCEPT ![s] = Tail(@)]
    PROVE  /\ sq' \in [Sessions -> Seq(Entries)]
           /\ Head(sq[s]) \in Entries
           /\ \A t \in Sessions, g \in Fds :
                 Prepared(t, g) => Prepared(t, g)' \/ (t = s /\ Head(sq[s]) = Op("read", g))
  <1>1. sq \in [Sessions -> Seq(Entries)] /\ sq[s] \in Seq(Entries)
    BY DEF TypeOK, Entries
  <1>2. /\ Head(sq[s]) \in Entries /\ Head(sq[s]) = sq[s][1] /\ Tail(sq[s]) \in Seq(Entries)
        /\ DOMAIN sq[s] = 1..Len(sq[s]) /\ Len(sq[s]) \in Nat /\ Len(sq[s]) > 0
        /\ DOMAIN Tail(sq[s]) = 1..(Len(sq[s]) - 1)
        /\ \A i \in 1..(Len(sq[s]) - 1) : Tail(sq[s])[i] = sq[s][i + 1]
    BY <1>1, HeadTailProperties, EmptySeq, LenProperties
  <1>3. sq'[s] = Tail(sq[s]) /\ \A t \in Sessions : t # s => sq'[t] = sq[t]
    BY <1>1
  <1>4. sq' \in [Sessions -> Seq(Entries)]
    BY <1>1, <1>2
  <1>5. ASSUME NEW t \in Sessions, NEW g \in Fds, Prepared(t, g),
               ~(t = s /\ Head(sq[s]) = Op("read", g))
        PROVE  Prepared(t, g)'
    <2>1. PICK i \in DOMAIN sq[t] : sq[t][i] = Op("read", g)
      BY <1>5 DEF Prepared
    <2>2. CASE t # s
      BY <1>3, <2>1, <2>2 DEF Prepared, Op
    <2>3. CASE t = s
      <3>1. i \in 1..Len(sq[s]) /\ i # 1
        BY <1>2, <1>5, <2>1, <2>3
      <3>2. i - 1 \in 1..(Len(sq[s]) - 1) /\ (i - 1) + 1 = i
        BY <1>2, <3>1
      <3>3. i - 1 \in DOMAIN sq'[t] /\ sq'[t][i - 1] = Op("read", g)
        BY <1>2, <1>3, <2>1, <2>3, <3>2
      <3> QED
        BY <3>3 DEF Prepared, Op
    <2> QED
      BY <2>2, <2>3
  <1> QED
    BY <1>2, <1>4, <1>5

-----------------------------------------------------------------------------
(* What each action does, point by point. *)

Others(s) == \A t \in Sessions : t # s => hand'[t] = hand[t] /\ wpc'[t] = wpc[t]

\* A Socket under the number fd is in a map or in a hand after the step.
Owned(fd, d) == \E t \in Sessions : socks'[t][fd] = d \/ hand'[t].sock = d

\* A receive's completion: the Socket that the map has is in the hand, or the
\* number is passed over.
LEMMA TakeDoes ==
    ASSUME Base, NEW s \in Sessions, NEW fd \in Fds, NEW c \in Conns, Take(s, fd, c)
    PROVE  /\ UNCHANGED <<fdTable, joined, accepted, socks, mapped, sq, left,
                          hungup, refused>>
           /\ wpc[s] \in Idle /\ Others(s)
           /\ asked' \in [Conns -> Seq(Goals)]
           /\ armed' \in [Sessions -> [Fds \X Conns -> Nat]]
           /\ hand' \in [Sessions -> Hands] /\ wpc' \in [Sessions -> Places]
           /\ \A t \in Sessions, g \in Fds, k \in Conns :
                 t # s \/ g # fd \/ k # c => armed'[t][<<g, k>>] = armed[t][<<g, k>>]
           /\ \/ /\ socks[s][fd] = None /\ hand' = hand /\ wpc'[s] = "batch"
              \/ /\ socks[s][fd] # None /\ wpc'[s] = "found"
                 /\ hand'[s].fd = fd /\ hand'[s].sock = socks[s][fd]
                 /\ hand'[s].more => armed' = armed
  <1> DEFINE goal == IF asked[c] # <<>> THEN Head(asked[c]) ELSE None
             h(more) == [fd |-> fd, sock |-> socks[s][fd], more |-> more, goal |-> goal]
             p == <<fd, c>>
  <1>0. TypeOK
    BY DEF Base
  <1>1. PICK more \in BOOLEAN :
          /\ IF asked[c] # <<>>
             THEN asked' = [asked EXCEPT ![c] = Tail(asked[c])]
             ELSE c \in hungup /\ ~more /\ UNCHANGED asked
          /\ armed' = [armed EXCEPT ![s][p] = IF more THEN armed[s][p] ELSE armed[s][p] - 1]
          /\ IF fd \in Listed(s)
             THEN hand' = [hand EXCEPT ![s] = h(more)] /\ Goto(s, "found")
             ELSE Goto(s, "batch") /\ UNCHANGED hand
    BY DEF Take
  <1>2. UNCHANGED <<fdTable, joined, accepted, socks, mapped, sq, left, hungup, refused>>
    BY DEF Take
  <1>3. wpc[s] \in Idle
    BY DEF Take, Busy, At, Idle
  <1>4. asked[c] \in Seq(Goals) /\ (asked[c] # <<>> => Head(asked[c]) \in Goals /\ Tail(asked[c]) \in Seq(Goals))
    BY <1>0, HeadTailProperties DEF TypeOK, Goals
  <1>5. asked' \in [Conns -> Seq(Goals)]
    BY <1>0, <1>1, <1>4 DEF TypeOK, Goals
  <1>6. p \in Fds \X Conns /\ armed[s][p] \in Nat /\ armed[s][p] > 0
    BY <1>0 DEF TypeOK, Take
  <1>7. /\ armed' \in [Sessions -> [Fds \X Conns -> Nat]]
        /\ more => armed' = armed
    <2>1. (IF more THEN armed[s][p] ELSE armed[s][p] - 1) \in Nat
      BY <1>6
    <2> HIDE DEF p
    <2> QED
      BY <1>0, <1>1, <1>6, <2>1 DEF TypeOK
  <1>8. \A t \in Sessions, q \in Fds \X Conns :
           t # s \/ q # p => armed'[t][q] = armed[t][q]
    <2> HIDE DEF p
    <2> QED
      BY <1>0, <1>1, <1>6 DEF TypeOK
  <1>9. \A t \in Sessions, g \in Fds, k \in Conns :
           t # s \/ g # fd \/ k # c => armed'[t][<<g, k>>] = armed[t][<<g, k>>]
    BY <1>8
  <1>10. CASE fd \in Listed(s)
    <2>1. socks[s][fd] \in Conns /\ socks[s][fd] # None
      BY <1>0, <1>10 DEF TypeOK, Listed
    <2>2. h(more) \in Hands
      BY <1>4, <2>1 DEF Hands
    <2>3. hand' = [hand EXCEPT ![s] = h(more)] /\ Goto(s, "found")
      BY <1>1, <1>10
    <2>4. hand' \in [Sessions -> Hands] /\ hand'[s] = h(more)
          /\ \A t \in Sessions : t # s => hand'[t] = hand[t]
      BY <1>0, <2>2, <2>3 DEF TypeOK, Hands, Goals
    <2>5. /\ wpc' \in [Sessions -> Places] /\ wpc'[s] = "found"
          /\ \A t \in Sessions : t # s => wpc'[t] = wpc[t]
      BY <2>3, Arrived DEF Base, Places
    <2>6. hand'[s].fd = fd /\ hand'[s].sock = socks[s][fd] /\ hand'[s].more = more
      BY <2>4
    <2> QED
      BY <1>2, <1>3, <1>5, <1>7, <1>9, <2>1, <2>4, <2>5, <2>6 DEF Others
  <1>11. CASE fd \notin Listed(s)
    <2>1. socks[s][fd] = None
      BY <1>11 DEF Listed
    <2>2. hand' = hand /\ Goto(s, "batch")
      BY <1>1, <1>11
    <2>3. /\ wpc' \in [Sessions -> Places] /\ wpc'[s] = "batch"
          /\ \A t \in Sessions : t # s => wpc'[t] = wpc[t]
      BY <2>2, Arrived DEF Base, Places
    <2>4. hand' \in [Sessions -> Hands]
      BY <2>2 DEF Base, TypeOK, Hands, Goals
    <2> QED
      BY <1>2, <1>3, <1>5, <1>7, <1>9, <2>1, <2>2, <2>3, <2>4 DEF Others
  <1> QED
    BY <1>10, <1>11

\* removeClient.
LEMMA RemoveDoes ==
    ASSUME Base, NEW s \in Sessions, Remove(s)
    PROVE  /\ UNCHANGED <<joined, accepted, mapped, ringVars, clientVars, hand, refused>>
           /\ wpc[s] = "found" /\ wpc'[s] = "removed" /\ Others(s)
           /\ hand[s].fd \in Fds /\ hand[s].sock \in Conns /\ hand[s].goal # s
           /\ socks' \in [Sessions -> [Fds -> Conns \cup {None}]]
           /\ fdTable' \in [Fds -> Conns \cup {None}]
           /\ wpc' \in [Sessions -> Places]
           /\ socks'[s][hand[s].fd] = None
           /\ \A t \in Sessions, g \in Fds :
                 t # s \/ g # hand[s].fd => socks'[t][g] = socks[t][g]
           /\ \A g \in Fds : \/ fdTable'[g] = fdTable[g]
                             \/ g = hand[s].fd /\ fdTable'[g] = None
           /\ \/ fdTable'[hand[s].fd] = None
              \/ socks[s][hand[s].fd] = None
              \/ Owned(hand[s].fd, socks[s][hand[s].fd])
  <1>1. /\ UNCHANGED <<joined, accepted, mapped, ringVars, clientVars, hand, refused>>
        /\ wpc[s] = "found" /\ hand[s].goal # s /\ Goto(s, "removed")
    BY DEF Remove, At
  <1>2. hand[s].fd \in Fds /\ hand[s].sock \in Conns
    BY <1>1 DEF Base, Busied, Idle
  <1>3. PICK fd \in Fds : fd = hand[s].fd
    BY <1>2
  <1>4. PICK d \in Conns \cup {None} : d = socks[s][fd]
    BY DEF Base, TypeOK
  <1>5. PICK maps, hands :
          /\ maps = socks' /\ hands = hand /\ None \in Conns \cup {None}
          /\ maps = [socks EXCEPT ![s][fd] = None] /\ fdTable' = Released(fd, d, maps, hands)
    BY <1>3, <1>4 DEF Remove, Removed
  <1>6. /\ wpc' \in [Sessions -> Places] /\ wpc'[s] = "removed"
        /\ \A t \in Sessions : t # s => wpc'[t] = wpc[t]
    BY <1>1, Arrived DEF Base, Places
  <1>a. TypeOK
    BY DEF Base
  <1>e. maps = [socks EXCEPT ![s][fd] = None]
    BY <1>5
  <1>b. fdTable' = Released(fd, d, maps, hands)
    BY <1>5
  <1>c. /\ maps \in [Sessions -> [Fds -> Conns \cup {None}]]
        /\ maps[s][fd] = None
        /\ \A t \in Sessions, g \in Fds : t # s \/ g # fd => maps[t][g] = socks[t][g]
    BY <1>a, <1>e DEF TypeOK
  <1>7. /\ socks' \in [Sessions -> [Fds -> Conns \cup {None}]]
        /\ socks'[s][fd] = None
        /\ \A t \in Sessions, g \in Fds : t # s \/ g # fd => socks'[t][g] = socks[t][g]
    BY <1>5, <1>c
  <1>8. /\ fdTable' \in [Fds -> Conns \cup {None}]
        /\ \A g \in Fds : fdTable'[g] = fdTable[g] \/ (g = fd /\ fdTable'[g] = None)
        /\ \/ fdTable'[fd] = None
           \/ d = None
           \/ \E t \in Sessions : maps[t][fd] = d \/ hands[t].sock = d
    BY <1>a, <1>b, ReleasedOrOwned
  <1>9. fdTable'[fd] = None \/ d = None \/ Owned(fd, d)
    BY <1>1, <1>5, <1>8 DEF Owned
  <1> QED
    BY <1>1, <1>2, <1>3, <1>4, <1>6, <1>7, <1>8, <1>9 DEF Others

\* removeSession: the number is closed and unmapped, or another Socket is
\* dropped first, or the number is in no map.
LEMMA UnmapDoes ==
    ASSUME Base, NEW s \in Sessions, Unmap(s)
    PROVE  /\ UNCHANGED <<joined, accepted, ringVars, clientVars, hand, refused>>
           /\ wpc[s] = "removed" /\ Others(s)
           /\ hand[s].fd \in Fds /\ hand[s].sock \in Conns
           /\ hand[s].goal \notin {s, Unknown}
           /\ wpc' \in [Sessions -> Places]
           /\ \/ /\ mapped[hand[s].fd] = None
                 /\ wpc'[s] = AfterUnmap(s)
                 /\ UNCHANGED <<fdTable, mapped, socks>>
              \/ /\ mapped[hand[s].fd] # None
                 /\ wpc'[s] = AfterUnmap(s)
                 /\ fdTable' \in [Fds -> Conns \cup {None}]
                 /\ fdTable'[hand[s].fd] = None
                 /\ \A g \in Fds : g # hand[s].fd => fdTable'[g] = fdTable[g]
                 /\ mapped' \in [Fds -> Sessions \cup {None}]
                 /\ mapped'[hand[s].fd] = None
                 /\ \A g \in Fds : g # hand[s].fd => mapped'[g] = mapped[g]
                 /\ UNCHANGED socks
              \/ \E m \in Sessions :
                 /\ mapped[hand[s].fd] = m
                 /\ wpc'[s] = "temp"
                 /\ socks' \in [Sessions -> [Fds -> Conns \cup {None}]]
                 /\ fdTable' \in [Fds -> Conns \cup {None}]
                 /\ socks'[m][hand[s].fd] = None
                 /\ \A t \in Sessions, g \in Fds :
                       t # m \/ g # hand[s].fd => socks'[t][g] = socks[t][g]
                 /\ \A g \in Fds : \/ fdTable'[g] = fdTable[g]
                                   \/ g = hand[s].fd /\ fdTable'[g] = None
                 /\ \/ fdTable'[hand[s].fd] = None
                    \/ Owned(hand[s].fd, socks[m][hand[s].fd])
                 /\ UNCHANGED mapped
  <1>1. /\ UNCHANGED <<joined, accepted, ringVars, clientVars, hand, refused>>
        /\ wpc[s] = "removed" /\ hand[s].goal # Unknown
    BY DEF Unmap, At
  <1>2. hand[s].fd \in Fds /\ hand[s].sock \in Conns /\ hand[s].goal \notin {s, Unknown}
    BY <1>1 DEF Base, Busied, Idle
  <1>3. PICK fd \in Fds : fd = hand[s].fd
    BY <1>2
  <1>4. AfterUnmap(s) \in Places
    BY DEF AfterUnmap, Places
  <1>5. ASSUME Goto(s, AfterUnmap(s))
        PROVE  /\ wpc' \in [Sessions -> Places] /\ wpc'[s] = AfterUnmap(s) /\ Others(s)
    BY <1>1, <1>4, <1>5, Arrived DEF Base, Others
  <1>6. CASE mapped[fd] = None
    <2>1. Goto(s, AfterUnmap(s)) /\ UNCHANGED <<fdTable, mapped, socks>>
      BY <1>3, <1>6 DEF Unmap
    <2> QED
      BY <1>1, <1>2, <1>3, <1>5, <1>6, <2>1
  <1>7. CASE mapped[fd] # None /\ socks[mapped[fd]][fd] = None
    <2>1. /\ Goto(s, AfterUnmap(s)) /\ UNCHANGED socks
          /\ fdTable' = Closed(fd) /\ mapped' = Unmapped(fd)
      BY <1>3, <1>7 DEF Unmap
    <2>2. /\ fdTable' \in [Fds -> Conns \cup {None}]
          /\ fdTable'[fd] = None
          /\ \A g \in Fds : g # fd => fdTable'[g] = fdTable[g]
      BY <2>1, ClosedNumber DEF Base
    <2>3. /\ mapped' \in [Fds -> Sessions \cup {None}]
          /\ mapped'[fd] = None
          /\ \A g \in Fds : g # fd => mapped'[g] = mapped[g]
      BY <2>1, UnmappedNumber DEF Base
    <2> QED
      BY <1>1, <1>2, <1>3, <1>5, <1>7, <2>1, <2>2, <2>3
  <1>8. CASE mapped[fd] # None /\ socks[mapped[fd]][fd] # None
    <2>1. PICK m \in Sessions : mapped[fd] = m
      BY <1>8 DEF Base, TypeOK
    <2>2. PICK d \in Conns \cup {None} : d = socks[m][fd]
      BY DEF Base, TypeOK
    <2>3. PICK maps, hands :
            /\ Goto(s, "temp") /\ UNCHANGED mapped
            /\ maps = socks' /\ hands = hand /\ None \in Conns \cup {None}
            /\ maps = [socks EXCEPT ![m][fd] = None]
            /\ fdTable' = Released(fd, d, maps, hands)
      BY <1>3, <1>8, <2>1, <2>2 DEF Unmap, Removed
    <2>4. /\ wpc' \in [Sessions -> Places] /\ wpc'[s] = "temp" /\ Others(s)
      BY <1>1, <2>3, Arrived DEF Base, Others, Places
    <2>a. TypeOK
      BY DEF Base
    <2>e. maps = [socks EXCEPT ![m][fd] = None]
      BY <2>3
    <2>b. fdTable' = Released(fd, d, maps, hands)
      BY <2>3
    <2>c. /\ maps \in [Sessions -> [Fds -> Conns \cup {None}]]
          /\ maps[m][fd] = None
          /\ \A t \in Sessions, g \in Fds : t # m \/ g # fd => maps[t][g] = socks[t][g]
      BY <2>a, <2>e DEF TypeOK
    <2>5. /\ socks' \in [Sessions -> [Fds -> Conns \cup {None}]]
          /\ socks'[m][fd] = None
          /\ \A t \in Sessions, g \in Fds : t # m \/ g # fd => socks'[t][g] = socks[t][g]
      BY <2>3, <2>c
    <2>6. /\ fdTable' \in [Fds -> Conns \cup {None}]
          /\ \A g \in Fds : fdTable'[g] = fdTable[g] \/ (g = fd /\ fdTable'[g] = None)
          /\ \/ fdTable'[fd] = None
             \/ d = None
             \/ \E t \in Sessions : maps[t][fd] = d \/ hands[t].sock = d
      BY <2>a, <2>b, ReleasedOrOwned
    <2>7. fdTable'[fd] = None \/ Owned(fd, d)
      BY <1>1, <1>8, <2>1, <2>2, <2>3, <2>6 DEF Owned
    <2>8. /\ mapped[hand[s].fd] = m /\ UNCHANGED mapped /\ wpc'[s] = "temp"
          /\ socks' \in [Sessions -> [Fds -> Conns \cup {None}]]
          /\ fdTable' \in [Fds -> Conns \cup {None}]
      BY <1>3, <2>1, <2>3, <2>4, <2>5, <2>6
    <2>9. /\ socks'[m][hand[s].fd] = None
          /\ \A t \in Sessions, g \in Fds :
                t # m \/ g # hand[s].fd => socks'[t][g] = socks[t][g]
      BY <1>3, <2>5
    <2>10. \A g \in Fds : \/ fdTable'[g] = fdTable[g]
                          \/ g = hand[s].fd /\ fdTable'[g] = None
      BY <1>3, <2>6
    <2>11. \/ fdTable'[hand[s].fd] = None
           \/ Owned(hand[s].fd, socks[m][hand[s].fd])
      <3>1. CASE fdTable'[fd] = None
        BY <1>3, <3>1
      <3>2. CASE Owned(fd, d)
        BY <1>3, <2>2, <3>2
      <3> QED
        BY <2>7, <3>1, <3>2
    <2> QED
      BY <1>1, <1>2, <2>4, <2>8, <2>9, <2>10, <2>11
  <1> QED
    BY <1>6, <1>7, <1>8

\* The temporary Socket's close, and the end of removeSession.
LEMMA TempDoes ==
    ASSUME Base, NEW s \in Sessions, DropTemporary(s)
    PROVE  /\ UNCHANGED <<joined, accepted, socks, ringVars, clientVars, hand, refused>>
           /\ wpc[s] = "temp" /\ wpc'[s] = AfterUnmap(s) /\ Others(s)
           /\ hand[s].fd \in Fds /\ hand[s].sock \in Conns
           /\ hand[s].goal \notin {s, Unknown}
           /\ wpc' \in [Sessions -> Places]
           /\ fdTable' \in [Fds -> Conns \cup {None}]
           /\ fdTable'[hand[s].fd] = None
           /\ \A g \in Fds : g # hand[s].fd => fdTable'[g] = fdTable[g]
           /\ mapped' \in [Fds -> Sessions \cup {None}]
           /\ mapped'[hand[s].fd] = None
           /\ \A g \in Fds : g # hand[s].fd => mapped'[g] = mapped[g]
  <1>1. /\ UNCHANGED <<joined, accepted, socks, ringVars, clientVars, hand, refused>>
        /\ wpc[s] = "temp" /\ Goto(s, AfterUnmap(s))
        /\ fdTable' = Closed(hand[s].fd) /\ mapped' = Unmapped(hand[s].fd)
    BY DEF DropTemporary, At
  <1>2. hand[s].fd \in Fds /\ hand[s].sock \in Conns /\ hand[s].goal \notin {s, Unknown}
    BY <1>1 DEF Base, Busied, Idle
  <1>3. AfterUnmap(s) \in Places
    BY DEF AfterUnmap, Places
  <1>4. /\ wpc' \in [Sessions -> Places] /\ wpc'[s] = AfterUnmap(s)
        /\ \A t \in Sessions : t # s => wpc'[t] = wpc[t]
    BY <1>1, <1>3, Arrived DEF Base
  <1>5. /\ fdTable' \in [Fds -> Conns \cup {None}]
        /\ fdTable'[hand[s].fd] = None
        /\ \A g \in Fds : g # hand[s].fd => fdTable'[g] = fdTable[g]
    BY <1>1, <1>2, ClosedNumber DEF Base
  <1>6. /\ mapped' \in [Fds -> Sessions \cup {None}]
        /\ mapped'[hand[s].fd] = None
        /\ \A g \in Fds : g # hand[s].fd => mapped'[g] = mapped[g]
    BY <1>1, <1>2, UnmappedNumber DEF Base
  <1> QED
    BY <1>1, <1>2, <1>4, <1>5, <1>6 DEF Others

\* addClient on the target: the Socket goes under the number, in the place of
\* what was there.
LEMMA AddDoes ==
    ASSUME Base, NEW s \in Sessions, NEW fd \in Fds, hand[s].fd = fd, JoinAdd(s)
    PROVE  /\ UNCHANGED <<joined, accepted, mapped, armed, clientVars, hand, refused>>
           /\ wpc[s] = "add" /\ wpc'[s] = "rearm" /\ Others(s)
           /\ hand[s].sock \in Conns /\ hand[s].goal \in Sessions \ {s}
           /\ socks' \in [Sessions -> [Fds -> Conns \cup {None}]]
           /\ fdTable' \in [Fds -> Conns \cup {None}]
           /\ wpc' \in [Sessions -> Places]
           /\ sq' \in [Sessions -> Seq(Entries)]
           /\ socks'[hand[s].goal][fd] = hand[s].sock
           /\ \A t \in Sessions, g \in Fds :
                 t # hand[s].goal \/ g # fd => socks'[t][g] = socks[t][g]
           /\ \A g \in Fds : fdTable'[g] = fdTable[g] \/ (g = fd /\ fdTable'[g] = None)
           /\ \/ fdTable'[fd] = None
              \/ socks[hand[s].goal][fd] = None
              \/ Owned(fd, socks[hand[s].goal][fd])
           /\ \A t \in Sessions, g \in Fds : Prepared(t, g) => Prepared(t, g)'
  <1>1. /\ UNCHANGED <<joined, accepted, mapped, armed, clientVars, hand, refused>>
        /\ wpc[s] = "add" /\ Goto(s, "rearm")
    BY DEF JoinAdd, At
  <1>2. hand[s].sock \in Conns /\ hand[s].goal \in Sessions \ {s}
    BY <1>1 DEF Base, Busied, Idle
  <1>3. PICK t \in Sessions, c \in Conns : t = hand[s].goal /\ c = hand[s].sock
    BY <1>2
  <1>4. PICK d \in Conns \cup {None} : d = socks[t][fd]
    BY DEF Base, TypeOK
  <1>5. PICK maps, hands :
          /\ maps = socks' /\ hands = hand
          /\ maps = [socks EXCEPT ![t][fd] = c] /\ fdTable' = Released(fd, d, maps, hands)
          /\ sq' = Prepare(t, Op("read", fd))
    BY <1>3, <1>4 DEF JoinAdd
  <1>6. TypeOK
    BY DEF Base
  <1>7. /\ wpc' \in [Sessions -> Places] /\ wpc'[s] = "rearm" /\ Others(s)
    BY <1>1, <1>6, Arrived DEF Others, Places
  <1>8. maps = [socks EXCEPT ![t][fd] = c]
    BY <1>5
  <1>9. fdTable' = Released(fd, d, maps, hands)
    BY <1>5
  <1>10. /\ maps \in [Sessions -> [Fds -> Conns \cup {None}]]
         /\ maps[t][fd] = c
         /\ \A u \in Sessions, g \in Fds : u # t \/ g # fd => maps[u][g] = socks[u][g]
    BY <1>6, <1>8 DEF TypeOK
  <1>11. /\ fdTable' \in [Fds -> Conns \cup {None}]
         /\ \A g \in Fds : fdTable'[g] = fdTable[g] \/ (g = fd /\ fdTable'[g] = None)
         /\ \/ fdTable'[fd] = None
            \/ d = None
            \/ \E u \in Sessions : maps[u][fd] = d \/ hands[u].sock = d
    BY <1>6, <1>9, ReleasedOrOwned
  <1>12. fdTable'[fd] = None \/ d = None \/ Owned(fd, d)
    BY <1>1, <1>5, <1>11 DEF Owned
  <1>13. sq' = Prepare(t, Op("read", fd)) /\ "read" \in {"read", "close"}
    BY <1>5
  <1>14. /\ sq' \in [Sessions -> Seq(Entries)]
         /\ \A u \in Sessions, g \in Fds : Prepared(u, g) => Prepared(u, g)'
    BY <1>6, <1>13, PrepareKeeps
  <1>15. /\ socks' \in [Sessions -> [Fds -> Conns \cup {None}]]
         /\ socks'[hand[s].goal][fd] = hand[s].sock
         /\ \A u \in Sessions, g \in Fds :
               u # hand[s].goal \/ g # fd => socks'[u][g] = socks[u][g]
    BY <1>3, <1>5, <1>10
  <1>16. \/ fdTable'[fd] = None
         \/ socks[hand[s].goal][fd] = None
         \/ Owned(fd, socks[hand[s].goal][fd])
    <2>1. CASE fdTable'[fd] = None \/ d = None
      BY <1>3, <1>4, <2>1
    <2>2. CASE Owned(fd, d)
      BY <1>3, <1>4, <2>2
    <2> QED
      BY <1>12, <2>1, <2>2
  <1> QED
    BY <1>1, <1>2, <1>7, <1>11, <1>14, <1>15, <1>16

\* The end of handleRead, after a new read or a close was prepared.
LEMMA LetGoDoes ==
    ASSUME Base, NEW s \in Sessions, NEW fd \in Fds, hand[s].fd = fd,
           Rearm(s) \/ Close(s)
    PROVE  /\ UNCHANGED <<joined, accepted, socks, mapped, armed, clientVars, refused>>
           /\ wpc'[s] = "batch" /\ Others(s)
           /\ wpc[s] = "close" \/ (wpc[s] = "rearm" /\ (~hand[s].more => Prepared(s, fd)'))
           /\ hand[s].sock \in Conns /\ hand'[s] = EmptyHand
           /\ hand' \in [Sessions -> Hands]
           /\ fdTable' \in [Fds -> Conns \cup {None}]
           /\ wpc' \in [Sessions -> Places]
           /\ sq' \in [Sessions -> Seq(Entries)]
           /\ \A g \in Fds : fdTable'[g] = fdTable[g] \/ (g = fd /\ fdTable'[g] = None)
           /\ fdTable'[fd] = None \/ Owned(fd, hand[s].sock)
           /\ \A t \in Sessions, g \in Fds : Prepared(t, g) => Prepared(t, g)'
  <1>0. LetGo(s) /\ wpc[s] \in {"rearm", "close"}
    BY DEF Rearm, Close, At
  <1>1. /\ UNCHANGED <<joined, accepted, socks, mapped, armed, clientVars, refused>>
        /\ Goto(s, "batch")
    BY <1>0 DEF LetGo
  <1>2. hand[s].sock \in Conns
    BY <1>0 DEF Base, Busied, Idle
  <1>3. TypeOK
    BY DEF Base
  <1>4. PICK c \in Conns : c = hand[s].sock
    BY <1>2
  <1>5. PICK maps, hands :
          /\ maps = socks /\ hands = hand'
          /\ hands = [hand EXCEPT ![s] = EmptyHand] /\ fdTable' = Released(fd, c, maps, hands)
    BY <1>0, <1>4 DEF LetGo
  <1>6. /\ wpc' \in [Sessions -> Places] /\ wpc'[s] = "batch"
        /\ \A t \in Sessions : t # s => wpc'[t] = wpc[t]
    BY <1>1, <1>3, Arrived DEF Places
  <1>7. fdTable' = Released(fd, c, maps, hands)
    BY <1>5
  <1>8. /\ fdTable' \in [Fds -> Conns \cup {None}]
        /\ \A g \in Fds : fdTable'[g] = fdTable[g] \/ (g = fd /\ fdTable'[g] = None)
        /\ \/ fdTable'[fd] = None
           \/ c = None
           \/ \E u \in Sessions : maps[u][fd] = c \/ hands[u].sock = c
    BY <1>3, <1>7, ReleasedOrOwned
  <1>9. fdTable'[fd] = None \/ Owned(fd, hand[s].sock)
    BY <1>1, <1>4, <1>5, <1>8, NoneAssumption DEF Owned
  <1>10. EmptyHand \in Hands
    BY DEF EmptyHand, Hands
  <1>11. /\ hand' \in [Sessions -> Hands] /\ hand'[s] = EmptyHand
         /\ \A t \in Sessions : t # s => hand'[t] = hand[t]
    BY <1>3, <1>5, <1>10 DEF TypeOK, Hands, Goals
  <1>12. CASE sq' = sq
    <2>1. wpc[s] = "rearm" /\ hand[s].more
      <3>1. \A op \in {"read", "close"} : Prepare(s, Op(op, fd)) # sq
        <4>1. SUFFICES ASSUME NEW op \in {"read", "close"}, Prepare(s, Op(op, fd)) = sq
                       PROVE  FALSE
          OBVIOUS
        <4> DEFINE e == Op(op, fd)
        <4>2. e \in Entries /\ sq[s] \in Seq(Entries) /\ sq \in [Sessions -> Seq(Entries)]
          BY <1>3 DEF Op, Entries, TypeOK
        <4>3. [sq EXCEPT ![s] = Append(sq[s], e)] = sq
          BY <4>1 DEF Prepare
        <4> HIDE DEF e
        <4>4. Len(Append(sq[s], e)) = Len(sq[s]) + 1 /\ Len(sq[s]) \in Nat
          BY <4>2, AppendProperties, LenProperties
        <4>5. sq[s] = Append(sq[s], e)
          BY <4>2, <4>3
        <4> QED
          BY <4>4, <4>5
      <3>2. CASE Close(s)
        BY <1>12, <3>1, <3>2 DEF Close
      <3>3. CASE Rearm(s)
        BY <1>12, <3>1, <3>3 DEF Rearm, RearmDue, At
      <3> QED
        BY <3>2, <3>3
    <2>2. \A t \in Sessions, g \in Fds : Prepared(t, g) => Prepared(t, g)'
      BY <1>12 DEF Prepared, Op
    <2>3. sq' \in [Sessions -> Seq(Entries)]
      BY <1>3, <1>12 DEF TypeOK, Entries
    <2> QED
      BY <1>1, <1>2, <1>6, <1>8, <1>9, <1>11, <2>1, <2>2, <2>3 DEF Others
  <1>13. CASE \E op \in {"read", "close"} :
                 sq' = Prepare(s, Op(op, fd)) /\ (op = "read" \/ wpc[s] = "close")
    <2>1. PICK op \in {"read", "close"} :
             sq' = Prepare(s, Op(op, fd)) /\ (op = "read" \/ wpc[s] = "close")
      BY <1>13
    <2>2. sq' = Prepare(s, Op(op, fd))
      BY <2>1
    <2>3. /\ sq' \in [Sessions -> Seq(Entries)]
          /\ op = "read" => Prepared(s, fd)'
          /\ \A t \in Sessions, g \in Fds : Prepared(t, g) => Prepared(t, g)'
      BY <1>3, <2>2, PrepareKeeps
    <2>4. wpc[s] = "close" \/ (wpc[s] = "rearm" /\ (~hand[s].more => Prepared(s, fd)'))
      BY <1>0, <2>1, <2>3
    <2> QED
      BY <1>1, <1>2, <1>6, <1>8, <1>9, <1>11, <2>3, <2>4 DEF Others
  <1>14. \/ sq' = sq
         \/ \E op \in {"read", "close"} :
               sq' = Prepare(s, Op(op, fd)) /\ (op = "read" \/ wpc[s] = "close")
    <2>1. CASE Close(s)
      BY <2>1 DEF Close, At
    <2>2. CASE Rearm(s)
      BY <2>2 DEF Rearm, At
    <2> QED
      BY <2>1, <2>2
  <1> QED
    BY <1>12, <1>13, <1>14

\* The oldest accept leaves the queue.
LEMMA QueueTail ==
    ASSUME TypeOK, accepted # <<>>, accepted' = Tail(accepted)
    PROVE  /\ accepted' \in Seq(Arrivals)
           /\ Head(accepted) \in Arrivals /\ Head(accepted) = accepted[1]
           /\ 1 \in DOMAIN accepted /\ DOMAIN accepted \subseteq Nat
           /\ \A i \in DOMAIN accepted' :
                 /\ i + 1 \in DOMAIN accepted /\ accepted'[i] = accepted[i + 1] /\ i \in Nat
           /\ \A i \in DOMAIN accepted :
                 i # 1 => i - 1 \in DOMAIN accepted' /\ accepted'[i - 1] = accepted[i]
  <1>1. accepted \in Seq(Arrivals)
    BY DEF TypeOK, Arrivals
  <1>2. /\ Head(accepted) \in Arrivals /\ Head(accepted) = accepted[1]
        /\ Tail(accepted) \in Seq(Arrivals)
        /\ DOMAIN accepted = 1..Len(accepted) /\ Len(accepted) \in Nat /\ Len(accepted) > 0
        /\ DOMAIN Tail(accepted) = 1..(Len(accepted) - 1)
        /\ \A i \in 1..(Len(accepted) - 1) : Tail(accepted)[i] = accepted[i + 1]
    BY <1>1, HeadTailProperties, EmptySeq, LenProperties
  <1>3. \A i \in 1..(Len(accepted) - 1) : i + 1 \in 1..Len(accepted) /\ i \in Nat
    BY <1>2
  <1>4. \A i \in 1..Len(accepted) :
           i # 1 => i - 1 \in 1..(Len(accepted) - 1) /\ (i - 1) + 1 = i
    BY <1>2
  <1> QED
    BY <1>2, <1>3, <1>4

\* assignClientToSession and addClient.
LEMMA AssignDoes ==
    ASSUME Base, NEW s \in Sessions, NEW fd \in Fds, NEW c \in Conns, Assign(s),
           Head(accepted).fd = fd, Head(accepted).c = c
    PROVE  /\ UNCHANGED <<joined, armed, clientVars, workVars>>
           /\ accepted # <<>> /\ accepted' = Tail(accepted) /\ fdTable[fd] # None
           /\ mapped' \in [Fds -> Sessions \cup {None}] /\ mapped'[fd] = s
           /\ \A g \in Fds : g # fd => mapped'[g] = mapped[g]
           /\ socks' \in [Sessions -> [Fds -> Conns \cup {None}]]
           /\ fdTable' \in [Fds -> Conns \cup {None}]
           /\ sq' \in [Sessions -> Seq(Entries)]
           /\ socks'[s][fd] = c
           /\ \A t \in Sessions, g \in Fds : t # s \/ g # fd => socks'[t][g] = socks[t][g]
           /\ \A g \in Fds : fdTable'[g] = fdTable[g] \/ (g = fd /\ fdTable'[g] = None)
           /\ \/ fdTable'[fd] = None
              \/ socks[s][fd] = None
              \/ Owned(fd, socks[s][fd])
           /\ Prepared(s, fd)'
           /\ \A t \in Sessions, g \in Fds : Prepared(t, g) => Prepared(t, g)'
           /\ refused' = refused \ {fd}
  <1>1. /\ UNCHANGED <<joined, armed, clientVars, workVars>>
        /\ accepted # <<>> /\ accepted' = Tail(accepted) /\ fdTable[fd] # None
        /\ mapped' = [mapped EXCEPT ![fd] = s] /\ refused' = refused \ {fd}
    BY DEF Assign, MapTo
  <1>2. TypeOK
    BY DEF Base
  <1>4. PICK d \in Conns \cup {None} : d = socks[s][fd]
    BY <1>2 DEF TypeOK
  <1>5. PICK maps, hands :
          /\ maps = socks' /\ hands = hand
          /\ maps = [socks EXCEPT ![s][fd] = c] /\ fdTable' = Released(fd, d, maps, hands)
          /\ sq' = Prepare(s, Op("read", fd))
    BY <1>4 DEF Assign
  <1>8. maps = [socks EXCEPT ![s][fd] = c]
    BY <1>5
  <1>9. fdTable' = Released(fd, d, maps, hands)
    BY <1>5
  <1>10. /\ maps \in [Sessions -> [Fds -> Conns \cup {None}]]
         /\ maps[s][fd] = c
         /\ \A u \in Sessions, g \in Fds : u # s \/ g # fd => maps[u][g] = socks[u][g]
    BY <1>2, <1>8 DEF TypeOK
  <1>11. /\ fdTable' \in [Fds -> Conns \cup {None}]
         /\ \A g \in Fds : fdTable'[g] = fdTable[g] \/ (g = fd /\ fdTable'[g] = None)
         /\ \/ fdTable'[fd] = None
            \/ d = None
            \/ \E u \in Sessions : maps[u][fd] = d \/ hands[u].sock = d
    BY <1>2, <1>9, ReleasedOrOwned
  <1>12. fdTable'[fd] = None \/ d = None \/ Owned(fd, d)
    BY <1>1, <1>5, <1>11 DEF Owned, workVars
  <1>13. sq' = Prepare(s, Op("read", fd)) /\ "read" \in {"read", "close"}
    BY <1>5
  <1>14. /\ sq' \in [Sessions -> Seq(Entries)]
         /\ Prepared(s, fd)'
         /\ \A u \in Sessions, g \in Fds : Prepared(u, g) => Prepared(u, g)'
    BY <1>2, <1>13, PrepareKeeps
  <1>15. /\ mapped' \in [Fds -> Sessions \cup {None}] /\ mapped'[fd] = s
         /\ \A g \in Fds : g # fd => mapped'[g] = mapped[g]
    BY <1>1, <1>2 DEF TypeOK
  <1>16. \/ fdTable'[fd] = None
         \/ socks[s][fd] = None
         \/ Owned(fd, socks[s][fd])
    <2>1. CASE fdTable'[fd] = None \/ d = None
      BY <1>4, <2>1
    <2>2. CASE Owned(fd, d)
      BY <1>4, <2>2
    <2> QED
      BY <1>12, <2>1, <2>2
  <1>17. /\ socks' \in [Sessions -> [Fds -> Conns \cup {None}]]
         /\ socks'[s][fd] = c
         /\ \A u \in Sessions, g \in Fds : u # s \/ g # fd => socks'[u][g] = socks[u][g]
    BY <1>5, <1>10
  <1> QED
    BY <1>1, <1>11, <1>14, <1>15, <1>16, <1>17

\* The kernel gives a new connection a free number.
LEMMA AcceptDoes ==
    ASSUME Base, NEW c \in Conns, Accept(c)
    PROVE  /\ UNCHANGED <<socks, mapped, ringVars, clientVars, workVars, refused>>
           /\ c \notin joined /\ joined' = joined \cup {c}
           /\ fdTable' \in [Fds -> Conns \cup {None}]
           /\ accepted' \in Seq(Arrivals)
           /\ \E fd \in Fds :
                 /\ fdTable[fd] = None /\ fdTable'[fd] = c
                 /\ \A g \in Fds : g # fd => fdTable'[g] = fdTable[g]
                 /\ DOMAIN accepted \subseteq Nat
                 /\ \A i \in DOMAIN accepted :
                       /\ i \in DOMAIN accepted' /\ accepted'[i] = accepted[i]
                       /\ i <= Len(accepted) + 1
                 /\ \A i \in DOMAIN accepted' : i \in DOMAIN accepted \/ i = Len(accepted) + 1
                 /\ Len(accepted) + 1 \in DOMAIN accepted' /\ Len(accepted) \in Nat
                 /\ accepted'[Len(accepted) + 1].fd = fd
                 /\ accepted'[Len(accepted) + 1].c = c
  <1>1. PICK fd \in Free :
          /\ accepted' = Append(accepted, [fd |-> fd, c |-> c])
          /\ fdTable' = [fdTable EXCEPT ![fd] = c]
    BY DEF Accept
  <1>2. fd \in Fds /\ fdTable[fd] = None
    BY DEF Free
  <1>3. PICK e \in Arrivals : e = [fd |-> fd, c |-> c]
    BY <1>2 DEF Arrivals
  <1>4. accepted \in Seq(Arrivals)
    BY DEF Base, TypeOK, Arrivals
  <1>5. /\ accepted' \in Seq(Arrivals)
        /\ DOMAIN accepted = 1..Len(accepted)
        /\ DOMAIN accepted' = 1..(Len(accepted) + 1)
        /\ accepted'[Len(accepted) + 1] = e
        /\ \A i \in 1..Len(accepted) : accepted'[i] = accepted[i]
        /\ Len(accepted) \in Nat
    BY <1>1, <1>3, <1>4, AppendProperties, LenProperties
  <1>6. /\ \A i \in 1..Len(accepted) : i \in 1..(Len(accepted) + 1) /\ i <= Len(accepted) + 1 /\ i \in Nat
        /\ \A i \in 1..(Len(accepted) + 1) : i \in 1..Len(accepted) \/ i = Len(accepted) + 1
        /\ Len(accepted) + 1 \in 1..(Len(accepted) + 1)
    BY <1>5
  <1>7. /\ fdTable' \in [Fds -> Conns \cup {None}] /\ fdTable'[fd] = c
        /\ \A g \in Fds : g # fd => fdTable'[g] = fdTable[g]
    BY <1>1, <1>2 DEF Base, TypeOK
  <1>8. e.fd = fd /\ e.c = c
    BY <1>3
  <1>9. /\ UNCHANGED <<socks, mapped, ringVars, clientVars, workVars, refused>>
        /\ c \notin joined /\ joined' = joined \cup {c}
    BY DEF Accept
  <1> QED
    BY <1>2, <1>5, <1>6, <1>7, <1>8, <1>9

\* An entry of the ring reaches the kernel.
LEMMA SubmitDoes ==
    ASSUME Base, NEW s \in Sessions, Submit(s)
    PROVE  /\ UNCHANGED <<joined, accepted, socks, mapped, clientVars, workVars, refused>>
           /\ fdTable' \in [Fds -> Conns \cup {None}]
           /\ armed' \in [Sessions -> [Fds \X Conns -> Nat]]
           /\ sq' \in [Sessions -> Seq(Entries)]
           /\ \A g \in Fds : fdTable'[g] \in {fdTable[g], None}
           /\ \A t \in Sessions, g \in Fds, k \in Conns :
                 armed[t][<<g, k>>] > 0 => armed'[t][<<g, k>>] > 0
           /\ \A t \in Sessions, g \in Fds :
                 Prepared(t, g) =>
                    \/ Prepared(t, g)'
                    \/ t = s /\ \A k \in Conns : fdTable[g] = k => armed'[s][<<g, k>>] > 0
  <1> DEFINE o == Head(sq[s])
             p == <<o.fd, fdTable[o.fd]>>
  <1>1. /\ UNCHANGED <<joined, accepted, socks, mapped, clientVars, workVars, refused>>
        /\ sq[s] # <<>> /\ sq' = [sq EXCEPT ![s] = Tail(@)]
        /\ armed' = IF o.op = "read" /\ fdTable[o.fd] # None
                    THEN [armed EXCEPT ![s][p] = @ + 1] ELSE armed
        /\ fdTable' = IF o.op = "close" THEN Closed(o.fd) ELSE fdTable
    BY DEF Submit
  <1>2. TypeOK
    BY DEF Base
  <1>3. /\ sq' \in [Sessions -> Seq(Entries)]
        /\ o \in Entries
        /\ \A t \in Sessions, g \in Fds :
              Prepared(t, g) => Prepared(t, g)' \/ (t = s /\ o = Op("read", g))
    <2>1. sq[s] # <<>>
      BY <1>1
    <2>2. sq' = [sq EXCEPT ![s] = Tail(@)]
      BY <1>1
    <2> QED
      BY <1>2, <2>1, <2>2, SubmitTakes
  <1>4. o.fd \in Fds /\ o.op \in {"read", "close"}
    BY <1>3 DEF Entries
  <1>5. fdTable[o.fd] # None => p \in Fds \X Conns
    BY <1>2, <1>4 DEF TypeOK
  <1>6. /\ armed' \in [Sessions -> [Fds \X Conns -> Nat]]
        /\ \A t \in Sessions, q \in Fds \X Conns : armed[t][q] > 0 => armed'[t][q] > 0
        /\ o.op = "read" /\ fdTable[o.fd] # None => armed'[s][p] > 0
    <2>1. CASE o.op = "read" /\ fdTable[o.fd] # None
      <3>1. PICK q \in Fds \X Conns : q = p /\ armed' = [armed EXCEPT ![s][q] = armed[s][q] + 1]
        BY <1>1, <1>5, <2>1
      <3> DEFINE pairs == Fds \X Conns
      <3>a. armed \in [Sessions -> [pairs -> Nat]] /\ q \in pairs
        BY <1>2, <3>1 DEF TypeOK
      <3> HIDE DEF p, pairs
      <3>b. armed[s][q] \in Nat
        BY <3>a
      <3>c. PICK n \in Nat : n = armed[s][q] + 1 /\ n > 0
        BY <3>b
      <3>2. armed' = [armed EXCEPT ![s][q] = n]
        BY <3>1, <3>c
      <3>d. /\ armed' \in [Sessions -> [pairs -> Nat]] /\ armed'[s][q] = n
            /\ \A t \in Sessions, r \in pairs :
                  t # s \/ r # q => armed'[t][r] = armed[t][r]
        BY <3>a, <3>2
      <3>3. /\ armed' \in [Sessions -> [Fds \X Conns -> Nat]] /\ armed'[s][q] > 0
            /\ \A t \in Sessions, r \in Fds \X Conns :
                  t # s \/ r # q => armed'[t][r] = armed[t][r]
        BY <3>c, <3>d DEF pairs
      <3> QED
        BY <3>1, <3>3
    <2>2. CASE ~(o.op = "read" /\ fdTable[o.fd] # None)
      <3>1. armed' = armed
        BY <1>1, <2>2
      <3> QED
        BY <1>2, <2>2, <3>1 DEF TypeOK
    <2> QED
      BY <2>1, <2>2
  <1>7. /\ fdTable' \in [Fds -> Conns \cup {None}]
        /\ \A g \in Fds : fdTable'[g] \in {fdTable[g], None}
    <2>1. CASE o.op = "close"
      <3>1. fdTable' = Closed(o.fd)
        BY <1>1, <2>1
      <3> HIDE DEF o
      <3> QED
        BY <1>2, <1>4, <3>1 DEF TypeOK, Closed
    <2>2. CASE o.op # "close"
      BY <1>1, <1>2, <2>2 DEF TypeOK
    <2> QED
      BY <2>1, <2>2
  <1>8. ASSUME NEW t \in Sessions, NEW g \in Fds, Prepared(t, g), ~Prepared(t, g)',
               NEW k \in Conns, fdTable[g] = k
        PROVE  t = s /\ armed'[s][<<g, k>>] > 0
    <2>1. t = s /\ o = Op("read", g)
      BY <1>3, <1>8
    <2>2. o.fd = g /\ o.op = "read"
      BY <2>1 DEF Op
    <2>3. fdTable[o.fd] # None /\ p = <<g, k>>
      BY <1>8, <2>2, NoneAssumption
    <2> QED
      BY <1>6, <2>1, <2>2, <2>3
  <1>9. \A t \in Sessions, g \in Fds :
           Prepared(t, g) =>
              \/ Prepared(t, g)'
              \/ t = s /\ \A k \in Conns : fdTable[g] = k => armed'[s][<<g, k>>] > 0
    BY <1>3, <1>8
  <1> QED
    BY <1>1, <1>3, <1>6, <1>7, <1>9

-----------------------------------------------------------------------------
(* The types. *)

\* What Busied says of one worker.
BusiedAt(s) ==
    /\ wpc[s] \in Idle => hand[s] = EmptyHand
    /\ wpc[s] \notin Idle => hand[s].fd \in Fds /\ hand[s].sock \in Conns
    /\ wpc[s] \in {"removed", "temp", "add"} => hand[s].goal # s
    /\ wpc[s] = "temp" => hand[s].goal # Unknown
    /\ wpc[s] = "add" => hand[s].goal \in Sessions
    /\ wpc[s] = "rearm" => hand[s].goal # None

\* One worker's step leaves the others' places alone.
LEMMA BusiedKept ==
    ASSUME Busied, NEW s \in Sessions, Others(s), BusiedAt(s)'
    PROVE  Busied'
  <1>1. SUFFICES ASSUME NEW t \in Sessions PROVE BusiedAt(t)'
    BY DEF Busied, BusiedAt
  <1>2. CASE t = s
    BY <1>2
  <1>3. CASE t # s
    <2>1. hand'[t] = hand[t] /\ wpc'[t] = wpc[t]
      BY <1>3 DEF Others
    <2> QED
      BY <2>1 DEF Busied, BusiedAt, EmptyHand, Idle
  <1> QED
    BY <1>2, <1>3

\* The initial state.
LEMMA BaseInit == Init => Base
  <1>1. SUFFICES ASSUME Init PROVE Base
    OBVIOUS
  <1>2. EmptyHand \in Hands
    BY DEF EmptyHand, Hands
  <1>3. MaxJoins \in 0..MaxJoins
    BY BoundAssumption
  <1> DEFINE Q == [op : {"read", "close"}, fd : Fds]
  <1>4. <<>> \in Seq(Arrivals) /\ <<>> \in Seq(Q) /\ <<>> \in Seq(Goals)
    BY EmptySeq
  <1>5. TypeOK
    BY <1>1, <1>2, <1>3, <1>4 DEF Init, TypeOK, Hands, Goals, Arrivals
  <1>6. Busied
    BY <1>1 DEF Init, Busied, Idle
  <1> QED
    BY <1>5, <1>6 DEF Base

\* Every step keeps the types.
LEMMA BaseStep == Base /\ [Next]_vars => Base'
  <1> SUFFICES ASSUME Base, [Next]_vars PROVE Base'
    OBVIOUS
  <1>1. TypeOK /\ Busied
    BY DEF Base
  <1>2. ASSUME NEW s \in Sessions, NEW fd \in Fds, NEW c \in Conns, Take(s, fd, c) PROVE Base'
    <2>1. /\ UNCHANGED <<fdTable, joined, accepted, socks, mapped, sq, left, hungup, refused>>
          /\ asked' \in [Conns -> Seq(Goals)]
          /\ armed' \in [Sessions -> [Fds \X Conns -> Nat]]
          /\ hand' \in [Sessions -> Hands] /\ wpc' \in [Sessions -> Places]
      BY <1>2, TakeDoes
    <2>2. TypeOK'
      BY <1>1, <2>1 DEF TypeOK, Hands, Goals, Places
    <2>3. Others(s) /\ wpc[s] \in Idle
      BY <1>2, TakeDoes
    <2>4. \/ socks[s][fd] = None /\ hand' = hand /\ wpc'[s] = "batch"
          \/ /\ socks[s][fd] # None /\ wpc'[s] = "found"
             /\ hand'[s].fd = fd /\ hand'[s].sock = socks[s][fd]
      BY <1>2, TakeDoes
    <2>5. socks[s][fd] # None => socks[s][fd] \in Conns
      BY <1>1 DEF TypeOK
    <2>6. BusiedAt(s)'
      BY <1>1, <2>3, <2>4, <2>5 DEF Busied, BusiedAt, Idle, EmptyHand
    <2> QED
      BY <1>1, <2>2, <2>3, <2>6, BusiedKept DEF Base
  <1>3. ASSUME NEW s \in Sessions, JoinSame(s) PROVE Base'
    <2>1. /\ UNCHANGED <<fdTable, joined, accepted, socks, mapped, ringVars, clientVars, hand, refused>>
          /\ wpc[s] = "found" /\ hand[s].goal = s /\ Goto(s, "rearm")
      BY <1>3 DEF JoinSame, At
    <2>2. /\ wpc' \in [Sessions -> Places] /\ wpc'[s] = "rearm"
          /\ \A t \in Sessions : t # s => wpc'[t] = wpc[t]
      BY <1>1, <2>1, Arrived DEF Places
    <2>3. TypeOK'
      BY <1>1, <2>1, <2>2 DEF TypeOK, Places, ringVars, clientVars
    <2>4. s # None
      BY NoneAssumption
    <2>5. Others(s) /\ BusiedAt(s)'
      BY <1>1, <2>1, <2>2, <2>4 DEF Others, Busied, BusiedAt, Idle, EmptyHand
    <2> QED
      BY <1>1, <2>3, <2>5, BusiedKept DEF Base
  <1>4. ASSUME NEW s \in Sessions, Remove(s) PROVE Base'
    <2>1. /\ UNCHANGED <<joined, accepted, mapped, ringVars, clientVars, hand, refused>>
          /\ wpc'[s] = "removed" /\ Others(s)
          /\ hand[s].fd \in Fds /\ hand[s].sock \in Conns /\ hand[s].goal # s
          /\ socks' \in [Sessions -> [Fds -> Conns \cup {None}]]
          /\ fdTable' \in [Fds -> Conns \cup {None}]
          /\ wpc' \in [Sessions -> Places]
      BY <1>4, RemoveDoes
    <2>2. TypeOK'
      BY <1>1, <2>1 DEF TypeOK, Places, ringVars, clientVars
    <2>3. BusiedAt(s)'
      BY <2>1 DEF BusiedAt, Idle
    <2> QED
      BY <1>1, <2>1, <2>2, <2>3, BusiedKept DEF Base
  <1>5. ASSUME NEW s \in Sessions, JoinRefuse(s) PROVE Base'
    <2>1. /\ UNCHANGED <<fdTable, joined, accepted, socks, mapped, ringVars, clientVars, hand>>
          /\ wpc[s] = "removed" /\ hand[s].goal = Unknown /\ Goto(s, "rearm")
          /\ refused' = refused \cup {hand[s].fd}
      BY <1>5 DEF JoinRefuse, At
    <2>2. /\ wpc' \in [Sessions -> Places] /\ wpc'[s] = "rearm"
          /\ \A t \in Sessions : t # s => wpc'[t] = wpc[t]
      BY <1>1, <2>1, Arrived DEF Places
    <2>3. hand[s].fd \in Fds /\ hand[s].sock \in Conns
      BY <1>1, <2>1 DEF Busied, Idle
    <2>4. TypeOK'
      BY <1>1, <2>1, <2>2, <2>3 DEF TypeOK, Places, ringVars, clientVars
    <2>5. Unknown # None
      BY NoneAssumption
    <2>6. Others(s) /\ BusiedAt(s)'
      BY <2>1, <2>2, <2>3, <2>5 DEF Others, BusiedAt, Idle
    <2> QED
      BY <1>1, <2>4, <2>6, BusiedKept DEF Base
  <1>6. ASSUME NEW s \in Sessions, Unmap(s) PROVE Base'
    <2>1. /\ UNCHANGED <<joined, accepted, ringVars, clientVars, hand, refused>>
          /\ Others(s) /\ wpc' \in [Sessions -> Places]
          /\ hand[s].fd \in Fds /\ hand[s].sock \in Conns
          /\ hand[s].goal \notin {s, Unknown}
      BY <1>6, UnmapDoes
    <2>2. wpc'[s] = "temp" \/ wpc'[s] = AfterUnmap(s)
      BY <1>6, UnmapDoes
    <2>3. fdTable' \in [Fds -> Conns \cup {None}]
      BY <1>1, <1>6, UnmapDoes DEF TypeOK
    <2>a. mapped' = mapped \/ mapped' \in [Fds -> Sessions \cup {None}]
      BY <1>6, UnmapDoes
    <2>4. mapped' \in [Fds -> Sessions \cup {None}]
      BY <1>1, <2>a DEF TypeOK
    <2>5. socks' \in [Sessions -> [Fds -> Conns \cup {None}]]
      BY <1>1, <1>6, UnmapDoes DEF TypeOK
    <2>6. TypeOK'
      BY <1>1, <2>1, <2>3, <2>4, <2>5 DEF TypeOK, Places, ringVars, clientVars
    <2>7. hand[s].goal \in Goals \cup {None}
      BY <1>1 DEF TypeOK, Goals
    <2>8. BusiedAt(s)'
      BY <2>1, <2>2, <2>7 DEF BusiedAt, Idle, AfterUnmap, Goals
    <2> QED
      BY <1>1, <2>1, <2>6, <2>8, BusiedKept DEF Base
  <1>7. ASSUME NEW s \in Sessions, DropTemporary(s) PROVE Base'
    <2>1. /\ UNCHANGED <<joined, accepted, socks, ringVars, clientVars, hand, refused>>
          /\ Others(s) /\ wpc' \in [Sessions -> Places] /\ wpc'[s] = AfterUnmap(s)
          /\ hand[s].fd \in Fds /\ hand[s].sock \in Conns
          /\ hand[s].goal \notin {s, Unknown}
          /\ fdTable' \in [Fds -> Conns \cup {None}]
          /\ mapped' \in [Fds -> Sessions \cup {None}]
      BY <1>7, TempDoes
    <2>2. TypeOK'
      BY <1>1, <2>1 DEF TypeOK, Places, ringVars, clientVars
    <2>3. hand[s].goal \in Goals \cup {None}
      BY <1>1 DEF TypeOK, Goals
    <2>4. BusiedAt(s)'
      BY <2>1, <2>3 DEF BusiedAt, Idle, AfterUnmap, Goals
    <2> QED
      BY <1>1, <2>1, <2>2, <2>4, BusiedKept DEF Base
  <1>8. ASSUME NEW s \in Sessions, JoinAdd(s) PROVE Base'
    <2>1. PICK fd \in Fds : hand[s].fd = fd
      BY <1>1, <1>8 DEF JoinAdd, At, Busied, Idle
    <2>2. /\ UNCHANGED <<joined, accepted, mapped, armed, clientVars, hand, refused>>
          /\ wpc'[s] = "rearm" /\ Others(s)
          /\ hand[s].sock \in Conns /\ hand[s].goal \in Sessions \ {s}
          /\ socks' \in [Sessions -> [Fds -> Conns \cup {None}]]
          /\ fdTable' \in [Fds -> Conns \cup {None}]
          /\ wpc' \in [Sessions -> Places]
          /\ sq' \in [Sessions -> Seq(Entries)]
      BY <1>8, <2>1, AddDoes
    <2>3. TypeOK'
      BY <1>1, <2>2 DEF TypeOK, Places, Entries, clientVars
    <2>4. BusiedAt(s)'
      BY <2>1, <2>2, NoneAssumption DEF BusiedAt, Idle
    <2> QED
      BY <1>1, <2>2, <2>3, <2>4, BusiedKept DEF Base
  <1>9. ASSUME NEW s \in Sessions, Rearm(s) \/ Close(s) PROVE Base'
    <2>1. PICK fd \in Fds : hand[s].fd = fd
      BY <1>1, <1>9 DEF Rearm, Close, At, Busied, Idle
    <2>2. /\ UNCHANGED <<joined, accepted, socks, mapped, armed, clientVars, refused>>
          /\ wpc'[s] = "batch" /\ Others(s) /\ hand'[s] = EmptyHand
          /\ hand' \in [Sessions -> Hands]
          /\ fdTable' \in [Fds -> Conns \cup {None}]
          /\ wpc' \in [Sessions -> Places]
          /\ sq' \in [Sessions -> Seq(Entries)]
      BY <1>9, <2>1, LetGoDoes
    <2>3. TypeOK'
      BY <1>1, <2>2 DEF TypeOK, Places, Entries, Hands, Goals, clientVars
    <2>4. BusiedAt(s)'
      BY <2>2 DEF BusiedAt, Idle, EmptyHand
    <2> QED
      BY <1>1, <2>2, <2>3, <2>4, BusiedKept DEF Base
  <1>10. ASSUME NEW s \in Sessions, Submit(s) PROVE Base'
    <2>1. /\ UNCHANGED <<joined, accepted, socks, mapped, clientVars, workVars, refused>>
          /\ fdTable' \in [Fds -> Conns \cup {None}]
          /\ armed' \in [Sessions -> [Fds \X Conns -> Nat]]
          /\ sq' \in [Sessions -> Seq(Entries)]
      BY <1>10, SubmitDoes
    <2>2. TypeOK'
      BY <1>1, <2>1 DEF TypeOK, Entries, clientVars, workVars
    <2> QED
      BY <1>1, <2>1, <2>2 DEF Base, Busied, EmptyHand, workVars
  <1>11. ASSUME NEW s \in Sessions, Submitted(s) PROVE Base'
    <2>1. /\ UNCHANGED <<fdTable, joined, accepted, socks, mapped, ringVars, clientVars, hand, refused>>
          /\ wpc[s] = "batch" /\ Goto(s, "wait")
      BY <1>11 DEF Submitted, At
    <2>2. /\ wpc' \in [Sessions -> Places] /\ wpc'[s] = "wait"
          /\ \A t \in Sessions : t # s => wpc'[t] = wpc[t]
      BY <1>1, <2>1, Arrived DEF Places
    <2>3. TypeOK'
      BY <1>1, <2>1, <2>2 DEF TypeOK, Places, ringVars, clientVars
    <2>4. Others(s) /\ BusiedAt(s)'
      BY <1>1, <2>1, <2>2 DEF Others, Busied, BusiedAt, Idle, EmptyHand
    <2> QED
      BY <1>1, <2>3, <2>4, BusiedKept DEF Base
  <1>12. ASSUME NEW s \in Sessions, Assign(s) PROVE Base'
    <2>1. accepted # <<>> /\ accepted' = Tail(accepted)
      BY <1>12 DEF Assign
    <2>2. Head(accepted) \in Arrivals /\ accepted' \in Seq(Arrivals)
      BY <1>1, <2>1, QueueTail
    <2>3. PICK fd \in Fds, c \in Conns : Head(accepted).fd = fd /\ Head(accepted).c = c
      BY <2>2 DEF Arrivals
    <2>4. /\ UNCHANGED <<joined, armed, clientVars, workVars>>
          /\ mapped' \in [Fds -> Sessions \cup {None}]
          /\ socks' \in [Sessions -> [Fds -> Conns \cup {None}]]
          /\ fdTable' \in [Fds -> Conns \cup {None}]
          /\ sq' \in [Sessions -> Seq(Entries)]
          /\ refused' = refused \ {fd}
      BY <1>12, <2>3, AssignDoes
    <2>5. TypeOK'
      BY <1>1, <2>2, <2>4 DEF TypeOK, Entries, Arrivals, clientVars, workVars
    <2> QED
      BY <1>1, <2>4, <2>5 DEF Base, Busied, EmptyHand, workVars
  <1>13. CASE DropAccepted
    <2>1. /\ UNCHANGED <<fdTable, joined, socks, mapped, ringVars, clientVars, workVars, refused>>
          /\ accepted # <<>> /\ accepted' = Tail(accepted)
      BY <1>13 DEF DropAccepted
    <2>2. accepted' \in Seq(Arrivals)
      BY <1>1, <2>1, QueueTail
    <2>3. TypeOK'
      BY <1>1, <2>1, <2>2 DEF TypeOK, Arrivals, ringVars, clientVars, workVars
    <2> QED
      BY <1>1, <2>1, <2>3 DEF Base, Busied, EmptyHand, workVars
  <1>14. ASSUME NEW c \in Conns, Accept(c) PROVE Base'
    <2>1. /\ UNCHANGED <<socks, mapped, ringVars, clientVars, workVars, refused>>
          /\ joined' = joined \cup {c}
          /\ fdTable' \in [Fds -> Conns \cup {None}]
          /\ accepted' \in Seq(Arrivals)
      BY <1>14, AcceptDoes
    <2>2. TypeOK'
      BY <1>1, <2>1 DEF TypeOK, Arrivals, ringVars, clientVars, workVars
    <2> QED
      BY <1>1, <2>1, <2>2 DEF Base, Busied, EmptyHand, workVars
  <1>15. ASSUME NEW c \in Conns, Hangup(c) PROVE Base'
    <2>1. TypeOK'
      BY <1>1, <1>15 DEF TypeOK, Hangup, ringVars, workVars
    <2> QED
      BY <1>1, <1>15, <2>1 DEF Base, Busied, EmptyHand, Hangup, workVars
  <1>16. ASSUME NEW c \in Conns, NEW t \in Goals, AskJoin(c, t) PROVE Base'
    <2>1. asked[c] \in Seq(Goals) /\ asked \in [Conns -> Seq(Goals)]
      BY <1>1 DEF TypeOK, Goals
    <2>2. Append(asked[c], t) \in Seq(Goals)
      BY <2>1, AppendProperties
    <2>3. asked' \in [Conns -> Seq(Goals)]
      BY <1>16, <2>1, <2>2 DEF AskJoin
    <2>4. left[c] \in 0..MaxJoins /\ left[c] > 0 /\ left' = [left EXCEPT ![c] = left[c] - 1]
      BY <1>1, <1>16 DEF TypeOK, AskJoin
    <2>5. left[c] - 1 \in 0..MaxJoins
      BY <2>4, BoundAssumption
    <2>6. left' \in [Conns -> 0..MaxJoins]
      BY <1>1, <2>4, <2>5 DEF TypeOK
    <2>7. UNCHANGED <<fdTable, joined, accepted, socks, mapped, ringVars, hungup, workVars, refused>>
      BY <1>16 DEF AskJoin
    <2>8. TypeOK'
      BY <1>1, <2>3, <2>6, <2>7 DEF TypeOK, Goals, ringVars, workVars
    <2> QED
      BY <1>1, <2>7, <2>8 DEF Base, Busied, EmptyHand, workVars
  <1>17. CASE UNCHANGED vars
    BY <1>1, <1>17 DEF Base, TypeOK, Busied, EmptyHand, vars, ringVars, clientVars, workVars
  <1> QED
    BY <1>2, <1>3, <1>4, <1>5, <1>6, <1>7, <1>8, <1>9, <1>10, <1>11, <1>12, <1>13,
       <1>14, <1>15, <1>16, <1>17 DEF Next, Worker, Client, Goals

-----------------------------------------------------------------------------
(* Sockets keep their numbers, and the queue its order. *)

\* What a step of a worker may do: no connection or Socket gets a number.
Shrinks ==
    /\ joined' = joined /\ accepted' = accepted
    /\ \A g \in Fds : fdTable'[g] \in {fdTable[g], None}
    /\ \A t \in Sessions, g \in Fds, k \in Conns :
          Held(t, g, k)' => \E u \in Sessions : Held(u, g, k)

\* A worker gives no Socket away but those it has.
LEMMA WorkerShrinks ==
    ASSUME Base, NEW s \in Sessions, Worker(s)
    PROVE  Shrinks
  <1>1. ASSUME NEW fd \in Fds, NEW c \in Conns, Take(s, fd, c) PROVE Shrinks
    <2>1. /\ UNCHANGED <<fdTable, joined, accepted, socks>> /\ Others(s)
          /\ \/ hand' = hand
             \/ hand'[s].fd = fd /\ hand'[s].sock = socks[s][fd]
      BY <1>1, TakeDoes
    <2> QED
      BY <2>1 DEF Shrinks, Held, Others
  <1>2. ASSUME UNCHANGED <<fdTable, joined, accepted, socks, hand>> PROVE Shrinks
    BY <1>2 DEF Shrinks, Held
  <1>3. CASE JoinSame(s) \/ JoinRefuse(s) \/ Submitted(s)
    BY <1>2, <1>3 DEF JoinSame, JoinRefuse, Submitted
  <1>4. CASE Remove(s)
    <2>1. PICK fd \in Fds : hand[s].fd = fd
      BY <1>4, RemoveDoes
    <2>2. /\ UNCHANGED <<joined, accepted, hand>> /\ socks'[s][fd] = None
          /\ \A t \in Sessions, g \in Fds : t # s \/ g # fd => socks'[t][g] = socks[t][g]
          /\ \A g \in Fds : fdTable'[g] = fdTable[g] \/ (g = fd /\ fdTable'[g] = None)
      BY <1>4, <2>1, RemoveDoes
    <2> QED
      BY <2>2, NoneAssumption DEF Shrinks, Held
  <1>5. CASE Unmap(s)
    <2>1. PICK fd \in Fds : hand[s].fd = fd
      BY <1>5, UnmapDoes
    <2>2. UNCHANGED <<joined, accepted, hand>>
      BY <1>5, UnmapDoes
    <2>3. \A g \in Fds : fdTable'[g] \in {fdTable[g], None}
      BY <1>5, <2>1, UnmapDoes
    <2>4. \A t \in Sessions, g \in Fds : socks'[t][g] \in {socks[t][g], None}
      BY <1>5, <2>1, UnmapDoes
    <2> QED
      BY <2>2, <2>3, <2>4, NoneAssumption DEF Shrinks, Held
  <1>6. CASE DropTemporary(s)
    <2>1. UNCHANGED <<joined, accepted, socks, hand>>
      BY <1>6, TempDoes
    <2>2. \A g \in Fds : fdTable'[g] \in {fdTable[g], None}
      BY <1>6, TempDoes
    <2> QED
      BY <2>1, <2>2 DEF Shrinks, Held
  <1>7. CASE JoinAdd(s)
    <2>1. PICK fd \in Fds : hand[s].fd = fd
      BY <1>7 DEF JoinAdd, At, Base, Busied, Idle
    <2>2. /\ UNCHANGED <<joined, accepted, hand>>
          /\ socks'[hand[s].goal][fd] = hand[s].sock
          /\ \A t \in Sessions, g \in Fds :
                t # hand[s].goal \/ g # fd => socks'[t][g] = socks[t][g]
          /\ \A g \in Fds : fdTable'[g] = fdTable[g] \/ (g = fd /\ fdTable'[g] = None)
      BY <1>7, <2>1, AddDoes
    <2> QED
      BY <2>1, <2>2 DEF Shrinks, Held
  <1>8. CASE Rearm(s) \/ Close(s)
    <2>1. PICK fd \in Fds : hand[s].fd = fd
      BY <1>8 DEF Rearm, Close, At, Base, Busied, Idle
    <2>2. /\ UNCHANGED <<joined, accepted, socks>> /\ Others(s)
          /\ hand'[s] = EmptyHand
          /\ \A g \in Fds : fdTable'[g] = fdTable[g] \/ (g = fd /\ fdTable'[g] = None)
      BY <1>8, <2>1, LetGoDoes
    <2> QED
      BY <2>2, NoneAssumption DEF Shrinks, Held, Others, EmptyHand
  <1>9. CASE Submit(s)
    <2>1. UNCHANGED <<joined, accepted, socks, workVars>>
      BY <1>9, SubmitDoes
    <2>2. \A g \in Fds : fdTable'[g] \in {fdTable[g], None}
      BY <1>9, SubmitDoes
    <2> QED
      BY <2>1, <2>2 DEF Shrinks, Held, workVars
  <1> QED
    BY <1>1, <1>3, <1>4, <1>5, <1>6, <1>7, <1>8, <1>9 DEF Worker

\* Where nothing gets a number, every number stays with its Sockets.
LEMMA NumberKept ==
    ASSUME NumberFixed, joined \subseteq joined',
           \A g \in Fds, k \in Conns : Uses(g, k)' => Uses(g, k)
    PROVE  NumberFixed'
  BY DEF NumberFixed

\* The numbers and the queue in a step that only shrinks.
LEMMA ShrinksKeeps ==
    ASSUME NumberFixed, QueueOrder, TypeOK, Shrinks
    PROVE  NumberFixed' /\ QueueOrder'
  <1>1. \A g \in Fds, k \in Conns : Uses(g, k)' => Uses(g, k)
    <2>1. ASSUME NEW g \in Fds, NEW k \in Conns, Uses(g, k)' PROVE Uses(g, k)
      <3>1. CASE fdTable'[g] = k
        <4>1. fdTable[g] = k
          BY <3>1, NoneAssumption DEF Shrinks
        <4> QED
          BY <4>1 DEF Uses
      <3>2. CASE Queued(g, k)'
        BY <3>2 DEF Shrinks, Uses, Queued
      <3>3. CASE \E s \in Sessions : Held(s, g, k)'
        BY <3>3 DEF Shrinks, Uses
      <3> QED
        BY <2>1, <3>1, <3>2, <3>3 DEF Uses
    <2> QED
      BY <2>1
  <1>2. NumberFixed'
    BY <1>1, NumberKept DEF Shrinks
  <1>3. accepted' = accepted
    BY DEF Shrinks
  <1>4. \A i \in DOMAIN accepted : accepted[i].fd \in Fds /\ accepted[i].c \in Conns
    <2>1. accepted \in Seq(Arrivals)
      BY DEF TypeOK, Arrivals
    <2>2. \A i \in DOMAIN accepted : accepted[i] \in Arrivals
      BY <2>1, ElementOfSeq, LenProperties
    <2> QED
      BY <2>2 DEF Arrivals
  <1>5. ASSUME NEW g \in Fds, NEW fd \in Fds, NEW c \in Conns, NEW s \in Sessions,
               Queued(g, c)', Held(s, fd, c)'
        PROVE  FALSE
    <2>1. Queued(g, c)
      BY <1>3, <1>5 DEF Queued
    <2> QED
      BY <1>5, <2>1 DEF Shrinks, QueueOrder
  <1>6. \A i \in DOMAIN accepted' :
           fdTable'[accepted[i].fd] # None =>
              \E j \in DOMAIN accepted' :
                 /\ i <= j /\ accepted[j].fd = accepted[i].fd
                 /\ accepted[j].c = fdTable'[accepted[i].fd]
    <2>1. ASSUME NEW i \in DOMAIN accepted, fdTable'[accepted[i].fd] # None
          PROVE  \E j \in DOMAIN accepted :
                 /\ i <= j /\ accepted[j].fd = accepted[i].fd
                 /\ accepted[j].c = fdTable'[accepted[i].fd]
      <3>1. fdTable'[accepted[i].fd] = fdTable[accepted[i].fd]
        BY <1>4, <2>1 DEF Shrinks
      <3> QED
        BY <2>1, <3>1 DEF QueueOrder
    <2> QED
      BY <1>3, <2>1
  <1>7. QueueOrder'
    <2>1. \A i, j \in DOMAIN accepted' : accepted'[i].c = accepted'[j].c => i = j
      BY <1>3 DEF QueueOrder
    <2> QED
      BY <1>3, <1>5, <1>6, <2>1 DEF QueueOrder
  <1> QED
    BY <1>2, <1>7

\* The listener gives the oldest accept to a session, or drops it.
LEMMA ListenerKeeps ==
    ASSUME Base, NumberFixed, QueueOrder,
           DropAccepted \/ \E s \in Sessions : Assign(s)
    PROVE  NumberFixed' /\ QueueOrder'
  <1>0. accepted # <<>> /\ accepted' = Tail(accepted) /\ TypeOK
    BY DEF DropAccepted, Assign, Base
  <1>1. /\ Head(accepted) \in Arrivals /\ Head(accepted) = accepted[1]
        /\ 1 \in DOMAIN accepted /\ DOMAIN accepted \subseteq Nat
        /\ \A i \in DOMAIN accepted' :
              /\ i + 1 \in DOMAIN accepted /\ accepted'[i] = accepted[i + 1] /\ i \in Nat
        /\ \A i \in DOMAIN accepted :
              i # 1 => i - 1 \in DOMAIN accepted' /\ accepted'[i - 1] = accepted[i]
        /\ accepted' \in Seq(Arrivals)
    BY <1>0, QueueTail
  <1>2. PICK fd \in Fds, c \in Conns : Head(accepted).fd = fd /\ Head(accepted).c = c
    BY <1>1 DEF Arrivals
  <1>3. /\ joined' = joined
        /\ \A g \in Fds : fdTable'[g] \in {fdTable[g], None}
        /\ \A t \in Sessions, g \in Fds, k \in Conns :
              Held(t, g, k)' => Held(t, g, k) \/ (g = fd /\ k = c)
    <2>1. CASE DropAccepted
      BY <2>1 DEF DropAccepted, Held, workVars
    <2>2. ASSUME NEW s \in Sessions, Assign(s)
          PROVE  /\ joined' = joined
                 /\ \A g \in Fds : fdTable'[g] \in {fdTable[g], None}
                 /\ \A t \in Sessions, g \in Fds, k \in Conns :
                       Held(t, g, k)' => Held(t, g, k) \/ (g = fd /\ k = c)
      <3>1. /\ UNCHANGED <<joined, workVars>> /\ socks'[s][fd] = c
            /\ \A t \in Sessions, g \in Fds : t # s \/ g # fd => socks'[t][g] = socks[t][g]
            /\ \A g \in Fds : fdTable'[g] = fdTable[g] \/ (g = fd /\ fdTable'[g] = None)
        BY <1>2, <2>2, AssignDoes
      <3> QED
        BY <3>1 DEF Held, workVars
    <2> QED
      BY <2>1, <2>2
  <1>4. Queued(fd, c)
    BY <1>1, <1>2 DEF Queued
  <1>5. ASSUME NEW g \in Fds, NEW k \in Conns, Uses(g, k)' PROVE Uses(g, k)
    <2>1. CASE fdTable'[g] = k
      <3>1. fdTable[g] = k
        BY <1>3, <2>1, NoneAssumption
      <3> QED
        BY <3>1 DEF Uses
    <2>2. CASE Queued(g, k)'
      <3>1. PICK i \in DOMAIN accepted' : accepted'[i].fd = g /\ accepted'[i].c = k
        BY <2>2 DEF Queued
      <3>2. i + 1 \in DOMAIN accepted /\ accepted[i + 1].fd = g /\ accepted[i + 1].c = k
        BY <1>1, <3>1
      <3> QED
        BY <3>2 DEF Uses, Queued
    <2>3. CASE \E s \in Sessions : Held(s, g, k)'
      BY <1>3, <1>4, <2>3 DEF Uses
    <2> QED
      BY <1>5, <2>1, <2>2, <2>3 DEF Uses
  <1>6. NumberFixed'
    BY <1>3, <1>5, NumberKept
  <1>7. \A i, j \in DOMAIN accepted' : accepted'[i].c = accepted'[j].c => i = j
    <2>1. ASSUME NEW i \in DOMAIN accepted', NEW j \in DOMAIN accepted',
                 accepted'[i].c = accepted'[j].c
          PROVE  i = j
      <3>1. i + 1 = j + 1
        BY <1>1, <2>1 DEF QueueOrder
      <3> QED
        BY <1>1, <3>1
    <2> QED
      BY <2>1
  <1>8. \A i \in DOMAIN accepted' :
           /\ accepted'[i].c \in Conns /\ accepted'[i].c # c /\ accepted'[i].fd \in Fds
    <2>1. ASSUME NEW i \in DOMAIN accepted'
          PROVE  accepted'[i].c \in Conns /\ accepted'[i].c # c /\ accepted'[i].fd \in Fds
      <3>1. i + 1 \in DOMAIN accepted /\ accepted'[i] = accepted[i + 1] /\ i \in Nat
        BY <1>1
      <3>2. i + 1 # 1
        <4>1. i # 0
          <5>1. DOMAIN accepted' = 1..Len(accepted')
            BY <1>1, LenProperties
          <5> QED
            BY <5>1
        <4> QED
          BY <3>1, <4>1
      <3>3. accepted'[i] \in Arrivals
        BY <1>1, ElementOfSeq, LenProperties
      <3> QED
        BY <1>1, <1>2, <3>1, <3>2, <3>3 DEF QueueOrder, Arrivals
    <2> QED
      BY <2>1
  <1>9. ASSUME NEW h \in Fds, NEW g \in Fds, NEW k \in Conns, NEW s \in Sessions,
               Queued(h, k)', Held(s, g, k)'
        PROVE  FALSE
    <2>1. PICK i \in DOMAIN accepted' : accepted'[i].fd = h /\ accepted'[i].c = k
      BY <1>9 DEF Queued
    <2>2. k # c
      BY <1>8, <2>1
    <2>3. i + 1 \in DOMAIN accepted /\ accepted[i + 1] = accepted'[i]
      BY <1>1
    <2>4. Queued(h, k)
      BY <2>1, <2>3 DEF Queued
    <2>5. Held(s, g, k)
      BY <1>3, <1>9, <2>2
    <2> QED
      BY <2>4, <2>5 DEF QueueOrder
  <1>10. \A i \in DOMAIN accepted' :
            fdTable'[accepted'[i].fd] # None =>
               \E j \in DOMAIN accepted' :
                  /\ i <= j /\ accepted'[j].fd = accepted'[i].fd
                  /\ accepted'[j].c = fdTable'[accepted'[i].fd]
    <2>1. ASSUME NEW i \in DOMAIN accepted', fdTable'[accepted'[i].fd] # None
          PROVE  \E j \in DOMAIN accepted' :
                    /\ i <= j /\ accepted'[j].fd = accepted'[i].fd
                    /\ accepted'[j].c = fdTable'[accepted'[i].fd]
      <3>1. i + 1 \in DOMAIN accepted /\ accepted'[i] = accepted[i + 1] /\ i \in Nat
        BY <1>1
      <3>2. fdTable'[accepted'[i].fd] = fdTable[accepted[i + 1].fd]
        BY <1>3, <1>8, <2>1, <3>1
      <3>3. PICK j \in DOMAIN accepted :
              /\ i + 1 <= j /\ accepted[j].fd = accepted[i + 1].fd
              /\ accepted[j].c = fdTable[accepted[i + 1].fd]
        BY <2>1, <3>1, <3>2 DEF QueueOrder
      <3>4. j \in Nat /\ j # 1 /\ i <= j - 1
        <4>1. DOMAIN accepted' = 1..Len(accepted')
          BY <1>1, LenProperties
        <4>2. i # 0
          BY <4>1
        <4>3. j \in Nat
          BY <1>1
        <4> QED
          BY <3>1, <3>3, <4>2, <4>3
      <3>5. j - 1 \in DOMAIN accepted' /\ accepted'[j - 1] = accepted[j]
        BY <1>1, <3>4
      <3> QED
        BY <3>1, <3>2, <3>3, <3>4, <3>5
    <2> QED
      BY <2>1
  <1>11. QueueOrder'
    BY <1>7, <1>9, <1>10 DEF QueueOrder
  <1> QED
    BY <1>6, <1>11

\* The kernel accepts a connection that was not accepted before.
LEMMA AcceptKeeps ==
    ASSUME Base, NumberFixed, QueueOrder, NEW c \in Conns, Accept(c)
    PROVE  NumberFixed' /\ QueueOrder'
  <1>1. /\ UNCHANGED <<socks, workVars>>
        /\ c \notin joined /\ joined' = joined \cup {c}
        /\ accepted' \in Seq(Arrivals)
    BY AcceptDoes
  <1>2. PICK fd \in Fds :
          /\ fdTable[fd] = None /\ fdTable'[fd] = c
          /\ \A g \in Fds : g # fd => fdTable'[g] = fdTable[g]
          /\ DOMAIN accepted \subseteq Nat
          /\ \A i \in DOMAIN accepted :
                /\ i \in DOMAIN accepted' /\ accepted'[i] = accepted[i]
                /\ i <= Len(accepted) + 1
          /\ \A i \in DOMAIN accepted' : i \in DOMAIN accepted \/ i = Len(accepted) + 1
          /\ Len(accepted) + 1 \in DOMAIN accepted' /\ Len(accepted) \in Nat
          /\ accepted'[Len(accepted) + 1].fd = fd
          /\ accepted'[Len(accepted) + 1].c = c
    BY AcceptDoes
  <1>3. PICK n \in Nat : n = Len(accepted) + 1
    BY <1>2
  <1>4. ASSUME NEW g \in Fds, NEW k \in Conns, Uses(g, k)'
        PROVE  Uses(g, k) \/ (g = fd /\ k = c)
    <2>1. CASE fdTable'[g] = k
      BY <1>2, <2>1 DEF Uses
    <2>2. CASE Queued(g, k)'
      <3>1. PICK i \in DOMAIN accepted' : accepted'[i].fd = g /\ accepted'[i].c = k
        BY <2>2 DEF Queued
      <3>2. CASE i \in DOMAIN accepted
        BY <1>2, <3>1, <3>2 DEF Queued, Uses
      <3>3. CASE i = Len(accepted) + 1
        BY <1>2, <3>1, <3>3
      <3> QED
        BY <1>2, <3>2, <3>3
    <2>3. CASE \E s \in Sessions : Held(s, g, k)'
      BY <1>1, <2>3 DEF Uses, Held, workVars
    <2> QED
      BY <1>4, <2>1, <2>2, <2>3 DEF Uses
  <1>5. \A g \in Fds : ~Uses(g, c)
    BY <1>1 DEF NumberFixed
  <1>6. NumberFixed'
    <2>1. ASSUME NEW k \in Conns, NEW g \in Fds, NEW h \in Fds, Uses(g, k)', Uses(h, k)'
          PROVE  g = h /\ k \in joined'
      <3>1. CASE k = c
        BY <1>1, <1>4, <1>5, <2>1, <3>1
      <3>2. CASE k # c
        BY <1>1, <1>4, <2>1, <3>2 DEF NumberFixed
      <3> QED
        BY <3>1, <3>2
    <2> QED
      BY <2>1 DEF NumberFixed
  <1>7. \A i \in DOMAIN accepted : accepted[i].fd \in Fds /\ accepted[i].c \in Conns
    <2>1. accepted \in Seq(Arrivals)
      BY DEF Base, TypeOK, Arrivals
    <2>2. \A i \in DOMAIN accepted : accepted[i] \in Arrivals
      BY <2>1, ElementOfSeq, LenProperties
    <2> QED
      BY <2>2 DEF Arrivals
  <1>8. \A i \in DOMAIN accepted : accepted[i].c # c
    BY <1>5, <1>7 DEF Uses, Queued
  <1>9. \A i, j \in DOMAIN accepted' : accepted'[i].c = accepted'[j].c => i = j
    BY <1>2, <1>8 DEF QueueOrder
  <1>10. ASSUME NEW h \in Fds, NEW g \in Fds, NEW k \in Conns, NEW s \in Sessions,
                Queued(h, k)', Held(s, g, k)'
         PROVE  FALSE
    <2>1. Held(s, g, k)
      BY <1>1, <1>10 DEF Held, workVars
    <2>2. k # c
      BY <1>5, <2>1 DEF Uses
    <2>3. PICK i \in DOMAIN accepted' : accepted'[i].fd = h /\ accepted'[i].c = k
      BY <1>10 DEF Queued
    <2>4. Queued(h, k)
      BY <1>2, <2>2, <2>3 DEF Queued
    <2> QED
      BY <2>1, <2>4 DEF QueueOrder
  <1>11. ASSUME NEW i \in DOMAIN accepted', fdTable'[accepted'[i].fd] # None
         PROVE  \E j \in DOMAIN accepted' :
                   /\ i <= j /\ accepted'[j].fd = accepted'[i].fd
                   /\ accepted'[j].c = fdTable'[accepted'[i].fd]
    <2>1. CASE accepted'[i].fd = fd
      <3>1. i <= n
        BY <1>2, <1>3
      <3> QED
        BY <1>2, <1>3, <2>1, <3>1
    <2>2. CASE accepted'[i].fd # fd
      <3>1. i \in DOMAIN accepted /\ accepted'[i] = accepted[i]
        BY <1>2, <2>2
      <3>2. fdTable'[accepted'[i].fd] = fdTable[accepted[i].fd]
        BY <1>2, <1>7, <2>2, <3>1
      <3>3. PICK j \in DOMAIN accepted :
              /\ i <= j /\ accepted[j].fd = accepted[i].fd
              /\ accepted[j].c = fdTable[accepted[i].fd]
        BY <1>11, <3>1, <3>2 DEF QueueOrder
      <3> QED
        BY <1>2, <3>1, <3>2, <3>3
    <2> QED
      BY <2>1, <2>2
  <1>12. QueueOrder'
    BY <1>9, <1>10, <1>11 DEF QueueOrder
  <1> QED
    BY <1>6, <1>12

-----------------------------------------------------------------------------
(* A Socket in one session. *)

Moving == {"removed", "temp", "add"}

\* Nobody claims more than before.
LEMMA ClaimsKept ==
    ASSUME OneClaim,
           \A t \in Sessions, k \in Conns : Claims(t, k)' => Claims(t, k),
           \A t \in Sessions : wpc'[t] \in Moving => socks'[t][hand'[t].fd] # hand'[t].sock
    PROVE  OneClaim'
  BY DEF OneClaim, Moving

\* The worker of s stays out of the maps' way: the other workers have what they
\* had, and the maps have that or less.
LEMMA LessClaimed ==
    ASSUME Base, OneClaim, NEW s \in Sessions, Others(s),
           \A t \in Sessions, g \in Fds : socks'[t][g] \in {socks[t][g], None},
           \A k \in Conns : Moves(s, k)' => Claims(s, k),
           wpc'[s] \in Moving => socks'[s][hand'[s].fd] # hand'[s].sock
    PROVE  OneClaim'
  <1>1. ASSUME NEW t \in Sessions, NEW k \in Conns, Claims(t, k)' PROVE Claims(t, k)
    <2>1. CASE \E g \in Fds : socks'[t][g] = k
      BY <2>1, NoneAssumption DEF Claims
    <2>2. CASE Moves(t, k)'
      BY <2>2 DEF Others, Claims, Moves
    <2> QED
      BY <1>1, <2>1, <2>2 DEF Claims
  <1>2. ASSUME NEW t \in Sessions, wpc'[t] \in Moving
        PROVE  socks'[t][hand'[t].fd] # hand'[t].sock
    <2>1. CASE t = s
      BY <1>2, <2>1
    <2>2. CASE t # s
      <3>1. hand'[t] = hand[t] /\ wpc'[t] = wpc[t] /\ wpc[t] \in Moving
        BY <1>2, <2>2 DEF Others
      <3>2. hand[t].fd \in Fds /\ hand[t].sock \in Conns
        BY <3>1 DEF Base, Busied, Moving, Idle
      <3>3. socks[t][hand[t].fd] # hand[t].sock
        BY <3>1 DEF OneClaim, Moving
      <3> QED
        BY <3>1, <3>2, <3>3, NoneAssumption
    <2> QED
      BY <2>1, <2>2
  <1> QED
    BY <1>1, <1>2, ClaimsKept

\* A move takes a Socket out of one session before it is put in another.
LEMMA AddClaims ==
    ASSUME Base, NumberFixed, OneClaim, NEW s \in Sessions, JoinAdd(s)
    PROVE  OneClaim'
  <1>1. PICK fd \in Fds : hand[s].fd = fd
    BY DEF JoinAdd, At, Base, Busied, Idle
  <1>2. /\ hand' = hand /\ wpc[s] = "add" /\ wpc'[s] = "rearm" /\ Others(s)
        /\ hand[s].sock \in Conns /\ hand[s].goal \in Sessions \ {s}
        /\ socks'[hand[s].goal][fd] = hand[s].sock
        /\ \A t \in Sessions, g \in Fds :
              t # hand[s].goal \/ g # fd => socks'[t][g] = socks[t][g]
    BY <1>1, AddDoes
  <1>3. PICK c \in Conns, t \in Sessions : c = hand[s].sock /\ t = hand[s].goal /\ t # s
    BY <1>2
  <1>4. /\ socks'[t][fd] = c
        /\ \A u \in Sessions, g \in Fds : u # t \/ g # fd => socks'[u][g] = socks[u][g]
    BY <1>2, <1>3
  <1>5. Claims(s, c) /\ Held(s, fd, c)
    BY <1>1, <1>2, <1>3 DEF Claims, Moves, Held
  <1>6. \A g \in Fds : socks[s][g] # c
    <2>1. ASSUME NEW g \in Fds, socks[s][g] = c PROVE FALSE
      <3>1. Held(s, g, c)
        BY <2>1 DEF Held
      <3>2. g = fd
        BY <1>5, <3>1 DEF NumberFixed, Uses
      <3>3. socks[s][hand[s].fd] # hand[s].sock
        BY <1>2 DEF OneClaim
      <3> QED
        BY <1>1, <1>3, <2>1, <3>2, <3>3
    <2> QED
      BY <2>1
  <1>7. ASSUME NEW u \in Sessions, NEW k \in Conns, Claims(u, k)'
        PROVE  Claims(u, k) \/ (u = t /\ k = c)
    <2>1. CASE Moves(u, k)'
      BY <1>2, <2>1 DEF Others, Claims, Moves
    <2>2. CASE \E g \in Fds : socks'[u][g] = k
      <3>1. PICK g \in Fds : socks'[u][g] = k
        BY <2>2
      <3>2. CASE u = t /\ g = fd
        BY <1>4, <3>1, <3>2
      <3>3. CASE ~(u = t /\ g = fd)
        BY <1>4, <3>1, <3>3 DEF Claims
      <3> QED
        BY <3>2, <3>3
    <2> QED
      BY <1>7, <2>1, <2>2 DEF Claims
  <1>8. ~Claims(s, c)'
    <2>1. ~Moves(s, c)'
      BY <1>2 DEF Moves
    <2>2. \A g \in Fds : socks'[s][g] # c
      BY <1>3, <1>4, <1>6
    <2> QED
      BY <2>1, <2>2 DEF Claims
  <1>9. ASSUME NEW k \in Conns, NEW u \in Sessions, NEW v \in Sessions,
               Claims(u, k)', Claims(v, k)'
        PROVE  u = v
    <2>1. CASE k # c
      BY <1>7, <1>9, <2>1 DEF OneClaim
    <2>2. CASE k = c
      <3>1. \A w \in Sessions : Claims(w, c)' => w = t
        <4>1. ASSUME NEW w \in Sessions, Claims(w, c)', w # t PROVE FALSE
          <5>1. Claims(w, c)
            BY <1>7, <4>1
          <5>2. w = s
            BY <1>5, <5>1 DEF OneClaim
          <5> QED
            BY <1>8, <4>1, <5>2
        <4> QED
          BY <4>1
      <3> QED
        BY <1>9, <2>2, <3>1
    <2> QED
      BY <2>1, <2>2
  <1>10. ASSUME NEW u \in Sessions, wpc'[u] \in Moving
         PROVE  socks'[u][hand'[u].fd] # hand'[u].sock
    <2>1. u # s /\ wpc[u] = wpc'[u] /\ hand'[u] = hand[u]
      BY <1>2, <1>10 DEF Others, Moving
    <2>2. hand[u].fd \in Fds /\ hand[u].sock \in Conns
      BY <1>10, <2>1 DEF Base, Busied, Moving, Idle
    <2>3. socks[u][hand[u].fd] # hand[u].sock
      BY <1>10, <2>1 DEF OneClaim, Moving
    <2>4. hand[u].sock # c
      <3>1. SUFFICES ASSUME hand[u].sock = c PROVE FALSE
        OBVIOUS
      <3>2. Claims(u, c)
        BY <1>10, <2>1, <3>1 DEF Claims, Moves, Moving
      <3> QED
        BY <1>5, <2>1, <3>2 DEF OneClaim
    <2>5. PICK g \in Fds : g = hand[u].fd
      BY <2>2
    <2>6. socks'[u][g] \in {socks[u][g], c}
      BY <1>4
    <2> QED
      BY <2>1, <2>3, <2>4, <2>5, <2>6
  <1> QED
    BY <1>9, <1>10 DEF OneClaim, Moving

\* The steps of a worker.
LEMMA WorkerClaims ==
    ASSUME Base, NumberFixed, OneClaim, NEW s \in Sessions, Worker(s)
    PROVE  OneClaim'
  <1>1. ASSUME NEW fd \in Fds, NEW c \in Conns, Take(s, fd, c) PROVE OneClaim'
    <2>1. /\ socks' = socks /\ Others(s) /\ wpc[s] \in Idle
          /\ \/ hand' = hand /\ wpc'[s] = "batch"
             \/ /\ wpc'[s] = "found"
                /\ hand'[s].sock = socks[s][fd]
      BY <1>1, TakeDoes
    <2>2. \A k \in Conns : Moves(s, k)' => Claims(s, k)
      BY <2>1 DEF Moves, Claims
    <2>3. wpc'[s] \notin Moving
      BY <2>1 DEF Moving
    <2>4. \A t \in Sessions, g \in Fds : socks'[t][g] \in {socks[t][g], None}
      BY <2>1
    <2> QED
      BY <2>1, <2>2, <2>3, <2>4, LessClaimed
  <1>2. CASE JoinSame(s) \/ JoinRefuse(s) \/ Submitted(s)
    <2>1. UNCHANGED <<socks, hand>> /\ \E label \in {"rearm", "wait"} : Goto(s, label)
      BY <1>2 DEF JoinSame, JoinRefuse, Submitted
    <2>2. PICK label \in {"rearm", "wait"} : Goto(s, label)
      BY <2>1
    <2>3. /\ wpc'[s] = label
          /\ \A t \in Sessions : t # s => wpc'[t] = wpc[t]
      BY <2>2, Arrived DEF Base, Places
    <2>4. Others(s) /\ wpc'[s] \notin Moving /\ \A k \in Conns : ~Moves(s, k)'
      BY <2>1, <2>3 DEF Others, Moving, Moves
    <2>5. \A t \in Sessions, g \in Fds : socks'[t][g] \in {socks[t][g], None}
      BY <2>1
    <2> QED
      BY <2>4, <2>5, LessClaimed
  <1>3. CASE Remove(s)
    <2>1. /\ hand' = hand /\ wpc[s] = "found" /\ wpc'[s] = "removed" /\ Others(s)
          /\ hand[s].fd \in Fds /\ hand[s].sock \in Conns
          /\ socks'[s][hand[s].fd] = None
          /\ \A t \in Sessions, g \in Fds :
                t # s \/ g # hand[s].fd => socks'[t][g] = socks[t][g]
      BY <1>3, RemoveDoes
    <2>2. \A t \in Sessions, g \in Fds : socks'[t][g] \in {socks[t][g], None}
      BY <2>1
    <2>3. \A k \in Conns : Moves(s, k)' => Claims(s, k)
      BY <2>1 DEF Moves, Claims
    <2>4. socks'[s][hand'[s].fd] # hand'[s].sock
      BY <2>1, NoneAssumption
    <2> QED
      BY <2>1, <2>2, <2>3, <2>4, LessClaimed
  <1>4. CASE Unmap(s) \/ DropTemporary(s)
    <2>1. /\ hand' = hand /\ wpc[s] \in Moving /\ Others(s)
          /\ hand[s].fd \in Fds /\ hand[s].sock \in Conns
      <3>1. CASE Unmap(s)
        BY <3>1, UnmapDoes DEF Moving
      <3>2. CASE DropTemporary(s)
        BY <3>2, TempDoes DEF Moving
      <3> QED
        BY <1>4, <3>1, <3>2
    <2>2. \A t \in Sessions, g \in Fds : socks'[t][g] \in {socks[t][g], None}
      <3>1. CASE Unmap(s)
        <4>1. CASE socks' = socks
          BY <4>1
        <4>2. CASE \E m \in Sessions :
                      /\ socks'[m][hand[s].fd] = None
                      /\ \A t \in Sessions, g \in Fds :
                            t # m \/ g # hand[s].fd => socks'[t][g] = socks[t][g]
          BY <4>2
        <4> QED
          BY <3>1, <4>1, <4>2, UnmapDoes
      <3>2. CASE DropTemporary(s)
        BY <3>2, TempDoes
      <3> QED
        BY <1>4, <3>1, <3>2
    <2>3. Moves(s, hand[s].sock)
      BY <2>1 DEF Moves, Moving
    <2>4. \A k \in Conns : Moves(s, k)' => Claims(s, k)
      BY <2>1, <2>3 DEF Moves, Claims
    <2>5. socks[s][hand[s].fd] # hand[s].sock
      BY <2>1 DEF OneClaim, Moving
    <2>6. socks'[s][hand'[s].fd] # hand'[s].sock
      BY <2>1, <2>2, <2>5, NoneAssumption
    <2> QED
      BY <2>1, <2>2, <2>4, <2>6, LessClaimed
  <1>5. CASE JoinAdd(s)
    BY <1>5, AddClaims
  <1>6. CASE Rearm(s) \/ Close(s)
    <2>1. PICK fd \in Fds : hand[s].fd = fd
      BY <1>6 DEF Rearm, Close, At, Base, Busied, Idle
    <2>2. socks' = socks /\ wpc'[s] = "batch" /\ Others(s)
      BY <1>6, <2>1, LetGoDoes
    <2>3. wpc'[s] \notin Moving /\ \A k \in Conns : ~Moves(s, k)'
      BY <2>2 DEF Moving, Moves
    <2>4. \A t \in Sessions, g \in Fds : socks'[t][g] \in {socks[t][g], None}
      BY <2>2
    <2> QED
      BY <2>2, <2>3, <2>4, LessClaimed
  <1>7. CASE Submit(s)
    <2>1. UNCHANGED <<socks, workVars>>
      BY <1>7, SubmitDoes
    <2> QED
      BY <2>1 DEF OneClaim, Claims, Moves, workVars
  <1> QED
    BY <1>1, <1>2, <1>3, <1>4, <1>5, <1>6, <1>7 DEF Worker

\* The listener gives a session a Socket that nobody has had.
LEMMA AssignClaims ==
    ASSUME Base, QueueOrder, OneClaim, NEW s \in Sessions, NEW fd \in Fds, NEW c \in Conns,
           Head(accepted).fd = fd, Head(accepted).c = c, Assign(s)
    PROVE  OneClaim'
  <1>1. /\ UNCHANGED workVars /\ accepted # <<>> /\ accepted' = Tail(accepted)
        /\ socks'[s][fd] = c
        /\ \A t \in Sessions, g \in Fds : t # s \/ g # fd => socks'[t][g] = socks[t][g]
    BY AssignDoes
  <1>2. Queued(fd, c)
    BY <1>1, QueueTail DEF Base, Queued
  <1>3. \A t \in Sessions, g \in Fds : ~Held(t, g, c)
    BY <1>2 DEF QueueOrder
  <1>4. \A t \in Sessions : ~Claims(t, c)
    <2>1. ASSUME NEW t \in Sessions, Moves(t, c) PROVE FALSE
      <3>1. hand[t].fd \in Fds /\ hand[t].sock = c
        BY <2>1 DEF Moves, Base, Busied, Idle
      <3> QED
        BY <1>3, <3>1 DEF Held
    <2> QED
      BY <1>3, <2>1 DEF Claims, Held
  <1>5. ASSUME NEW t \in Sessions, NEW k \in Conns, Claims(t, k)'
        PROVE  Claims(t, k) \/ (t = s /\ k = c)
    <2>1. CASE Moves(t, k)'
      BY <1>1, <2>1 DEF workVars, Claims, Moves
    <2>2. CASE \E g \in Fds : socks'[t][g] = k
      <3>1. PICK g \in Fds : socks'[t][g] = k
        BY <2>2
      <3>2. CASE t = s /\ g = fd
        BY <1>1, <3>1, <3>2
      <3>3. CASE ~(t = s /\ g = fd)
        BY <1>1, <3>1, <3>3 DEF Claims
      <3> QED
        BY <3>2, <3>3
    <2> QED
      BY <1>5, <2>1, <2>2 DEF Claims
  <1>6. ASSUME NEW k \in Conns, NEW u \in Sessions, NEW v \in Sessions,
               Claims(u, k)', Claims(v, k)'
        PROVE  u = v
    <2>1. CASE k = c
      BY <1>4, <1>5, <1>6, <2>1
    <2>2. CASE k # c
      BY <1>5, <1>6, <2>2 DEF OneClaim
    <2> QED
      BY <2>1, <2>2
  <1>7. ASSUME NEW u \in Sessions, wpc'[u] \in Moving
        PROVE  socks'[u][hand'[u].fd] # hand'[u].sock
    <2>1. wpc[u] = wpc'[u] /\ hand'[u] = hand[u]
      BY <1>1 DEF workVars
    <2>2. hand[u].fd \in Fds
      BY <1>7, <2>1 DEF Base, Busied, Moving, Idle
    <2>3. socks[u][hand[u].fd] # hand[u].sock
      BY <1>7, <2>1 DEF OneClaim, Moving
    <2>4. hand[u].sock # c
      BY <1>3, <2>2 DEF Held
    <2>5. PICK g \in Fds : g = hand[u].fd
      BY <2>2
    <2>6. socks'[u][g] \in {socks[u][g], c}
      BY <1>1
    <2> QED
      BY <2>1, <2>3, <2>4, <2>5, <2>6
  <1> QED
    BY <1>6, <1>7 DEF OneClaim, Moving

-----------------------------------------------------------------------------
(* Moved Sockets, and the Sockets of open connections. *)

\* The connection of the Socket in a worker's hand has no other number, and the
\* listener has been there.
LEMMA OnlyNumber ==
    ASSUME NumberFixed, QueueOrder, NEW s \in Sessions, NEW fd \in Fds, NEW c \in Conns,
           hand[s].fd = fd, hand[s].sock = c
    PROVE  \A g \in Fds : fdTable[g] = c => g = fd /\ ~Queued(g, c)
  <1>1. Held(s, fd, c)
    BY DEF Held
  <1> QED
    BY <1>1 DEF NumberFixed, Uses, QueueOrder

\* No number is opened, and whoever has parted with a number before is there
\* yet, or finds it closed.
LEMMA GoneKept ==
    ASSUME Base, Gone, NEW s \in Sessions, Others(s),
           \A g \in Fds : fdTable'[g] \in {fdTable[g], None},
           Parted(s)' => /\ hand'[s] = hand[s] /\ hand[s].sock \in Conns
                         /\ Parted(s) \/ \A g \in Fds : fdTable'[g] # hand[s].sock
    PROVE  Gone'
  <1>1. ASSUME NEW t \in Sessions, NEW g \in Fds, Parted(t)'
        PROVE  fdTable'[g] # hand'[t].sock
    <2>1. CASE t = s
      BY <1>1, <2>1, NoneAssumption DEF Gone
    <2>2. CASE t # s
      <3>1. hand'[t] = hand[t] /\ wpc'[t] = wpc[t]
        BY <2>2 DEF Others
      <3>2. Parted(t) /\ hand[t].sock \in Conns
        BY <1>1, <3>1 DEF Parted, Base, Busied, Idle
      <3> QED
        BY <3>1, <3>2, NoneAssumption DEF Gone
    <2> QED
      BY <2>1, <2>2
  <1> QED
    BY <1>1 DEF Gone

\* A move unmaps the number, which closes it, before the Socket is added.
LEMMA WorkerGone ==
    ASSUME Base, NumberFixed, QueueOrder, Gone, Home, Shrinks,
           NEW s \in Sessions, Worker(s)
    PROVE  Gone'
  <1>0. \A g \in Fds : fdTable'[g] \in {fdTable[g], None}
    BY DEF Shrinks
  <1>1. ASSUME NEW fd \in Fds, NEW c \in Conns, Take(s, fd, c) PROVE Gone'
    <2>1. Others(s) /\ wpc'[s] \in {"batch", "found"}
      BY <1>1, TakeDoes
    <2>2. ~Parted(s)'
      BY <2>1 DEF Parted
    <2> QED
      BY <1>0, <2>1, <2>2, GoneKept
  <1>2. CASE JoinSame(s) \/ JoinRefuse(s) \/ Submitted(s)
    <2>1. UNCHANGED hand
      BY <1>2 DEF JoinSame, JoinRefuse, Submitted
    <2>2. \/ Goto(s, "wait")
          \/ Goto(s, "rearm") /\ hand[s].goal \in {s, Unknown}
      BY <1>2 DEF JoinSame, JoinRefuse, Submitted
    <2>3. PICK label \in {"rearm", "wait"} : Goto(s, label)
      BY <2>2
    <2>4. /\ wpc'[s] = label
          /\ \A t \in Sessions : t # s => wpc'[t] = wpc[t]
      BY <2>3, Arrived DEF Base, Places
    <2>5. wpc'[s] = "wait" \/ (wpc'[s] = "rearm" /\ hand[s].goal \in {s, Unknown})
      <3>1. CASE Goto(s, "wait")
        BY <3>1, Arrived DEF Base, Places
      <3>2. CASE Goto(s, "rearm") /\ hand[s].goal \in {s, Unknown}
        BY <3>2, Arrived DEF Base, Places
      <3> QED
        BY <2>2, <3>1, <3>2
    <2>6. Others(s) /\ ~Parted(s)'
      BY <2>1, <2>4, <2>5 DEF Others, Parted, Unknown
    <2> QED
      BY <1>0, <2>6, GoneKept
  <1>3. CASE Remove(s)
    <2>1. Others(s) /\ wpc'[s] = "removed"
      BY <1>3, RemoveDoes
    <2>2. ~Parted(s)'
      BY <2>1 DEF Parted
    <2> QED
      BY <1>0, <2>1, <2>2, GoneKept
  <1>4. CASE Unmap(s) \/ DropTemporary(s)
    <2>1. /\ hand' = hand /\ Others(s)
          /\ hand[s].fd \in Fds /\ hand[s].sock \in Conns
      <3>1. CASE Unmap(s)
        BY <3>1, UnmapDoes
      <3>2. CASE DropTemporary(s)
        BY <3>2, TempDoes
      <3> QED
        BY <1>4, <3>1, <3>2
    <2>2. PICK fd \in Fds, c \in Conns : hand[s].fd = fd /\ hand[s].sock = c
      BY <2>1
    <2>3. \A g \in Fds : fdTable[g] = c => g = fd /\ ~Queued(g, c)
      BY <2>2, OnlyNumber
    <2>4. \/ wpc'[s] = "temp"
          \/ mapped[fd] = None /\ fdTable' = fdTable
          \/ fdTable'[fd] = None
      <3>1. CASE Unmap(s)
        BY <2>2, <3>1, UnmapDoes
      <3>2. CASE DropTemporary(s)
        BY <2>2, <3>2, TempDoes
      <3> QED
        BY <1>4, <3>1, <3>2
    <2>5. CASE wpc'[s] = "temp"
      <3>1. ~Parted(s)'
        BY <2>5 DEF Parted
      <3> QED
        BY <1>0, <2>1, <3>1, GoneKept
    <2>6. CASE (mapped[fd] = None /\ fdTable' = fdTable) \/ fdTable'[fd] = None
      <3>1. ASSUME NEW g \in Fds, fdTable'[g] = c PROVE FALSE
        <4>1. fdTable[g] = c /\ c # None
          BY <1>0, <3>1, NoneAssumption
        <4>2. g = fd /\ ~Queued(fd, c)
          BY <2>3, <4>1
        <4>3. mapped[fd] # None
          BY <4>1, <4>2 DEF Home, AtHome
        <4> QED
          BY <2>6, <3>1, <4>1, <4>2, <4>3
      <3>2. \A g \in Fds : fdTable'[g] # hand[s].sock
        BY <2>2, <3>1
      <3> QED
        BY <1>0, <2>1, <3>2, GoneKept
    <2> QED
      BY <2>4, <2>5, <2>6
  <1>5. CASE JoinAdd(s)
    <2>1. PICK fd \in Fds : hand[s].fd = fd
      BY <1>5 DEF JoinAdd, At, Base, Busied, Idle
    <2>2. hand' = hand /\ Others(s) /\ wpc[s] = "add" /\ hand[s].sock \in Conns
      BY <1>5, <2>1, AddDoes
    <2>3. Parted(s)
      BY <2>2 DEF Parted
    <2> QED
      BY <1>0, <2>2, <2>3, GoneKept
  <1>6. CASE Rearm(s) \/ Close(s)
    <2>1. PICK fd \in Fds : hand[s].fd = fd
      BY <1>6 DEF Rearm, Close, At, Base, Busied, Idle
    <2>2. Others(s) /\ wpc'[s] = "batch"
      BY <1>6, <2>1, LetGoDoes
    <2>3. ~Parted(s)'
      BY <2>2 DEF Parted
    <2> QED
      BY <1>0, <2>2, <2>3, GoneKept
  <1>7. CASE Submit(s)
    <2>1. UNCHANGED workVars
      BY <1>7, SubmitDoes
    <2>2. Others(s) /\ (Parted(s)' => Parted(s) /\ hand'[s] = hand[s])
      BY <2>1 DEF Others, Parted, workVars
    <2>3. Parted(s) => hand[s].sock \in Conns
      BY DEF Parted, Base, Busied, Idle
    <2> QED
      BY <1>0, <2>2, <2>3, GoneKept
  <1> QED
    BY <1>1, <1>2, <1>3, <1>4, <1>5, <1>6, <1>7 DEF Worker

\* Nobody gets the Socket, and it is where it was or owned somewhere.
Stays(g, k) ==
    /\ mapped'[g] = mapped[g]
    /\ \A u \in Sessions : Held(u, g, k)' => Held(u, g, k)
    /\ \A m \in Sessions : mapped[g] = m /\ Held(m, g, k) => Held(m, g, k)' \/ Owned(g, k)

\* The Socket of an open connection that has an owner has it at home.
LEMMA HomeKept ==
    ASSUME TypeOK, Base', NumberFixed', Home, Shrinks,
           \A g \in Fds, k \in Conns :
              fdTable[g] = k /\ fdTable'[g] = k /\ AtHome(g, k) => Stays(g, k)
    PROVE  Home'
  <1>1. ASSUME NEW g \in Fds, NEW k \in Conns, fdTable'[g] = k
        PROVE  Queued(g, k)' \/ AtHome(g, k)'
    <2>1. fdTable[g] = k
      BY <1>1, NoneAssumption DEF Shrinks
    <2>2. CASE Queued(g, k)
      BY <2>2 DEF Queued, Shrinks
    <2>3. CASE AtHome(g, k)
      <3>1. PICK m \in Sessions : m = mapped[g] /\ Held(m, g, k)
        BY <2>3 DEF AtHome, TypeOK
      <3>2. Stays(g, k)
        BY <1>1, <2>1, <2>3
      <3>3. mapped'[g] = m
        BY <3>1, <3>2 DEF Stays
      <3>4. \A u \in Sessions \ {m} : ~Held(u, g, k)'
        BY <2>3, <3>1, <3>2 DEF Stays, AtHome
      <3>5. ASSUME Owned(g, k) PROVE Held(m, g, k)'
        <4>1. PICK t \in Sessions : socks'[t][g] = k \/ hand'[t].sock = k
          BY <3>5 DEF Owned
        <4>2. Held(t, g, k)'
          <5>1. CASE socks'[t][g] = k
            BY <5>1 DEF Held
          <5>2. CASE hand'[t].sock = k
            <6>1. wpc'[t] \notin Idle
              BY <5>2, NoneAssumption DEF Base, Busied, EmptyHand
            <6>2. PICK h \in Fds : h = hand'[t].fd
              BY <6>1 DEF Base, Busied
            <6>3. Held(t, h, k)'
              BY <5>2, <6>2 DEF Held
            <6>4. Uses(h, k)' /\ Uses(g, k)'
              BY <1>1, <6>3 DEF Uses
            <6>5. h = g
              BY <6>4 DEF NumberFixed
            <6> QED
              BY <6>3, <6>5
          <5> QED
            BY <4>1, <5>1, <5>2
        <4> QED
          BY <3>4, <4>2
      <3>6. Held(m, g, k)'
        BY <3>1, <3>2, <3>5 DEF Stays
      <3>7. m # None
        BY NoneAssumption
      <3> QED
        BY <3>3, <3>4, <3>6, <3>7 DEF AtHome, Held
    <2> QED
      BY <2>1, <2>2, <2>3 DEF Home
  <1> QED
    BY <1>1 DEF Home

\* The steps of a worker.
LEMMA WorkerHome ==
    ASSUME Base, Base', NumberFixed', Gone, Home, Shrinks, NEW s \in Sessions, Worker(s)
    PROVE  Home'
  <1>0. TypeOK
    BY DEF Base
  <1>1. ASSUME NEW fd \in Fds, NEW c \in Conns, Take(s, fd, c) PROVE Home'
    <2>1. /\ UNCHANGED <<socks, mapped>> /\ Others(s) /\ wpc[s] \in Idle
          /\ \/ hand' = hand
             \/ hand'[s].fd = fd /\ hand'[s].sock = socks[s][fd]
      BY <1>1, TakeDoes
    <2>2. hand[s].fd = None
      BY <2>1 DEF Base, Busied, EmptyHand
    <2>3. ASSUME NEW g \in Fds, NEW k \in Conns PROVE Stays(g, k)
      <3>1. \A u \in Sessions : Held(u, g, k)' => Held(u, g, k)
        BY <2>1 DEF Held, Others
      <3>2. \A m \in Sessions : Held(m, g, k) => Held(m, g, k)'
        BY <2>1, <2>2, NoneAssumption DEF Held, Others
      <3> QED
        BY <2>1, <3>1, <3>2 DEF Stays
    <2> QED
      BY <1>0, <2>3, HomeKept
  <1>2. CASE JoinSame(s) \/ JoinRefuse(s) \/ Submitted(s) \/ Submit(s)
    <2>1. UNCHANGED <<socks, mapped, hand>>
      <3>1. CASE Submit(s)
        BY <3>1, SubmitDoes DEF workVars
      <3> QED
        BY <1>2, <3>1 DEF JoinSame, JoinRefuse, Submitted
    <2>2. \A g \in Fds, k \in Conns : Stays(g, k)
      BY <2>1 DEF Stays, Held
    <2> QED
      BY <1>0, <2>2, HomeKept
  <1>3. CASE Remove(s)
    <2>1. PICK fd \in Fds : hand[s].fd = fd
      BY <1>3, RemoveDoes
    <2>2. /\ UNCHANGED <<mapped, hand>> /\ socks'[s][fd] = None
          /\ \A t \in Sessions, g \in Fds : t # s \/ g # fd => socks'[t][g] = socks[t][g]
          /\ \/ fdTable'[fd] = None
             \/ socks[s][fd] = None
             \/ Owned(fd, socks[s][fd])
      BY <1>3, <2>1, RemoveDoes
    <2>3. ASSUME NEW g \in Fds, NEW k \in Conns, fdTable'[g] = k PROVE Stays(g, k)
      <3>1. \A u \in Sessions : Held(u, g, k)' => Held(u, g, k)
        BY <2>2, NoneAssumption DEF Held
      <3>2. ASSUME NEW m \in Sessions, Held(m, g, k) PROVE Held(m, g, k)' \/ Owned(g, k)
        <4>1. CASE m # s \/ g # fd \/ socks[s][fd] # k
          BY <2>2, <3>2, <4>1 DEF Held
        <4>2. CASE m = s /\ g = fd /\ socks[s][fd] = k
          BY <2>2, <2>3, <4>2, NoneAssumption
        <4> QED
          BY <4>1, <4>2
      <3> QED
        BY <2>2, <3>1, <3>2 DEF Stays
    <2> QED
      BY <1>0, <2>3, HomeKept
  <1>4. CASE Unmap(s)
    <2>1. PICK fd \in Fds : hand[s].fd = fd
      BY <1>4, UnmapDoes
    <2>2. hand' = hand
      BY <1>4, UnmapDoes
    <2>3. CASE UNCHANGED <<mapped, socks>>
      <3>1. \A g \in Fds, k \in Conns : Stays(g, k)
        BY <2>2, <2>3 DEF Stays, Held
      <3> QED
        BY <1>0, <3>1, HomeKept
    <2>4. CASE /\ fdTable'[fd] = None /\ UNCHANGED socks
               /\ \A g \in Fds : g # fd => mapped'[g] = mapped[g]
      <3>1. ASSUME NEW g \in Fds, NEW k \in Conns, fdTable'[g] = k PROVE Stays(g, k)
        <4>1. g # fd
          BY <2>4, <3>1, NoneAssumption
        <4> QED
          BY <2>2, <2>4, <4>1 DEF Stays, Held
      <3> QED
        BY <1>0, <3>1, HomeKept
    <2>5. ASSUME NEW n \in Sessions, mapped[fd] = n, UNCHANGED mapped,
                 socks'[n][fd] = None,
                 \A t \in Sessions, g \in Fds : t # n \/ g # fd => socks'[t][g] = socks[t][g],
                 fdTable'[fd] = None \/ Owned(fd, socks[n][fd])
          PROVE  Home'
      <3>1. ASSUME NEW g \in Fds, NEW k \in Conns, fdTable'[g] = k PROVE Stays(g, k)
        <4>1. \A u \in Sessions : Held(u, g, k)' => Held(u, g, k)
          BY <2>2, <2>5, NoneAssumption DEF Held
        <4>2. ASSUME NEW m \in Sessions, Held(m, g, k) PROVE Held(m, g, k)' \/ Owned(g, k)
          <5>1. CASE m # n \/ g # fd \/ socks[n][fd] # k
            BY <2>2, <2>5, <4>2, <5>1 DEF Held
          <5>2. CASE m = n /\ g = fd /\ socks[n][fd] = k
            BY <2>5, <3>1, <5>2, NoneAssumption
          <5> QED
            BY <5>1, <5>2
        <4> QED
          BY <2>5, <4>1, <4>2 DEF Stays
      <3> QED
        BY <1>0, <3>1, HomeKept
    <2> QED
      BY <1>4, <2>1, <2>3, <2>4, <2>5, UnmapDoes
  <1>5. CASE DropTemporary(s)
    <2>1. PICK fd \in Fds : hand[s].fd = fd
      BY <1>5, TempDoes
    <2>2. /\ fdTable'[fd] = None /\ UNCHANGED <<socks, hand>>
          /\ \A g \in Fds : g # fd => mapped'[g] = mapped[g]
      BY <1>5, <2>1, TempDoes
    <2>3. ASSUME NEW g \in Fds, NEW k \in Conns, fdTable'[g] = k PROVE Stays(g, k)
      <3>1. g # fd
        BY <2>2, <2>3, NoneAssumption
      <3> QED
        BY <2>2, <3>1 DEF Stays, Held
    <2> QED
      BY <1>0, <2>3, HomeKept
  <1>6. CASE JoinAdd(s)
    <2>1. PICK fd \in Fds : hand[s].fd = fd
      BY <1>6 DEF JoinAdd, At, Base, Busied, Idle
    <2>2. PICK n \in Sessions, c \in Conns : n = hand[s].goal /\ c = hand[s].sock
      BY <1>6, <2>1, AddDoes
    <2>3. /\ UNCHANGED <<mapped, hand>> /\ wpc[s] = "add" /\ socks'[n][fd] = c
          /\ \A t \in Sessions, g \in Fds : t # n \/ g # fd => socks'[t][g] = socks[t][g]
          /\ fdTable'[fd] = None \/ socks[n][fd] = None \/ Owned(fd, socks[n][fd])
      BY <1>6, <2>1, <2>2, AddDoes
    <2>4. \A g \in Fds : fdTable[g] # c
      BY <2>2, <2>3 DEF Gone, Parted
    <2>5. ASSUME NEW g \in Fds, NEW k \in Conns, fdTable[g] = k, fdTable'[g] = k
          PROVE  Stays(g, k)
      <3>1. k # c
        BY <2>4, <2>5
      <3>2. \A u \in Sessions : Held(u, g, k)' => Held(u, g, k)
        BY <2>3, <3>1 DEF Held
      <3>3. ASSUME NEW m \in Sessions, Held(m, g, k) PROVE Held(m, g, k)' \/ Owned(g, k)
        <4>1. CASE m # n \/ g # fd \/ socks[n][fd] # k
          BY <2>3, <3>3, <4>1 DEF Held
        <4>2. CASE m = n /\ g = fd /\ socks[n][fd] = k
          BY <2>3, <2>5, <4>2, NoneAssumption
        <4> QED
          BY <4>1, <4>2
      <3> QED
        BY <2>3, <3>2, <3>3 DEF Stays
    <2> QED
      BY <1>0, <2>5, HomeKept
  <1>7. CASE Rearm(s) \/ Close(s)
    <2>1. PICK fd \in Fds : hand[s].fd = fd
      BY <1>7 DEF Rearm, Close, At, Base, Busied, Idle
    <2>2. PICK c \in Conns : c = hand[s].sock
      BY <1>7, <2>1, LetGoDoes
    <2>3. /\ UNCHANGED <<socks, mapped>> /\ Others(s) /\ hand'[s] = EmptyHand
          /\ fdTable'[fd] = None \/ Owned(fd, c)
      BY <1>7, <2>1, <2>2, LetGoDoes
    <2>4. ASSUME NEW g \in Fds, NEW k \in Conns, fdTable'[g] = k PROVE Stays(g, k)
      <3>1. \A u \in Sessions : Held(u, g, k)' => Held(u, g, k)
        BY <2>3, NoneAssumption DEF Held, Others, EmptyHand
      <3>2. ASSUME NEW m \in Sessions, Held(m, g, k) PROVE Held(m, g, k)' \/ Owned(g, k)
        <4>1. CASE m # s \/ socks[m][g] = k
          BY <2>3, <3>2, <4>1 DEF Held, Others
        <4>2. CASE m = s /\ socks[m][g] # k
          <5>1. g = fd /\ k = c
            BY <2>1, <2>2, <3>2, <4>2 DEF Held
          <5> QED
            BY <2>3, <2>4, <5>1, NoneAssumption
        <4> QED
          BY <4>1, <4>2
      <3> QED
        BY <2>3, <3>1, <3>2 DEF Stays
    <2> QED
      BY <1>0, <2>4, HomeKept
  <1> QED
    BY <1>1, <1>2, <1>3, <1>4, <1>5, <1>6, <1>7 DEF Worker

\* The listener gives a Socket a session, or drops what was closed; the entry
\* behind it is for the connection that has the number now.
LEMMA ListenerHome ==
    ASSUME Base, QueueOrder, Home, DropAccepted \/ \E s \in Sessions : Assign(s)
    PROVE  Home'
  <1>0. accepted # <<>> /\ accepted' = Tail(accepted) /\ TypeOK
    BY DEF DropAccepted, Assign, Base
  <1>1. /\ Head(accepted) \in Arrivals /\ Head(accepted) = accepted[1]
        /\ 1 \in DOMAIN accepted /\ DOMAIN accepted \subseteq Nat
        /\ \A i \in DOMAIN accepted :
              i # 1 => i - 1 \in DOMAIN accepted' /\ accepted'[i - 1] = accepted[i]
    BY <1>0, QueueTail
  <1>2. PICK fd \in Fds, c \in Conns : Head(accepted).fd = fd /\ Head(accepted).c = c
    BY <1>1 DEF Arrivals
  <1>3. ASSUME NEW g \in Fds, NEW k \in Conns, Queued(g, k), g # fd \/ k # c
        PROVE  Queued(g, k)'
    <2>1. PICK i \in DOMAIN accepted : accepted[i].fd = g /\ accepted[i].c = k
      BY <1>3 DEF Queued
    <2>2. i # 1
      BY <1>1, <1>2, <1>3, <2>1
    <2>3. i - 1 \in DOMAIN accepted' /\ accepted'[i - 1].fd = g /\ accepted'[i - 1].c = k
      BY <1>1, <2>1, <2>2
    <2> QED
      BY <2>3 DEF Queued
  <1>4. CASE DropAccepted
    <2>1. /\ UNCHANGED <<fdTable, socks, mapped, workVars>> /\ fdTable[fd] = None
      BY <1>2, <1>4 DEF DropAccepted
    <2>2. ASSUME NEW g \in Fds, NEW k \in Conns, fdTable'[g] = k
          PROVE  Queued(g, k)' \/ AtHome(g, k)'
      <3>1. fdTable[g] = k /\ g # fd
        BY <2>1, <2>2, NoneAssumption
      <3>2. CASE Queued(g, k)
        BY <1>3, <3>1, <3>2
      <3>3. CASE AtHome(g, k)
        BY <2>1, <3>3 DEF AtHome, Held, workVars
      <3> QED
        BY <3>1, <3>2, <3>3 DEF Home
    <2> QED
      BY <2>2 DEF Home
  <1>5. ASSUME NEW s \in Sessions, Assign(s) PROVE Home'
    <2>1. /\ UNCHANGED workVars /\ mapped'[fd] = s /\ fdTable[fd] # None
          /\ \A g \in Fds : g # fd => mapped'[g] = mapped[g]
          /\ socks'[s][fd] = c
          /\ \A t \in Sessions, g \in Fds : t # s \/ g # fd => socks'[t][g] = socks[t][g]
          /\ \A g \in Fds : fdTable'[g] = fdTable[g] \/ (g = fd /\ fdTable'[g] = None)
      BY <1>2, <1>5, AssignDoes
    <2>2. Queued(fd, c)
      BY <1>1, <1>2 DEF Queued
    <2>3. ASSUME NEW g \in Fds, NEW k \in Conns, fdTable'[g] = k
          PROVE  Queued(g, k)' \/ AtHome(g, k)'
      <3>1. fdTable[g] = k
        BY <2>1, <2>3, NoneAssumption
      <3>2. CASE g # fd
        <4>1. CASE Queued(g, k)
          BY <1>3, <3>2, <4>1
        <4>2. CASE AtHome(g, k)
          <5>1. /\ mapped'[g] = mapped[g]
                /\ \A t \in Sessions : socks'[t][g] = socks[t][g] /\ hand'[t] = hand[t]
            BY <2>1, <3>2 DEF workVars
          <5>2. mapped[g] \in Sessions
            BY <1>0, <4>2 DEF AtHome, TypeOK
          <5> QED
            BY <4>2, <5>1, <5>2 DEF AtHome, Held
        <4> QED
          BY <3>1, <4>1, <4>2 DEF Home
      <3>3. CASE g = fd /\ k = c
        <4>1. Held(s, fd, c)' /\ s # None
          BY <2>1, NoneAssumption DEF Held
        <4>2. \A u \in Sessions \ {s} : ~Held(u, fd, c)'
          BY <2>1, <2>2 DEF Held, QueueOrder, workVars
        <4> QED
          BY <2>1, <3>3, <4>1, <4>2 DEF AtHome, Held
      <3>4. CASE g = fd /\ k # c
        <4>1. PICK j \in DOMAIN accepted : accepted[j].fd = fd /\ accepted[j].c = k
          BY <1>1, <1>2, <2>1, <3>1, <3>4 DEF QueueOrder
        <4>2. Queued(fd, k)
          BY <4>1 DEF Queued
        <4> QED
          BY <1>3, <3>4, <4>2
      <3> QED
        BY <3>2, <3>3, <3>4
    <2> QED
      BY <2>3 DEF Home
  <1> QED
    BY <1>4, <1>5

\* The kernel's accept is the last in the queue.
LEMMA AcceptHome ==
    ASSUME Base, NumberFixed, Gone, Home, NEW c \in Conns, Accept(c)
    PROVE  Gone' /\ Home'
  <1>1. UNCHANGED <<socks, mapped, workVars>> /\ c \notin joined
    BY AcceptDoes
  <1>2. PICK fd \in Fds :
          /\ fdTable[fd] = None /\ fdTable'[fd] = c
          /\ \A g \in Fds : g # fd => fdTable'[g] = fdTable[g]
          /\ \A i \in DOMAIN accepted : i \in DOMAIN accepted' /\ accepted'[i] = accepted[i]
          /\ Len(accepted) + 1 \in DOMAIN accepted'
          /\ accepted'[Len(accepted) + 1].fd = fd
          /\ accepted'[Len(accepted) + 1].c = c
    BY AcceptDoes
  <1>3. Queued(fd, c)'
    BY <1>2 DEF Queued
  <1>4. ASSUME NEW g \in Fds, NEW k \in Conns, fdTable'[g] = k
        PROVE  Queued(g, k)' \/ AtHome(g, k)'
    <2>1. CASE g = fd
      BY <1>2, <1>3, <1>4, <2>1
    <2>2. CASE g # fd
      <3>1. Queued(g, k) \/ AtHome(g, k)
        BY <1>2, <1>4, <2>2 DEF Home
      <3>2. CASE Queued(g, k)
        BY <1>2, <3>2 DEF Queued
      <3>3. CASE AtHome(g, k)
        BY <1>1, <3>3 DEF AtHome, Held, workVars
      <3> QED
        BY <3>1, <3>2, <3>3
    <2> QED
      BY <2>1, <2>2
  <1>5. ASSUME NEW t \in Sessions, NEW g \in Fds, Parted(t)'
        PROVE  fdTable'[g] # hand'[t].sock
    <2>1. hand'[t] = hand[t] /\ Parted(t)
      BY <1>1, <1>5 DEF Parted, workVars
    <2>2. PICK h \in Fds, k \in Conns : hand[t].fd = h /\ hand[t].sock = k
      BY <2>1 DEF Parted, Base, Busied, Idle
    <2>3. k # c
      <3>1. Uses(h, k)
        BY <2>2 DEF Uses, Held
      <3> QED
        BY <1>1, <3>1 DEF NumberFixed
    <2> QED
      BY <1>2, <2>1, <2>2, <2>3 DEF Gone
  <1> QED
    BY <1>4, <1>5 DEF Home, Gone

-----------------------------------------------------------------------------
(* Who reads an open connection. *)

\* The readers of an open connection have it after the step, or others do.
LEMMA ReadKept ==
    ASSUME TypeOK, Home, Read, Shrinks,
           \A g \in Fds, k \in Conns, m \in Sessions :
              /\ fdTable[g] = k /\ fdTable'[g] = k
              /\ mapped[g] = m /\ AtHome(g, k) /\ Reads(m, g, k)
              => mapped'[g] = m /\ Reads(m, g, k)'
    PROVE  Read'
  <1>1. ASSUME NEW g \in Fds, NEW k \in Conns, fdTable'[g] = k
        PROVE  Queued(g, k)' \/ (mapped'[g] # None /\ Reads(mapped[g], g, k)')
    <2>1. fdTable[g] = k
      BY <1>1, NoneAssumption DEF Shrinks
    <2>2. CASE Queued(g, k)
      BY <2>2 DEF Queued, Shrinks
    <2>3. CASE ~Queued(g, k)
      <3>1. AtHome(g, k)
        BY <2>1, <2>3 DEF Home
      <3>2. mapped[g] # None /\ Reads(mapped[g], g, k)
        BY <2>1, <2>3 DEF Read
      <3>3. PICK m \in Sessions : m = mapped[g]
        BY <3>2 DEF TypeOK
      <3>4. mapped'[g] = m /\ Reads(m, g, k)'
        BY <1>1, <2>1, <3>1, <3>2, <3>3
      <3>5. m # None
        BY NoneAssumption
      <3> QED
        BY <3>4, <3>5 DEF Reads, Prepared, Op
    <2> QED
      BY <2>2, <2>3
  <1> QED
    BY <1>1 DEF Read

\* The steps of a worker.
LEMMA WorkerReads ==
    ASSUME Base, NumberFixed, QueueOrder, Gone, Home, Read, Shrinks,
           NEW s \in Sessions, Worker(s)
    PROVE  Read'
  <1>0. TypeOK
    BY DEF Base
  <1>1. ASSUME NEW fd \in Fds, NEW c \in Conns, Take(s, fd, c) PROVE Read'
    <2>1. /\ UNCHANGED <<socks, mapped, sq>> /\ Others(s) /\ wpc[s] \in Idle
          /\ \A t \in Sessions, g \in Fds, k \in Conns :
                t # s \/ g # fd \/ k # c => armed'[t][<<g, k>>] = armed[t][<<g, k>>]
          /\ \/ socks[s][fd] = None /\ hand' = hand
             \/ /\ socks[s][fd] # None
                /\ hand'[s].fd = fd /\ hand'[s].sock = socks[s][fd]
                /\ hand'[s].more => armed' = armed
          /\ hand' \in [Sessions -> Hands]
      BY <1>1, TakeDoes
    <2>2. hand[s].fd = None /\ hand[s].sock = None
      BY <2>1 DEF Base, Busied, EmptyHand
    <2>3. ASSUME NEW g \in Fds, NEW k \in Conns, NEW m \in Sessions,
                 mapped[g] = m, AtHome(g, k), Reads(m, g, k)
          PROVE  Reads(m, g, k)'
      <3>1. CASE Prepared(m, g)
        BY <2>1, <3>1 DEF Prepared, Reads
      <3>2. CASE hand[m].sock = k /\ ~hand[m].more
        <4>1. m # s
          BY <2>2, <3>2, NoneAssumption
        <4>2. hand'[m] = hand[m]
          BY <2>1, <4>1 DEF Others
        <4> QED
          BY <3>2, <4>2 DEF Reads
      <3>3. CASE armed[m][<<g, k>>] > 0
        <4>1. CASE m # s \/ g # fd \/ k # c
          BY <2>1, <3>3, <4>1 DEF Reads
        <4>2. CASE m = s /\ g = fd /\ k = c
          <5>1. socks[s][fd] = c
            BY <2>2, <2>3, <4>2, NoneAssumption DEF AtHome, Held
          <5>2. hand'[s].sock = c /\ (hand'[s].more => armed' = armed)
            BY <2>1, <5>1, NoneAssumption
          <5>3. CASE hand'[s].more
            <6>1. armed'[s][<<fd, c>>] > 0
              BY <3>3, <4>2, <5>2, <5>3
            <6> QED
              BY <4>2, <6>1 DEF Reads
          <5>4. CASE ~hand'[s].more
            BY <4>2, <5>2, <5>4 DEF Reads
          <5> QED
            BY <5>3, <5>4
        <4> QED
          BY <4>1, <4>2
      <3> QED
        BY <2>3, <3>1, <3>2, <3>3 DEF Reads
    <2> QED
      BY <1>0, <2>1, <2>3, ReadKept
  <1>2. ASSUME UNCHANGED <<hand, armed>>,
               \A t \in Sessions, g \in Fds : Prepared(t, g) => Prepared(t, g)',
               \A g \in Fds : mapped'[g] = mapped[g] \/ fdTable'[g] = None
        PROVE  Read'
    <2>1. ASSUME NEW g \in Fds, NEW k \in Conns, NEW m \in Sessions,
                 fdTable'[g] = k, mapped[g] = m, Reads(m, g, k)
          PROVE  mapped'[g] = m /\ Reads(m, g, k)'
      <3>1. mapped'[g] = m
        BY <1>2, <2>1, NoneAssumption
      <3>2. Reads(m, g, k)'
        BY <1>2, <2>1 DEF Reads
      <3> QED
        BY <3>1, <3>2
    <2> QED
      BY <1>0, <2>1, ReadKept
  <1>3. CASE \/ JoinSame(s) \/ JoinRefuse(s) \/ Submitted(s)
             \/ Remove(s) \/ Unmap(s) \/ DropTemporary(s)
    <2>1. UNCHANGED <<hand, ringVars>>
      BY <1>3 DEF JoinSame, JoinRefuse, Submitted, Remove, Unmap, DropTemporary
    <2>2. \A t \in Sessions, g \in Fds : Prepared(t, g) => Prepared(t, g)'
      BY <2>1 DEF Prepared, ringVars, Op
    <2>3. \A g \in Fds : mapped'[g] = mapped[g] \/ fdTable'[g] = None
      <3>1. CASE Unmap(s)
        BY <3>1, UnmapDoes
      <3>2. CASE DropTemporary(s)
        BY <3>2, TempDoes
      <3> QED
        BY <1>3, <3>1, <3>2 DEF JoinSame, JoinRefuse, Submitted, Remove
    <2> QED
      BY <1>2, <2>1, <2>2, <2>3 DEF ringVars
  <1>4. CASE JoinAdd(s)
    <2>1. PICK fd \in Fds : hand[s].fd = fd
      BY <1>4 DEF JoinAdd, At, Base, Busied, Idle
    <2> QED
      BY <1>2, <1>4, <2>1, AddDoes
  <1>5. CASE Rearm(s) \/ Close(s)
    <2>1. PICK fd \in Fds : hand[s].fd = fd
      BY <1>5 DEF Rearm, Close, At, Base, Busied, Idle
    <2>2. PICK c \in Conns : c = hand[s].sock
      BY <1>5, <2>1, LetGoDoes
    <2>3. /\ UNCHANGED <<mapped, armed>> /\ Others(s)
          /\ wpc[s] = "close" \/ (wpc[s] = "rearm" /\ (~hand[s].more => Prepared(s, fd)'))
          /\ \A t \in Sessions, g \in Fds : Prepared(t, g) => Prepared(t, g)'
      BY <1>5, <2>1, LetGoDoes
    <2>4. ASSUME NEW g \in Fds, NEW k \in Conns, NEW m \in Sessions,
                 fdTable[g] = k, Reads(m, g, k)
          PROVE  Reads(m, g, k)'
      <3>1. CASE Prepared(m, g)
        BY <2>3, <3>1 DEF Reads
      <3>2. CASE armed[m][<<g, k>>] > 0
        BY <2>3, <3>2 DEF Reads
      <3>3. CASE hand[m].sock = k /\ ~hand[m].more /\ m # s
        <4>1. hand'[m] = hand[m]
          BY <2>3, <3>3 DEF Others
        <4> QED
          BY <3>3, <4>1 DEF Reads
      <3>4. CASE hand[m].sock = k /\ ~hand[m].more /\ m = s
        <4>1. k = c /\ g = fd
          BY <2>1, <2>2, <2>4, <3>4, OnlyNumber
        <4>2. wpc[s] # "close"
          BY <2>2, <2>4, <4>1 DEF Gone, Parted
        <4>3. Prepared(s, fd)'
          BY <2>3, <3>4, <4>2
        <4> QED
          BY <3>4, <4>1, <4>3 DEF Reads
      <3> QED
        BY <2>4, <3>1, <3>2, <3>3, <3>4 DEF Reads
    <2> QED
      BY <1>0, <2>3, <2>4, ReadKept
  <1>6. CASE Submit(s)
    <2>1. /\ UNCHANGED <<mapped, workVars>>
          /\ \A t \in Sessions, g \in Fds, k \in Conns :
                armed[t][<<g, k>>] > 0 => armed'[t][<<g, k>>] > 0
          /\ \A t \in Sessions, g \in Fds :
                Prepared(t, g) =>
                   \/ Prepared(t, g)'
                   \/ t = s /\ \A k \in Conns : fdTable[g] = k => armed'[s][<<g, k>>] > 0
      BY <1>6, SubmitDoes
    <2>2. ASSUME NEW g \in Fds, NEW k \in Conns, NEW m \in Sessions,
                 fdTable[g] = k, Reads(m, g, k)
          PROVE  Reads(m, g, k)'
      <3>1. CASE Prepared(m, g)
        <4>1. Prepared(m, g)' \/ armed'[m][<<g, k>>] > 0
          BY <2>1, <2>2, <3>1
        <4> QED
          BY <4>1 DEF Reads
      <3>2. CASE armed[m][<<g, k>>] > 0
        BY <2>1, <3>2 DEF Reads
      <3>3. CASE hand[m].sock = k /\ ~hand[m].more
        BY <2>1, <3>3 DEF Reads, workVars
      <3> QED
        BY <2>2, <3>1, <3>2, <3>3 DEF Reads
    <2> QED
      BY <1>0, <2>1, <2>2, ReadKept
  <1> QED
    BY <1>1, <1>3, <1>4, <1>5, <1>6 DEF Worker

\* The listener prepares a read with the assignment.
LEMMA ListenerReads ==
    ASSUME Base, QueueOrder, Read, DropAccepted \/ \E s \in Sessions : Assign(s)
    PROVE  Read'
  <1>0. accepted # <<>> /\ accepted' = Tail(accepted) /\ TypeOK
    BY DEF DropAccepted, Assign, Base
  <1>1. /\ Head(accepted) \in Arrivals /\ Head(accepted) = accepted[1]
        /\ 1 \in DOMAIN accepted /\ DOMAIN accepted \subseteq Nat
        /\ \A i \in DOMAIN accepted :
              i # 1 => i - 1 \in DOMAIN accepted' /\ accepted'[i - 1] = accepted[i]
    BY <1>0, QueueTail
  <1>2. PICK fd \in Fds, c \in Conns : Head(accepted).fd = fd /\ Head(accepted).c = c
    BY <1>1 DEF Arrivals
  <1>3. ASSUME NEW g \in Fds, NEW k \in Conns, Queued(g, k), g # fd
        PROVE  Queued(g, k)'
    <2>1. PICK i \in DOMAIN accepted : accepted[i].fd = g /\ accepted[i].c = k
      BY <1>3 DEF Queued
    <2>2. i # 1
      BY <1>1, <1>2, <1>3, <2>1
    <2>3. i - 1 \in DOMAIN accepted' /\ accepted'[i - 1].fd = g /\ accepted'[i - 1].c = k
      BY <1>1, <2>1, <2>2
    <2> QED
      BY <2>3 DEF Queued
  <1>4. CASE DropAccepted
    <2>1. UNCHANGED <<fdTable, mapped, ringVars, workVars>> /\ fdTable[fd] = None
      BY <1>2, <1>4 DEF DropAccepted
    <2>2. ASSUME NEW g \in Fds, NEW k \in Conns, fdTable'[g] = k
          PROVE  Queued(g, k)' \/ (mapped'[g] # None /\ Reads(mapped[g], g, k)')
      <3>1. fdTable[g] = k /\ g # fd
        BY <2>1, <2>2, NoneAssumption
      <3>2. CASE Queued(g, k)
        BY <1>3, <3>1, <3>2
      <3>3. CASE mapped[g] # None /\ Reads(mapped[g], g, k)
        BY <2>1, <3>3 DEF Reads, Prepared, ringVars, workVars, Op
      <3> QED
        BY <3>1, <3>2, <3>3 DEF Read
    <2> QED
      BY <2>1, <2>2 DEF Read, Reads, Prepared, Op
  <1>5. ASSUME NEW s \in Sessions, Assign(s) PROVE Read'
    <2>1. /\ UNCHANGED <<armed, workVars>> /\ mapped'[fd] = s /\ Prepared(s, fd)'
          /\ \A g \in Fds : g # fd => mapped'[g] = mapped[g]
          /\ \A g \in Fds : fdTable'[g] = fdTable[g] \/ (g = fd /\ fdTable'[g] = None)
          /\ \A t \in Sessions, g \in Fds : Prepared(t, g) => Prepared(t, g)'
      BY <1>2, <1>5, AssignDoes
    <2>2. ASSUME NEW g \in Fds, NEW k \in Conns, fdTable'[g] = k
          PROVE  (Queued(g, k) \/ (mapped[g] # None /\ Reads(mapped[g], g, k)))'
      <3>1. fdTable[g] = k
        BY <2>1, <2>2, NoneAssumption
      <3>2. CASE g = fd
        <4>1. Reads(s, fd, k)' /\ s # None
          BY <2>1, NoneAssumption DEF Reads
        <4> QED
          BY <2>1, <3>2, <4>1 DEF Reads, Prepared, Op
      <3>3. CASE g # fd
        <4>1. CASE Queued(g, k)
          BY <1>3, <3>3, <4>1
        <4>2. CASE mapped[g] # None /\ Reads(mapped[g], g, k)
          <5>1. PICK m \in Sessions : m = mapped[g] /\ Reads(m, g, k)
            BY <1>0, <4>2 DEF TypeOK
          <5>2. mapped'[g] = m /\ m # None
            BY <2>1, <3>3, <4>2, <5>1
          <5>3. Reads(m, g, k)'
            BY <2>1, <5>1 DEF Reads, workVars
          <5> QED
            BY <5>2, <5>3 DEF Reads, Prepared, Op
        <4> QED
          BY <3>1, <4>1, <4>2 DEF Read
      <3> QED
        BY <3>2, <3>3
    <2> QED
      BY <2>2 DEF Read
  <1> QED
    BY <1>4, <1>5

-----------------------------------------------------------------------------
(* The manager's map. *)

\* A worker says what it takes out of a map, until the number is unmapped.
LEMMA AgreesKept ==
    ASSUME Base, ManagerAgrees, refused \subseteq refused', NEW s \in Sessions, Others(s),
           \A g \in Fds, m \in Sessions :
              mapped'[g] = m =>
                 /\ mapped[g] = m
                 /\ \/ socks'[m][g] # None
                    \/ socks'[m][g] = socks[m][g]
                    \/ hand'[s].fd = g /\ wpc'[s] \in {"removed", "temp"},
           wpc[s] \in {"removed", "temp"} =>
              \/ hand'[s].fd = hand[s].fd /\ wpc'[s] \in {"removed", "temp"}
              \/ mapped'[hand[s].fd] = None \/ hand[s].fd \in refused'
    PROVE  Base' => ManagerAgrees'
  <1>1. ASSUME Base', NEW g \in Fds, mapped'[g] # None
        PROVE  \/ socks'[mapped'[g]][g] # None
               \/ g \in refused'
               \/ \E t \in Sessions : hand'[t].fd = g /\ wpc'[t] \in {"removed", "temp"}
    <2>1. PICK m \in Sessions : mapped'[g] = m
      BY <1>1 DEF Base, TypeOK
    <2>2. mapped[g] = m /\ m # None
      BY <2>1, NoneAssumption
    <2>3. CASE socks[m][g] # None
      BY <2>1, <2>3
    <2>4. CASE g \in refused
      BY <2>4
    <2>5. ASSUME NEW t \in Sessions, hand[t].fd = g, wpc[t] \in {"removed", "temp"}
          PROVE  \/ g \in refused'
                 \/ \E u \in Sessions : hand'[u].fd = g /\ wpc'[u] \in {"removed", "temp"}
      <3>1. CASE t = s
        BY <1>1, <2>5, <3>1
      <3>2. CASE t # s
        BY <2>5, <3>2 DEF Others
      <3> QED
        BY <3>1, <3>2
    <2>6. \/ socks[m][g] # None
          \/ g \in refused
          \/ \E t \in Sessions : hand[t].fd = g /\ wpc[t] \in {"removed", "temp"}
      BY <2>2 DEF ManagerAgrees
    <2> QED
      BY <2>3, <2>4, <2>5, <2>6
  <1> QED
    BY <1>1 DEF ManagerAgrees

\* The steps of a worker.
LEMMA WorkerAgrees ==
    ASSUME Base, Base', ManagerAgrees, NEW s \in Sessions, Worker(s)
    PROVE  ManagerAgrees'
  <1> DEFINE Away == {"removed", "temp"}
  <1>1. ASSUME NEW fd \in Fds, NEW c \in Conns, Take(s, fd, c) PROVE ManagerAgrees'
    <2>1. UNCHANGED <<socks, mapped, refused>> /\ Others(s) /\ wpc[s] \in Idle
      BY <1>1, TakeDoes
    <2>2. wpc[s] \notin Away
      BY <2>1 DEF Idle
    <2> QED
      BY <2>1, <2>2, AgreesKept
  <1>2. CASE JoinSame(s) \/ Submitted(s) \/ JoinRefuse(s)
    <2>1. UNCHANGED <<socks, mapped, hand>> /\ refused \subseteq refused'
      BY <1>2 DEF JoinSame, Submitted, JoinRefuse
    <2>2. wpc[s] \in Away => hand[s].fd \in refused'
      BY <1>2 DEF JoinSame, Submitted, JoinRefuse, At
    <2>3. PICK label \in {"rearm", "wait"} : Goto(s, label)
      BY <1>2 DEF JoinSame, Submitted, JoinRefuse
    <2>4. Others(s)
      BY <2>1, <2>3, Arrived DEF Base, Places, Others
    <2> QED
      BY <2>1, <2>2, <2>4, AgreesKept
  <1>3. CASE Remove(s)
    <2>1. /\ UNCHANGED <<mapped, hand, refused>> /\ Others(s)
          /\ wpc[s] = "found" /\ wpc'[s] = "removed"
          /\ \A t \in Sessions, g \in Fds :
                t # s \/ g # hand[s].fd => socks'[t][g] = socks[t][g]
      BY <1>3, RemoveDoes
    <2>2. \A g \in Fds, m \in Sessions :
             socks'[m][g] = socks[m][g] \/ (hand'[s].fd = g /\ wpc'[s] \in Away)
      BY <2>1
    <2> QED
      BY <2>1, <2>2, AgreesKept
  <1>4. CASE Unmap(s)
    <2>1. UNCHANGED <<hand, refused>> /\ Others(s) /\ hand[s].fd \in Fds
      BY <1>4, UnmapDoes
    <2>2. CASE wpc'[s] = "temp"
      <3>1. \E m \in Sessions :
               /\ UNCHANGED mapped
               /\ \A t \in Sessions, g \in Fds :
                     t # m \/ g # hand[s].fd => socks'[t][g] = socks[t][g]
        BY <1>4, <2>2, UnmapDoes DEF AfterUnmap
      <3>2. \A g \in Fds, m \in Sessions :
               socks'[m][g] = socks[m][g] \/ (hand'[s].fd = g /\ wpc'[s] \in Away)
        BY <2>1, <2>2, <3>1
      <3> QED
        BY <2>1, <2>2, <3>1, <3>2, AgreesKept
    <2>3. CASE wpc'[s] # "temp"
      <3>1. /\ UNCHANGED socks /\ mapped'[hand[s].fd] = None
            /\ \A g \in Fds : g # hand[s].fd => mapped'[g] = mapped[g]
        BY <1>4, <2>3, UnmapDoes
      <3>2. \A g \in Fds, m \in Sessions : mapped'[g] = m => mapped[g] = m
        BY <3>1, NoneAssumption
      <3> QED
        BY <2>1, <3>1, <3>2, AgreesKept
    <2> QED
      BY <2>2, <2>3
  <1>5. CASE DropTemporary(s)
    <2>1. /\ UNCHANGED <<socks, hand, refused>> /\ Others(s) /\ hand[s].fd \in Fds
          /\ mapped'[hand[s].fd] = None
          /\ \A g \in Fds : g # hand[s].fd => mapped'[g] = mapped[g]
      BY <1>5, TempDoes
    <2>2. \A g \in Fds, m \in Sessions : mapped'[g] = m => mapped[g] = m
      BY <2>1, NoneAssumption
    <2> QED
      BY <2>1, <2>2, AgreesKept
  <1>6. CASE JoinAdd(s)
    <2>1. PICK fd \in Fds : hand[s].fd = fd
      BY <1>6 DEF JoinAdd, At, Base, Busied, Idle
    <2>2. /\ UNCHANGED <<mapped, hand, refused>> /\ Others(s) /\ wpc[s] = "add"
          /\ hand[s].sock \in Conns
          /\ socks'[hand[s].goal][fd] = hand[s].sock
          /\ \A t \in Sessions, g \in Fds :
                t # hand[s].goal \/ g # fd => socks'[t][g] = socks[t][g]
      BY <1>6, <2>1, AddDoes
    <2>3. \A g \in Fds, m \in Sessions : socks'[m][g] # None \/ socks'[m][g] = socks[m][g]
      BY <2>2, NoneAssumption
    <2> QED
      BY <2>2, <2>3, AgreesKept
  <1>7. CASE Rearm(s) \/ Close(s)
    <2>1. PICK fd \in Fds : hand[s].fd = fd
      BY <1>7 DEF Rearm, Close, At, Base, Busied, Idle
    <2>2. UNCHANGED <<socks, mapped, refused>> /\ Others(s) /\ wpc[s] \in {"close", "rearm"}
      BY <1>7, <2>1, LetGoDoes
    <2>3. wpc[s] \notin Away
      BY <2>2
    <2> QED
      BY <2>2, <2>3, AgreesKept
  <1>8. CASE Submit(s)
    <2>1. UNCHANGED <<socks, mapped, refused, workVars>>
      BY <1>8, SubmitDoes
    <2> QED
      BY <2>1 DEF ManagerAgrees, workVars
  <1> QED
    BY <1>1, <1>2, <1>3, <1>4, <1>5, <1>6, <1>7, <1>8 DEF Worker

\* An assignment lists the number before it maps it; both under the mutex.
LEMMA AssignAgrees ==
    ASSUME Base, Base', ManagerAgrees, NEW s \in Sessions, Assign(s)
    PROVE  ManagerAgrees'
  <1>1. accepted # <<>> /\ TypeOK
    BY DEF Assign, Base
  <1>2. Head(accepted) \in Arrivals
    <2>1. accepted \in Seq(Arrivals)
      BY <1>1 DEF TypeOK, Arrivals
    <2> QED
      BY <1>1, <2>1, HeadTailProperties
  <1>3. PICK fd \in Fds, c \in Conns : Head(accepted).fd = fd /\ Head(accepted).c = c
    BY <1>2 DEF Arrivals
  <1>4. /\ UNCHANGED workVars /\ mapped'[fd] = s
        /\ \A g \in Fds : g # fd => mapped'[g] = mapped[g]
        /\ socks'[s][fd] = c
        /\ \A t \in Sessions, g \in Fds : t # s \/ g # fd => socks'[t][g] = socks[t][g]
        /\ refused' = refused \ {fd}
    BY <1>3, AssignDoes
  <1>5. ASSUME NEW g \in Fds, mapped'[g] # None
        PROVE  \/ socks'[mapped'[g]][g] # None
               \/ g \in refused'
               \/ \E t \in Sessions : hand'[t].fd = g /\ wpc'[t] \in {"removed", "temp"}
    <2>1. CASE g = fd
      BY <1>4, <2>1, NoneAssumption
    <2>2. CASE g # fd
      <3>1. PICK m \in Sessions : m = mapped[g] /\ mapped'[g] = m /\ m # None
        BY <1>1, <1>4, <1>5, <2>2 DEF TypeOK
      <3>2. socks'[m][g] = socks[m][g] /\ (g \in refused => g \in refused')
        BY <1>4, <2>2
      <3>3. \/ socks[m][g] # None
            \/ g \in refused
            \/ \E t \in Sessions : hand[t].fd = g /\ wpc[t] \in {"removed", "temp"}
        BY <3>1 DEF ManagerAgrees
      <3> QED
        BY <1>4, <3>1, <3>2, <3>3 DEF workVars
    <2> QED
      BY <2>1, <2>2
  <1> QED
    BY <1>5 DEF ManagerAgrees

-----------------------------------------------------------------------------
(* The invariant, and what follows from it. *)

\* Nothing is open at first.
LEMMA InvInit == Init => Inv
  <1> SUFFICES ASSUME Init PROVE Inv
    OBVIOUS
  <1>1. Base
    BY BaseInit
  <1>2. /\ \A g \in Fds : fdTable[g] = None /\ mapped[g] = None
        /\ accepted = <<>>
        /\ \A t \in Sessions, g \in Fds : socks[t][g] = None
        /\ \A t \in Sessions : wpc[t] = "wait" /\ hand[t].sock = None
    BY DEF Init, EmptyHand
  <1>3. \A g \in Fds, k \in Conns :
           fdTable[g] # k /\ ~Queued(g, k) /\ \A t \in Sessions : ~Held(t, g, k)
    BY <1>2, NoneAssumption DEF Queued, Held
  <1>4. NumberFixed
    BY <1>3 DEF NumberFixed, Uses
  <1>5. QueueOrder
    BY <1>2, <1>3 DEF QueueOrder
  <1>6. OneClaim
    BY <1>2, NoneAssumption DEF OneClaim, Claims, Moves
  <1>7. Gone
    BY <1>2 DEF Gone, Parted
  <1>8. Home /\ Read
    BY <1>3 DEF Home, Read
  <1>9. ManagerAgrees
    BY <1>2 DEF ManagerAgrees
  <1> QED
    BY <1>1, <1>4, <1>5, <1>6, <1>7, <1>8, <1>9 DEF Inv

\* Every step keeps the invariant.
LEMMA InvStep == Inv /\ [Next]_vars => Inv'
  <1> SUFFICES ASSUME Inv, [Next]_vars PROVE Inv'
    OBVIOUS
  <1>1. /\ Base /\ NumberFixed /\ QueueOrder /\ OneClaim
        /\ Gone /\ Home /\ Read /\ ManagerAgrees
    BY DEF Inv
  <1>2. Base'
    BY <1>1, BaseStep
  <1>3. TypeOK
    BY <1>1 DEF Base
  <1>4. ASSUME NEW s \in Sessions, Worker(s) PROVE Inv'
    <2>1. Shrinks
      BY <1>1, <1>4, WorkerShrinks
    <2>2. NumberFixed' /\ QueueOrder'
      BY <1>1, <1>3, <2>1, ShrinksKeeps
    <2>3. OneClaim'
      BY <1>1, <1>4, WorkerClaims
    <2>4. Gone'
      BY <1>1, <1>4, <2>1, WorkerGone
    <2>5. Home'
      BY <1>1, <1>2, <1>4, <2>1, <2>2, WorkerHome
    <2>6. Read'
      BY <1>1, <1>4, <2>1, WorkerReads
    <2>7. ManagerAgrees'
      BY <1>1, <1>2, <1>4, WorkerAgrees
    <2> QED
      BY <1>2, <2>2, <2>3, <2>4, <2>5, <2>6, <2>7 DEF Inv
  <1>5. ASSUME NEW s \in Sessions, Assign(s) PROVE Inv'
    <2>1. NumberFixed' /\ QueueOrder'
      BY <1>1, <1>5, ListenerKeeps
    <2>2. accepted # <<>>
      BY <1>5 DEF Assign
    <2>3. Head(accepted) \in Arrivals
      <3>1. accepted \in Seq(Arrivals)
        BY <1>3 DEF TypeOK, Arrivals
      <3> QED
        BY <2>2, <3>1, HeadTailProperties
    <2>4. PICK fd \in Fds, c \in Conns : Head(accepted).fd = fd /\ Head(accepted).c = c
      BY <2>3 DEF Arrivals
    <2>5. OneClaim'
      BY <1>1, <1>5, <2>4, AssignClaims
    <2>6. /\ UNCHANGED workVars
          /\ \A g \in Fds : fdTable'[g] = fdTable[g] \/ (g = fd /\ fdTable'[g] = None)
      BY <1>1, <1>5, <2>4, AssignDoes
    <2>7. Gone'
      <3>1. ASSUME NEW t \in Sessions, NEW g \in Fds, Parted(t)'
            PROVE  fdTable'[g] # hand'[t].sock
        <4>1. Parted(t) /\ hand'[t] = hand[t]
          BY <2>6, <3>1 DEF Parted, workVars
        <4>2. hand[t].sock \in Conns
          BY <1>1, <4>1 DEF Parted, Base, Busied, Idle
        <4> QED
          BY <1>1, <2>6, <4>1, <4>2, NoneAssumption DEF Gone
      <3> QED
        BY <3>1 DEF Gone
    <2>8. Home'
      BY <1>1, <1>5, ListenerHome
    <2>9. Read'
      BY <1>1, <1>5, ListenerReads
    <2>10. ManagerAgrees'
      BY <1>1, <1>2, <1>5, AssignAgrees
    <2> QED
      BY <1>2, <2>1, <2>5, <2>7, <2>8, <2>9, <2>10 DEF Inv
  <1>6. CASE DropAccepted
    <2>1. UNCHANGED <<fdTable, socks, mapped, workVars, refused>>
      BY <1>6 DEF DropAccepted
    <2>2. NumberFixed' /\ QueueOrder'
      BY <1>1, <1>6, ListenerKeeps
    <2>3. OneClaim'
      BY <1>1, <2>1 DEF OneClaim, Claims, Moves, workVars
    <2>4. Gone'
      BY <1>1, <2>1 DEF Gone, Parted, workVars
    <2>5. Home'
      BY <1>1, <1>6, ListenerHome
    <2>6. Read'
      BY <1>1, <1>6, ListenerReads
    <2>7. ManagerAgrees'
      BY <1>1, <2>1 DEF ManagerAgrees, workVars
    <2> QED
      BY <1>2, <2>2, <2>3, <2>4, <2>5, <2>6, <2>7 DEF Inv
  <1>7. ASSUME NEW c \in Conns, Accept(c) PROVE Inv'
    <2>1. UNCHANGED <<socks, mapped, ringVars, workVars, refused>>
      BY <1>1, <1>7, AcceptDoes
    <2>2. NumberFixed' /\ QueueOrder'
      BY <1>1, <1>7, AcceptKeeps
    <2>3. OneClaim'
      BY <1>1, <2>1 DEF OneClaim, Claims, Moves, workVars
    <2>4. Gone' /\ Home'
      BY <1>1, <1>7, AcceptHome
    <2>5. Read'
      <3>1. PICK fd \in Fds :
              /\ fdTable[fd] = None /\ fdTable'[fd] = c
              /\ \A g \in Fds : g # fd => fdTable'[g] = fdTable[g]
              /\ \A i \in DOMAIN accepted : i \in DOMAIN accepted' /\ accepted'[i] = accepted[i]
              /\ Len(accepted) + 1 \in DOMAIN accepted'
              /\ accepted'[Len(accepted) + 1].fd = fd
              /\ accepted'[Len(accepted) + 1].c = c
        BY <1>1, <1>7, AcceptDoes
      <3>2. ASSUME NEW g \in Fds, NEW k \in Conns, fdTable'[g] = k
            PROVE  (Queued(g, k) \/ (mapped[g] # None /\ Reads(mapped[g], g, k)))'
        <4>1. CASE g = fd
          BY <3>1, <3>2, <4>1 DEF Queued
        <4>2. CASE g # fd /\ Queued(g, k)
          BY <3>1, <4>2 DEF Queued
        <4>3. CASE g # fd /\ ~Queued(g, k)
          <5>1. mapped[g] # None /\ Reads(mapped[g], g, k)
            BY <1>1, <3>1, <3>2, <4>3 DEF Read
          <5> QED
            BY <2>1, <5>1 DEF Reads, Prepared, ringVars, workVars, Op
        <4> QED
          BY <4>1, <4>2, <4>3
      <3> QED
        BY <3>2 DEF Read
    <2>6. ManagerAgrees'
      BY <1>1, <2>1 DEF ManagerAgrees, workVars
    <2> QED
      BY <1>2, <2>2, <2>3, <2>4, <2>5, <2>6 DEF Inv
  <1>8. CASE (\E c \in Conns : Client(c)) \/ UNCHANGED vars
    <2>1. /\ UNCHANGED <<fdTable, joined, accepted, socks, mapped, refused>>
          /\ UNCHANGED <<ringVars, workVars>>
      BY <1>8 DEF Client, AskJoin, Hangup, vars
    <2>2. NumberFixed' /\ QueueOrder'
      BY <1>1, <2>1 DEF NumberFixed, QueueOrder, Uses, Queued, Held, workVars
    <2>3. OneClaim' /\ Gone'
      BY <1>1, <2>1 DEF OneClaim, Claims, Moves, Gone, Parted, workVars
    <2>4. Home'
      BY <1>1, <2>1 DEF Home, AtHome, Queued, Held, workVars
    <2>5. Read'
      BY <1>1, <2>1 DEF Read, Reads, Prepared, Queued, ringVars, workVars, Op
    <2>6. ManagerAgrees'
      BY <1>1, <2>1 DEF ManagerAgrees, workVars
    <2> QED
      BY <1>2, <2>2, <2>3, <2>4, <2>5, <2>6 DEF Inv
  <1> QED
    BY <1>4, <1>5, <1>6, <1>7, <1>8 DEF Next

\* The values the variables take.
THEOREM TypesHold == Spec => []TypeOK
  <1>1. Base => TypeOK
    BY DEF Base
  <1> QED
    BY <1>1, BaseInit, BaseStep, PTL DEF Spec

\* The Socket of an open connection is where the manager says, while workers and
\* listener move it and numbers are used again (handleJoinSession,
\* removeSession, addClient).
THEOREM InvHolds == Spec => []Inv
  BY InvInit, InvStep, PTL DEF Spec

\* What client_sessions_ says of a number is true.
THEOREM ManagerIsRight == Spec => []ManagerAgrees
  <1>1. Inv => ManagerAgrees
    BY DEF Inv
  <1> QED
    BY <1>1, InvHolds, PTL

\* No move puts a Socket in the maps of two sessions.
THEOREM InOneSession == Spec => []OneSession
  <1>1. Inv => OneSession
    <2>1. SUFFICES ASSUME Inv, NEW s \in Sessions, NEW t \in Sessions, s # t,
                          NEW fd \in Fds, NEW other \in Fds,
                          socks[s][fd] = socks[t][other], socks[s][fd] # None
                   PROVE  FALSE
      BY DEF OneSession
    <2>2. PICK c \in Conns : socks[s][fd] = c
      BY <2>1 DEF Inv, Base, TypeOK
    <2>3. Claims(s, c) /\ Claims(t, c)
      BY <2>1, <2>2 DEF Claims
    <2> QED
      BY <2>1, <2>3 DEF Inv, OneClaim
  <1> QED
    BY <1>1, InvHolds, PTL

\* No descriptor leaks, and none is in the wrong session.
THEOREM NoLeak == Spec => []OpenIsListed
  <1>1. Inv => OpenIsListed
    <2>1. SUFFICES ASSUME Inv, NEW fd \in Fds, fdTable[fd] # None, ~Waiting(fd)
                   PROVE  /\ mapped[fd] # None
                          /\ fdTable[fd] \in {socks[mapped[fd]][fd], hand[mapped[fd]].sock}
      BY DEF OpenIsListed, Free
    <2>2. PICK c \in Conns : fdTable[fd] = c
      BY <2>1 DEF Inv, Base, TypeOK
    <2>3. ~Queued(fd, c)
      <3>1. ASSUME NEW i \in DOMAIN accepted, accepted[i].fd = fd, accepted[i].c = c
            PROVE  FALSE
        <4>1. accepted[i] \in Arrivals
          <5>1. accepted \in Seq(Arrivals)
            BY <2>1 DEF Inv, Base, TypeOK, Arrivals
          <5> QED
            BY <5>1, ElementOfSeq, LenProperties
        <4>2. accepted[i] = [fd |-> fd, c |-> fdTable[fd]]
          BY <2>2, <3>1, <4>1 DEF Arrivals
        <4> QED
          BY <2>1, <4>2 DEF Waiting
      <3> QED
        BY <3>1 DEF Queued
    <2>4. AtHome(fd, c)
      BY <2>1, <2>2, <2>3 DEF Inv, Home
    <2> QED
      BY <2>2, <2>4 DEF AtHome, Held
  <1> QED
    BY <1>1, InvHolds, PTL

\* No client is left with nobody reading it.
THEOREM NobodyUnread == Spec => []OpenIsRead
  <1>1. Inv => OpenIsRead
    <2>1. SUFFICES ASSUME Inv, NEW fd \in Fds, fdTable[fd] # None, ~Waiting(fd)
                   PROVE  /\ mapped[fd] # None
                          /\ \/ hand[mapped[fd]].fd = fd
                             \/ armed[mapped[fd]][<<fd, fdTable[fd]>>] > 0
                             \/ Prepared(mapped[fd], fd)
      BY DEF OpenIsRead, Free, Prepared
    <2>2. PICK c \in Conns : fdTable[fd] = c
      BY <2>1 DEF Inv, Base, TypeOK
    <2>3. ~Queued(fd, c)
      <3>1. ASSUME NEW i \in DOMAIN accepted, accepted[i].fd = fd, accepted[i].c = c
            PROVE  FALSE
        <4>1. accepted[i] \in Arrivals
          <5>1. accepted \in Seq(Arrivals)
            BY <2>1 DEF Inv, Base, TypeOK, Arrivals
          <5> QED
            BY <5>1, ElementOfSeq, LenProperties
        <4>2. accepted[i] = [fd |-> fd, c |-> fdTable[fd]]
          BY <2>2, <3>1, <4>1 DEF Arrivals
        <4> QED
          BY <2>1, <4>2 DEF Waiting
      <3> QED
        BY <3>1 DEF Queued
    <2>4. mapped[fd] # None /\ Reads(mapped[fd], fd, c)
      BY <2>1, <2>2, <2>3 DEF Inv, Read
    <2>5. PICK m \in Sessions : mapped[fd] = m
      BY <2>1, <2>4 DEF Inv, Base, TypeOK
    <2>6. CASE hand[m].sock = c
      <3>1. wpc[m] \notin Idle
        BY <2>1, <2>6, NoneAssumption DEF Inv, Base, Busied, EmptyHand
      <3>2. PICK h \in Fds : hand[m].fd = h
        BY <2>1, <3>1 DEF Inv, Base, Busied
      <3>3. fd = h
        BY <2>1, <2>2, <2>6, <3>2, OnlyNumber DEF Inv
      <3> QED
        BY <2>4, <2>5, <3>2, <3>3
    <2>7. CASE armed[m][<<fd, c>>] > 0 \/ Prepared(m, fd)
      BY <2>2, <2>4, <2>5, <2>7
    <2> QED
      BY <2>4, <2>5, <2>6, <2>7 DEF Reads
  <1> QED
    BY <1>1, InvHolds, PTL
=============================================================================

-------------------------- MODULE UringSession_proofs --------------------------
(***************************************************************************)
(* Proofs about UringSession, for any clients, buffers, batch size and     *)
(* number of messages: the types, that a client is read by one receive at  *)
(* a time, that it is closed once, and that the buffer ring never holds    *)
(* more than its entries.                                                  *)
(*                                                                         *)
(* The three are counts over the queues an operation passes through        *)
(* (prepared, submitted, completed), so the proofs rest on how a count     *)
(* changes when a queue gains an entry or loses its head.                  *)
(***************************************************************************)
EXTENDS UringSession, FiniteSetTheorems, SequenceTheorems, TLAPS

\* How many entries of the queue are in the set.
Count(q, S) == Cardinality({i \in DOMAIN q : q[i] \in S})

-----------------------------------------------------------------------------
(* Counting in a queue. *)

\* The positions counted are finitely many.
LEMMA Places ==
    ASSUME NEW E, NEW q \in Seq(E), NEW S
    PROVE  /\ IsFiniteSet({i \in 1..Len(q) : q[i] \in S})
           /\ Count(q, S) = Cardinality({i \in 1..Len(q) : q[i] \in S})
           /\ Count(q, S) \in Nat
  <1> DEFINE P == {i \in 1..Len(q) : q[i] \in S}
  <1>1. Len(q) \in Nat /\ DOMAIN q = 1..Len(q)
    BY LenProperties
  <1>2. IsFiniteSet(1..Len(q))
    <2>1. 1 \in Int /\ Len(q) \in Int
      BY <1>1, SMT
    <2> QED BY <2>1, FS_Interval, Zenon
  <1>3. P \in SUBSET (1..Len(q))
    OBVIOUS
  <1>4. IsFiniteSet(P)
    BY <1>2, <1>3, FS_Subset, Zenon
  <1>5. Cardinality(P) \in Nat
    BY <1>4, FS_CardinalityType, Zenon
  <1>6. Count(q, S) = Cardinality(P)
    BY <1>1, Zenon DEF Count
  <1> QED BY <1>4, <1>5, <1>6, Zenon

\* Nothing is in an empty queue.
LEMMA CountEmpty ==
    ASSUME NEW S
    PROVE  Count(<<>>, S) = 0
  <1>1. {i \in DOMAIN <<>> : <<>>[i] \in S} = {}
    OBVIOUS
  <1> QED BY <1>1, FS_EmptySet DEF Count

\* A new entry counts if it is in the set.
LEMMA CountAppend ==
    ASSUME NEW E, NEW q \in Seq(E), NEW e \in E, NEW S
    PROVE  Count(Append(q, e), S) = Count(q, S) + (IF e \in S THEN 1 ELSE 0)
  <1> DEFINE r == Append(q, e)
             n == Len(q) + 1
             P == {i \in 1..Len(q) : q[i] \in S}
             R == {i \in 1..Len(r) : r[i] \in S}
  <1>1. /\ r \in Seq(E) /\ Len(r) = n
        /\ \A i \in 1..Len(q) : r[i] = q[i]
        /\ r[n] = e /\ Len(q) \in Nat
    BY AppendProperties, LenProperties
  <1>2. IsFiniteSet(P) /\ Count(q, S) = Cardinality(P) /\ Cardinality(P) \in Nat
    BY Places, Zenon
  <1>3. Count(r, S) = Cardinality(R)
    <2>1. r \in Seq(E)
      BY <1>1
    <2> HIDE DEF r
    <2> QED BY <2>1, Places, Zenon
  <1>4. n \notin P
    BY <1>1, SMT
  <1>5. CASE e \in S
    <2>1. \A i : i \in 1..Len(r) <=> i \in 1..Len(q) \/ i = n
      BY <1>1, SMT
    <2>2. \A i : i \in R <=> i \in P \/ i = n
      BY <1>1, <1>5, <2>1, Zenon
    <2>3. R = P \cup {n}
      BY <2>2, Zenon
    <2>4. Cardinality(R) = Cardinality(P) + 1
      BY <1>2, <1>4, <2>3, FS_AddElement, Zenon
    <2> HIDE DEF P, R
    <2> QED BY <1>2, <1>3, <1>5, <2>4
  <1>6. CASE e \notin S
    <2>1. R = P
      BY <1>1, <1>6, SMT
    <2> HIDE DEF P, R
    <2> QED BY <1>2, <1>3, <1>6, <2>1
  <1> QED BY <1>5, <1>6

\* Taking the head uncounts it if it was in the set, and it was counted then.
LEMMA CountTail ==
    ASSUME NEW E, NEW q \in Seq(E), q # <<>>, NEW S
    PROVE  /\ Count(Tail(q), S) = Count(q, S) - (IF Head(q) \in S THEN 1 ELSE 0)
           /\ Head(q) \in S => Count(q, S) >= 1
  <1> DEFINE t == Tail(q)
             P == {i \in 1..Len(q) : q[i] \in S}
             T == {i \in 1..Len(t) : t[i] \in S}
             f == [i \in T |-> i + 1]
  <1>1. /\ t \in Seq(E) /\ Len(t) = Len(q) - 1
        /\ \A i \in 1..Len(t) : t[i] = q[i + 1]
        /\ Len(q) \in Nat /\ Len(t) \in Nat
    BY HeadTailProperties, LenProperties
  <1>2. Head(q) = q[1] /\ Len(q) >= 1
    <2>1. Len(q) >= 1
      BY <1>1, EmptySeq
    <2>2. Head(q) = q[1]
      OBVIOUS
    <2> QED BY <2>1, <2>2
  <1>3. /\ IsFiniteSet(P) /\ Count(q, S) = Cardinality(P)
        /\ Cardinality(P) \in Nat
    BY Places, Zenon
  <1>4. IsFiniteSet(T) /\ Count(t, S) = Cardinality(T) /\ Cardinality(T) \in Nat
    <2>1. t \in Seq(E)
      BY <1>1
    <2> HIDE DEF t
    <2> QED BY <2>1, Places, Zenon
  <1>5. ExistsBijection(T, P \ {1})
    <2>1. \A i \in T : i + 1 \in P \ {1}
      BY <1>1, SMT
    <2>2. \A j \in P \ {1} : j - 1 \in T /\ (j - 1) + 1 = j
      BY <1>1, SMT
    <2>3. \A i, j \in T : i + 1 = j + 1 => i = j
      BY <1>1, SMT
    <2>4. f \in [T -> P \ {1}]
      BY <2>1
    <2>5. f \in Injection(T, P \ {1})
      BY <2>3, <2>4 DEF Injection, IsInjective
    <2>6. f \in Surjection(T, P \ {1})
      BY <2>2, <2>4 DEF Surjection
    <2> QED BY <2>5, <2>6 DEF ExistsBijection, Bijection
  <1>6. Cardinality(P \ {1}) = Cardinality(T)
    BY <1>4, <1>5, FS_Bijection, Zenon
  <1>7. Cardinality(P \ {1}) = IF 1 \in P THEN Cardinality(P) - 1 ELSE Cardinality(P)
    BY <1>3, FS_RemoveElement, Zenon
  <1>8. 1 \in P <=> Head(q) \in S
    BY <1>1, <1>2, SMT
  <1> HIDE DEF P, T, t
  <1>9. Head(q) \in S => Cardinality(P) >= 1
    BY <1>3, <1>4, <1>6, <1>7, <1>8
  <1> QED BY <1>3, <1>4, <1>6, <1>7, <1>8, <1>9 DEF t

\* What is appended leaves a prefix as it was.
LEMMA PrefixOfAppend ==
    ASSUME NEW E, NEW q \in Seq(E), NEW e \in E, NEW n \in Nat, n <= Len(q)
    PROVE  SubSeq(Append(q, e), 1, n) = SubSeq(q, 1, n)
  <1> DEFINE r == Append(q, e)
             s == SubSeq(q, 1, n)
             t == SubSeq(r, 1, n)
  <1>1. /\ r \in Seq(E) /\ Len(r) = Len(q) + 1
        /\ \A i \in 1..Len(q) : r[i] = q[i]
        /\ Len(q) \in Nat
    BY AppendProperties, LenProperties
  <1>2. \A i \in 1..Len(q) : q[i] \in E
    BY ElementOfSeq
  <1>3. /\ \A i \in 1..n : q[i] \in E /\ r[i] = q[i]
        /\ 1 \in Int /\ n \in Int
    BY <1>1, <1>2, SMT
  <1>4. /\ s \in Seq(E) /\ Len(s) = n
        /\ \A i \in 1..n : s[i] = q[i]
    <2>1. /\ SubSeq(q, 1, n) \in Seq(E)
          /\ Len(SubSeq(q, 1, n)) = IF 1 <= n THEN n - 1 + 1 ELSE 0
          /\ \A i \in 1..(n - 1 + 1) : SubSeq(q, 1, n)[i] = q[1 + i - 1]
      <3>1. \A i \in 1..n : q[i] \in E
        BY <1>3
      <3> QED BY <1>3, <3>1, SubSeqProperties
    <2> QED BY <2>1
  <1>5. /\ t \in Seq(E) /\ Len(t) = n
        /\ \A i \in 1..n : t[i] = r[i]
    <2>1. /\ SubSeq(r, 1, n) \in Seq(E)
          /\ Len(SubSeq(r, 1, n)) = IF 1 <= n THEN n - 1 + 1 ELSE 0
          /\ \A i \in 1..(n - 1 + 1) : SubSeq(r, 1, n)[i] = r[1 + i - 1]
      <3>1. \A i \in 1..n : r[i] \in E
        BY <1>3
      <3> QED BY <1>3, <3>1, SubSeqProperties
    <2> QED BY <2>1
  <1>6. Len(t) = Len(s) /\ \A i \in 1..Len(t) : t[i] = s[i]
    BY <1>3, <1>4, <1>5
  <1> HIDE DEF s, t
  <1>7. t = s
    BY <1>4, <1>5, <1>6, SeqEqual
  <1> QED BY <1>7 DEF s, t, r

\* A prefix loses its head with the queue.
LEMMA PrefixOfTail ==
    ASSUME NEW E, NEW q \in Seq(E), NEW b \in Seq(E), b # <<>>,
           Len(b) <= Len(q), b = SubSeq(q, 1, Len(b))
    PROVE  /\ q # <<>> /\ Head(q) = Head(b)
           /\ Len(Tail(b)) <= Len(Tail(q))
           /\ Tail(b) = SubSeq(Tail(q), 1, Len(Tail(b)))
  <1> DEFINE n == Len(b)
             k == Len(Tail(b))
             t == SubSeq(Tail(q), 1, k)
  <1>1. /\ n \in Nat \ {0} /\ Len(q) \in Nat /\ Tail(b) \in Seq(E)
        /\ k = n - 1 /\ \A i \in 1..k : Tail(b)[i] = b[i + 1]
        /\ Head(b) = b[1]
    BY EmptySeq, LenProperties, HeadTailProperties
  <1>2. q # <<>>
    BY <1>1
  <1>3. /\ Tail(q) \in Seq(E) /\ Len(Tail(q)) = Len(q) - 1
        /\ \A i \in 1..Len(Tail(q)) : Tail(q)[i] = q[i + 1]
        /\ Head(q) = q[1]
    BY <1>2, HeadTailProperties
  <1>4. \A i \in 1..n : b[i] = q[i]
    <2>1. /\ \A i \in 1..Len(q) : q[i] \in E
          /\ 1 \in Int /\ n \in Int
      BY <1>1, ElementOfSeq
    <2>2. \A i \in 1..n : q[i] \in E
      BY <1>1, <2>1
    <2>3. \A i \in 1..(n - 1 + 1) : SubSeq(q, 1, n)[i] = q[1 + i - 1]
      BY <2>1, <2>2, SubSeqProperties
    <2> HIDE DEF n
    <2>4. \A i \in 1..n : SubSeq(q, 1, n)[i] = q[i]
      BY <1>1, <2>3
    <2> QED BY <2>4 DEF n
  <1>5. k <= Len(Tail(q)) /\ k \in Int /\ k >= 0
    BY <1>1, <1>3
  <1>6. \A i \in 1..k : Tail(b)[i] = Tail(q)[i] /\ Tail(q)[i] \in E
    <2> TAKE i \in 1..k
    <2>1. i \in 1..Len(Tail(q)) /\ i + 1 \in 1..n
      BY <1>1, <1>5
    <2> QED BY <1>1, <1>3, <1>4, <2>1, ElementOfSeq
  <1>7. /\ t \in Seq(E) /\ Len(t) = k
        /\ \A i \in 1..k : t[i] = Tail(q)[i]
    <2>1. /\ t \in Seq(E)
          /\ Len(t) = IF 1 <= k THEN k - 1 + 1 ELSE 0
          /\ \A i \in 1..(k - 1 + 1) : t[i] = Tail(q)[1 + i - 1]
      <3>1. \A i \in 1..k : Tail(q)[i] \in E
        BY <1>6
      <3>2. 1 \in Int
        OBVIOUS
      <3> QED BY <1>5, <3>1, <3>2, SubSeqProperties
    <2> HIDE DEF t, k
    <2> QED BY <1>5, <2>1
  <1>8. Len(t) = Len(Tail(b)) /\ \A i \in 1..Len(t) : t[i] = Tail(b)[i]
    BY <1>6, <1>7
  <1> HIDE DEF t
  <1>9. t = Tail(b)
    BY <1>1, <1>7, <1>8, SeqEqual
  <1> QED BY <1>1, <1>2, <1>3, <1>4, <1>5, <1>9 DEF t

-----------------------------------------------------------------------------
(* The inductive invariant. *)

Cqes == [op : {"read", "write", "close"}, c : Clients,
         res : Results, more : BOOLEAN]

Wish(o, c) == [op |-> o, c |-> c]

\* What is counted of the queues.
Wishes(o, c) == {Wish(o, c)}

Ended(c) == {e \in Cqes : e.op = "read" /\ e.c = c /\ ~e.more}

Closed(c) == {e \in Cqes : e.op = "close" /\ e.c = c}

Writes == {o \in Op : o.op = "write"}

Holding == {e \in Cqes : e.op = "write" \/ e.res = "data"}

\* The receives of a client, its closes, and the entries of the buffer ring
\* with those that may come back to it.
Reading(c) == Count(sq, Wishes("read", c)) + Count(sub, Wishes("read", c))
              + (IF c \in armed THEN 1 ELSE 0) + Count(cq, Ended(c))

Closing(c) == Count(sq, Wishes("close", c)) + Count(sub, Wishes("close", c))
              + (IF c \in socks THEN 1 ELSE 0) + Count(cq, Closed(c))

Held == Len(ring) + Count(sq, Writes) + Count(sub, Writes) + Count(cq, Holding)

\* The batch is a prefix of the completions, nothing is left of the last
\* io_uring_enter in a round, and the map holds just the open descriptors.
Base ==
    /\ TypeOK
    /\ batch \in Seq(Cqes) /\ Len(batch) <= Len(cq)
    /\ pc \in {"wait", "handle"} => sub = <<>>
    /\ socks = open
    /\ adding \in joined \cup {None}

\* A client that was not added yet, or is being added, has no receive.
ReadOnce ==
    \A c \in Clients :
        /\ Reading(c) <= 1
        /\ c \in socks \ (starved \cup {adding}) => Reading(c) = 1
        /\ c \notin joined \/ c = adding => Reading(c) = 0

CloseOnce ==
    \A c \in Clients :
        /\ Closing(c) <= 1
        /\ c \notin joined => Closing(c) = 0

Fits == Held <= NumBuffers

Inv == Base /\ ReadOnce /\ CloseOnce /\ Fits

\* A wish to submit is an Op, and tells its kind and its client.
LEMMA WishKinds ==
    ASSUME NEW o \in {"read", "write", "close"}, NEW c \in Clients
    PROVE  /\ Wish(o, c) \in Op
           /\ \A p \in {"read", "write", "close"} : \A d \in Clients :
                 Wish(o, c) \in Wishes(p, d) <=> o = p /\ c = d
           /\ Wish(o, c) \in Writes <=> o = "write"
  <1>1. Wish(o, c) \in Op /\ Wish(o, c).op = o /\ Wish(o, c).c = c
    BY DEF Wish, Op
  <1>2. \A p, d : Wish(p, d).op = p /\ Wish(p, d).c = d
    BY DEF Wish
  <1>3. \A p \in {"read", "write", "close"} : \A d \in Clients :
           Wish(o, c) \in Wishes(p, d) <=> o = p /\ c = d
    <2> TAKE p \in {"read", "write", "close"}
    <2> TAKE d \in Clients
    <2>1. Wish(o, c) \in Wishes(p, d) <=> Wish(o, c) = Wish(p, d)
      BY Zenon DEF Wishes
    <2>2. Wish(o, c) = Wish(p, d) => o = p /\ c = d
      BY <1>2
    <2> QED BY <2>1, <2>2, Zenon
  <1>4. Wish(o, c) \in Writes <=> o = "write"
    BY <1>1, Zenon DEF Writes
  <1> QED BY <1>1, <1>3, <1>4

\* An Op is the wish of its kind and client.
LEMMA OpIsWish ==
    ASSUME NEW o \in Op
    PROVE  /\ o.op \in {"read", "write", "close"} /\ o.c \in Clients
           /\ o = Wish(o.op, o.c)
  BY DEF Wish, Op

\* A completion is counted by its kind, result and flag.
LEMMA CqeKinds ==
    ASSUME NEW o \in {"read", "write", "close"}, NEW c \in Clients,
           NEW r \in Results, NEW more \in BOOLEAN,
           NEW e, e = Cqe(Wish(o, c), r, more)
    PROVE  /\ e \in Cqes
           /\ \A d \in Clients : e \in Ended(d) <=> o = "read" /\ c = d /\ ~more
           /\ \A d \in Clients : e \in Closed(d) <=> o = "close" /\ c = d
           /\ e \in Holding <=> o = "write" \/ r = "data"
  <1>1. e = [op |-> o, c |-> c, res |-> r, more |-> more]
    BY DEF Cqe, Wish
  <1>2. e \in Cqes /\ e.op = o /\ e.c = c /\ e.res = r /\ e.more = more
    BY <1>1 DEF Cqes
  <1>3. \A d \in Clients : e \in Ended(d) <=> o = "read" /\ c = d /\ ~more
    BY <1>2, Zenon DEF Ended
  <1>4. \A d \in Clients : e \in Closed(d) <=> o = "close" /\ c = d
    BY <1>2, Zenon DEF Closed
  <1>5. e \in Holding <=> o = "write" \/ r = "data"
    BY <1>2, Zenon DEF Holding
  <1> QED BY <1>2, <1>3, <1>4, <1>5

\* Every count is a number.
LEMMA CountsAreNat ==
    ASSUME TypeOK
    PROVE  /\ \A S : /\ Count(sq, S) \in Nat /\ Count(sub, S) \in Nat
                     /\ Count(cq, S) \in Nat
           /\ Len(ring) \in Nat
           /\ \A c \in Clients : Reading(c) \in Nat /\ Closing(c) \in Nat
           /\ Held \in Nat
  <1>1. sq \in Seq(Op) /\ sub \in Seq(Op) /\ cq \in Seq(Cqes)
    BY DEF TypeOK, Cqes
  <1>2. \A S : /\ Count(sq, S) \in Nat /\ Count(sub, S) \in Nat
               /\ Count(cq, S) \in Nat
    BY <1>1, Places, Zenon
  <1>3. Len(ring) \in Nat
    BY LenProperties DEF TypeOK
  <1>4. \A c \in Clients : Reading(c) \in Nat /\ Closing(c) \in Nat
    <2> TAKE c \in Clients
    <2> QED BY <1>2 DEF Reading, Closing
  <1> QED BY <1>2, <1>3, <1>4 DEF Held

\* The same after a step.
LEMMA CountsStayNat ==
    ASSUME TypeOK'
    PROVE  /\ \A c \in Clients : Reading(c)' \in Nat /\ Closing(c)' \in Nat
           /\ Held' \in Nat
  <1>1. sq' \in Seq(Op) /\ sub' \in Seq(Op) /\ cq' \in Seq(Cqes)
    BY DEF TypeOK, Cqes
  <1>2. \A S : /\ Count(sq', S) \in Nat /\ Count(sub', S) \in Nat
               /\ Count(cq', S) \in Nat
    BY <1>1, Places, Zenon
  <1>3. Len(ring') \in Nat
    BY LenProperties DEF TypeOK
  <1>4. \A c \in Clients : Reading(c)' \in Nat /\ Closing(c)' \in Nat
    <2> TAKE c \in Clients
    <2> QED BY <1>2 DEF Reading, Closing
  <1> QED BY <1>2, <1>3, <1>4 DEF Held

-----------------------------------------------------------------------------
(* The steps that only move what is counted. *)

\* No client gains a receive or a close, and no client of the map loses its
\* receive unless processEvents ignores how it ended.
NoMore ==
    /\ \A c \in Clients :
          /\ Reading(c)' <= Reading(c) /\ Closing(c)' <= Closing(c)
          /\ c \in socks' \ starved' => Reading(c)' = Reading(c)
    /\ Held' <= Held
    /\ socks' \subseteq socks /\ starved \subseteq starved'
    /\ UNCHANGED <<adding, joined>>

\* Where no count grows, and nobody loses a receive, the invariant stays.
LEMMA NoMoreKeeps ==
    ASSUME Inv, Base', NoMore
    PROVE  Inv'
  <1>1. /\ \A c \in Clients : Reading(c) \in Nat /\ Closing(c) \in Nat
        /\ Held \in Nat
    BY CountsAreNat DEF Inv, Base
  <1>2. /\ \A c \in Clients : Reading(c)' \in Nat /\ Closing(c)' \in Nat
        /\ Held' \in Nat
    BY CountsStayNat DEF Base
  <1>3. ReadOnce'
    <2>1. ASSUME NEW c \in Clients
          PROVE  /\ Reading(c)' <= 1
                 /\ c \in socks' \ (starved' \cup {adding'}) => Reading(c)' = 1
                 /\ c \notin joined' \/ c = adding' => Reading(c)' = 0
      <3>1. /\ Reading(c) <= 1
            /\ c \in socks \ (starved \cup {adding}) => Reading(c) = 1
            /\ c \notin joined \/ c = adding => Reading(c) = 0
        BY DEF Inv, ReadOnce
      <3>2. /\ Reading(c)' <= Reading(c)
            /\ c \in socks' \ starved' => Reading(c)' = Reading(c)
            /\ socks' \subseteq socks /\ starved \subseteq starved'
            /\ adding' = adding /\ joined' = joined
        BY DEF NoMore
      <3>3. Reading(c) \in Nat /\ Reading(c)' \in Nat
        BY <1>1, <1>2
      <3> QED BY <3>1, <3>2, <3>3
    <2> QED BY <2>1 DEF ReadOnce
  <1>4. CloseOnce'
    <2>1. ASSUME NEW c \in Clients
          PROVE  Closing(c)' <= 1 /\ (c \notin joined' => Closing(c)' = 0)
      <3>1. Closing(c) <= 1 /\ (c \notin joined => Closing(c) = 0)
        BY DEF Inv, CloseOnce
      <3>2. Closing(c)' <= Closing(c) /\ joined' = joined
        BY DEF NoMore
      <3>3. Closing(c) \in Nat /\ Closing(c)' \in Nat
        BY <1>1, <1>2
      <3> QED BY <3>1, <3>2, <3>3
    <2> QED BY <2>1 DEF CloseOnce
  <1>5. Fits'
    <2>1. Held <= NumBuffers /\ Held' <= Held /\ NumBuffers \in Nat
      BY SizeAssumption DEF Inv, Fits, NoMore
    <2>2. NumBuffers' = NumBuffers
      OBVIOUS
    <2> QED BY <1>1, <1>2, <2>1 DEF Fits
  <1> QED BY <1>3, <1>4, <1>5 DEF Inv

\* Nothing counted changes.
LEMMA QuietIsNoMore ==
    ASSUME TypeOK,
           UNCHANGED <<ring, sq, sub, armed, cq, socks, starved, adding, joined>>
    PROVE  NoMore
  <1>1. /\ ring' = ring /\ sq' = sq /\ sub' = sub /\ armed' = armed /\ cq' = cq
        /\ socks' = socks /\ starved' = starved /\ adding' = adding
        /\ joined' = joined
    OBVIOUS
  <1>2. \A c \in Clients : Reading(c)' = Reading(c) /\ Closing(c)' = Closing(c)
    BY <1>1 DEF Reading, Closing
  <1>3. Held' = Held
    BY <1>1 DEF Held
  <1> QED BY <1>1, <1>2, <1>3, CountsAreNat DEF NoMore

\* The batch is the front of the completion queue.
LEMMA PeekKeeps ==
    ASSUME Inv, Peek
    PROVE  Inv'
  <1> DEFINE n == IF Len(cq) < Batch THEN Len(cq) ELSE Batch
  <1>1. /\ TypeOK /\ sub = <<>> /\ pc' = "handle" /\ batch' = SubSeq(cq, 1, n)
        /\ UNCHANGED <<ring, contents, socks, open, adding, joined, sq, sub,
                       armed, cq, inbox, left, hungup, starved, echoed>>
    BY DEF Inv, Base, Peek, Peeked, bufVars, sockVars, peerVars
  <1>2. /\ cq \in Seq(Cqes) /\ Len(cq) \in Nat /\ Batch \in Nat
        /\ \A i \in 1..Len(cq) : cq[i] \in Cqes
    <2>1. cq \in Seq(Cqes)
      BY <1>1 DEF TypeOK, Cqes
    <2> QED BY <2>1, LenProperties, ElementOfSeq, SizeAssumption
  <1>3. n \in Nat /\ n <= Len(cq) /\ n <= Batch
    BY <1>2
  <1> HIDE DEF n
  <1>4. batch' \in Seq(Cqes) /\ Len(batch') = n
    <2>1. 1 \in Int /\ n \in Int /\ \A i \in 1..n : cq[i] \in Cqes
      BY <1>2, <1>3
    <2>2. /\ SubSeq(cq, 1, n) \in Seq(Cqes)
          /\ Len(SubSeq(cq, 1, n)) = IF 1 <= n THEN n - 1 + 1 ELSE 0
      BY <2>1, SubSeqProperties
    <2> QED BY <1>1, <1>3, <2>2
  <1>5. Base'
    <2>1. TypeOK'
      BY <1>1, <1>3, <1>4 DEF TypeOK
    <2> QED BY <1>1, <1>3, <1>4, <2>1 DEF Base, Inv
  <1>6. NoMore
    BY <1>1, QuietIsNoMore
  <1> QED BY <1>5, <1>6, NoMoreKeeps

\* Waking up, returning from io_uring_enter and being killed in it move no
\* operation.
LEMMA QuietWorkerKeeps ==
    ASSUME Inv, Wakes \/ Submitted \/ SigPipe
    PROVE  Inv'
  <1>1. /\ TypeOK /\ pc' \in {"wait", "killed"}
        /\ pc' = "wait" => sub = <<>>
        /\ UNCHANGED <<ring, contents, socks, open, adding, joined, sq, sub,
                       batch, armed, cq, inbox, left, hungup, starved, echoed>>
    BY DEF Inv, Base, Wakes, Submitted, SigPipe, bufVars, sockVars, peerVars
  <1>2. Base'
    <2>1. TypeOK'
      BY <1>1 DEF TypeOK
    <2> QED BY <1>1, <2>1 DEF Base, Inv
  <1>3. NoMore
    BY <1>1, QuietIsNoMore
  <1> QED BY <1>2, <1>3, NoMoreKeeps

\* What clients send and hang up moves no operation.
LEMMA ClientKeeps ==
    ASSUME Inv, Client
    PROVE  Inv'
  <1>1. TypeOK
    BY DEF Inv, Base
  <1>2. /\ UNCHANGED <<ring, contents, socks, open, adding, joined, sq, sub, pc,
                       batch, armed, cq, starved, echoed>>
        /\ inbox' \in [Clients -> Seq(Message)] /\ left' \in [Clients -> Nat]
        /\ hungup' \subseteq Clients
    <2>1. ASSUME NEW c \in Clients, NEW k \in Kinds, Send(c, k)
          PROVE  <1>2!1 /\ <1>2!2 /\ <1>2!3
      <3>1. /\ UNCHANGED <<ring, contents, socks, open, adding, joined, sq, sub,
                           pc, batch, armed, cq, starved, echoed>>
            /\ hungup' = hungup /\ left[c] > 0
            /\ left' = [left EXCEPT ![c] = @ - 1]
            /\ inbox' = [inbox EXCEPT ![c] = Append(@, [from |-> c, kind |-> k])]
        BY <2>1 DEF Send, bufVars, sockVars, workerVars
      <3>2. [from |-> c, kind |-> k] \in Message
        BY DEF Message
      <3>3. inbox[c] \in Seq(Message) /\ left[c] \in Nat
        BY <1>1 DEF TypeOK
      <3>4. Append(inbox[c], [from |-> c, kind |-> k]) \in Seq(Message)
        BY <3>2, <3>3, AppendProperties
      <3> QED BY <1>1, <3>1, <3>3, <3>4 DEF TypeOK
    <2>2. ASSUME NEW c \in Clients, Hangup(c)
          PROVE  <1>2!1 /\ <1>2!2 /\ <1>2!3
      BY <1>1, <2>2 DEF Hangup, TypeOK, bufVars, sockVars, workerVars
    <2> QED BY <2>1, <2>2 DEF Client
  <1>3. Base'
    <2>1. TypeOK'
      BY <1>1, <1>2 DEF TypeOK
    <2> QED BY <1>2, <2>1 DEF Base, Inv
  <1>4. NoMore
    BY <1>1, <1>2, QuietIsNoMore
  <1> QED BY <1>3, <1>4, NoMoreKeeps

\* submitAndWait and advanceCQ's submit: what was prepared is submitted.
LEMMA SubmitKeeps ==
    ASSUME Inv, SubmitAndWait \/ Advance
    PROVE  Inv'
  <1>1. /\ TypeOK /\ sub = <<>> /\ sq' = <<>> /\ sub' = sq
        /\ pc' \in {"enterWait", "enter"}
        /\ UNCHANGED <<ring, contents, socks, open, adding, joined, batch, armed,
                       cq, inbox, left, hungup, starved, echoed>>
    BY DEF Inv, Base, SubmitAndWait, Advance, bufVars, sockVars, peerVars
  <1>2. Base'
    <2>1. sq' \in Seq(Op)
      BY <1>1
    <2>2. sub' \in Seq(Op) /\ pc' \in {"wait", "enterWait", "enter", "handle"}
      BY <1>1 DEF TypeOK
    <2>3. TypeOK'
      BY <1>1, <2>1, <2>2 DEF TypeOK
    <2> QED BY <1>1, <2>3 DEF Base, Inv
  <1>3. \A S : Count(sq', S) + Count(sub', S) = Count(sq, S) + Count(sub, S)
    <2> TAKE S
    <2>1. Count(sq', S) = 0 /\ Count(sub, S) = 0
      BY <1>1, CountEmpty, Zenon
    <2>2. Count(sub', S) = Count(sq, S) /\ Count(sq, S) \in Nat
      BY <1>1, CountsAreNat, Zenon
    <2> QED BY <2>1, <2>2
  <1>4. /\ \A S : /\ Count(sq, S) \in Nat /\ Count(sub, S) \in Nat
                  /\ Count(cq, S) \in Nat
        /\ Len(ring) \in Nat
    BY <1>1, CountsAreNat
  <1>5. \A S : /\ Count(sq', S) \in Nat /\ Count(sub', S) \in Nat
    <2>1. \A S : Count(sq', S) = 0
      BY <1>1, CountEmpty, Zenon
    <2> QED BY <1>1, <1>4, <2>1
  <1>6. NoMore
    <2>1. ASSUME NEW c \in Clients
          PROVE  Reading(c)' = Reading(c) /\ Closing(c)' = Closing(c)
      <3>1. Count(sq', Wishes("read", c)) + Count(sub', Wishes("read", c))
              = Count(sq, Wishes("read", c)) + Count(sub, Wishes("read", c))
        BY <1>3, Zenon
      <3>2. Count(sq', Wishes("close", c)) + Count(sub', Wishes("close", c))
              = Count(sq, Wishes("close", c)) + Count(sub, Wishes("close", c))
        BY <1>3, Zenon
      <3> QED BY <1>1, <3>1, <3>2 DEF Reading, Closing
    <2>2. Held' = Held
      <3>1. Count(sq', Writes) + Count(sub', Writes)
              = Count(sq, Writes) + Count(sub, Writes)
        BY <1>3, Zenon
      <3>2. Held' = Len(ring) + Count(sq', Writes) + Count(sub', Writes)
                    + Count(cq, Holding)
        BY <1>1 DEF Held
      <3>3. /\ Count(sq, Writes) \in Nat /\ Count(sub, Writes) \in Nat
            /\ Count(sq', Writes) \in Nat /\ Count(sub', Writes) \in Nat
            /\ Count(cq, Holding) \in Nat
        BY <1>4, <1>5, Zenon
      <3>4. Held = Len(ring) + Count(sq, Writes) + Count(sub, Writes)
                   + Count(cq, Holding)
        BY DEF Held
      <3> QED BY <1>4, <3>1, <3>2, <3>3, <3>4
    <2> QED BY <1>1, <2>1, <2>2, CountsAreNat DEF NoMore
  <1> QED BY <1>2, <1>6, NoMoreKeeps

-----------------------------------------------------------------------------
(* The steps of the kernel. *)

\* A completion is added after those of the batch.
LEMMA Completes ==
    ASSUME Base, NEW e \in Cqes, cq' = Append(cq, e), batch' = batch
    PROVE  /\ cq' \in Seq(Cqes)
           /\ batch' = SubSeq(cq', 1, Len(batch'))
           /\ batch' \in Seq(Cqes) /\ Len(batch') <= Len(cq')
           /\ Len(batch') <= Batch
           /\ \A S : Count(cq', S) = Count(cq, S) + (IF e \in S THEN 1 ELSE 0)
  <1>1. /\ cq \in Seq(Cqes) /\ batch \in Seq(Cqes) /\ Len(batch) <= Len(cq)
        /\ batch = SubSeq(cq, 1, Len(batch)) /\ Len(batch) <= Batch
    BY DEF Base, TypeOK, Cqes
  <1>2. Len(batch) \in Nat /\ Len(cq) \in Nat
    BY <1>1, LenProperties
  <1>3. cq' \in Seq(Cqes) /\ Len(cq') = Len(cq) + 1
    BY <1>1, AppendProperties
  <1>4. SubSeq(cq', 1, Len(batch)) = SubSeq(cq, 1, Len(batch))
    BY <1>1, <1>2, PrefixOfAppend, Zenon
  <1>5. \A S : Count(cq', S) = Count(cq, S) + (IF e \in S THEN 1 ELSE 0)
    BY <1>1, CountAppend, Zenon
  <1> QED BY <1>1, <1>2, <1>3, <1>4, <1>5

\* A receive that returns data takes a buffer; it stays in the kernel or ends.
LEMMA ReceiveKeeps ==
    ASSUME Inv, NEW d \in Clients, Receive(d)
    PROVE  Inv'
  <1>1. /\ TypeOK /\ Base /\ d \in armed /\ inbox[d] # <<>> /\ ring # <<>>
        /\ ring' = Tail(ring)
        /\ contents' = [contents EXCEPT ![Head(ring)] = Head(inbox[d])]
        /\ inbox' = [inbox EXCEPT ![d] = Tail(@)]
        /\ UNCHANGED <<socks, open, adding, joined, sq, sub, pc, batch, left,
                       hungup, starved, echoed>>
    BY DEF Inv, Base, Receive, sockVars, workerVars
  <1>2. PICK more \in BOOLEAN :
           /\ cq' = Append(cq, Cqe(Wish("read", d), "data", more))
           /\ armed' = IF more THEN armed ELSE armed \ {d}
    BY DEF Receive, Wish
  <1> DEFINE e == Cqe(Wish("read", d), "data", more)
  <1>3. /\ e \in Cqes
        /\ \A c \in Clients : e \in Ended(c) <=> d = c /\ ~more
        /\ \A c \in Clients : e \notin Closed(c)
        /\ e \in Holding
    <2>1. "data" \in Results /\ "read" \in {"read", "write", "close"}
      BY DEF Results
    <2> QED BY <1>2, <2>1, CqeKinds
  <1>4. cq' = Append(cq, e)
    BY <1>2
  <1> HIDE DEF e
  <1>5. /\ cq' \in Seq(Cqes)
        /\ batch' = SubSeq(cq', 1, Len(batch'))
        /\ batch' \in Seq(Cqes) /\ Len(batch') <= Len(cq')
        /\ Len(batch') <= Batch
        /\ \A S : Count(cq', S) = Count(cq, S) + (IF e \in S THEN 1 ELSE 0)
    <2>1. batch' = batch
      BY <1>1
    <2> QED BY <1>1, <1>3, <1>4, <2>1, Completes
  <1>6. /\ ring' \in Seq(Buffers) /\ Len(ring') = Len(ring) - 1
        /\ Head(ring) \in Buffers
    <2>1. ring \in Seq(Buffers)
      BY <1>1 DEF TypeOK
    <2> QED BY <1>1, <2>1, HeadTailProperties
  <1>7. Head(inbox[d]) \in Message /\ Tail(inbox[d]) \in Seq(Message)
    <2>1. inbox[d] \in Seq(Message)
      BY <1>1 DEF TypeOK
    <2> QED BY <1>1, <2>1, HeadTailProperties
  <1>8. armed' \subseteq Clients
    BY <1>1, <1>2 DEF TypeOK
  <1>9. Base'
    <2>1. contents' \in [Buffers -> Message \cup {None}]
      BY <1>1, <1>6, <1>7 DEF TypeOK
    <2>2. inbox' \in [Clients -> Seq(Message)]
      BY <1>1, <1>7 DEF TypeOK
    <2>3. TypeOK'
      BY <1>1, <1>5, <1>6, <1>8, <2>1, <2>2 DEF TypeOK, Cqes
    <2> QED BY <1>1, <1>5, <2>3 DEF Base
  <1>10. /\ \A S : /\ Count(sq, S) \in Nat /\ Count(sub, S) \in Nat
                   /\ Count(cq, S) \in Nat
         /\ Len(ring) \in Nat
    BY <1>1, CountsAreNat
  <1>11. NoMore
    <2>1. ASSUME NEW c \in Clients
          PROVE  Reading(c)' = Reading(c) /\ Closing(c)' = Closing(c)
      <3>1. /\ Count(cq', Ended(c)) = Count(cq, Ended(c))
                                      + (IF d = c /\ ~more THEN 1 ELSE 0)
            /\ Count(cq', Closed(c)) = Count(cq, Closed(c)) + 0
        BY <1>3, <1>5, Zenon
      <3>2. (IF c \in armed' THEN 1 ELSE 0) + (IF d = c /\ ~more THEN 1 ELSE 0)
              = (IF c \in armed THEN 1 ELSE 0)
        BY <1>1, <1>2
      <3>3. /\ Reading(c)' = Count(sq, Wishes("read", c))
                             + Count(sub, Wishes("read", c))
                             + (IF c \in armed' THEN 1 ELSE 0)
                             + Count(cq', Ended(c))
            /\ Closing(c)' = Count(sq, Wishes("close", c))
                             + Count(sub, Wishes("close", c))
                             + (IF c \in socks THEN 1 ELSE 0)
                             + Count(cq', Closed(c))
        BY <1>1 DEF Reading, Closing
      <3>4. /\ Count(sq, Wishes("read", c)) \in Nat
            /\ Count(sub, Wishes("read", c)) \in Nat
            /\ Count(cq, Ended(c)) \in Nat
            /\ Count(sq, Wishes("close", c)) \in Nat
            /\ Count(sub, Wishes("close", c)) \in Nat
            /\ Count(cq, Closed(c)) \in Nat
        BY <1>10, Zenon
      <3> QED BY <3>1, <3>2, <3>3, <3>4 DEF Reading, Closing
    <2>2. Held' = Held
      <3>1. Count(cq', Holding) = Count(cq, Holding) + 1
        BY <1>3, <1>5, Zenon
      <3>2. Held' = Len(ring') + Count(sq, Writes) + Count(sub, Writes)
                    + Count(cq', Holding)
        BY <1>1 DEF Held
      <3>3. /\ Count(sq, Writes) \in Nat /\ Count(sub, Writes) \in Nat
            /\ Count(cq, Holding) \in Nat
        BY <1>10, Zenon
      <3> QED BY <1>6, <1>10, <3>1, <3>2, <3>3 DEF Held
    <2> QED BY <1>1, <2>1, <2>2, CountsAreNat DEF NoMore
  <1> QED BY <1>9, <1>11, NoMoreKeeps

\* A receive that ends leaves the completion that says so in its place.
LEMMA ReceiveEndsKeeps ==
    ASSUME Inv, NEW d \in Clients, ReceiveEnds(d)
    PROVE  Inv'
  <1>1. /\ TypeOK /\ Base /\ d \in armed /\ armed' = armed \ {d}
        /\ UNCHANGED <<ring, contents, socks, open, adding, joined, sq, sub, pc,
                       batch, inbox, left, hungup, starved, echoed>>
    BY DEF Inv, Base, ReceiveEnds, bufVars, sockVars, workerVars, peerVars
  <1>2. PICK r \in {"nobufs", "eof", "reset", "again"}, more \in BOOLEAN :
           ~more /\ cq' = Append(cq, Cqe(Wish("read", d), r, more))
    <2>1. PICK r \in {"nobufs", "eof", "reset", "again"} :
             cq' = Append(cq, Cqe(Wish("read", d), r, FALSE))
      BY DEF ReceiveEnds, Wish
    <2>2. FALSE \in BOOLEAN /\ ~FALSE
      OBVIOUS
    <2> QED BY <2>1, <2>2, Zenon
  <1> DEFINE e == Cqe(Wish("read", d), r, more)
  <1>3. /\ e \in Cqes
        /\ \A c \in Clients : e \in Ended(c) <=> d = c
        /\ \A c \in Clients : e \notin Closed(c)
        /\ e \notin Holding
    <2>1. r \in Results /\ "read" \in {"read", "write", "close"} /\ r # "data"
      BY <1>2 DEF Results
    <2> QED BY <1>2, <2>1, CqeKinds
  <1>4. cq' = Append(cq, e)
    BY <1>2
  <1> HIDE DEF e
  <1>5. /\ cq' \in Seq(Cqes)
        /\ batch' = SubSeq(cq', 1, Len(batch'))
        /\ batch' \in Seq(Cqes) /\ Len(batch') <= Len(cq')
        /\ Len(batch') <= Batch
        /\ \A S : Count(cq', S) = Count(cq, S) + (IF e \in S THEN 1 ELSE 0)
    <2>1. batch' = batch
      BY <1>1
    <2> QED BY <1>1, <1>3, <1>4, <2>1, Completes
  <1>6. Base'
    <2>1. TypeOK'
      BY <1>1, <1>5 DEF TypeOK, Cqes
    <2> QED BY <1>1, <1>5, <2>1 DEF Base
  <1>7. /\ \A S : /\ Count(sq, S) \in Nat /\ Count(sub, S) \in Nat
                  /\ Count(cq, S) \in Nat
        /\ Len(ring) \in Nat
    BY <1>1, CountsAreNat
  <1>8. NoMore
    <2>1. ASSUME NEW c \in Clients
          PROVE  Reading(c)' = Reading(c) /\ Closing(c)' = Closing(c)
      <3>1. /\ Count(cq', Ended(c)) = Count(cq, Ended(c))
                                      + (IF d = c THEN 1 ELSE 0)
            /\ Count(cq', Closed(c)) = Count(cq, Closed(c)) + 0
        BY <1>3, <1>5, Zenon
      <3>2. (IF c \in armed' THEN 1 ELSE 0) + (IF d = c THEN 1 ELSE 0)
              = (IF c \in armed THEN 1 ELSE 0)
        BY <1>1
      <3>3. /\ Reading(c)' = Count(sq, Wishes("read", c))
                             + Count(sub, Wishes("read", c))
                             + (IF c \in armed' THEN 1 ELSE 0)
                             + Count(cq', Ended(c))
            /\ Closing(c)' = Count(sq, Wishes("close", c))
                             + Count(sub, Wishes("close", c))
                             + (IF c \in socks THEN 1 ELSE 0)
                             + Count(cq', Closed(c))
        BY <1>1 DEF Reading, Closing
      <3>4. /\ Count(sq, Wishes("read", c)) \in Nat
            /\ Count(sub, Wishes("read", c)) \in Nat
            /\ Count(cq, Ended(c)) \in Nat
            /\ Count(sq, Wishes("close", c)) \in Nat
            /\ Count(sub, Wishes("close", c)) \in Nat
            /\ Count(cq, Closed(c)) \in Nat
        BY <1>7, Zenon
      <3> QED BY <3>1, <3>2, <3>3, <3>4 DEF Reading, Closing
    <2>2. Held' = Held
      <3>1. Count(cq', Holding) = Count(cq, Holding) + 0
        BY <1>3, <1>5, Zenon
      <3>2. Held' = Len(ring) + Count(sq, Writes) + Count(sub, Writes)
                    + Count(cq', Holding)
        BY <1>1 DEF Held
      <3>3. /\ Count(sq, Writes) \in Nat /\ Count(sub, Writes) \in Nat
            /\ Count(cq, Holding) \in Nat
        BY <1>7, Zenon
      <3> QED BY <1>7, <3>1, <3>2, <3>3 DEF Held
    <2> QED BY <1>1, <2>1, <2>2, CountsAreNat DEF NoMore
  <1> QED BY <1>6, <1>8, NoMoreKeeps

\* The submitted entry becomes a receive, a completion, or both go wrong: a
\* close is always late, for a client that is to be closed is in no map.
LEMMA EnterKeeps ==
    ASSUME Inv, Enter
    PROVE  Inv'
  <1> DEFINE o == Head(sub)
             m == IF o.op = "read" /\ o.c \in open THEN 1 ELSE 0
  <1>1. /\ TypeOK /\ Base /\ sub # <<>> /\ Issue(o) /\ sub' = Tail(sub)
        /\ pc \in {"enterWait", "enter"}
        /\ UNCHANGED <<ring, contents, socks, open, adding, joined, sq, pc,
                       batch, inbox, left, hungup, starved>>
        /\ socks = open
    BY DEF Inv, Base, Enter, bufVars, sockVars, peerVars
  <1>2. /\ o \in Op /\ sub' \in Seq(Op)
        /\ o.op \in {"read", "write", "close"} /\ o.c \in Clients
        /\ o = Wish(o.op, o.c)
    <2>1. sub \in Seq(Op)
      BY <1>1 DEF TypeOK
    <2>2. o \in Op /\ sub' \in Seq(Op)
      BY <1>1, <2>1, HeadTailProperties
    <2> QED BY <2>2, OpIsWish
  <1>3. /\ \A S : /\ Count(sq, S) \in Nat /\ Count(sub, S) \in Nat
                  /\ Count(cq, S) \in Nat
        /\ Len(ring) \in Nat
    BY <1>1, CountsAreNat
  <1>4. /\ \A S : /\ Count(sub', S) = Count(sub, S) - (IF o \in S THEN 1 ELSE 0)
                  /\ o \in S => Count(sub, S) >= 1
    <2>1. sub \in Seq(Op)
      BY <1>1 DEF TypeOK
    <2> QED BY <1>1, <2>1, CountTail, Zenon
  <1> HIDE DEF o
  <1>5. /\ \A p \in {"read", "write", "close"} : \A c \in Clients :
              o \in Wishes(p, c) <=> o.op = p /\ o.c = c
        /\ o \in Writes <=> o.op = "write"
    <2>1. /\ \A p \in {"read", "write", "close"} : \A c \in Clients :
                Wish(o.op, o.c) \in Wishes(p, c) <=> o.op = p /\ o.c = c
          /\ Wish(o.op, o.c) \in Writes <=> o.op = "write"
      BY <1>2, WishKinds
    <2> QED BY <1>2, <2>1, Zenon
  <1>6. o.c \in open => o.op # "close"
    <2> SUFFICES ASSUME o.c \in open, o.op = "close" PROVE FALSE
      OBVIOUS
    <2>1. o \in Wishes("close", o.c)
      BY <1>2, <1>5
    <2>2. Count(sub, Wishes("close", o.c)) >= 1
      BY <1>4, <2>1, Zenon
    <2>3. Closing(o.c) <= 1
      BY <1>2 DEF Inv, CloseOnce
    <2>4. /\ Count(sub, Wishes("close", o.c)) \in Nat
          /\ Count(sq, Wishes("close", o.c)) \in Nat
          /\ Count(cq, Closed(o.c)) \in Nat
      BY <1>3, Zenon
    <2> QED BY <1>1, <2>2, <2>3, <2>4 DEF Closing
  <1>7. CASE m = 1
    <2>1. /\ armed' = armed \cup {o.c} /\ cq' = cq /\ echoed' = echoed
          /\ o.op = "read" /\ o.c \in open
      <3>1. o.op = "read" /\ o.c \in open
        BY <1>7
      <3>2. armed' = armed \cup {o.c} /\ cq' = cq /\ echoed' = echoed
        BY <1>1, <3>1 DEF Issue
      <3> QED BY <3>1, <3>2
    <2>2. o.c \notin armed
      <3>1. o \in Wishes("read", o.c)
        BY <1>2, <1>5, <2>1
      <3>2. Count(sub, Wishes("read", o.c)) >= 1
        BY <1>4, <3>1, Zenon
      <3>3. Reading(o.c) <= 1
        BY <1>2 DEF Inv, ReadOnce
      <3>4. /\ Count(sub, Wishes("read", o.c)) \in Nat
            /\ Count(sq, Wishes("read", o.c)) \in Nat
            /\ Count(cq, Ended(o.c)) \in Nat
        BY <1>3, Zenon
      <3> QED BY <3>2, <3>3, <3>4 DEF Reading
    <2>3. Base'
      <3>1. armed' \subseteq Clients
        BY <1>1, <1>2, <2>1 DEF TypeOK
      <3>2. TypeOK'
        BY <1>1, <1>2, <2>1, <3>1 DEF TypeOK
      <3>3. pc' \notin {"wait", "handle"}
        BY <1>1
      <3> QED BY <1>1, <2>1, <3>2, <3>3 DEF Base
    <2>4. NoMore
      <3>1. ASSUME NEW c \in Clients
            PROVE  Reading(c)' = Reading(c) /\ Closing(c)' = Closing(c)
        <4>1. /\ Count(sub', Wishes("read", c))
                   = Count(sub, Wishes("read", c)) - (IF o.c = c THEN 1 ELSE 0)
              /\ Count(sub', Wishes("close", c))
                   = Count(sub, Wishes("close", c)) - 0
          <5>1. /\ o \in Wishes("read", c) <=> o.c = c
                /\ o \notin Wishes("close", c)
            BY <1>5, <2>1
          <5> QED BY <1>4, <5>1, Zenon
        <4>2. (IF c \in armed' THEN 1 ELSE 0) - (IF o.c = c THEN 1 ELSE 0)
                = (IF c \in armed THEN 1 ELSE 0)
          BY <2>1, <2>2
        <4>3. /\ Reading(c)' = Count(sq, Wishes("read", c))
                               + Count(sub', Wishes("read", c))
                               + (IF c \in armed' THEN 1 ELSE 0)
                               + Count(cq, Ended(c))
              /\ Closing(c)' = Count(sq, Wishes("close", c))
                               + Count(sub', Wishes("close", c))
                               + (IF c \in socks THEN 1 ELSE 0)
                               + Count(cq, Closed(c))
          BY <1>1, <2>1 DEF Reading, Closing
        <4>4. /\ Count(sq, Wishes("read", c)) \in Nat
              /\ Count(sub, Wishes("read", c)) \in Nat
              /\ Count(cq, Ended(c)) \in Nat
              /\ Count(sq, Wishes("close", c)) \in Nat
              /\ Count(sub, Wishes("close", c)) \in Nat
              /\ Count(cq, Closed(c)) \in Nat
          BY <1>3, Zenon
        <4> QED BY <4>1, <4>2, <4>3, <4>4 DEF Reading, Closing
      <3>2. Held' = Held
        <4>1. Count(sub', Writes) = Count(sub, Writes) - 0
          <5>1. o \notin Writes
            BY <1>5, <2>1
          <5> QED BY <1>4, <5>1, Zenon
        <4>2. Held' = Len(ring) + Count(sq, Writes) + Count(sub', Writes)
                      + Count(cq, Holding)
          BY <1>1, <2>1 DEF Held
        <4>3. /\ Count(sq, Writes) \in Nat /\ Count(sub, Writes) \in Nat
              /\ Count(cq, Holding) \in Nat
          BY <1>3, Zenon
        <4> QED BY <1>3, <4>1, <4>2, <4>3 DEF Held
      <3> QED BY <1>1, <3>1, <3>2, CountsAreNat DEF NoMore
    <2> QED BY <2>3, <2>4, NoMoreKeeps
  <1>8. CASE m = 0
    <2>0. PICK r \in {"ok", "again", "reset", "fatal"} :
             /\ cq' = Append(cq, Cqe(o, r, FALSE)) /\ armed' = armed
             /\ \/ echoed' = echoed
                \/ echoed' = [echoed EXCEPT ![o.c] = @ \cup {contents[0]}]
      <3>1. CASE o.c \notin open
        BY <1>1, <3>1 DEF Issue
      <3>2. CASE o.c \in open /\ o.op = "write"
        BY <1>1, <3>2 DEF Issue
      <3>3. o.c \notin open \/ (o.c \in open /\ o.op = "write")
        BY <1>2, <1>6, <1>8
      <3> QED BY <3>1, <3>2, <3>3, Zenon
    <2>1. PICK more \in BOOLEAN :
             /\ ~more /\ cq' = Append(cq, Cqe(o, r, more)) /\ armed' = armed
             /\ \/ echoed' = echoed
                \/ echoed' = [echoed EXCEPT ![o.c] = @ \cup {contents[0]}]
      <3>1. FALSE \in BOOLEAN /\ ~FALSE
        OBVIOUS
      <3> QED BY <2>0, <3>1, Zenon
    <2> DEFINE e == Cqe(o, r, more)
    <2>2. /\ e \in Cqes
          /\ \A c \in Clients : e \in Ended(c) <=> o.op = "read" /\ o.c = c
          /\ \A c \in Clients : e \in Closed(c) <=> o.op = "close" /\ o.c = c
          /\ e \in Holding <=> o.op = "write"
      <3>1. r \in Results /\ r # "data"
        BY <2>0 DEF Results
      <3>2. e = Cqe(Wish(o.op, o.c), r, more)
        BY <1>2, Zenon
      <3> HIDE DEF e
      <3> QED BY <1>2, <2>1, <3>1, <3>2, CqeKinds
    <2>3. cq' = Append(cq, e) /\ batch' = batch
      BY <1>1, <2>1
    <2> HIDE DEF e
    <2>4. /\ cq' \in Seq(Cqes)
          /\ batch' = SubSeq(cq', 1, Len(batch'))
          /\ batch' \in Seq(Cqes) /\ Len(batch') <= Len(cq')
          /\ Len(batch') <= Batch
          /\ \A S : Count(cq', S) = Count(cq, S) + (IF e \in S THEN 1 ELSE 0)
      BY <1>1, <2>2, <2>3, Completes
    <2>5. Base'
      <3>1. echoed' \in [Clients -> SUBSET (Message \cup {None})]
        <4>1. contents[0] \in Message \cup {None}
          <5>1. 0 \in Buffers
            BY SizeAssumption DEF Buffers
          <5> QED BY <1>1, <5>1 DEF TypeOK
        <4>2. echoed \in [Clients -> SUBSET (Message \cup {None})]
          BY <1>1 DEF TypeOK
        <4>3. echoed[o.c] \cup {contents[0]} \in SUBSET (Message \cup {None})
          BY <1>2, <4>1, <4>2
        <4> QED BY <2>1, <4>2, <4>3
      <3>2. TypeOK'
        BY <1>1, <1>2, <2>1, <2>4, <3>1 DEF TypeOK, Cqes
      <3>3. pc' \notin {"wait", "handle"}
        BY <1>1
      <3> QED BY <1>1, <2>4, <3>2, <3>3 DEF Base
    <2>6. NoMore
      <3>1. ASSUME NEW c \in Clients
            PROVE  Reading(c)' = Reading(c) /\ Closing(c)' = Closing(c)
        <4>1. /\ Count(sub', Wishes("read", c))
                   = Count(sub, Wishes("read", c))
                     - (IF o.op = "read" /\ o.c = c THEN 1 ELSE 0)
              /\ Count(sub', Wishes("close", c))
                   = Count(sub, Wishes("close", c))
                     - (IF o.op = "close" /\ o.c = c THEN 1 ELSE 0)
          <5>1. /\ o \in Wishes("read", c) <=> o.op = "read" /\ o.c = c
                /\ o \in Wishes("close", c) <=> o.op = "close" /\ o.c = c
            BY <1>5
          <5> QED BY <1>4, <5>1, Zenon
        <4>2. /\ Count(cq', Ended(c))
                   = Count(cq, Ended(c))
                     + (IF o.op = "read" /\ o.c = c THEN 1 ELSE 0)
              /\ Count(cq', Closed(c))
                   = Count(cq, Closed(c))
                     + (IF o.op = "close" /\ o.c = c THEN 1 ELSE 0)
          <5>1. /\ e \in Ended(c) <=> o.op = "read" /\ o.c = c
                /\ e \in Closed(c) <=> o.op = "close" /\ o.c = c
            BY <2>2
          <5> QED BY <2>4, <5>1, Zenon
        <4>3. /\ Reading(c)' = Count(sq, Wishes("read", c))
                               + Count(sub', Wishes("read", c))
                               + (IF c \in armed THEN 1 ELSE 0)
                               + Count(cq', Ended(c))
              /\ Closing(c)' = Count(sq, Wishes("close", c))
                               + Count(sub', Wishes("close", c))
                               + (IF c \in socks THEN 1 ELSE 0)
                               + Count(cq', Closed(c))
          BY <1>1, <2>1 DEF Reading, Closing
        <4>4. /\ Count(sq, Wishes("read", c)) \in Nat
              /\ Count(sub, Wishes("read", c)) \in Nat
              /\ Count(cq, Ended(c)) \in Nat
              /\ Count(sq, Wishes("close", c)) \in Nat
              /\ Count(sub, Wishes("close", c)) \in Nat
              /\ Count(cq, Closed(c)) \in Nat
          BY <1>3, Zenon
        <4> QED BY <4>1, <4>2, <4>3, <4>4 DEF Reading, Closing
      <3>2. Held' = Held
        <4>1. /\ Count(sub', Writes) = Count(sub, Writes)
                                       - (IF o.op = "write" THEN 1 ELSE 0)
              /\ Count(cq', Holding) = Count(cq, Holding)
                                       + (IF o.op = "write" THEN 1 ELSE 0)
          BY <1>4, <1>5, <2>2, <2>4, Zenon
        <4>2. Held' = Len(ring) + Count(sq, Writes) + Count(sub', Writes)
                      + Count(cq', Holding)
          BY <1>1 DEF Held
        <4>3. /\ Count(sq, Writes) \in Nat /\ Count(sub, Writes) \in Nat
              /\ Count(cq, Holding) \in Nat
          BY <1>3, Zenon
        <4> QED BY <1>3, <4>1, <4>2, <4>3 DEF Held
      <3> QED BY <1>1, <3>1, <3>2, CountsAreNat DEF NoMore
    <2> QED BY <2>5, <2>6, NoMoreKeeps
  <1> QED BY <1>7, <1>8

-----------------------------------------------------------------------------
(* The listener's steps. *)

\* A client is in the map before its receive is prepared.
LEMMA AddInsertKeeps ==
    ASSUME Inv, NEW d \in Clients, AddInsert(d)
    PROVE  Inv'
  <1>1. /\ TypeOK /\ Base /\ adding = None /\ d \notin joined
        /\ adding' = d /\ joined' = joined \cup {d} /\ open' = open \cup {d}
        /\ socks' = socks \cup {d}
        /\ UNCHANGED <<ring, contents, sq, sub, pc, batch, armed, cq, inbox,
                       left, hungup, starved, echoed>>
    BY DEF Inv, Base, AddInsert, bufVars, workerVars, peerVars
  <1>2. Base'
    <2>1. TypeOK'
      BY <1>1 DEF TypeOK
    <2> QED BY <1>1, <2>1 DEF Base
  <1>3. \A c \in Clients : Reading(c)' = Reading(c)
    BY <1>1 DEF Reading
  <1>4. ReadOnce'
    <2>1. ASSUME NEW c \in Clients
          PROVE  /\ Reading(c)' <= 1
                 /\ c \in socks' \ (starved' \cup {adding'}) => Reading(c)' = 1
                 /\ c \notin joined' \/ c = adding' => Reading(c)' = 0
      <3>1. /\ Reading(c) <= 1
            /\ c \in socks \ (starved \cup {adding}) => Reading(c) = 1
            /\ c \notin joined \/ c = adding => Reading(c) = 0
        BY DEF Inv, ReadOnce
      <3>2. adding # c
        BY <1>1, NoneAssumption
      <3> QED BY <1>1, <1>3, <3>1, <3>2
    <2> QED BY <2>1 DEF ReadOnce
  <1>5. CloseOnce'
    <2>1. ASSUME NEW c \in Clients
          PROVE  Closing(c)' <= 1 /\ (c \notin joined' => Closing(c)' = 0)
      <3>1. Closing(c) <= 1 /\ (c \notin joined => Closing(c) = 0)
        BY DEF Inv, CloseOnce
      <3>2. Closing(c)' = Count(sq, Wishes("close", c))
                          + Count(sub, Wishes("close", c))
                          + (IF c \in socks' THEN 1 ELSE 0)
                          + Count(cq, Closed(c))
        BY <1>1 DEF Closing
      <3>3. /\ Count(sq, Wishes("close", c)) \in Nat
            /\ Count(sub, Wishes("close", c)) \in Nat
            /\ Count(cq, Closed(c)) \in Nat
        BY <1>1, CountsAreNat, Zenon
      <3>4. CASE c = d
        <4>1. Closing(c) = 0 /\ c \in joined'
          BY <1>1, <3>1, <3>4
        <4> QED BY <3>2, <3>3, <4>1 DEF Closing
      <3>5. CASE c # d
        <4>1. (c \in socks' <=> c \in socks) /\ (c \in joined' <=> c \in joined)
          BY <1>1, <3>5
        <4> QED BY <3>1, <3>2, <4>1 DEF Closing
      <3> QED BY <3>4, <3>5
    <2> QED BY <2>1 DEF CloseOnce
  <1>6. Fits'
    BY <1>1 DEF Inv, Fits, Held
  <1> QED BY <1>2, <1>4, <1>5, <1>6 DEF Inv

\* A new entry of a submission queue.
LEMMA AppendOp ==
    ASSUME NEW q \in Seq(Op), NEW o \in {"read", "write", "close"},
           NEW d \in Clients
    PROVE  /\ Append(q, Wish(o, d)) \in Seq(Op)
           /\ q \o <<Wish(o, d)>> = Append(q, Wish(o, d))
           /\ \A p \in {"read", "write", "close"} : \A c \in Clients :
                 Count(Append(q, Wish(o, d)), Wishes(p, c))
                   = Count(q, Wishes(p, c)) + (IF o = p /\ d = c THEN 1 ELSE 0)
           /\ Count(Append(q, Wish(o, d)), Writes)
                = Count(q, Writes) + (IF o = "write" THEN 1 ELSE 0)
  <1> DEFINE e == Wish(o, d)
  <1>1. /\ e \in Op
        /\ \A p \in {"read", "write", "close"} : \A c \in Clients :
              e \in Wishes(p, c) <=> o = p /\ d = c
        /\ e \in Writes <=> o = "write"
    BY WishKinds
  <1> HIDE DEF e
  <1>2. Append(q, e) \in Seq(Op) /\ q \o <<e>> = Append(q, e)
    BY <1>1, AppendProperties, AppendIsConcat
  <1>3. \A S : Count(Append(q, e), S) = Count(q, S) + (IF e \in S THEN 1 ELSE 0)
    BY <1>1, CountAppend, Zenon
  <1>4. \A p \in {"read", "write", "close"} : \A c \in Clients :
           Count(Append(q, e), Wishes(p, c))
             = Count(q, Wishes(p, c)) + (IF o = p /\ d = c THEN 1 ELSE 0)
    BY <1>1, <1>3, Zenon
  <1>5. Count(Append(q, e), Writes)
          = Count(q, Writes) + (IF o = "write" THEN 1 ELSE 0)
    BY <1>1, <1>3, Zenon
  <1> QED BY <1>2, <1>4, <1>5 DEF e

\* addClient prepares the first receive of a client that has none.
LEMMA AddPrepareKeeps ==
    ASSUME Inv, AddPrepare
    PROVE  Inv'
  <1>1. /\ TypeOK /\ Base /\ adding # None /\ adding' = None
        /\ sq' = Append(sq, Wish("read", adding))
        /\ UNCHANGED <<ring, contents, socks, open, joined, sub, pc, batch,
                       armed, cq, inbox, left, hungup, starved, echoed>>
    BY DEF Inv, Base, AddPrepare, Wish, bufVars, workerVars, peerVars
  <1>2. adding \in Clients /\ adding \in joined
    BY <1>1 DEF TypeOK, Base
  <1>3. /\ sq' \in Seq(Op)
        /\ \A c \in Clients :
              /\ Count(sq', Wishes("read", c))
                   = Count(sq, Wishes("read", c)) + (IF adding = c THEN 1 ELSE 0)
              /\ Count(sq', Wishes("close", c))
                   = Count(sq, Wishes("close", c)) + 0
        /\ Count(sq', Writes) = Count(sq, Writes) + 0
    <2>1. sq \in Seq(Op)
      BY <1>1 DEF TypeOK
    <2> QED BY <1>1, <1>2, <2>1, AppendOp
  <1>4. /\ \A S : /\ Count(sq, S) \in Nat /\ Count(sub, S) \in Nat
                  /\ Count(cq, S) \in Nat
        /\ Len(ring) \in Nat
        /\ \A c \in Clients : Reading(c) \in Nat
    BY <1>1, CountsAreNat
  <1>5. Base'
    <2>1. TypeOK'
      BY <1>1, <1>3 DEF TypeOK
    <2> QED BY <1>1, <2>1 DEF Base
  <1>6. ASSUME NEW c \in Clients
        PROVE  /\ Reading(c)' = Reading(c) + (IF adding = c THEN 1 ELSE 0)
               /\ Closing(c)' = Closing(c)
    <2>1. /\ Reading(c)' = Count(sq', Wishes("read", c))
                           + Count(sub, Wishes("read", c))
                           + (IF c \in armed THEN 1 ELSE 0)
                           + Count(cq, Ended(c))
          /\ Closing(c)' = Count(sq', Wishes("close", c))
                           + Count(sub, Wishes("close", c))
                           + (IF c \in socks THEN 1 ELSE 0)
                           + Count(cq, Closed(c))
      BY <1>1 DEF Reading, Closing
    <2>2. /\ Count(sq, Wishes("read", c)) \in Nat
          /\ Count(sub, Wishes("read", c)) \in Nat
          /\ Count(cq, Ended(c)) \in Nat
          /\ Count(sq, Wishes("close", c)) \in Nat
          /\ Count(sub, Wishes("close", c)) \in Nat
          /\ Count(cq, Closed(c)) \in Nat
      BY <1>4, Zenon
    <2>3. /\ Count(sq', Wishes("read", c))
               = Count(sq, Wishes("read", c)) + (IF adding = c THEN 1 ELSE 0)
          /\ Count(sq', Wishes("close", c))
               = Count(sq, Wishes("close", c)) + 0
      BY <1>3, Zenon
    <2> QED BY <2>1, <2>2, <2>3 DEF Reading, Closing
  <1>7. ReadOnce'
    <2>1. ASSUME NEW c \in Clients
          PROVE  /\ Reading(c)' <= 1
                 /\ c \in socks' \ (starved' \cup {adding'}) => Reading(c)' = 1
                 /\ c \notin joined' \/ c = adding' => Reading(c)' = 0
      <3>1. /\ Reading(c) <= 1
            /\ c \in socks \ (starved \cup {adding}) => Reading(c) = 1
            /\ c \notin joined \/ c = adding => Reading(c) = 0
        BY DEF Inv, ReadOnce
      <3>2. c # None
        BY NoneAssumption
      <3>3. CASE adding = c
        BY <1>1, <1>2, <1>6, <3>1, <3>2, <3>3
      <3>4. CASE adding # c
        <4>1. Reading(c)' = Reading(c) + 0 /\ Reading(c) \in Nat
          BY <1>4, <1>6, <3>4
        <4> QED BY <1>1, <3>1, <3>2, <3>4, <4>1
      <3> QED BY <3>3, <3>4
    <2> QED BY <2>1 DEF ReadOnce
  <1>8. CloseOnce'
    BY <1>1, <1>6 DEF Inv, CloseOnce
  <1>9. Fits'
    <2>1. Held' = Held
      <3>1. Held' = Len(ring) + Count(sq', Writes) + Count(sub, Writes)
                    + Count(cq, Holding)
        BY <1>1 DEF Held
      <3>2. /\ Count(sq, Writes) \in Nat /\ Count(sub, Writes) \in Nat
            /\ Count(cq, Holding) \in Nat
        BY <1>4, Zenon
      <3>3. Count(sq', Writes) = Count(sq, Writes)
        BY <1>3, <3>2
      <3> QED BY <3>1, <3>3 DEF Held
    <2> QED BY <2>1 DEF Inv, Fits
  <1> QED BY <1>5, <1>7, <1>8, <1>9 DEF Inv

-----------------------------------------------------------------------------
(* The handlers. *)

\* The completion handled is at the head of the batch and of the queue.
LEMMA Handled ==
    ASSUME Inv, NEW o \in {"read", "write", "close"}, NEW results,
           TakeCqe(o, results)
    PROVE  /\ Head(batch) \in Cqes
           /\ Head(batch).op = o /\ Head(batch).res \in results
           /\ Head(batch).c \in Clients /\ Head(batch).more \in BOOLEAN
           /\ pc = "handle" /\ sub = <<>> /\ sub' = sub /\ pc' = pc
           /\ cq' \in Seq(Cqes) /\ batch' \in Seq(Cqes)
           /\ batch' = SubSeq(cq', 1, Len(batch'))
           /\ Len(batch') <= Len(cq') /\ Len(batch') <= Batch
           /\ \A S : Count(cq', S)
                       = Count(cq, S) - (IF Head(batch) \in S THEN 1 ELSE 0)
  <1>1. /\ pc = "handle" /\ batch # <<>> /\ batch' = Tail(batch)
        /\ cq' = Tail(cq) /\ sub' = sub /\ pc' = pc
        /\ Head(batch).op = o /\ Head(batch).res \in results
    BY DEF TakeCqe
  <1>2. /\ cq \in Seq(Cqes) /\ batch \in Seq(Cqes) /\ Len(batch) <= Len(cq)
        /\ batch = SubSeq(cq, 1, Len(batch)) /\ Len(batch) <= Batch
        /\ pc = "handle" => sub = <<>>
    BY DEF Inv, Base, TypeOK, Cqes
  <1>3. /\ cq # <<>> /\ Head(cq) = Head(batch)
        /\ Len(Tail(batch)) <= Len(Tail(cq))
        /\ Tail(batch) = SubSeq(Tail(cq), 1, Len(Tail(batch)))
    BY <1>1, <1>2, PrefixOfTail, Zenon
  <1>4. /\ Head(batch) \in Cqes /\ Tail(batch) \in Seq(Cqes)
        /\ Tail(cq) \in Seq(Cqes)
        /\ Len(Tail(batch)) = Len(batch) - 1
    BY <1>1, <1>2, <1>3, HeadTailProperties
  <1>5. Len(batch) \in Nat /\ Batch \in Nat
    BY <1>2, LenProperties, SizeAssumption
  <1>6. \A S : Count(cq', S)
                 = Count(cq, S) - (IF Head(batch) \in S THEN 1 ELSE 0)
    BY <1>1, <1>2, <1>3, CountTail, Zenon
  <1>7. Head(batch).c \in Clients /\ Head(batch).more \in BOOLEAN
    BY <1>4 DEF Cqes
  <1> QED BY <1>1, <1>2, <1>3, <1>4, <1>5, <1>6, <1>7

\* Which counts a completion is in.
LEMMA InCounts ==
    ASSUME NEW h \in Cqes
    PROVE  /\ \A c \in Clients : h \in Ended(c) <=> h.op = "read" /\ h.c = c /\ ~h.more
           /\ \A c \in Clients : h \in Closed(c) <=> h.op = "close" /\ h.c = c
           /\ h \in Holding <=> h.op = "write" \/ h.res = "data"
  BY Zenon DEF Ended, Closed, Holding

\* A sum of counts that gains a and loses b.
LEMMA SumMoves ==
    ASSUME NEW p \in Nat, NEW q \in Nat, NEW i \in Nat, NEW n \in Nat,
           NEW a \in Int, NEW b \in Int
    PROVE  (p + a) + q + i + (n - b) = (p + q + i + n) + a - b
  OBVIOUS

\* What a handler may prepare for the client of its completion: r receives, k
\* closes and w writes.  A receive stands for the one that ended, a close for
\* the entry of the map, a write or a given back buffer for what was held.
LEMMA HandlerIsNoMore ==
    ASSUME TypeOK, NEW h \in Cqes,
           UNCHANGED <<sub, armed, adding, joined>>,
           \A S : Count(cq', S) = Count(cq, S) - (IF h \in S THEN 1 ELSE 0),
           NEW r \in {0, 1}, NEW k \in {0, 1}, NEW w \in {0, 1},
           \A c \in Clients :
              /\ Count(sq', Wishes("read", c))
                   = Count(sq, Wishes("read", c)) + (IF h.c = c THEN r ELSE 0)
              /\ Count(sq', Wishes("close", c))
                   = Count(sq, Wishes("close", c)) + (IF h.c = c THEN k ELSE 0),
           Count(sq', Writes) = Count(sq, Writes) + w,
           r = 1 => h.op = "read" /\ ~h.more,
           h.op = "read" /\ ~h.more /\ r = 0 => h.c \notin socks' \ starved',
           k = 1 => h.c \in socks /\ socks' = socks \ {h.c},
           k = 0 => socks' = socks,
           Len(ring') \in Nat,
           Len(ring') + w <= Len(ring) + (IF h \in Holding THEN 1 ELSE 0),
           starved \subseteq starved'
    PROVE  NoMore
  <1>1. /\ \A S : /\ Count(sq, S) \in Nat /\ Count(sub, S) \in Nat
                  /\ Count(cq, S) \in Nat
        /\ Len(ring) \in Nat
    BY CountsAreNat
  <1>2. ASSUME NEW c \in Clients
        PROVE  /\ Reading(c)' <= Reading(c) /\ Closing(c)' <= Closing(c)
               /\ c \in socks' \ starved' => Reading(c)' = Reading(c)
    <2>1. /\ Reading(c)' = Count(sq', Wishes("read", c))
                           + Count(sub, Wishes("read", c))
                           + (IF c \in armed THEN 1 ELSE 0)
                           + Count(cq', Ended(c))
          /\ Closing(c)' = Count(sq', Wishes("close", c))
                           + Count(sub, Wishes("close", c))
                           + (IF c \in socks' THEN 1 ELSE 0)
                           + Count(cq', Closed(c))
      BY DEF Reading, Closing
    <2>2. /\ Count(sq, Wishes("read", c)) \in Nat
          /\ Count(sub, Wishes("read", c)) \in Nat
          /\ Count(cq, Ended(c)) \in Nat
          /\ Count(sq, Wishes("close", c)) \in Nat
          /\ Count(sub, Wishes("close", c)) \in Nat
          /\ Count(cq, Closed(c)) \in Nat
      BY <1>1, Zenon
    <2>3. /\ Count(sq', Wishes("read", c))
               = Count(sq, Wishes("read", c)) + (IF h.c = c THEN r ELSE 0)
          /\ Count(sq', Wishes("close", c))
               = Count(sq, Wishes("close", c)) + (IF h.c = c THEN k ELSE 0)
      BY Zenon
    <2>4. /\ Count(cq', Ended(c)) = Count(cq, Ended(c))
               - (IF h.op = "read" /\ h.c = c /\ ~h.more THEN 1 ELSE 0)
          /\ Count(cq', Closed(c)) = Count(cq, Closed(c))
               - (IF h.op = "close" /\ h.c = c THEN 1 ELSE 0)
      BY InCounts, Zenon
    <2>5. /\ (IF h.c = c THEN r ELSE 0)
               <= (IF h.op = "read" /\ h.c = c /\ ~h.more THEN 1 ELSE 0)
          /\ c \in socks' \ starved' =>
               (IF h.c = c THEN r ELSE 0)
                 = (IF h.op = "read" /\ h.c = c /\ ~h.more THEN 1 ELSE 0)
      OBVIOUS
    <2>6. (IF h.c = c THEN k ELSE 0) + (IF c \in socks' THEN 1 ELSE 0)
            = (IF c \in socks THEN 1 ELSE 0)
      OBVIOUS
    <2> DEFINE a == IF h.c = c THEN r ELSE 0
               b == IF h.op = "read" /\ h.c = c /\ ~h.more THEN 1 ELSE 0
               d == IF h.op = "close" /\ h.c = c THEN 1 ELSE 0
    <2>7. a \in {0, 1} /\ b \in {0, 1} /\ d \in {0, 1}
      OBVIOUS
    <2>8. Reading(c)' = Reading(c) + a - b
      <3> HIDE DEF a, b
      <3>1. /\ Count(sq', Wishes("read", c)) = Count(sq, Wishes("read", c)) + a
            /\ Count(cq', Ended(c)) = Count(cq, Ended(c)) - b
        BY <2>3, <2>4 DEF a, b
      <3>2. Reading(c) = Count(sq, Wishes("read", c))
                         + Count(sub, Wishes("read", c))
                         + (IF c \in armed THEN 1 ELSE 0)
                         + Count(cq, Ended(c))
        BY DEF Reading
      <3> DEFINE i == IF c \in armed THEN 1 ELSE 0
      <3>3. a \in Int /\ b \in Int /\ i \in Nat
        BY <2>7
      <3>4. /\ Reading(c) = Count(sq, Wishes("read", c))
                            + Count(sub, Wishes("read", c))
                            + i + Count(cq, Ended(c))
            /\ Reading(c)' = (Count(sq, Wishes("read", c)) + a)
                             + Count(sub, Wishes("read", c))
                             + i + (Count(cq, Ended(c)) - b)
        BY <2>1, <3>1, <3>2, Zenon
      <3> HIDE DEF i
      <3> DEFINE p == Count(sq, Wishes("read", c))
                 q == Count(sub, Wishes("read", c))
                 n == Count(cq, Ended(c))
      <3>5. p \in Nat /\ q \in Nat /\ n \in Nat
        BY <2>2
      <3>6. Reading(c) = p + q + i + n /\ Reading(c)' = (p + a) + q + i + (n - b)
        BY <3>4
      <3> HIDE DEF p, q, n
      <3> QED BY <3>3, <3>5, <3>6, SumMoves
    <2>9. Closing(c)' = Closing(c) - d
      <3>1. Count(cq', Closed(c)) = Count(cq, Closed(c)) - d
        BY <2>4
      <3>2. Closing(c) = Count(sq, Wishes("close", c))
                         + Count(sub, Wishes("close", c))
                         + (IF c \in socks THEN 1 ELSE 0)
                         + Count(cq, Closed(c))
        BY DEF Closing
      <3> DEFINE e == IF h.c = c THEN k ELSE 0
                 i == IF c \in socks THEN 1 ELSE 0
                 j == IF c \in socks' THEN 1 ELSE 0
      <3>3. e \in Int /\ d \in Int /\ i \in Nat /\ j \in Nat /\ e + j = i
        BY <2>6, <2>7
      <3>4. /\ Closing(c) = Count(sq, Wishes("close", c))
                            + Count(sub, Wishes("close", c))
                            + i + Count(cq, Closed(c))
            /\ Closing(c)' = (Count(sq, Wishes("close", c)) + e)
                             + Count(sub, Wishes("close", c))
                             + j + (Count(cq, Closed(c)) - d)
        BY <2>1, <2>3, <3>1, <3>2, Zenon
      <3> HIDE DEF d, e, i, j
      <3> DEFINE p == Count(sq, Wishes("close", c))
                 q == Count(sub, Wishes("close", c))
                 n == Count(cq, Closed(c))
      <3>5. p \in Nat /\ q \in Nat /\ n \in Nat
        BY <2>2
      <3>6. /\ Closing(c) = p + q + i + n
            /\ Closing(c)' = (p + e) + q + j + (n - d)
        BY <3>4
      <3> HIDE DEF p, q, n
      <3>7. Closing(c)' = (p + q + j + n) + e - d
        BY <3>3, <3>5, <3>6, SumMoves
      <3> QED BY <3>3, <3>5, <3>6, <3>7
    <2>10. Reading(c) \in Nat /\ Closing(c) \in Nat
      BY CountsAreNat
    <2>11. a <= b /\ (c \in socks' \ starved' => a = b)
      BY <2>5
    <2> HIDE DEF a, b, d
    <2> QED BY <2>7, <2>8, <2>9, <2>10, <2>11
  <1>3. Held' <= Held
    <2> DEFINE b == IF h \in Holding THEN 1 ELSE 0
    <2>1. Count(cq', Holding) = Count(cq, Holding) - b
      BY Zenon
    <2>2. Held' = Len(ring') + Count(sq', Writes) + Count(sub, Writes)
                  + Count(cq', Holding)
      BY DEF Held
    <2>3. /\ Count(sq, Writes) \in Nat /\ Count(sub, Writes) \in Nat
          /\ Count(cq, Holding) \in Nat
      BY <1>1, Zenon
    <2>4. b \in {0, 1} /\ Len(ring') + w <= Len(ring) + b
      OBVIOUS
    <2>5. Held = Len(ring) + Count(sq, Writes) + Count(sub, Writes)
                 + Count(cq, Holding)
      BY DEF Held
    <2> HIDE DEF b
    <2> DEFINE p == Count(sq, Writes)
               q == Count(sub, Writes)
               n == Count(cq, Holding)
               l == Len(ring)
               m == Len(ring')
    <2>6. /\ p \in Nat /\ q \in Nat /\ n \in Nat /\ l \in Nat /\ m \in Nat
          /\ w \in Int /\ b \in Int /\ m + w <= l + b
      BY <1>1, <2>3, <2>4
    <2>7. Held = l + p + q + n /\ Held' = m + (p + w) + q + (n - b)
      BY <2>1, <2>2, <2>5, Zenon
    <2> HIDE DEF p, q, n, l, m
    <2> QED BY <2>6, <2>7
  <1>4. socks' \subseteq socks
    OBVIOUS
  <1> QED BY <1>2, <1>3, <1>4 DEF NoMore

\* A handler that prepares no more than that keeps the invariant.
LEMMA HandlerKeeps ==
    ASSUME Inv, NEW o \in {"read", "write", "close"}, NEW results,
           TakeCqe(o, results),
           NEW h, h = Head(batch),
           UNCHANGED <<contents, adding, joined, armed, inbox, left, hungup,
                       echoed>>,
           sq' \in Seq(Op), ring' \in Seq(Buffers),
           open' = socks', starved \subseteq starved', starved' \subseteq Clients,
           NEW r \in {0, 1}, NEW k \in {0, 1}, NEW w \in {0, 1},
           \A c \in Clients :
              /\ Count(sq', Wishes("read", c))
                   = Count(sq, Wishes("read", c)) + (IF h.c = c THEN r ELSE 0)
              /\ Count(sq', Wishes("close", c))
                   = Count(sq, Wishes("close", c)) + (IF h.c = c THEN k ELSE 0),
           Count(sq', Writes) = Count(sq, Writes) + w,
           r = 1 => o = "read" /\ ~h.more,
           o = "read" /\ ~h.more /\ r = 0 => h.c \notin socks' \ starved',
           k = 1 => h.c \in socks /\ socks' = socks \ {h.c},
           k = 0 => socks' = socks,
           Len(ring') + w <= Len(ring) + (IF h \in Holding THEN 1 ELSE 0)
    PROVE  Inv'
  <1>1. /\ h \in Cqes /\ h.op = o
        /\ pc = "handle" /\ sub = <<>> /\ sub' = sub /\ pc' = pc
        /\ cq' \in Seq(Cqes) /\ batch' \in Seq(Cqes)
        /\ batch' = SubSeq(cq', 1, Len(batch'))
        /\ Len(batch') <= Len(cq') /\ Len(batch') <= Batch
        /\ \A S : Count(cq', S) = Count(cq, S) - (IF h \in S THEN 1 ELSE 0)
    BY Handled, Zenon
  <1>2. TypeOK /\ Base
    BY DEF Inv, Base
  <1>3. Base'
    <2>1. socks' \subseteq Clients
      BY <1>2 DEF TypeOK
    <2>2. TypeOK'
      BY <1>1, <1>2, <2>1 DEF TypeOK, Cqes
    <2> QED BY <1>1, <1>2, <2>2 DEF Base
  <1>4. NoMore
    <2>1. Len(ring') \in Nat
      BY LenProperties
    <2>2. /\ UNCHANGED <<sub, armed, adding, joined>>
          /\ r = 1 => h.op = "read" /\ ~h.more
          /\ h.op = "read" /\ ~h.more /\ r = 0 => h.c \notin socks' \ starved'
      BY <1>1
    <2>3. \A S : Count(cq', S) = Count(cq, S) - (IF h \in S THEN 1 ELSE 0)
      BY <1>1, Zenon
    <2>4. TypeOK /\ h \in Cqes
      BY <1>1, <1>2
    <2> QED BY <2>1, <2>2, <2>3, <2>4, HandlerIsNoMore
  <1> QED BY <1>3, <1>4, NoMoreKeeps

\* A completion that is only dropped.
LEMMA DropKeeps ==
    ASSUME Inv, NEW o \in {"read", "write", "close"}, NEW results,
           TakeCqe(o, results),
           UNCHANGED <<ring, contents, socks, open, adding, joined, sq, armed,
                       inbox, left, hungup, echoed>>,
           starved \subseteq starved', starved' \subseteq Clients,
           o = "read" => Head(batch).c \notin socks \ starved'
    PROVE  Inv'
  <1> DEFINE h == Head(batch)
  <1>1. TypeOK /\ socks = open
    BY DEF Inv, Base
  <1>2. PICK z \in {0, 1} : z = 0
    OBVIOUS
  <1>3. \A S : Count(sq, S) \in Nat
    BY <1>1, CountsAreNat, Zenon
  <1>4. \A c \in Clients :
           /\ Count(sq', Wishes("read", c))
                = Count(sq, Wishes("read", c)) + (IF h.c = c THEN z ELSE 0)
           /\ Count(sq', Wishes("close", c))
                = Count(sq, Wishes("close", c)) + (IF h.c = c THEN z ELSE 0)
    BY <1>2, <1>3
  <1>5. Count(sq', Writes) = Count(sq, Writes) + z
    BY <1>2, <1>3
  <1>6. Len(ring') + z <= Len(ring) + (IF h \in Holding THEN 1 ELSE 0)
    BY <1>1, <1>2, CountsAreNat
  <1>7. /\ sq' \in Seq(Op) /\ ring' \in Seq(Buffers) /\ open' = socks'
        /\ z = 1 => o = "read" /\ ~h.more
        /\ o = "read" /\ ~h.more /\ z = 0 => h.c \notin socks' \ starved'
        /\ z = 1 => h.c \in socks /\ socks' = socks \ {h.c}
        /\ z = 0 => socks' = socks
    BY <1>1, <1>2 DEF TypeOK
  <1>8. h = Head(batch)
    OBVIOUS
  <1> HIDE DEF h
  <1> QED BY <1>4, <1>5, <1>6, <1>7, <1>8, HandlerKeeps

\* A failed completion is passed over.
LEMMA SkipErrorKeeps ==
    ASSUME Inv, SkipError
    PROVE  Inv'
  <1>1. PICK o \in {"read", "write", "close"} : TakeCqe(o, {"fatal", "nobufs"})
    BY DEF SkipError
  <1>2. Head(batch).op = o /\ Head(batch).c \in Clients
    BY <1>1, Handled, Zenon
  <1>3. /\ starved' = IF Head(batch).op = "read" THEN starved \cup {Head(batch).c}
                                                 ELSE starved
        /\ UNCHANGED <<ring, contents, socks, open, adding, joined, sq, armed,
                       inbox, left, hungup, echoed>>
    BY DEF SkipError, bufVars, sockVars, peerVars
  <1>4. /\ starved \subseteq starved' /\ starved' \subseteq Clients
        /\ o = "read" => Head(batch).c \notin socks \ starved'
    BY <1>2, <1>3 DEF Inv, Base, TypeOK
  <1> QED BY <1>1, <1>3, <1>4, DropKeeps, Zenon

\* A completion of a client no longer listed prepares nothing.
LEMMA ReadUnknownKeeps ==
    ASSUME Inv, ReadUnknown
    PROVE  Inv'
  <1>1. /\ TakeCqe("read", {"data", "eof", "reset", "again"})
        /\ Head(batch).c \notin socks
        /\ UNCHANGED <<ring, contents, socks, open, adding, joined, sq, armed,
                       inbox, left, hungup, starved, echoed>>
    BY DEF ReadUnknown, bufVars, sockVars, peerVars
  <1>2. /\ starved \subseteq starved' /\ starved' \subseteq Clients
        /\ "read" = "read" => Head(batch).c \notin socks \ starved'
        /\ "read" \in {"read", "write", "close"}
        /\ UNCHANGED <<ring, contents, socks, open, adding, joined, sq, armed,
                       inbox, left, hungup, echoed>>
    BY <1>1 DEF Inv, Base, TypeOK
  <1> QED BY <1>1, <1>2, DropKeeps, Zenon

\* handleClose takes the client out of the map and prepares its close.
LEMMA CloseKeeps ==
    ASSUME Inv, NEW results, TakeCqe("read", results),
           NEW h, h = Head(batch), h.c \in socks, handleClose(h.c),
           NEW r \in {0, 1}, r = 1 => ~h.more,
           sq' \in Seq(Op),
           \A c \in Clients :
              /\ Count(sq', Wishes("read", c))
                   = Count(sq, Wishes("read", c)) + (IF h.c = c THEN r ELSE 0)
              /\ Count(sq', Wishes("close", c))
                   = Count(sq, Wishes("close", c)) + (IF h.c = c THEN 1 ELSE 0),
           Count(sq', Writes) = Count(sq, Writes) + 0,
           UNCHANGED <<ring, contents, armed, inbox, left, hungup, starved, echoed>>
    PROVE  Inv'
  <1>1. TypeOK /\ socks = open
    BY DEF Inv, Base
  <1>2. PICK k \in {0, 1} : k = 1
    OBVIOUS
  <1>3. PICK w \in {0, 1} : w = 0
    OBVIOUS
  <1>4. /\ socks' = socks \ {h.c} /\ open' = socks'
        /\ UNCHANGED <<adding, joined>>
    BY <1>1 DEF handleClose, Removed
  <1>5. \A c \in Clients :
           /\ Count(sq', Wishes("read", c))
                = Count(sq, Wishes("read", c)) + (IF h.c = c THEN r ELSE 0)
           /\ Count(sq', Wishes("close", c))
                = Count(sq, Wishes("close", c)) + (IF h.c = c THEN k ELSE 0)
    BY <1>2, Zenon
  <1>6. Count(sq', Writes) = Count(sq, Writes) + w
    BY <1>3, Zenon
  <1>7. Len(ring') + w <= Len(ring) + (IF h \in Holding THEN 1 ELSE 0)
    BY <1>1, <1>3, CountsAreNat
  <1>8. /\ ring' \in Seq(Buffers) /\ "read" \in {"read", "write", "close"}
        /\ starved \subseteq starved' /\ starved' \subseteq Clients
        /\ r = 1 => "read" = "read" /\ ~h.more
        /\ "read" = "read" /\ ~h.more /\ r = 0 => h.c \notin socks' \ starved'
        /\ k = 1 => h.c \in socks /\ socks' = socks \ {h.c}
        /\ k = 0 => socks' = socks
        /\ UNCHANGED <<contents, adding, joined, armed, inbox, left, hungup,
                       echoed>>
    BY <1>1, <1>2, <1>4 DEF TypeOK
  <1> QED BY <1>4, <1>5, <1>6, <1>7, <1>8, HandlerKeeps

\* What CloseOp, Rearm and Reply add to a submission queue.
LEMMA CloseOpCounts ==
    ASSUME NEW q \in Seq(Op), NEW d \in Clients
    PROVE  /\ q \o CloseOp(d) \in Seq(Op)
           /\ \A c \in Clients :
                 /\ Count(q \o CloseOp(d), Wishes("read", c))
                      = Count(q, Wishes("read", c)) + 0
                 /\ Count(q \o CloseOp(d), Wishes("close", c))
                      = Count(q, Wishes("close", c)) + (IF d = c THEN 1 ELSE 0)
           /\ Count(q \o CloseOp(d), Writes) = Count(q, Writes) + 0
  <1>1. q \o CloseOp(d) = q \o <<Wish("close", d)>>
    BY DEF CloseOp, Wish
  <1>2. /\ Append(q, Wish("close", d)) \in Seq(Op)
        /\ q \o <<Wish("close", d)>> = Append(q, Wish("close", d))
        /\ \A p \in {"read", "write", "close"} : \A c \in Clients :
              Count(Append(q, Wish("close", d)), Wishes(p, c))
                = Count(q, Wishes(p, c)) + (IF "close" = p /\ d = c THEN 1 ELSE 0)
        /\ Count(Append(q, Wish("close", d)), Writes)
             = Count(q, Writes) + (IF "close" = "write" THEN 1 ELSE 0)
    BY AppendOp
  <1>3. q \o CloseOp(d) = Append(q, Wish("close", d))
    BY <1>1, <1>2, Zenon
  <1> QED BY <1>2, <1>3

\* handleRead prepares one receive if the last one ended, of its client alone.
LEMMA RearmCounts ==
    ASSUME NEW q \in Seq(Op), NEW h \in Cqes,
           NEW r \in {0, 1}, r = IF h.more THEN 0 ELSE 1
    PROVE  /\ q \o Rearm(h) \in Seq(Op)
           /\ \A S : Count(q, S) \in Nat
           /\ \A c \in Clients :
                 /\ Count(q \o Rearm(h), Wishes("read", c))
                      = Count(q, Wishes("read", c)) + (IF h.c = c THEN r ELSE 0)
                 /\ Count(q \o Rearm(h), Wishes("close", c))
                      = Count(q, Wishes("close", c))
           /\ Count(q \o Rearm(h), Writes) = Count(q, Writes)
  <1>1. h.c \in Clients /\ h.more \in BOOLEAN
    BY DEF Cqes
  <1>2. \A S : Count(q, S) \in Nat
    BY Places, Zenon
  <1>3. CASE h.more
    <2>1. q \o Rearm(h) = q
      <3>1. Rearm(h) = <<>>
        BY <1>3 DEF Rearm
      <3> QED BY <3>1, ConcatEmptySeq
    <2>2. r = 0
      BY <1>3
    <2> QED BY <1>2, <2>1, <2>2
  <1>4. CASE ~h.more
    <2>1. q \o Rearm(h) = q \o <<Wish("read", h.c)>>
      BY <1>4 DEF Rearm, Wish
    <2>2. /\ Append(q, Wish("read", h.c)) \in Seq(Op)
          /\ q \o <<Wish("read", h.c)>> = Append(q, Wish("read", h.c))
          /\ \A p \in {"read", "write", "close"} : \A c \in Clients :
                Count(Append(q, Wish("read", h.c)), Wishes(p, c))
                  = Count(q, Wishes(p, c))
                    + (IF "read" = p /\ h.c = c THEN 1 ELSE 0)
          /\ Count(Append(q, Wish("read", h.c)), Writes)
               = Count(q, Writes) + (IF "read" = "write" THEN 1 ELSE 0)
      BY <1>1, AppendOp
    <2>3. q \o Rearm(h) = Append(q, Wish("read", h.c))
      BY <2>1, <2>2, Zenon
    <2>4. r = 1
      BY <1>4
    <2> QED BY <1>2, <2>2, <2>3, <2>4
  <1> QED BY <1>1, <1>3, <1>4

\* handleRead prepares one write for a chat message, and nothing else.
LEMMA ReplyCounts ==
    ASSUME NEW q \in Seq(Op), NEW d \in Clients,
           NEW w \in {0, 1}, w = IF Seen.kind = "chat" THEN 1 ELSE 0
    PROVE  /\ q \o Reply(d) \in Seq(Op)
           /\ \A c \in Clients :
                 /\ Count(q \o Reply(d), Wishes("read", c))
                      = Count(q, Wishes("read", c))
                 /\ Count(q \o Reply(d), Wishes("close", c))
                      = Count(q, Wishes("close", c))
           /\ Count(q \o Reply(d), Writes) = Count(q, Writes) + w
  <1>1. \A S : Count(q, S) \in Nat
    BY Places, Zenon
  <1>2. CASE Seen.kind # "chat"
    <2>1. q \o Reply(d) = q
      <3>1. Reply(d) = <<>>
        BY <1>2 DEF Reply
      <3> QED BY <3>1, ConcatEmptySeq
    <2>2. w = 0
      BY <1>2
    <2> QED BY <1>1, <2>1, <2>2
  <1>3. CASE Seen.kind = "chat"
    <2>1. q \o Reply(d) = q \o <<Wish("write", d)>>
      BY <1>3 DEF Reply, Wish
    <2>2. /\ Append(q, Wish("write", d)) \in Seq(Op)
          /\ q \o <<Wish("write", d)>> = Append(q, Wish("write", d))
          /\ \A p \in {"read", "write", "close"} : \A c \in Clients :
                Count(Append(q, Wish("write", d)), Wishes(p, c))
                  = Count(q, Wishes(p, c))
                    + (IF "write" = p /\ d = c THEN 1 ELSE 0)
          /\ Count(Append(q, Wish("write", d)), Writes)
               = Count(q, Writes) + (IF "write" = "write" THEN 1 ELSE 0)
      BY AppendOp
    <2>3. q \o Reply(d) = Append(q, Wish("write", d))
      BY <2>1, <2>2, Zenon
    <2>4. w = 1
      BY <1>3
    <2> QED BY <1>1, <2>2, <2>3, <2>4
  <1> QED BY <1>2, <1>3

\* The end of a stream, and a message that is refused: both close.
LEMMA ReadEndsOrBadKeeps ==
    ASSUME Inv, ReadEnds \/ ReadBad
    PROVE  Inv'
  <1> DEFINE h == Head(batch)
  <1>1. PICK results :
           /\ TakeCqe("read", results) /\ h.c \in socks /\ handleClose(h.c)
           /\ sq' = sq \o CloseOp(h.c)
           /\ UNCHANGED <<ring, contents, armed, inbox, left, hungup, starved,
                          echoed>>
    BY Zenon DEF ReadEnds, ReadBad, bufVars, peerVars
  <1>2. sq \in Seq(Op) /\ h.c \in Clients /\ \A S : Count(sq, S) \in Nat
    BY <1>1, CountsAreNat DEF Inv, Base, TypeOK
  <1>3. PICK r \in {0, 1} : r = 0
    OBVIOUS
  <1> HIDE DEF h
  <1>4. /\ sq \o CloseOp(h.c) \in Seq(Op)
        /\ \A c \in Clients :
              /\ Count(sq \o CloseOp(h.c), Wishes("read", c))
                   = Count(sq, Wishes("read", c)) + 0
              /\ Count(sq \o CloseOp(h.c), Wishes("close", c))
                   = Count(sq, Wishes("close", c)) + (IF h.c = c THEN 1 ELSE 0)
        /\ Count(sq \o CloseOp(h.c), Writes) = Count(sq, Writes) + 0
    BY <1>2, CloseOpCounts
  <1>5. /\ sq' \in Seq(Op)
        /\ \A c \in Clients :
              /\ Count(sq', Wishes("read", c))
                   = Count(sq, Wishes("read", c)) + (IF h.c = c THEN r ELSE 0)
              /\ Count(sq', Wishes("close", c))
                   = Count(sq, Wishes("close", c)) + (IF h.c = c THEN 1 ELSE 0)
        /\ Count(sq', Writes) = Count(sq, Writes) + 0
    BY <1>1, <1>3, <1>4
  <1>6. h = Head(batch) /\ (r = 1 => ~h.more)
    BY <1>3 DEF h
  <1> QED BY <1>1, <1>5, <1>6, CloseKeeps

\* A client that leaves is closed at once.
LEMMA ReadLeaveKeeps ==
    ASSUME Inv, ReadLeave
    PROVE  Inv'
  <1> DEFINE h == Head(batch)
             q == sq \o CloseOp(h.c)
  <1>1. /\ TakeCqe("read", {"data"}) /\ h.c \in socks /\ handleClose(h.c)
        /\ sq' = q \o Rearm(h)
        /\ UNCHANGED <<ring, contents, armed, inbox, left, hungup, starved,
                       echoed>>
    BY DEF ReadLeave, bufVars, peerVars
  <1>2. /\ sq \in Seq(Op) /\ h.c \in Clients /\ h \in Cqes
        /\ \A S : Count(sq, S) \in Nat
    <2>1. "read" \in {"read", "write", "close"}
      OBVIOUS
    <2>2. h \in Cqes
      BY <1>1, <2>1, Handled, Zenon
    <2> QED BY <1>1, <2>2, CountsAreNat DEF Inv, Base, TypeOK
  <1>3. PICK r \in {0, 1} : r = IF h.more THEN 0 ELSE 1
    OBVIOUS
  <1>4. h = Head(batch)
    OBVIOUS
  <1> HIDE DEF h
  <1>5. /\ q \in Seq(Op)
        /\ \A c \in Clients :
              /\ Count(q, Wishes("read", c)) = Count(sq, Wishes("read", c)) + 0
              /\ Count(q, Wishes("close", c))
                   = Count(sq, Wishes("close", c)) + (IF h.c = c THEN 1 ELSE 0)
        /\ Count(q, Writes) = Count(sq, Writes) + 0
    BY <1>2, CloseOpCounts
  <1> HIDE DEF q
  <1>6. /\ sq' \in Seq(Op)
        /\ \A c \in Clients :
              /\ Count(sq', Wishes("read", c))
                   = Count(q, Wishes("read", c)) + (IF h.c = c THEN r ELSE 0)
              /\ Count(sq', Wishes("close", c)) = Count(q, Wishes("close", c))
        /\ Count(sq', Writes) = Count(q, Writes)
    BY <1>1, <1>2, <1>3, <1>5, RearmCounts
  <1>7. /\ \A c \in Clients :
              /\ Count(sq', Wishes("read", c))
                   = Count(sq, Wishes("read", c)) + (IF h.c = c THEN r ELSE 0)
              /\ Count(sq', Wishes("close", c))
                   = Count(sq, Wishes("close", c)) + (IF h.c = c THEN 1 ELSE 0)
        /\ Count(sq', Writes) = Count(sq, Writes) + 0
    <2>1. ASSUME NEW c \in Clients
          PROVE  /\ Count(sq', Wishes("read", c))
                      = Count(sq, Wishes("read", c)) + (IF h.c = c THEN r ELSE 0)
                 /\ Count(sq', Wishes("close", c))
                      = Count(sq, Wishes("close", c)) + (IF h.c = c THEN 1 ELSE 0)
      <3>1. /\ Count(q, Wishes("read", c)) = Count(sq, Wishes("read", c))
            /\ Count(sq, Wishes("read", c)) \in Nat
        BY <1>2, <1>5
      <3> QED BY <1>5, <1>6, <3>1
    <2> QED BY <1>5, <1>6, <2>1
  <1>8. r = 1 => ~h.more
    BY <1>3
  <1> QED BY <1>1, <1>4, <1>6, <1>7, <1>8, CloseKeeps

\* The echo keeps the buffer the message held; a command frees nothing.
LEMMA ReadMessageKeeps ==
    ASSUME Inv, ReadMessage
    PROVE  Inv'
  <1> DEFINE h == Head(batch)
             q == sq \o Reply(h.c)
  <1>1. /\ TakeCqe("read", {"data"}) /\ h.c \in socks
        /\ sq' = q \o Rearm(h)
        /\ UNCHANGED <<ring, contents, socks, open, adding, joined, armed,
                       inbox, left, hungup, starved, echoed>>
    BY DEF ReadMessage, bufVars, sockVars, peerVars
  <1>2. /\ sq \in Seq(Op) /\ h.c \in Clients /\ h \in Cqes
        /\ h.op = "read" /\ h.res = "data"
        /\ TypeOK /\ socks = open /\ \A S : Count(sq, S) \in Nat
    <2>1. "read" \in {"read", "write", "close"}
      OBVIOUS
    <2>2. h \in Cqes /\ h.op = "read" /\ h.res \in {"data"}
      BY <1>1, <2>1, Handled, Zenon
    <2>3. TypeOK /\ socks = open
      BY DEF Inv, Base
    <2> QED BY <1>1, <2>2, <2>3, CountsAreNat DEF TypeOK
  <1>3. PICK r \in {0, 1} : r = IF h.more THEN 0 ELSE 1
    OBVIOUS
  <1>4. PICK w \in {0, 1} : w = IF Seen.kind = "chat" THEN 1 ELSE 0
    OBVIOUS
  <1>5. PICK k \in {0, 1} : k = 0
    OBVIOUS
  <1>6. h = Head(batch)
    OBVIOUS
  <1> HIDE DEF h
  <1>7. /\ q \in Seq(Op)
        /\ \A c \in Clients :
              /\ Count(q, Wishes("read", c)) = Count(sq, Wishes("read", c))
              /\ Count(q, Wishes("close", c)) = Count(sq, Wishes("close", c))
        /\ Count(q, Writes) = Count(sq, Writes) + w
    BY <1>2, <1>4, ReplyCounts
  <1> HIDE DEF q
  <1>8. /\ sq' \in Seq(Op)
        /\ \A c \in Clients :
              /\ Count(sq', Wishes("read", c))
                   = Count(q, Wishes("read", c)) + (IF h.c = c THEN r ELSE 0)
              /\ Count(sq', Wishes("close", c)) = Count(q, Wishes("close", c))
        /\ Count(sq', Writes) = Count(q, Writes)
    BY <1>1, <1>2, <1>3, <1>7, RearmCounts
  <1>9. /\ \A c \in Clients :
              /\ Count(sq', Wishes("read", c))
                   = Count(sq, Wishes("read", c)) + (IF h.c = c THEN r ELSE 0)
              /\ Count(sq', Wishes("close", c))
                   = Count(sq, Wishes("close", c)) + (IF h.c = c THEN k ELSE 0)
        /\ Count(sq', Writes) = Count(sq, Writes) + w
    <2>1. ASSUME NEW c \in Clients
          PROVE  /\ Count(sq', Wishes("read", c))
                      = Count(sq, Wishes("read", c)) + (IF h.c = c THEN r ELSE 0)
                 /\ Count(sq', Wishes("close", c))
                      = Count(sq, Wishes("close", c)) + (IF h.c = c THEN k ELSE 0)
      <3>1. Count(sq, Wishes("close", c)) \in Nat
        BY <1>2
      <3> QED BY <1>5, <1>7, <1>8, <3>1
    <2> QED BY <1>7, <1>8, <2>1
  <1>10. /\ "read" \in {"read", "write", "close"} /\ ring' \in Seq(Buffers)
         /\ open' = socks' /\ starved \subseteq starved'
         /\ starved' \subseteq Clients
         /\ r = 1 => "read" = "read" /\ ~h.more
         /\ "read" = "read" /\ ~h.more /\ r = 0 => h.c \notin socks' \ starved'
         /\ k = 1 => h.c \in socks /\ socks' = socks \ {h.c}
         /\ k = 0 => socks' = socks
    BY <1>1, <1>2, <1>3, <1>5 DEF TypeOK
  <1>11. Len(ring') + w <= Len(ring) + (IF h \in Holding THEN 1 ELSE 0)
    <2>1. h \in Holding
      BY <1>2, InCounts
    <2>2. Len(ring) \in Nat
      BY <1>2, CountsAreNat
    <2> QED BY <1>1, <2>1, <2>2
  <1>12. UNCHANGED <<contents, adding, joined, armed, inbox, left, hungup, echoed>>
    BY <1>1
  <1> QED BY <1>1, <1>6, <1>8, <1>9, <1>10, <1>11, <1>12, HandlerKeeps

\* A completed write gives back the one buffer it took.
LEMMA handleWriteKeeps ==
    ASSUME Inv, handleWrite
    PROVE  Inv'
  <1> DEFINE h == Head(batch)
  <1>1. /\ TakeCqe("write", {"ok", "again", "reset"}) /\ ring' = Append(ring, 0)
        /\ UNCHANGED <<contents, socks, open, adding, joined, sq, armed,
                       inbox, left, hungup, starved, echoed>>
    BY DEF handleWrite, Released, sockVars, peerVars
  <1>2. /\ h \in Cqes /\ h.op = "write" /\ TypeOK /\ socks = open
        /\ \A S : Count(sq, S) \in Nat
    <2>1. "write" \in {"read", "write", "close"}
      OBVIOUS
    <2>2. h \in Cqes /\ h.op = "write"
      BY <1>1, <2>1, Handled, Zenon
    <2>3. TypeOK /\ socks = open
      BY DEF Inv, Base
    <2> QED BY <2>2, <2>3, CountsAreNat
  <1>3. PICK z \in {0, 1} : z = 0
    OBVIOUS
  <1>4. h = Head(batch)
    OBVIOUS
  <1> HIDE DEF h
  <1>5. /\ \A c \in Clients :
              /\ Count(sq', Wishes("read", c))
                   = Count(sq, Wishes("read", c)) + (IF h.c = c THEN z ELSE 0)
              /\ Count(sq', Wishes("close", c))
                   = Count(sq, Wishes("close", c)) + (IF h.c = c THEN z ELSE 0)
        /\ Count(sq', Writes) = Count(sq, Writes) + z
    BY <1>1, <1>2, <1>3
  <1>6. /\ ring' \in Seq(Buffers)
        /\ Len(ring') + z <= Len(ring) + (IF h \in Holding THEN 1 ELSE 0)
    <2>1. h \in Holding
      BY <1>2, InCounts
    <2>2. 0 \in Buffers /\ ring \in Seq(Buffers)
      BY <1>2, SizeAssumption DEF Buffers, TypeOK
    <2>3. ring' \in Seq(Buffers) /\ Len(ring') = Len(ring) + 1
      BY <1>1, <2>2, AppendProperties
    <2>4. Len(ring) \in Nat
      BY <1>2, CountsAreNat
    <2> QED BY <1>3, <2>1, <2>3, <2>4
  <1>7. /\ "write" \in {"read", "write", "close"} /\ sq' \in Seq(Op)
        /\ open' = socks' /\ starved \subseteq starved'
        /\ starved' \subseteq Clients
        /\ z = 1 => "write" = "read" /\ ~h.more
        /\ "write" = "read" /\ ~h.more /\ z = 0 => h.c \notin socks' \ starved'
        /\ z = 1 => h.c \in socks /\ socks' = socks \ {h.c}
        /\ z = 0 => socks' = socks
    BY <1>1, <1>2, <1>3 DEF TypeOK
  <1>8. UNCHANGED <<contents, adding, joined, armed, inbox, left, hungup, echoed>>
    BY <1>1
  <1> QED BY <1>1, <1>4, <1>5, <1>6, <1>7, <1>8, HandlerKeeps

-----------------------------------------------------------------------------
(* The theorems. *)

\* All queues are empty at first, and the ring holds every buffer once.
LEMMA InitInv == Init => Inv
  <1> SUFFICES ASSUME Init PROVE Inv
    OBVIOUS
  <1>1. ring \in Seq(Buffers) /\ Len(ring) = NumBuffers
    <2>1. NumBuffers \in Nat /\ ring = [i \in 1..NumBuffers |-> i - 1]
      BY SizeAssumption DEF Init
    <2>2. \A i \in 1..NumBuffers : i - 1 \in Buffers
      BY <2>1 DEF Buffers
    <2>3. ring \in [1..NumBuffers -> Buffers]
      BY <2>1, <2>2
    <2> QED BY <2>1, <2>3
  <1>2. /\ sq = <<>> /\ sub = <<>> /\ cq = <<>> /\ batch = <<>> /\ armed = {}
        /\ socks = {} /\ open = {} /\ joined = {} /\ adding = None
        /\ pc = "wait" /\ hungup = {} /\ starved = {} /\ left = MaxMessages
        /\ contents = [b \in Buffers |-> None]
        /\ inbox = [c \in Clients |-> <<>>]
        /\ echoed = [c \in Clients |-> {}]
    BY DEF Init
  <1>3. \A S : Count(sq, S) = 0 /\ Count(sub, S) = 0 /\ Count(cq, S) = 0
    BY <1>2, CountEmpty, Zenon
  <1>4. Base
    <2>1. /\ batch = SubSeq(cq, 1, Len(batch)) /\ Len(batch) <= Len(cq)
          /\ Len(batch) <= Batch
      <3>1. SubSeq(cq, 1, 0) = <<>>
        BY SubSeqEmpty
      <3>2. Len(batch) = 0 /\ Len(cq) = 0
        BY <1>2
      <3> QED BY <1>2, <3>1, <3>2, SizeAssumption
    <2>2. TypeOK
      BY <1>1, <1>2, <2>1, SizeAssumption DEF TypeOK
    <2> QED BY <1>2, <2>1, <2>2 DEF Base
  <1>5. ReadOnce
    BY <1>2, <1>3 DEF ReadOnce, Reading
  <1>6. CloseOnce
    BY <1>2, <1>3 DEF CloseOnce, Closing
  <1>7. Fits
    BY <1>1, <1>3, SizeAssumption DEF Fits, Held
  <1> QED BY <1>4, <1>5, <1>6, <1>7 DEF Inv

\* Every step keeps the invariant.
LEMMA StepInv == Inv /\ [Next]_vars => Inv'
  <1> SUFFICES ASSUME Inv, [Next]_vars PROVE Inv'
    OBVIOUS
  <1>1. CASE Peek
    BY <1>1, PeekKeeps
  <1>2. CASE SubmitAndWait \/ Advance
    BY <1>2, SubmitKeeps
  <1>3. CASE Enter
    BY <1>3, EnterKeeps
  <1>4. CASE Wakes \/ Submitted \/ SigPipe
    BY <1>4, QuietWorkerKeeps
  <1>5. CASE SkipError
    BY <1>5, SkipErrorKeeps
  <1>6. CASE ReadUnknown
    BY <1>6, ReadUnknownKeeps
  <1>7. CASE ReadEnds \/ ReadBad
    BY <1>7, ReadEndsOrBadKeeps
  <1>8. CASE ReadLeave
    BY <1>8, ReadLeaveKeeps
  <1>9. CASE ReadMessage
    BY <1>9, ReadMessageKeeps
  <1>10. CASE handleWrite
    BY <1>10, handleWriteKeeps
  <1>11. ASSUME NEW c \in Clients, Receive(c) PROVE Inv'
    BY <1>11, ReceiveKeeps
  <1>12. ASSUME NEW c \in Clients, ReceiveEnds(c) PROVE Inv'
    BY <1>12, ReceiveEndsKeeps
  <1>13. CASE Client
    BY <1>13, ClientKeeps
  <1>14. ASSUME NEW c \in Clients, AddInsert(c) PROVE Inv'
    BY <1>14, AddInsertKeeps
  <1>15. CASE AddPrepare
    BY <1>15, AddPrepareKeeps
  <1>16. CASE UNCHANGED vars
    BY <1>16 DEF vars, bufVars, sockVars, workerVars, peerVars, Inv, Base,
       TypeOK, ReadOnce, CloseOnce, Fits, Reading, Closing, Held
  <1> QED BY <1>1, <1>2, <1>3, <1>4, <1>5, <1>6, <1>7, <1>8, <1>9, <1>10,
             <1>11, <1>12, <1>13, <1>14, <1>15, <1>16
          DEF Next, Worker, handleRead, Kernel, addClient

\* The counts of the properties, over the sets of this module.
LEMMA CountsAgree ==
    ASSUME TypeOK
    PROVE  /\ \A c \in Clients : Receives(c) = Reading(c)
           /\ \A c \in Clients :
                 Prepared("close", c) + (IF c \in socks THEN 1 ELSE 0)
                 + Cardinality({i \in DOMAIN cq : cq[i].op = "close" /\ cq[i].c = c})
                   = Closing(c)
           /\ Len(ring)
              + Cardinality({i \in DOMAIN sq : sq[i].op = "write"})
              + Cardinality({i \in DOMAIN sub : sub[i].op = "write"})
              + Cardinality({i \in DOMAIN cq :
                                cq[i].op = "write" \/ cq[i].res = "data"})
                = Held
  <1>1. /\ \A i \in DOMAIN sq : sq[i] \in Op
        /\ \A i \in DOMAIN sub : sub[i] \in Op
        /\ \A i \in DOMAIN cq : cq[i] \in Cqes
    <2>1. sq \in Seq(Op) /\ sub \in Seq(Op) /\ cq \in Seq(Cqes)
      BY DEF TypeOK, Cqes
    <2> QED BY <2>1, ElementOfSeq, LenProperties
  <1>2. ASSUME NEW o, NEW c
        PROVE  Prepared(o, c) = Count(sq, Wishes(o, c)) + Count(sub, Wishes(o, c))
    <2>1. {i \in DOMAIN sq : sq[i] = [op |-> o, c |-> c]}
            = {i \in DOMAIN sq : sq[i] \in Wishes(o, c)}
      BY DEF Wishes, Wish
    <2>2. {i \in DOMAIN sub : sub[i] = [op |-> o, c |-> c]}
            = {i \in DOMAIN sub : sub[i] \in Wishes(o, c)}
      BY DEF Wishes, Wish
    <2> QED BY <2>1, <2>2, Zenon DEF Prepared, Count
  <1>3. ASSUME NEW c \in Clients
        PROVE  Receives(c) = Reading(c)
    <2>1. {i \in DOMAIN cq : cq[i].op = "read" /\ cq[i].c = c /\ ~cq[i].more}
            = {i \in DOMAIN cq : cq[i] \in Ended(c)}
      BY <1>1, Zenon DEF Ended
    <2> QED BY <1>2, <2>1, Zenon DEF Receives, Reading, Count
  <1>4. ASSUME NEW c \in Clients
        PROVE  Prepared("close", c) + (IF c \in socks THEN 1 ELSE 0)
               + Cardinality({i \in DOMAIN cq : cq[i].op = "close" /\ cq[i].c = c})
                 = Closing(c)
    <2>1. {i \in DOMAIN cq : cq[i].op = "close" /\ cq[i].c = c}
            = {i \in DOMAIN cq : cq[i] \in Closed(c)}
      BY <1>1, Zenon DEF Closed
    <2> QED BY <1>2, <2>1, Zenon DEF Closing, Count
  <1>5. Len(ring)
        + Cardinality({i \in DOMAIN sq : sq[i].op = "write"})
        + Cardinality({i \in DOMAIN sub : sub[i].op = "write"})
        + Cardinality({i \in DOMAIN cq : cq[i].op = "write" \/ cq[i].res = "data"})
          = Held
    <2>1. {i \in DOMAIN sq : sq[i].op = "write"}
            = {i \in DOMAIN sq : sq[i] \in Writes}
      BY <1>1, Zenon DEF Writes
    <2>2. {i \in DOMAIN sub : sub[i].op = "write"}
            = {i \in DOMAIN sub : sub[i] \in Writes}
      BY <1>1, Zenon DEF Writes
    <2>3. {i \in DOMAIN cq : cq[i].op = "write" \/ cq[i].res = "data"}
            = {i \in DOMAIN cq : cq[i] \in Holding}
      BY <1>1, Zenon DEF Holding
    <2> QED BY <2>1, <2>2, <2>3, Zenon DEF Held, Count
  <1> QED BY <1>3, <1>4, <1>5

\* The inductive invariant holds in every state.
THEOREM InvHolds == Spec => []Inv
  BY InitInv, StepInv, PTL DEF Spec

\* The queues hold entries, the batch stays a prefix of the completions and no
\* longer than CQE_BATCH_SIZE.
THEOREM TypesHold == Spec => []TypeOK
  <1>1. Inv => TypeOK
    BY DEF Inv, Base
  <1> QED BY <1>1, InvHolds, PTL

\* handleRead's IORING_CQE_F_MORE test prepares a receive when, and only when,
\* the last one ended: a client of the map is read by one.
THEOREM ReadByOne == Spec => []OneReceive
  <1>1. Inv => OneReceive
    <2> SUFFICES ASSUME Inv PROVE OneReceive
      OBVIOUS
    <2>1. \A c \in Clients : Receives(c) = Reading(c)
      BY CountsAgree DEF Inv, Base
    <2> QED BY <2>1 DEF Inv, ReadOnce, OneReceive
  <1> QED BY <1>1, InvHolds, PTL

\* However many completions of a client wait, handleClose runs once for it.
THEOREM ClosedOnce == Spec => []ClosesOnce
  <1>1. Inv => ClosesOnce
    <2> SUFFICES ASSUME Inv PROVE ClosesOnce
      OBVIOUS
    <2>1. \A c \in Clients :
             Prepared("close", c) + (IF c \in socks THEN 1 ELSE 0)
             + Cardinality({i \in DOMAIN cq : cq[i].op = "close" /\ cq[i].c = c})
               = Closing(c)
      BY CountsAgree DEF Inv, Base
    <2> QED BY <2>1 DEF Inv, CloseOnce, ClosesOnce
  <1> QED BY <1>1, InvHolds, PTL

\* Buffers are given back by writes that took them, so the ring of
\* NUM_IO_BUFFERS entries is never overrun.
THEOREM RingNeverOverrun == Spec => []RingFits
  <1>1. Inv => RingFits
    BY CountsAgree DEF Inv, Base, Fits, RingFits
  <1> QED BY <1>1, InvHolds, PTL
=============================================================================

---------------------------- MODULE Bench_proofs ----------------------------
(***************************************************************************)
(* The benchmark's figures, for any threads, sizes and number of requests. *)
(*                                                                         *)
(* CountsAddUp is not inductive: that no response counts twice follows     *)
(* from the cells, of which each counted response took Full and which are  *)
(* no more than Reply, at most Full, per answer; and how far outb is ahead *)
(* depends on where the thread is.                                         *)
(***************************************************************************)
EXTENDS Bench, TLAPS

Counters ==
    /\ inb \in [Threads -> Nat] /\ outb \in [Threads -> Nat]
    /\ misread \in [Threads -> Nat] /\ answered \in [Threads -> Nat]
    /\ arrived \in [Threads -> Nat] /\ readCells \in [Threads -> Nat]
    /\ pc \in [Threads -> {"connect", "loop", "write", "sent", "read",
                           "report", "done", "gone"}]

\* Cells that were counted were read, and those arrived and were sent.
CellsInOrder(t) ==
    /\ inb[t] * Full <= readCells[t]
    /\ readCells[t] <= arrived[t]
    /\ arrived[t] <= answered[t] * Reply

\* A request is under way between the write and the end of the read.
UnderWay(t) ==
    LET ahead == outb[t] - (inb[t] + misread[t]) IN
    /\ pc[t] \in {"connect", "loop", "write", "gone"} => ahead = 0
    /\ pc[t] \in {"sent", "read"} => ahead = 1
    /\ ahead \in {0, 1}

IInv == Counters /\ \A t \in Threads : CellsInOrder(t) /\ UnderWay(t)

-----------------------------------------------------------------------------
\* The smaller of two numbers.
LEMMA MinOfTwo ==
    ASSUME NEW a \in Nat, NEW b \in Nat
    PROVE  Min({a, b}) \in {a, b} /\ Min({a, b}) <= a /\ Min({a, b}) <= b
<1>1. \E x \in {a, b} : \A y \in {a, b} : x <= y
  <2>1. CASE a <= b
    BY <2>1
  <2>2. CASE b <= a
    BY <2>2
  <2> QED BY <2>1, <2>2
<1>2. Min({a, b}) = CHOOSE x \in {a, b} : \A y \in {a, b} : x <= y
  BY DEF Min
<1> QED BY <1>1, <1>2

\* One counted response more takes Full cells more, one answer brings Reply.
LEMMA OneMore ==
    ASSUME NEW n \in Nat, NEW k \in Nat
    PROVE  (n + 1) * k = n * k + k /\ n * k \in Nat
  OBVIOUS

\* Responses counted at Full cells each are no more than answers of at most
\* Full cells.
LEMMA FewerResponses ==
    ASSUME NEW n \in Nat, NEW m \in Nat, n * Full <= m * Reply
    PROVE  n <= m
<1>1. Full \in Nat \ {0} /\ Reply \in Nat /\ Reply <= Full
  BY SizeAssumption
<1>2. m * Reply <= m * Full
  BY <1>1
<1>3. ASSUME n >= m + 1 PROVE FALSE
  <2>1. n * Full >= (m + 1) * Full
    BY <1>1, <1>3
  <2>2. (m + 1) * Full = m * Full + Full
    BY <1>1
  <2>3. n * Full \in Nat /\ m * Full \in Nat /\ m * Reply \in Nat
    BY <1>1
  <2> QED BY <1>1, <1>2, <2>1, <2>2, <2>3
<1> QED BY <1>3

-----------------------------------------------------------------------------
\* Nothing has been sent yet.
LEMMA InitInv == Init => IInv
<1> SUFFICES ASSUME Init PROVE IInv
  OBVIOUS
<1>1. Full \in Nat /\ Reply \in Nat /\ 0 * Full = 0 /\ 0 * Reply = 0
  BY SizeAssumption
<1> QED BY <1>1 DEF Init, IInv, Counters, CellsInOrder, UnderWay

\* The server and the network bring cells, none that no answer has.
LEMMA ServerStep ==
    ASSUME IInv, NEW t \in Threads, Answer(t) \/ Deliver(t) \/ CloseByServer(t)
    PROVE  IInv'
<1> USE DEF IInv, Counters
<1>1. UNCHANGED <<inb, outb, misread, readCells, pc>>
  BY DEF Answer, Deliver, CloseByServer, threadVars
<1>2. Full \in Nat /\ Reply \in Nat
  BY SizeAssumption
<1>3. CASE Answer(t)
  <2>1. answered' = [answered EXCEPT ![t] = answered[t] + 1] /\ UNCHANGED arrived
    BY <1>3 DEF Answer
  <2>2. (answered[t] + 1) * Reply = answered[t] * Reply + Reply /\ answered[t] * Reply \in Nat
    BY <1>2, OneMore
  <2>3. arrived[t] <= answered'[t] * Reply
    BY <1>2, <2>1, <2>2 DEF CellsInOrder
  <2> QED BY <1>1, <2>1, <2>3 DEF CellsInOrder, UnderWay
<1>4. CASE Deliver(t)
  <2>1. PICK n \in (arrived[t] + 1)..(answered[t] * Reply) :
             arrived' = [arrived EXCEPT ![t] = n]
    BY <1>4 DEF Deliver
  <2>2. UNCHANGED answered
    BY <1>4 DEF Deliver
  <2>3. n \in Nat /\ arrived[t] <= n /\ n <= answered[t] * Reply
    BY <1>2, <2>1, OneMore
  <2>4. \A u \in Threads : CellsInOrder(u)'
    BY <1>1, <2>1, <2>2, <2>3 DEF CellsInOrder
  <2> QED BY <1>1, <2>1, <2>2, <2>3, <2>4 DEF UnderWay
<1>5. CASE CloseByServer(t)
  <2>1. UNCHANGED <<answered, arrived>>
    BY <1>5 DEF CloseByServer
  <2> QED BY <1>1, <2>1 DEF CellsInOrder, UnderWay
<1> QED BY <1>3, <1>4, <1>5

\* A thread counts what it has read, and writes only when it is not ahead.
LEMMA ThreadStep ==
    ASSUME IInv, NEW t \in Threads, Thread(t)
    PROVE  IInv'
<1> USE DEF IInv, Counters
<1>1. UNCHANGED <<answered, arrived>>
  BY Zenon DEF Thread, Connect, ConnectFails, TestStop, Write, WriteFails,
               Read, ReadEnds, Report, serverVars
<1>2. CASE Connect(t) \/ ConnectFails(t) \/ TestStop(t) \/ WriteFails(t)
           \/ ReadEnds(t) \/ Report(t)
  <2>1. UNCHANGED <<inb, outb, misread, readCells>>
    BY <1>2 DEF Connect, ConnectFails, TestStop, WriteFails, ReadEnds, Report, threadVars
  <2>2. PICK label \in {"loop", "gone", "report", "write", "read", "done"} :
          /\ pc' = [pc EXCEPT ![t] = label]
          /\ label \in {"loop", "gone", "write"} => pc[t] \in {"connect", "loop"}
          /\ label = "read" => pc[t] = "sent"
    BY <1>2 DEF Connect, ConnectFails, TestStop, WriteFails, ReadEnds, Report, Goto
  <2>3. \A u \in Threads : CellsInOrder(u)'
    BY <1>1, <2>1 DEF CellsInOrder
  <2>4. \A u \in Threads : UnderWay(u)'
    BY <2>1, <2>2 DEF UnderWay
  <2>5. Counters'
    BY <1>1, <2>1, <2>2
  <2> QED BY <2>3, <2>4, <2>5
<1>3. CASE Write(t)
  <2>1. /\ pc[t] = "write" /\ pc' = [pc EXCEPT ![t] = "sent"]
        /\ outb' = [outb EXCEPT ![t] = outb[t] + 1]
        /\ UNCHANGED <<inb, misread, readCells>>
    BY <1>3 DEF Write, Goto
  <2>2. \A u \in Threads : CellsInOrder(u)'
    BY <1>1, <2>1 DEF CellsInOrder
  <2> QED BY <1>1, <2>1, <2>2 DEF UnderWay
<1>4. CASE Read(t)
  <2> DEFINE m == Min({Full, Unread(t)})
  <2>1. Full \in Nat \ {0} /\ Unread(t) \in Nat
    BY SizeAssumption DEF Unread, CellsInOrder
  <2>2. m \in Nat /\ m <= Full /\ m <= Unread(t)
    BY <2>1, MinOfTwo
  <2>3. PICK counted \in Counted(t, m) :
          /\ inb' = [inb EXCEPT ![t] = IF counted THEN @ + 1 ELSE @]
          /\ misread' = [misread EXCEPT ![t] = IF counted THEN @ ELSE @ + 1]
    BY <1>4 DEF Read
  <2>4. counted \in BOOLEAN /\ (counted => ~(m < Full))
    BY <2>3 DEF Counted
  <2>5. /\ pc[t] = "read" /\ pc' = [pc EXCEPT ![t] = "loop"]
        /\ readCells' = [readCells EXCEPT ![t] = readCells[t] + m]
        /\ UNCHANGED outb
    BY <1>4 DEF Read, Goto
  <2> HIDE DEF m
  <2>6. readCells[t] + m <= arrived[t] /\ readCells[t] + m \in Nat
    BY <2>2 DEF Unread
  <2>7. CASE counted
    <3>1. inb' = [inb EXCEPT ![t] = inb[t] + 1] /\ misread' = misread
      BY <2>3, <2>7
    <3>2. (inb[t] + 1) * Full <= readCells[t] + m
      <4>1. m = Full
        BY <2>1, <2>2, <2>4, <2>7
      <4>2. (inb[t] + 1) * Full = inb[t] * Full + Full /\ inb[t] * Full \in Nat
        BY <2>1, OneMore
      <4> QED BY <2>1, <4>1, <4>2 DEF CellsInOrder
    <3>3. \A u \in Threads : CellsInOrder(u)'
      BY <1>1, <2>5, <2>6, <3>1, <3>2 DEF CellsInOrder
    <3> QED BY <1>1, <2>5, <2>6, <3>1, <3>3 DEF UnderWay
  <2>8. CASE ~counted
    <3>1. inb' = inb /\ misread' = [misread EXCEPT ![t] = misread[t] + 1]
      BY <2>3, <2>8
    <3>2. inb[t] * Full <= readCells[t] + m
      <4>1. inb[t] * Full \in Nat
        BY <2>1, OneMore
      <4> QED BY <2>2, <4>1 DEF CellsInOrder
    <3>3. \A u \in Threads : CellsInOrder(u)'
      BY <1>1, <2>5, <2>6, <3>1, <3>2 DEF CellsInOrder
    <3> QED BY <1>1, <2>5, <2>6, <3>1, <3>3 DEF UnderWay
  <2> QED BY <2>7, <2>8
<1> QED BY <1>2, <1>3, <1>4 DEF Thread

\* Every step keeps the counters in order.
LEMMA StepInv == IInv /\ [Next]_vars => IInv'
<1> SUFFICES ASSUME IInv, [Next]_vars PROVE IInv'
  OBVIOUS
<1>1. CASE UNCHANGED vars \/ Main
  <2>1. UNCHANGED <<threadVars, serverVars, pc>>
    BY <1>1 DEF vars, Main, StopThreads, Recv, PrintReport
  <2> QED BY <2>1 DEF IInv, Counters, CellsInOrder, UnderWay, threadVars, serverVars
<1> QED BY <1>1, ServerStep, ThreadStep DEF Next

\* The figures add up where the invariant holds.
LEMMA InvConsequence == IInv => CountsAddUp
<1> SUFFICES ASSUME IInv, NEW t \in Threads
             PROVE  inb[t] <= answered[t] /\ outb[t] - (inb[t] + misread[t]) \in {0, 1}
  BY DEF CountsAddUp
<1>1. inb[t] \in Nat /\ answered[t] \in Nat /\ readCells[t] \in Nat /\ arrived[t] \in Nat
  BY DEF IInv, Counters
<1>2. inb[t] * Full \in Nat /\ answered[t] * Reply \in Nat
  BY <1>1, SizeAssumption, OneMore
<1>3. inb[t] * Full <= answered[t] * Reply
  BY <1>1, <1>2 DEF IInv, CellsInOrder
<1>4. inb[t] <= answered[t]
  BY <1>1, <1>3, FewerResponses
<1> QED BY <1>4 DEF IInv, UnderWay

\* The figures of the report are real, however responses are split and joined:
\* none counts twice, and a thread is at most one request ahead.
THEOREM FiguresAreReal == Spec => []CountsAddUp
  BY InitInv, StepInv, InvConsequence, PTL DEF Spec

=============================================================================

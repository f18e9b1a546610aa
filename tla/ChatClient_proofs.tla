-------------------------- MODULE ChatClient_proofs --------------------------
(***************************************************************************)
(* For any sizes of header, messages and lines, and any number of them: a  *)
(* client that never received a message in part shows the server's         *)
(* messages in order, it sends the lines typed in order, and it does not   *)
(* talk on after the server's close.                                       *)
(*                                                                         *)
(* ShownInOrder needs to know how the stream is laid out (Layout: messages *)
(* follow each other without a gap) and that what was peeked at is still   *)
(* in front when it is received (Peeked).  FewLateSends needs that stdin   *)
(* is only read after a message was shown or while the connection is open. *)
(* LinesSentInOrder needs that what fgets has taken of the line it is in   *)
(* is whole buffers of it (Pieces), so that what is left at the last call  *)
(* is the remainder, and that the loop alone takes lines until it has      *)
(* ended (InLoop).                                                         *)
(***************************************************************************)
EXTENDS ChatClient, FiniteSetTheorems, SequenceTheorems, WellFoundedInduction,
        TLAPS

Messages == [at : Nat, len : 0..MaxData]

StreamType ==
    /\ served \in Seq(Messages)
    /\ arrived \in Nat /\ consumed \in Nat /\ want \in Nat
    /\ consumed <= arrived /\ arrived <= Total
    /\ shown \in Seq(Nat)

Layout ==
    /\ \A i \in DOMAIN served : served[i].at = IF i = 1 THEN 0 ELSE MessageEnd(i - 1)
    /\ \A i, j \in DOMAIN served : i < j => MessageEnd(i) <= served[j].at

Peeked ==
    pc = "recv" /\ ~torn =>
        /\ Len(shown) < Len(served)
        /\ want = Whole(served[Len(shown) + 1].len)

Stream == StreamType /\ Layout /\ Peeked /\ ShownInOrder

LateSends ==
    /\ late \in Nat /\ lateShown \in Nat
    /\ late <= lateShown + 1
    /\ pc = "stdin" => late <= lateShown
    /\ conn = "open" => late = 0

-----------------------------------------------------------------------------
(* The messages of the stream. *)

\* A message ends after it starts; both are numbers.
LEMMA EndAfterStart ==
    ASSUME StreamType, NEW i \in DOMAIN served
    PROVE  /\ served[i].at \in Nat /\ served[i].len \in 0..MaxData
           /\ MessageEnd(i) = served[i].at + HeaderSize + served[i].len
           /\ MessageEnd(i) \in Nat /\ MessageEnd(i) > served[i].at
<1>1. served[i] \in Messages
  BY DEF StreamType
<1>2. served[i].at \in Nat /\ served[i].len \in 0..MaxData
  BY <1>1 DEF Messages
<1> QED BY <1>2, SizeAssumption DEF MessageEnd

\* Where a message is in front, it is the one after those that were shown, and
\* no other starts there.
LEMMA MessageInFront ==
    ASSUME Stream, ~torn, consumed < arrived
    PROVE  /\ Len(shown) + 1 \in DOMAIN served
           /\ served[Len(shown) + 1].at = consumed
           /\ \A i \in DOMAIN served : served[i].at = consumed => i = Len(shown) + 1
<1> DEFINE k == Len(shown) + 1
<1>1. /\ Len(shown) \in Nat /\ Len(served) \in Nat /\ DOMAIN served = 1..Len(served)
      /\ Len(shown) <= Len(served)
      /\ consumed = IF shown = <<>> THEN 0 ELSE MessageEnd(Len(shown))
      /\ shown = <<>> <=> Len(shown) = 0
  BY DEF Stream, StreamType, ShownInOrder
<1>2. arrived \in Nat /\ consumed \in Nat /\ arrived <= Total
  BY DEF Stream, StreamType
<1>3. Len(shown) # Len(served)
  <2>1. CASE shown = <<>>
    BY <1>1, <1>2, <2>1 DEF Total, Stream, StreamType
  <2>2. CASE shown # <<>> /\ Len(shown) = Len(served)
    <3>1. served # <<>>
      BY <1>1, <2>2
    <3>2. Total = consumed
      BY <1>1, <2>2, <3>1 DEF Total
    <3> QED BY <1>2, <3>2
  <2> QED BY <2>1, <2>2
<1>4. k \in DOMAIN served
  BY <1>1, <1>3
<1>5. served[k].at = IF k = 1 THEN 0 ELSE MessageEnd(k - 1)
  BY <1>4 DEF Stream, Layout
<1>6. served[k].at = consumed
  BY <1>1, <1>5
<1>7. ASSUME NEW i \in DOMAIN served, served[i].at = consumed, i # k
      PROVE  FALSE
  <2>1. /\ served[i].at \in Nat /\ MessageEnd(i) \in Nat /\ MessageEnd(i) > served[i].at
        /\ served[k].at \in Nat /\ MessageEnd(k) \in Nat /\ MessageEnd(k) > served[k].at
    BY <1>4, EndAfterStart DEF Stream
  <2>2. CASE i < k
    <3>1. MessageEnd(i) <= served[k].at
      BY <1>4, <2>2 DEF Stream, Layout
    <3> QED BY <1>6, <1>7, <2>1, <3>1
  <2>3. CASE k < i
    <3>1. MessageEnd(k) <= served[i].at
      BY <1>4, <2>3 DEF Stream, Layout
    <3> QED BY <1>6, <1>7, <2>1, <3>1
  <2> QED BY <1>1, <1>4, <1>7, <2>2, <2>3
<1> QED BY <1>4, <1>6, <1>7

\* A singleton's minimum.
LEMMA MinOfOne ==
    ASSUME NEW n \in Nat
    PROVE  Min({n}) = n
<1>1. Min({n}) = CHOOSE x \in {n} : \A y \in {n} : x <= y
  BY DEF Min
<1>2. \E x \in {n} : \A y \in {n} : x <= y
  OBVIOUS
<1> QED BY <1>1, <1>2

-----------------------------------------------------------------------------
(* The steps. *)

\* A message the server sends begins where the last one ended.
LEMMA ServeStep ==
    ASSUME Stream, Serve
    PROVE  Stream'
<1>1. PICK len \in 0..MaxData : served' = Append(served, Message(Total, len))
  BY DEF Serve
<1>2. UNCHANGED <<arrived, consumed, want, shown, torn, pc>>
  BY DEF Serve, recvVars
<1>0. PICK n \in Nat : n = Len(served)
  BY DEF Stream, StreamType
<1>3. /\ served \in Seq(Messages)
      /\ n = Len(served) /\ DOMAIN served = 1..n
  BY <1>0 DEF Stream, StreamType
<1>4. Total \in Nat /\ \A i \in DOMAIN served : MessageEnd(i) <= Total
  <2>1. CASE served = <<>>
    BY <2>1 DEF Total
  <2>2. CASE served # <<>>
    <3>1. n \in DOMAIN served /\ Total = MessageEnd(n)
      BY <1>3, <2>2 DEF Total
    <3>2. /\ MessageEnd(n) \in Nat /\ MessageEnd(n) > served[n].at
          /\ served[n].at \in Nat
      BY <3>1, EndAfterStart DEF Stream
    <3>3. ASSUME NEW i \in DOMAIN served PROVE MessageEnd(i) <= Total
      <4>1. MessageEnd(i) \in Nat
        BY EndAfterStart DEF Stream
      <4>2. CASE i = n
        BY <3>1, <3>2, <4>2
      <4>3. CASE i < n
        <5>1. MessageEnd(i) <= served[n].at
          BY <3>1, <4>3 DEF Stream, Layout
        <5> QED BY <3>1, <3>2, <4>1, <5>1
      <4> QED BY <1>3, <4>2, <4>3
    <3> QED BY <3>1, <3>2, <3>3
  <2> QED BY <2>1, <2>2
<1>5. Message(Total, len) \in Messages
  BY <1>4 DEF Message, Messages
<1>6. /\ served' \in Seq(Messages)
      /\ Len(served') = n + 1 /\ DOMAIN served' = 1..(n + 1)
      /\ \A i \in DOMAIN served : served'[i] = served[i]
      /\ served'[n + 1] = Message(Total, len)
  BY <1>1, <1>3, <1>5
<1>7. \A i \in DOMAIN served : MessageEnd(i)' = MessageEnd(i)
  BY <1>6 DEF MessageEnd
<1>8. served'[n + 1].at = Total /\ served'[n + 1].len = len
  BY <1>6 DEF Message
<1>9. Total' = Total + HeaderSize + len
  <2>1. served' # <<>>
    BY <1>3, <1>6
  <2>2. Total' = served'[n + 1].at + HeaderSize + served'[n + 1].len
    BY <1>6, <2>1 DEF Total, MessageEnd
  <2> QED BY <1>8, <2>2
<1>10. StreamType'
  <2>1. arrived <= Total'
    BY <1>4, <1>9, SizeAssumption DEF Stream, StreamType
  <2> QED BY <1>2, <1>6, <2>1 DEF Stream, StreamType
<1>11. Layout'
  <2>1. ASSUME NEW i \in DOMAIN served'
        PROVE  served'[i].at = IF i = 1 THEN 0 ELSE MessageEnd(i - 1)'
    <3>1. CASE i \in DOMAIN served
      <4>1. served[i].at = IF i = 1 THEN 0 ELSE MessageEnd(i - 1)
        BY <3>1 DEF Stream, Layout
      <4>2. i # 1 => MessageEnd(i - 1)' = MessageEnd(i - 1)
        BY <1>3, <1>7, <3>1
      <4> QED BY <1>6, <3>1, <4>1, <4>2
    <3>2. CASE i = n + 1
      <4>1. CASE n = 0
        <5>1. served = <<>>
          BY <1>3, <4>1
        <5> QED BY <1>8, <3>2, <4>1, <5>1 DEF Total
      <4>2. CASE n # 0
        <5>1. served # <<>> /\ n \in DOMAIN served
          BY <1>3, <4>2
        <5>2. Total = MessageEnd(n)'
          BY <1>3, <1>7, <5>1 DEF Total
        <5> QED BY <1>3, <1>8, <3>2, <4>2, <5>2
      <4> QED BY <4>1, <4>2
    <3> QED BY <1>3, <1>6, <3>1, <3>2
  <2>2. ASSUME NEW i \in DOMAIN served', NEW j \in DOMAIN served', i < j
        PROVE  MessageEnd(i)' <= served'[j].at
    <3>1. i \in DOMAIN served
      BY <1>3, <1>6, <2>2
    <3>2. CASE j \in DOMAIN served
      <4>1. MessageEnd(i) <= served[j].at
        BY <2>2, <3>1, <3>2 DEF Stream, Layout
      <4> QED BY <1>6, <1>7, <3>1, <3>2, <4>1
    <3>3. CASE j = n + 1
      BY <1>4, <1>7, <1>8, <3>1, <3>3
    <3> QED BY <1>3, <1>6, <3>2, <3>3
  <2> QED BY <2>1, <2>2 DEF Layout
<1>12. Peeked'
  <2>1. Len(shown) \in Nat
    BY DEF Stream, StreamType
  <2>2. ASSUME pc = "recv", ~torn
        PROVE  /\ Len(shown) < n + 1
               /\ want = Whole(served'[Len(shown) + 1].len)
    <3>1. Len(shown) < n /\ want = Whole(served[Len(shown) + 1].len)
      BY <1>3, <2>2 DEF Stream, Peeked
    <3>2. Len(shown) + 1 \in DOMAIN served
      BY <1>3, <2>1, <3>1
    <3> QED BY <1>6, <2>1, <3>1, <3>2
  <2> QED BY <1>2, <1>6, <2>2 DEF Peeked, Whole
<1>13. ShownInOrder'
  <2>1. shown \in Seq(Nat) /\ Len(shown) \in Nat
    BY DEF Stream, StreamType
  <2>2. ASSUME ~torn, shown # <<>> PROVE MessageEnd(Len(shown))' = MessageEnd(Len(shown))
    <3>1. Len(shown) \in DOMAIN served
      BY <1>3, <2>1, <2>2 DEF Stream, ShownInOrder
    <3> QED BY <1>2, <1>6, <3>1 DEF MessageEnd
  <2> QED BY <1>2, <1>3, <1>6, <2>1, <2>2 DEF Stream, ShownInOrder
<1> QED BY <1>10, <1>11, <1>12, <1>13 DEF Stream

\* What the client takes from the stream is the message in front, unless the
\* stream is torn.
LEMMA ClientStep ==
    ASSUME Stream, Client
    PROVE  Stream'
<1>1. UNCHANGED <<served, arrived>>
  BY Zenon DEF Client, Connect, ConnectFails, Select, PeekEnds, PeekPartial, PeekOversized,
         PeekHeader, RecvPart, RecvMessage, ReadStdin, NoStdin, Command, EndOfCommands,
         serverVars
<1>2. Layout' /\ Total' = Total
  BY <1>1 DEF Stream, Layout, MessageEnd, Total
<1>3. /\ served \in Seq(Messages) /\ shown \in Seq(Nat)
      /\ arrived \in Nat /\ consumed \in Nat /\ want \in Nat
      /\ consumed <= arrived /\ arrived <= Total
  BY DEF Stream, StreamType
<1>4. HeaderSize \in Nat \ {0} /\ MaxData \in Nat
  BY SizeAssumption
<1>5. CASE PeekOversized
  <2>1. /\ consumed' = consumed + HeaderSize /\ pc' = "select"
        /\ arrived - consumed >= HeaderSize /\ UNCHANGED <<want, shown, torn>>
    BY <1>5 DEF PeekOversized, Unread
  <2>2. StreamType'
    BY <1>1, <1>2, <1>3, <1>4, <2>1 DEF StreamType
  <2>3. ASSUME ~torn PROVE FALSE
    <3>1. consumed < arrived
      BY <1>3, <1>4, <2>1
    <3> DEFINE k == Len(shown) + 1
    <3>2. k \in DOMAIN served /\ served[k].at = consumed
      BY <2>3, <3>1, MessageInFront
    <3>3. PICK len \in Lengths(consumed) : Oversized(len)
      BY <1>5 DEF PeekOversized
    <3>4. PICK i \in DOMAIN served : len = served[i].len
      BY <3>2, <3>3 DEF Lengths
    <3>5. len \in 0..MaxData
      BY <3>4, EndAfterStart DEF Stream
    <3> QED BY <1>4, <3>3, <3>5 DEF Oversized
  <2> QED BY <1>2, <2>1, <2>2, <2>3 DEF Stream, Peeked, ShownInOrder
<1>6. CASE PeekHeader
  <2>1. /\ pc' = "recv" /\ arrived - consumed >= HeaderSize
        /\ UNCHANGED <<consumed, shown, torn>>
    BY <1>6 DEF PeekHeader, Unread
  <2>2. PICK len \in Lengths(consumed) : want' = Whole(len)
    BY <1>6 DEF PeekHeader
  <2>3. len \in Nat
    <3>1. \A i \in DOMAIN served : served[i].len \in Nat
      BY <1>4, EndAfterStart DEF Stream
    <3> QED BY <1>4, <2>2, <3>1 DEF Lengths
  <2>4. StreamType'
    BY <1>1, <1>2, <1>3, <1>4, <2>1, <2>2, <2>3 DEF StreamType, Whole
  <2>5. Peeked'
    <3>1. ASSUME ~torn
          PROVE  Len(shown) < Len(served) /\ want' = Whole(served[Len(shown) + 1].len)
      <4>1. consumed < arrived
        BY <1>3, <1>4, <2>1
      <4> DEFINE k == Len(shown) + 1
      <4>2. /\ k \in DOMAIN served /\ served[k].at = consumed
            /\ \A i \in DOMAIN served : served[i].at = consumed => i = k
        BY <3>1, <4>1, MessageInFront
      <4>3. len = served[k].len
        BY <2>2, <4>2 DEF Lengths
      <4> QED BY <1>3, <2>2, <4>2, <4>3
    <3> QED BY <1>1, <2>1, <3>1 DEF Peeked
  <2>6. ShownInOrder'
    BY <1>1, <2>1 DEF Stream, ShownInOrder, MessageEnd
  <2> QED BY <1>2, <2>4, <2>5, <2>6 DEF Stream
<1>7. CASE RecvPart
  <2>1. consumed' = arrived /\ torn' = TRUE /\ pc' = "select" /\ UNCHANGED <<want, shown>>
    BY <1>7 DEF RecvPart
  <2> QED BY <1>1, <1>2, <1>3, <2>1 DEF Stream, StreamType, Peeked, ShownInOrder
<1>8. CASE RecvMessage
  <2>1. /\ pc = "recv" /\ pc' = "stdin" /\ arrived - consumed >= want
        /\ consumed' = consumed + want /\ UNCHANGED <<want, torn>>
        /\ shown' = Append(shown, MessageAt(consumed, want))
    BY <1>8 DEF RecvMessage, Unread
  <2>2. MessageAt(consumed, want) \in Nat
    <3> DEFINE here == {i \in DOMAIN served :
                           served[i].at = consumed /\ MessageEnd(i) = consumed + want}
    <3>1. CASE here = {}
      BY <3>1 DEF MessageAt
    <3>2. CASE here # {}
      <4>1. MessageAt(consumed, want) = Min(here)
        BY <3>2 DEF MessageAt
      <4>2. \A i, j \in here : i = j
        <5>1. ASSUME NEW i \in here, NEW j \in here, i < j PROVE FALSE
          <6>1. MessageEnd(i) <= served[j].at
            BY <5>1 DEF Stream, Layout
          <6>2. MessageEnd(i) > served[i].at /\ MessageEnd(i) \in Nat
            BY EndAfterStart DEF Stream
          <6> QED BY <1>3, <6>1, <6>2
        <5> QED BY <1>3, <5>1
      <4>3. PICK i \in here : here = {i}
        BY <3>2, <4>2
      <4>4. i \in Nat
        BY <1>3
      <4> HIDE DEF here
      <4> QED BY <4>1, <4>3, <4>4, MinOfOne
    <3> QED BY <3>1, <3>2
  <2>3. StreamType'
    BY <1>1, <1>2, <1>3, <2>1, <2>2 DEF StreamType
  <2>4. ASSUME ~torn
        PROVE  /\ \A i \in DOMAIN shown' : shown'[i] = i
               /\ Len(shown') <= Len(served)
               /\ consumed' = MessageEnd(Len(shown')) /\ shown' # <<>>
    <3> DEFINE k == Len(shown) + 1
    <3>1. want = HeaderSize + served[k].len /\ Len(shown) < Len(served)
      BY <2>1, <2>4 DEF Stream, Peeked, Whole
    <3>2. k \in DOMAIN served /\ served[k].len \in Nat
      <4>1. k \in DOMAIN served
        BY <1>3, <3>1
      <4>2. served[k].len \in 0..MaxData
        BY <4>1, EndAfterStart DEF Stream
      <4> QED BY <1>4, <4>1, <4>2
    <3>3. consumed < arrived
      BY <1>3, <1>4, <2>1, <3>1, <3>2
    <3>4. served[k].at = consumed /\ \A i \in DOMAIN served : served[i].at = consumed => i = k
      BY <2>4, <3>3, MessageInFront
    <3>5. MessageEnd(k) = consumed + want
      BY <1>3, <1>4, <3>1, <3>2, <3>4 DEF MessageEnd
    <3>6. MessageAt(consumed, want) = k
      <4>1. {i \in DOMAIN served : served[i].at = consumed
                                   /\ MessageEnd(i) = consumed + want} = {k}
        BY <3>2, <3>4, <3>5
      <4>2. MessageAt(consumed, want) = Min({k})
        BY <4>1 DEF MessageAt
      <4> QED BY <1>3, <4>2, MinOfOne
    <3>7. shown' = Append(shown, k)
      BY <2>1, <3>6
    <3>8. /\ Len(shown') = k /\ DOMAIN shown' = 1..k /\ shown'[k] = k
          /\ \A i \in DOMAIN shown : shown'[i] = shown[i]
      BY <1>3, <3>7
    <3>9. \A i \in DOMAIN shown : shown[i] = i
      BY <2>4 DEF Stream, ShownInOrder
    <3>10. DOMAIN shown = 1..Len(shown) /\ Len(shown) \in Nat
      BY <1>3
    <3>11. \A i \in DOMAIN shown' : shown'[i] = i
      BY <3>8, <3>9, <3>10
    <3>12. shown' # <<>>
      BY <3>8, <3>10
    <3>13. consumed' = MessageEnd(Len(shown'))
      BY <2>1, <3>5, <3>8
    <3>14. Len(shown') <= Len(served)
      BY <1>3, <3>1, <3>8, <3>10
    <3> QED BY <3>11, <3>12, <3>13, <3>14
  <2>5. ShownInOrder'
    BY <1>1, <2>1, <2>4 DEF ShownInOrder, MessageEnd
  <2> QED BY <1>2, <2>1, <2>3, <2>5 DEF Stream, Peeked
<1>9. CASE UNCHANGED recvVars /\ pc' # "recv"
  <2>1. UNCHANGED <<want, consumed, shown, torn>>
    BY <1>9 DEF recvVars
  <2>2. StreamType'
    BY <1>1, <1>2, <1>3, <2>1 DEF StreamType
  <2>3. ShownInOrder'
    BY <1>1, <2>1 DEF Stream, ShownInOrder, MessageEnd
  <2> QED BY <1>2, <1>9, <2>2, <2>3 DEF Stream, Peeked
<1>10. CASE ReadStdin
  <2>1. UNCHANGED recvVars
    BY <1>10 DEF ReadStdin
  <2>2. \E line, len : SendMessage(line, len)
    BY <1>10 DEF ReadStdin
  <2>3. pc' # "recv"
    BY <2>2 DEF SendMessage
  <2> QED BY <1>9, <2>1, <2>3
<1>11. CASE \/ Connect \/ ConnectFails \/ Select \/ PeekEnds \/ PeekPartial
            \/ NoStdin \/ Command \/ EndOfCommands
  <2>1. UNCHANGED recvVars
    BY Zenon, <1>11 DEF Connect, ConnectFails, Select, PeekEnds, PeekPartial,
                        NoStdin, Command, EndOfCommands
  <2>2. pc' # "recv"
    BY <1>11 DEF Connect, ConnectFails, Select, PeekEnds, PeekPartial, Retry,
                 NoStdin, Command, EndOfCommands
  <2> QED BY <1>9, <2>1, <2>2
<1> QED BY <1>5, <1>6, <1>7, <1>8, <1>10, <1>11 DEF Client

\* Every step keeps the stream in order.
LEMMA StreamStep == Stream /\ [Next]_vars => Stream'
<1> SUFFICES ASSUME Stream, [Next]_vars PROVE Stream'
  OBVIOUS
<1>1. CASE UNCHANGED vars \/ Fin \/ Reset \/ Type \/ EndInput
  <2>1. UNCHANGED <<served, arrived, consumed, want, shown, torn, pc>>
    BY <1>1 DEF vars, Fin, Reset, Type, EndInput, serverVars, recvVars
  <2> QED BY <2>1 DEF Stream, StreamType, Layout, Peeked, ShownInOrder, MessageEnd, Total
<1>2. CASE Deliver
  <2>1. UNCHANGED <<served, consumed, want, shown, torn, pc>>
        /\ arrived' \in (arrived + 1)..Total
    BY <1>2 DEF Deliver, recvVars
  <2>2. Total \in Int /\ Total' = Total /\ Layout' /\ Peeked' /\ ShownInOrder'
    <3>1. Total \in Int
      BY EndAfterStart DEF Stream, StreamType, Total
    <3> QED BY <2>1, <3>1 DEF Stream, Layout, Peeked, ShownInOrder, MessageEnd, Total
  <2>3. StreamType'
    BY <2>1, <2>2 DEF Stream, StreamType
  <2> QED BY <2>2, <2>3 DEF Stream
<1> QED BY <1>1, <1>2, ServeStep, ClientStep DEF Next

\* The one send that a message shown late, or the close itself, allows.
LEMMA LateSendsStep == LateSends /\ [Next]_vars => LateSends'
<1> SUFFICES ASSUME LateSends, [Next]_vars PROVE LateSends'
  OBVIOUS
<1> USE DEF LateSends
<1>1. CASE UNCHANGED vars \/ Serve \/ Deliver \/ Type \/ EndInput
  <2>1. UNCHANGED <<late, lateShown, pc, conn>>
    BY <1>1 DEF vars, Serve, Deliver, Type, EndInput, serverVars, recvVars, sendVars
  <2> QED BY <2>1
<1>2. CASE Fin \/ Reset
  <2>1. UNCHANGED <<late, lateShown, pc>> /\ conn' # "open"
    BY <1>2 DEF Fin, Reset, recvVars, sendVars
  <2> QED BY <2>1
<1>3. CASE Client
  <2>1. CASE ReadStdin
    <3>1. UNCHANGED <<conn, lateShown>> /\ pc = "stdin"
      BY <2>1 DEF ReadStdin, serverVars, recvVars
    <3>2. pc' # "stdin" /\ (late' = late \/ (conn # "open" /\ late' = late + 1))
      BY <2>1 DEF ReadStdin, SendMessage, sendVars
    <3> QED BY <3>1, <3>2
  <2>2. CASE RecvMessage
    BY <2>2 DEF RecvMessage, serverVars, sendVars
  <2>3. CASE Select
    BY <2>3 DEF Select, SocketReadable, serverVars, recvVars, sendVars
  <2>4. CASE \/ Connect \/ ConnectFails \/ PeekEnds \/ PeekPartial \/ PeekOversized
             \/ PeekHeader \/ RecvPart \/ NoStdin \/ Command \/ EndOfCommands
    <3>1. UNCHANGED <<late, lateShown, conn>> /\ pc' # "stdin"
      BY <2>4 DEF Connect, ConnectFails, PeekEnds, PeekPartial, Retry, PeekOversized,
                  PeekHeader, RecvPart, NoStdin, Command, EndOfCommands,
                  serverVars, recvVars, sendVars
    <3> QED BY <3>1
  <2> QED BY <1>3, <2>1, <2>2, <2>3, <2>4 DEF Client
<1> QED BY <1>1, <1>2, <1>3 DEF Next

-----------------------------------------------------------------------------
(* The lines typed, and what the loop takes of them. *)

Lines == [at : Nat, len : LineLengths]

Sends == [line : Nat, len : 0..MaxData]

\* A call of fgets takes this many cells at most.
Cells == MaxData + 2

TypedType ==
    /\ typed \in Seq(Lines) /\ sent \in Seq(Sends)
    /\ filled \in Nat /\ taken \in Nat /\ looped \in Nat
    /\ looped <= taken /\ taken <= filled /\ filled <= TypedTotal

TypedLayout ==
    /\ \A i \in DOMAIN typed : typed[i].at = IF i = 1 THEN 0 ELSE LineEnd(i - 1)
    /\ \A i, j \in DOMAIN typed : i < j => LineEnd(i) <= typed[j].at

\* Until the loop has ended, nothing but its fgets has taken anything.
InLoop ==
    /\ pc \in {"start", "select", "peek", "recv", "stdin"} => taken = looped
    /\ pc \in {"select", "peek", "recv", "stdin"} => running

\* The loop has taken whole pieces of the line it is in.
Pieces ==
    \A i \in DOMAIN typed :
        typed[i].at <= looped /\ looped < LineEnd(i) =>
            \E q \in Nat : looped = typed[i].at + q * Cells

Typing == TypedType /\ TypedLayout /\ InLoop /\ Pieces /\ LinesSentInOrder

\* A line ends after it starts; both are numbers.
LEMMA LineFacts ==
    ASSUME typed \in Seq(Lines), NEW i \in DOMAIN typed
    PROVE  /\ typed[i].at \in Nat /\ typed[i].len \in Nat
           /\ LineEnd(i) = typed[i].at + typed[i].len + 1
           /\ LineEnd(i) \in Nat /\ LineEnd(i) > typed[i].at
<1>1. typed[i] \in Lines
  OBVIOUS
<1>2. typed[i].at \in Nat /\ typed[i].len \in LineLengths
  BY <1>1 DEF Lines
<1>3. typed[i].len \in Nat
  BY <1>2, SizeAssumption
<1>4. LineEnd(i) = typed[i].at + typed[i].len + 1
  BY DEF LineEnd
<1> QED BY <1>2, <1>3, <1>4

\* All lines end where the last one does, or before.
LEMMA LinesInTotal ==
    ASSUME typed \in Seq(Lines), TypedLayout
    PROVE  /\ TypedTotal \in Nat
           /\ \A i \in DOMAIN typed : LineEnd(i) <= TypedTotal
           /\ typed # <<>> => /\ Len(typed) \in DOMAIN typed
                              /\ TypedTotal = LineEnd(Len(typed))
<1>0. PICK n \in Nat : n = Len(typed)
  OBVIOUS
<1>1. DOMAIN typed = 1..n /\ (typed = <<>> <=> n = 0)
  BY <1>0
<1>2. CASE typed = <<>>
  BY <1>1, <1>2 DEF TypedTotal
<1>3. CASE typed # <<>>
  <2>1. n \in DOMAIN typed /\ TypedTotal = LineEnd(n)
    BY <1>0, <1>1, <1>3 DEF TypedTotal
  <2>2. LineEnd(n) \in Nat /\ LineEnd(n) > typed[n].at /\ typed[n].at \in Nat
    BY <2>1, LineFacts
  <2>3. ASSUME NEW i \in DOMAIN typed PROVE LineEnd(i) <= TypedTotal
    <3>1. LineEnd(i) \in Nat
      BY LineFacts
    <3>2. CASE i = n
      BY <2>1, <2>2, <3>2
    <3>3. CASE i < n
      <4>1. LineEnd(i) <= typed[n].at
        BY <2>1, <3>3 DEF TypedLayout
      <4> QED BY <2>1, <2>2, <3>1, <4>1
    <3> QED BY <1>1, <3>2, <3>3
  <2> QED BY <1>0, <2>1, <2>2, <2>3
<1> QED BY <1>2, <1>3

\* Numbers have a smallest among them, which is what Min chooses.
LEMMA MinOfSome ==
    ASSUME NEW S, S \subseteq Nat, S # {}
    PROVE  Min(S) \in S /\ \A y \in S : Min(S) <= y
<1> DEFINE R == OpToRel(<, Nat)
<1>1. IsWellFoundedOn(R, Nat)
  BY NatLessThanWellFounded, Zenon
<1>2. \A x, y \in Nat : <<y, x>> \in R <=> y < x
  BY DEF OpToRel
<1> HIDE DEF R
<1>3. PICK m \in S : \A y \in S : ~(<<y, m>> \in R)
  BY <1>1, WFMin
<1>4. ASSUME NEW y \in S PROVE m <= y
  <2>1. m \in Nat /\ y \in Nat
    BY <1>3
  <2>2. ~(y < m)
    BY <1>2, <1>3, <2>1
  <2> QED BY <2>1, <2>2
<1>5. Min(S) = CHOOSE x \in S : \A y \in S : x <= y
  BY DEF Min
<1> QED BY <1>4, <1>5

\* The next line is the one the loop, or the commands, are in.
LEMMA NextLineIs ==
    ASSUME TypedType, TypedLayout, taken < TypedTotal
    PROVE  /\ NextLine \in DOMAIN typed /\ NextLine \in Nat
           /\ typed[NextLine].at <= taken /\ taken < LineEnd(NextLine)
           /\ \A j \in DOMAIN typed : LineEnd(j) <= taken <=> j < NextLine
<1> DEFINE S == {i \in DOMAIN typed : LineEnd(i) > taken}
<1>0. PICK n \in Nat : n = Len(typed)
  BY DEF TypedType
<1>1. /\ typed \in Seq(Lines) /\ DOMAIN typed = 1..n /\ taken \in Nat
  BY <1>0 DEF TypedType
<1>2. \A i \in DOMAIN typed : /\ LineEnd(i) \in Nat /\ typed[i].at \in Nat
                              /\ LineEnd(i) > typed[i].at
  BY <1>1, LineFacts
<1>3. S # {}
  <2>1. typed # <<>>
    BY <1>1 DEF TypedTotal
  <2>2. Len(typed) \in DOMAIN typed /\ TypedTotal = LineEnd(Len(typed))
    BY <1>1, <2>1, LinesInTotal
  <2> QED BY <2>2
<1>4. S \subseteq Nat
  BY <1>1
<1>5. NextLine = Min(S)
  BY DEF NextLine
<1>6. NextLine \in S /\ \A y \in S : NextLine <= y
  <2> HIDE DEF S
  <2> QED BY <1>3, <1>4, <1>5, MinOfSome
<1> DEFINE k == NextLine
<1> HIDE DEF k
<1>7. /\ k \in DOMAIN typed /\ k \in Nat /\ taken < LineEnd(k)
      /\ \A j \in DOMAIN typed : LineEnd(j) > taken => k <= j
  BY <1>1, <1>2, <1>6 DEF k
<1>8. \A j \in DOMAIN typed : LineEnd(j) <= taken <=> j < k
  <2>1. ASSUME NEW j \in DOMAIN typed, j < k PROVE LineEnd(j) <= taken
    BY <1>1, <1>2, <1>7, <2>1
  <2>2. ASSUME NEW j \in DOMAIN typed, k < j PROVE LineEnd(j) > taken
    <3>1. LineEnd(k) <= typed[j].at
      BY <1>7, <2>2 DEF TypedLayout
    <3> QED BY <1>1, <1>2, <1>7, <3>1
  <2> QED BY <1>1, <1>2, <1>7, <2>1, <2>2
<1>9. typed[k].at <= taken
  <2>1. CASE k = 1
    BY <1>1, <1>7, <2>1 DEF TypedLayout
  <2>2. CASE k # 1
    <3>1. k - 1 \in DOMAIN typed /\ k - 1 < k
      BY <1>1, <1>7, <2>2
    <3>2. typed[k].at = LineEnd(k - 1)
      BY <1>7, <2>2 DEF TypedLayout
    <3> QED BY <1>8, <3>1, <3>2
  <2> QED BY <2>1, <2>2
<1> QED BY <1>7, <1>8, <1>9 DEF k

\* stdio has read what is taken, and no more than was typed.
LEMMA FilledEnough ==
    ASSUME TypedType, TypedLayout, taken < TypedTotal,
           NEW end \in Nat, end <= LineEnd(NextLine), filled' \in FilledTo(end)
    PROVE  filled' \in Nat /\ end <= filled' /\ filled' <= TypedTotal
<1>1. /\ NextLine \in DOMAIN typed /\ typed \in Seq(Lines)
      /\ filled \in Nat /\ filled <= TypedTotal
  BY NextLineIs DEF TypedType
<1>2. /\ LineEnd(NextLine) \in Nat /\ LineEnd(NextLine) <= TypedTotal
      /\ TypedTotal \in Nat
  BY <1>1, LineFacts, LinesInTotal
<1>3. CASE end <= filled
  <2>1. filled' = filled
    BY <1>3 DEF FilledTo
  <2> QED BY <1>1, <1>3, <2>1
<1>4. CASE ~(end <= filled)
  <2>1. filled' = LineEnd(NextLine) \/ filled' = TypedTotal
    BY <1>4 DEF FilledTo
  <2> QED BY <1>2, <2>1
<1> QED BY <1>3, <1>4

\* A line's length without whole pieces.
LEMMA TailOfPieces ==
    ASSUME NEW q \in Nat, NEW m \in Nat \ {0}, NEW r \in 0..(m - 1)
    PROVE  (q * m + r) % m = r
<1> DEFINE a == (q * m + r) % m
           d == (q * m + r) \div m
<1>1. q * m + r \in Nat
  OBVIOUS
<1>2. q * m + r = m * d + a /\ d \in Int /\ a \in 0..(m - 1)
  BY <1>1
<1> HIDE DEF a, d
<1>3. m * (q - d) = a - r
  BY <1>2
<1>4. PICK e \in Int : e = q - d
  BY <1>2
<1>5. e > 0 => m * e >= m
  OBVIOUS
<1>6. e < 0 => m * e <= -m
  OBVIOUS
<1>7. e = 0
  BY <1>2, <1>3, <1>4, <1>5, <1>6
<1>8. a = r
  BY <1>2, <1>3, <1>4, <1>7
<1> QED BY <1>8 DEF a

\* Nothing is typed, taken or sent; the loop is not entered from outside.
LEMMA QuietTyping ==
    ASSUME Typing, UNCHANGED <<typed, filled, taken, looped, sent>>, InLoop'
    PROVE  Typing'
<1>1. /\ typed' = typed /\ filled' = filled /\ taken' = taken
      /\ looped' = looped /\ sent' = sent
  OBVIOUS
<1>2. TypedType' /\ TypedLayout' /\ Pieces' /\ LinesSentInOrder'
  BY <1>1 DEF Typing, TypedType, TypedLayout, Pieces, LinesSentInOrder,
              Sendable, TailLength, LineEnd, TypedTotal
<1> QED BY <1>2 DEF Typing

\* A new line starts where the last one ended, after all that was taken.
LEMMA TypeStep ==
    ASSUME Typing, Type
    PROVE  Typing'
<1>1. PICK len \in LineLengths : typed' = Append(typed, Message(TypedTotal, len))
  BY DEF Type
<1>2. UNCHANGED <<filled, taken, looped, sent, pc, running>>
  BY DEF Type, stdioVars, sendVars
<1>3. PICK n \in Nat : n = Len(typed)
  BY DEF Typing, TypedType
<1>4. /\ typed \in Seq(Lines) /\ DOMAIN typed = 1..n
      /\ filled \in Nat /\ taken \in Nat /\ looped \in Nat
      /\ looped <= taken /\ taken <= filled /\ filled <= TypedTotal
      /\ TypedLayout
  BY <1>3 DEF Typing, TypedType
<1>5. /\ TypedTotal \in Nat /\ \A i \in DOMAIN typed : LineEnd(i) <= TypedTotal
      /\ typed # <<>> => TypedTotal = LineEnd(n)
  BY <1>3, <1>4, LinesInTotal
<1>6. Message(TypedTotal, len) \in Lines /\ len \in Nat
  BY <1>5, SizeAssumption DEF Message, Lines
<1>7. /\ typed' \in Seq(Lines)
      /\ Len(typed') = n + 1 /\ DOMAIN typed' = 1..(n + 1)
      /\ \A i \in DOMAIN typed : typed'[i] = typed[i]
      /\ typed'[n + 1] = Message(TypedTotal, len)
  BY <1>1, <1>3, <1>4, <1>6
<1>8. typed'[n + 1].at = TypedTotal /\ typed'[n + 1].len = len
  BY <1>7 DEF Message
<1>9. \A i \in DOMAIN typed : LineEnd(i)' = LineEnd(i)
  BY <1>7 DEF LineEnd
<1>10. LineEnd(n + 1)' = TypedTotal + len + 1
  BY <1>8 DEF LineEnd
<1>11. TypedTotal' = TypedTotal + len + 1
  <2>1. typed' # <<>>
    BY <1>7
  <2> QED BY <1>7, <1>10, <2>1 DEF TypedTotal
<1>12. TypedType'
  <2>1. filled <= TypedTotal'
    BY <1>4, <1>5, <1>6, <1>11
  <2> QED BY <1>2, <1>7, <2>1 DEF Typing, TypedType
<1>13. TypedLayout'
  <2>1. ASSUME NEW i \in DOMAIN typed'
        PROVE  typed'[i].at = IF i = 1 THEN 0 ELSE LineEnd(i - 1)'
    <3>1. CASE i \in DOMAIN typed
      <4>1. typed[i].at = IF i = 1 THEN 0 ELSE LineEnd(i - 1)
        BY <1>4, <3>1 DEF TypedLayout
      <4>2. i # 1 => LineEnd(i - 1)' = LineEnd(i - 1)
        BY <1>4, <1>9, <3>1
      <4> QED BY <1>7, <3>1, <4>1, <4>2
    <3>2. CASE i = n + 1
      <4>1. CASE n = 0
        <5>1. typed = <<>>
          BY <1>3, <1>4, <4>1
        <5> QED BY <1>8, <3>2, <4>1, <5>1 DEF TypedTotal
      <4>2. CASE n # 0
        <5>1. typed # <<>> /\ n \in DOMAIN typed
          BY <1>3, <1>4, <4>2
        <5>2. TypedTotal = LineEnd(n)'
          BY <1>5, <1>9, <5>1
        <5>3. n + 1 # 1 /\ (n + 1) - 1 = n
          BY <4>2
        <5> QED BY <1>8, <3>2, <5>2, <5>3
      <4> QED BY <4>1, <4>2
    <3> QED BY <1>4, <1>7, <3>1, <3>2
  <2>2. ASSUME NEW i \in DOMAIN typed', NEW j \in DOMAIN typed', i < j
        PROVE  LineEnd(i)' <= typed'[j].at
    <3>1. i \in DOMAIN typed
      BY <1>4, <1>7, <2>2
    <3>2. CASE j \in DOMAIN typed
      <4>1. LineEnd(i) <= typed[j].at
        BY <1>4, <2>2, <3>1, <3>2 DEF TypedLayout
      <4> QED BY <1>7, <1>9, <3>1, <3>2, <4>1
    <3>3. CASE j = n + 1
      BY <1>5, <1>8, <1>9, <3>1, <3>3
    <3> QED BY <1>4, <1>7, <3>2, <3>3
  <2> QED BY <2>1, <2>2 DEF TypedLayout
<1>14. Pieces'
  <2>1. ASSUME NEW i \in DOMAIN typed', typed'[i].at <= looped, looped < LineEnd(i)'
        PROVE  \E q \in Nat : looped = typed'[i].at + q * Cells
    <3>1. CASE i \in DOMAIN typed
      <4>1. typed[i].at <= looped /\ looped < LineEnd(i)
        BY <1>7, <1>9, <2>1, <3>1
      <4> QED BY <1>7, <3>1, <4>1 DEF Typing, Pieces
    <3>2. CASE i = n + 1
      <4>1. looped = TypedTotal
        BY <1>4, <1>5, <1>8, <2>1, <3>2
      <4>2. Cells \in Nat
        BY SizeAssumption DEF Cells
      <4>3. looped = typed'[i].at + 0 * Cells
        BY <1>5, <1>8, <3>2, <4>1, <4>2
      <4> QED BY <4>3
    <3> QED BY <1>4, <1>7, <3>1, <3>2
  <2> QED BY <1>2, <2>1 DEF Pieces
<1>15. LinesSentInOrder'
  <2>1. \A i \in DOMAIN typed : TailLength(i)' = TailLength(i)
    BY <1>7 DEF TailLength
  <2>2. ~(LineEnd(n + 1)' <= looped)
    BY <1>4, <1>5, <1>6, <1>10
  <2>3. Sendable' = Sendable
    <3>1. \A i \in DOMAIN typed' : i \in DOMAIN typed \/ i = n + 1
      BY <1>4, <1>7
    <3>2. DOMAIN typed \subseteq DOMAIN typed'
      BY <1>4, <1>7
    <3> QED BY <1>2, <1>9, <2>1, <2>2, <3>1, <3>2 DEF Sendable
  <2>4. ASSUME NEW k \in DOMAIN sent
        PROVE  /\ sent[k].line \in Sendable
               /\ sent[k].len = TailLength(sent[k].line)'
               /\ k > 1 => sent[k - 1].line < sent[k].line
    <3>1. /\ sent[k].line \in Sendable
          /\ sent[k].len = TailLength(sent[k].line)
          /\ k > 1 => sent[k - 1].line < sent[k].line
      BY DEF Typing, LinesSentInOrder
    <3>2. sent[k].line \in DOMAIN typed
      BY <3>1 DEF Sendable
    <3>3. PICK l : l = sent[k].line
      OBVIOUS
    <3>4. TailLength(l)' = TailLength(l) /\ sent' = sent
      BY <1>2, <2>1, <3>2, <3>3
    <3> QED BY <3>1, <3>3, <3>4
  <2>5. Len(sent) = Cardinality(Sendable)
    BY DEF Typing, LinesSentInOrder
  <2> QED BY <1>2, <2>3, <2>4, <2>5 DEF LinesSentInOrder
<1>16. InLoop'
  BY <1>2 DEF Typing, InLoop
<1> QED BY <1>12, <1>13, <1>14, <1>15, <1>16 DEF Typing

\* A command takes its line, and the loop is over.
LEMMA CommandStep ==
    ASSUME Typing, Command
    PROVE  Typing'
<1>1. /\ taken < TypedTotal /\ taken' = LineEnd(NextLine)
      /\ filled' \in FilledTo(taken') /\ pc' \in {"commands", "exited"}
      /\ UNCHANGED <<typed, looped, sent, running>>
  BY DEF Command, terminalVars, sendVars
<1>2. /\ TypedType /\ TypedLayout /\ looped \in Nat /\ taken \in Nat
      /\ looped <= taken
  BY DEF Typing, TypedType
<1>3. /\ NextLine \in DOMAIN typed /\ taken < LineEnd(NextLine)
  BY <1>1, <1>2, NextLineIs
<1>4. LineEnd(NextLine) \in Nat
  BY <1>2, <1>3, LineFacts DEF TypedType
<1>5. filled' \in Nat /\ taken' <= filled' /\ filled' <= TypedTotal
  <2>1. taken' \in Nat /\ taken' <= LineEnd(NextLine)
    BY <1>1, <1>4
  <2> QED BY <1>1, <1>2, <2>1, FilledEnough
<1>6. TypedType'
  <2>1. TypedTotal' = TypedTotal
    BY <1>1 DEF TypedTotal, LineEnd
  <2> QED BY <1>1, <1>2, <1>3, <1>4, <1>5, <2>1 DEF TypedType
<1>7. TypedLayout' /\ Pieces' /\ LinesSentInOrder'
  BY <1>1 DEF Typing, TypedLayout, Pieces, LinesSentInOrder, Sendable,
              TailLength, LineEnd
<1>8. InLoop'
  BY <1>1 DEF InLoop
<1> QED BY <1>6, <1>7, <1>8 DEF Typing

\* fgets takes the rest of its line, whose length without whole pieces it is,
\* or one more piece, which is too long to be sent.
LEMMA FgetsTakes ==
    ASSUME Typing, ReadStdin
    PROVE  \E end, len \in Nat :
              /\ taken' = end /\ looped' = end
              /\ taken < end /\ end <= LineEnd(NextLine)
              /\ filled' \in FilledTo(end)
              /\ SendMessage(NextLine, len)
              /\ \/ end = LineEnd(NextLine) /\ len = TailLength(NextLine)
                 \/ /\ end < LineEnd(NextLine) /\ end = taken + Cells
                    /\ len > MaxData
<1> DEFINE k == NextLine
           e == LineEnd(NextLine)
           room == taken + LineRoom
           end == Min({room, e})
           len == IF end = e THEN end - taken - 1 ELSE end - taken
<1>1. /\ pc = "stdin" /\ taken < TypedTotal
      /\ filled' \in FilledTo(end) /\ taken' = end /\ looped' = end
      /\ SendMessage(k, len)
  BY DEF ReadStdin
<1>2. TypedType /\ TypedLayout /\ taken = looped /\ taken \in Nat
  BY <1>1 DEF Typing, TypedType, InLoop
<1>3. k \in DOMAIN typed /\ typed[k].at <= taken /\ taken < e
  BY <1>1, <1>2, NextLineIs
<1>4. /\ typed[k].at \in Nat /\ typed[k].len \in Nat /\ e \in Nat
      /\ e = typed[k].at + typed[k].len + 1
  BY <1>2, <1>3, LineFacts DEF TypedType
<1>5. PICK q \in Nat : taken = typed[k].at + q * Cells
  BY <1>2, <1>3 DEF Typing, Pieces
<1>6. /\ LineRoom = Cells /\ Cells = MaxData + 2 /\ MaxData \in Nat
      /\ room = taken + Cells /\ Cells \in Nat \ {0} /\ room \in Nat
  BY <1>2, SizeAssumption DEF LineRoom, Cells
<1> HIDE DEF room, e
<1>7. end = IF room <= e THEN room ELSE e
  <2>1. {room, e} \subseteq Nat /\ {room, e} # {}
    BY <1>4, <1>6
  <2>2. /\ Min({room, e}) \in {room, e}
        /\ \A y \in {room, e} : Min({room, e}) <= y
    BY <2>1, MinOfSome
  <2> HIDE DEF end
  <2>3. (end = room \/ end = e) /\ end <= room /\ end <= e
    BY <2>2 DEF end
  <2> QED BY <1>4, <1>6, <2>3
<1> HIDE DEF end, k
<1>8. CASE e <= room
  <2>1. end = e /\ len = e - taken - 1
    BY <1>4, <1>6, <1>7, <1>8
  <2> DEFINE r == e - taken - 1
  <2>2. r \in 0..(Cells - 1)
    BY <1>2, <1>3, <1>4, <1>6, <1>8
  <2>3. typed[k].len = q * Cells + r
    <3>1. q * Cells \in Nat
      BY <1>6
    <3> QED BY <1>4, <1>5, <3>1
  <2> HIDE DEF r
  <2>4. typed[k].len % Cells = r
    BY <1>6, <2>2, <2>3, TailOfPieces
  <2>5. len = TailLength(k) /\ len \in Nat
    <3>1. TailLength(k) = typed[k].len % Cells
      BY <1>6 DEF TailLength
    <3>2. len = r /\ r \in Nat
      BY <1>6, <2>1, <2>2 DEF r
    <3> QED BY <2>4, <3>1, <3>2
  <2>6. end \in Nat /\ taken < end /\ end <= e
    BY <1>3, <1>4, <2>1
  <2> HIDE DEF len
  <2> QED BY <1>1, <2>1, <2>5, <2>6 DEF k, e
<1>9. CASE ~(e <= room)
  <2>1. end = room /\ end # e /\ end < e /\ taken < end /\ end \in Nat
    BY <1>2, <1>4, <1>6, <1>7, <1>9
  <2>2. len = Cells /\ len > MaxData /\ len \in Nat
    BY <1>2, <1>6, <2>1
  <2>3. end = taken + Cells /\ end <= e
    BY <1>4, <1>6, <2>1
  <2> HIDE DEF len
  <2> QED BY <1>1, <2>1, <2>2, <2>3 DEF k, e
<1> QED BY <1>8, <1>9

\* What fgets returned is sent if it is no more than a message may be.
LEMMA ReadStdinStep ==
    ASSUME Typing, ReadStdin
    PROVE  Typing'
<1>1. PICK end \in Nat, len \in Nat :
         /\ taken' = end /\ looped' = end
         /\ taken < end /\ end <= LineEnd(NextLine)
         /\ filled' \in FilledTo(end)
         /\ SendMessage(NextLine, len)
         /\ \/ end = LineEnd(NextLine) /\ len = TailLength(NextLine)
            \/ end < LineEnd(NextLine) /\ end = taken + Cells /\ len > MaxData
  BY FgetsTakes
<1>2. /\ pc = "stdin" /\ taken < TypedTotal
      /\ UNCHANGED <<typed, running>>
  BY DEF ReadStdin, terminalVars
<1>3. /\ TypedType /\ TypedLayout /\ taken = looped /\ running
      /\ taken \in Nat /\ typed \in Seq(Lines) /\ sent \in Seq(Sends)
      /\ typed' = typed
  BY <1>2 DEF Typing, TypedType, InLoop
<1>4. /\ NextLine \in DOMAIN typed /\ NextLine \in Nat
      /\ typed[NextLine].at <= taken /\ taken < LineEnd(NextLine)
      /\ \A j \in DOMAIN typed : LineEnd(j) <= taken <=> j < NextLine
  BY <1>2, <1>3, NextLineIs
<1> DEFINE k == NextLine
<1>5. PICK n \in Nat : n = Len(typed) /\ DOMAIN typed = 1..n
  BY <1>3
<1>6. \A i \in DOMAIN typed : /\ LineEnd(i) \in Nat /\ typed[i].at \in Nat
                              /\ LineEnd(i) > typed[i].at
  BY <1>3, LineFacts
<1> HIDE DEF k
<1>7. /\ k \in DOMAIN typed /\ k \in Nat /\ typed[k].at <= taken
      /\ taken < LineEnd(k)
      /\ \A j \in DOMAIN typed : LineEnd(j) <= taken <=> j < k
      /\ end <= LineEnd(k) /\ SendMessage(k, len)
      /\ \/ end = LineEnd(k) /\ len = TailLength(k)
         \/ end < LineEnd(k) /\ end = taken + Cells /\ len > MaxData
  BY <1>1, <1>4 DEF k
<1>8. \A i, j \in DOMAIN typed : i < j => LineEnd(i) <= typed[j].at
  BY <1>3 DEF TypedLayout
<1>9. /\ \A j \in DOMAIN typed : j < k => LineEnd(j) <= taken
      /\ \A j \in DOMAIN typed : k < j => LineEnd(k) <= typed[j].at
      /\ \A j \in DOMAIN typed : j < k \/ j = k \/ k < j
  BY <1>5, <1>7, <1>8
<1>10. /\ pc' \in {"select", "killed"}
       /\ \/ len > MaxData /\ sent' = sent
          \/ len \in 0..MaxData /\ sent' = Append(sent, [line |-> k, len |-> len])
  <2>1. CASE len > MaxData
    BY <1>7, <2>1 DEF SendMessage, sendVars
  <2>2. CASE ~(len > MaxData)
    <3>1. len \in 0..MaxData
      BY <2>2, SizeAssumption
    <3>2. /\ sent' = Append(sent, [line |-> k, len |-> len])
          /\ pc' \in {"select", "killed"}
      BY <1>3, <1>7, <2>2 DEF SendMessage
    <3> QED BY <3>1, <3>2
  <2> QED BY <2>1, <2>2
<1>11. sent' \in Seq(Sends)
  <2>1. len \in 0..MaxData => [line |-> k, len |-> len] \in Sends
    BY <1>7 DEF Sends
  <2> QED BY <1>3, <1>10, <2>1, AppendProperties
<1>12. TypedType'
  <2>1. filled' \in Nat /\ end <= filled' /\ filled' <= TypedTotal
    BY <1>1, <1>2, <1>3, FilledEnough
  <2>2. TypedTotal' = TypedTotal
    BY <1>3 DEF TypedTotal, LineEnd
  <2> QED BY <1>1, <1>3, <1>11, <2>1, <2>2 DEF TypedType
<1>13. TypedLayout'
  BY <1>3 DEF TypedLayout, LineEnd
<1>14. InLoop'
  BY <1>1, <1>2, <1>3, <1>10 DEF InLoop
<1>15. \A i \in DOMAIN typed : LineEnd(i)' = LineEnd(i)
  BY <1>3 DEF LineEnd
<1>16. Pieces'
  <2>1. Cells \in Nat
    BY SizeAssumption DEF Cells
  <2>2. ASSUME NEW i \in DOMAIN typed, typed[i].at <= end, end < LineEnd(i)
        PROVE  \E q \in Nat : end = typed[i].at + q * Cells
    <3>1. CASE i < k
      <4>1. LineEnd(i) <= taken
        BY <1>9, <3>1
      <4> QED BY <1>1, <1>3, <1>6, <2>2, <4>1
    <3>2. CASE i = k
      <4>1. end = taken + Cells
        BY <1>6, <1>7, <2>2, <3>2
      <4>2. PICK q \in Nat : looped = typed[k].at + q * Cells
        BY <1>3, <1>7 DEF Typing, Pieces
      <4>3. typed[k].at \in Nat
        BY <1>6, <1>7
      <4>4. end = typed[k].at + (q + 1) * Cells
        BY <1>3, <2>1, <4>1, <4>2, <4>3
      <4> QED BY <3>2, <4>4
    <3>3. CASE k < i
      <4>1. LineEnd(k) <= typed[i].at
        BY <1>9, <3>3
      <4>2. end = typed[i].at + 0 * Cells
        BY <1>6, <1>7, <2>1, <2>2, <4>1
      <4> QED BY <4>2
    <3> QED BY <1>9, <3>1, <3>2, <3>3
  <2>3. ASSUME NEW i \in DOMAIN typed', typed'[i].at <= looped', looped' < LineEnd(i)'
        PROVE  \E q \in Nat : looped' = typed'[i].at + q * Cells
    BY <1>1, <1>3, <1>15, <2>2, <2>3
  <2> QED BY <2>3 DEF Pieces
<1>17. LinesSentInOrder'
  <2>1. \A i \in DOMAIN typed : TailLength(i)' = TailLength(i)
    BY <1>3 DEF TailLength
  <2>2. \A i : i \in Sendable <=>
                  i \in DOMAIN typed /\ i < k /\ TailLength(i) <= MaxData
    BY <1>3, <1>7 DEF Sendable
  <2>3. \A i : i \in Sendable' <=>
                  i \in DOMAIN typed /\ LineEnd(i) <= end /\ TailLength(i) <= MaxData
    BY <1>1, <1>3, <1>15, <2>1 DEF Sendable
  <2>4. \A i \in DOMAIN typed : i < k => LineEnd(i) <= end
    BY <1>1, <1>3, <1>6, <1>9
  <2>5. \A i \in DOMAIN typed : k < i => ~(LineEnd(i) <= end)
    <3> SUFFICES ASSUME NEW i \in DOMAIN typed, k < i PROVE ~(LineEnd(i) <= end)
      OBVIOUS
    <3>1. LineEnd(k) <= typed[i].at
      BY <1>9
    <3> QED BY <1>6, <1>7, <3>1
  <2>6. /\ Len(sent) = Cardinality(Sendable)
        /\ \A j \in DOMAIN sent :
              /\ sent[j].line \in Sendable
              /\ sent[j].len = TailLength(sent[j].line)
              /\ j > 1 => sent[j - 1].line < sent[j].line
    BY DEF Typing, LinesSentInOrder
  <2>7. ASSUME Len(sent') = Cardinality(Sendable'),
                NEW tl, tl = [i \in DOMAIN typed |-> typed[i].len % (MaxData + 2)],
                \A j \in DOMAIN sent' :
                    /\ sent'[j].line \in Sendable'
                    /\ sent'[j].len = tl[sent'[j].line]
                    /\ j > 1 => sent'[j - 1].line < sent'[j].line
         PROVE  LinesSentInOrder'
    <3>1. \A i \in Sendable' : i \in DOMAIN typed
      BY <2>3
    <3>2. \A i \in DOMAIN typed : tl[i] = (typed[i].len % (MaxData + 2))
      BY <2>7
    <3>3. ASSUME NEW j \in DOMAIN sent'
          PROVE  sent'[j].len = (typed'[sent'[j].line].len % (MaxData + 2))
      <4>1. sent'[j].line \in DOMAIN typed /\ sent'[j].len = tl[sent'[j].line]
        BY <2>7, <3>1
      <4>2. tl[sent'[j].line] = (typed[sent'[j].line].len % (MaxData + 2))
        BY <3>2, <4>1
      <4> QED BY <1>3, <4>1, <4>2
    <3> QED BY <2>7, <3>3 DEF LinesSentInOrder, TailLength
  <2>8. PICK tl : tl = [i \in DOMAIN typed |-> typed[i].len % (MaxData + 2)]
    OBVIOUS
  <2>9. \A i \in DOMAIN typed : tl[i] = TailLength(i)
    BY <2>8 DEF TailLength
  <2>10. \A j \in DOMAIN sent : sent[j].line \in DOMAIN typed /\ sent[j].len = tl[sent[j].line]
    BY <2>2, <2>6, <2>9
  <2>11. CASE len > MaxData /\ sent' = sent
    <3>1. ~(LineEnd(k) <= end /\ TailLength(k) <= MaxData)
      BY <1>6, <1>7, <2>11, SizeAssumption
    <3>2. Sendable' = Sendable
      BY <1>9, <2>2, <2>3, <2>4, <2>5, <3>1
    <3>3. Len(sent') = Cardinality(Sendable')
      BY <2>6, <2>11, <3>2
    <3>4. \A j \in DOMAIN sent' :
             /\ sent'[j].line \in Sendable'
             /\ sent'[j].len = tl[sent'[j].line]
             /\ j > 1 => sent'[j - 1].line < sent'[j].line
      BY <2>6, <2>10, <2>11, <3>2
    <3> QED BY <2>7, <2>8, <3>3, <3>4
  <2>12. CASE len \in 0..MaxData /\ sent' = Append(sent, [line |-> k, len |-> len])
    <3>1. end = LineEnd(k) /\ len = TailLength(k) /\ TailLength(k) <= MaxData
      BY <1>7, <2>12, SizeAssumption
    <3>2. Sendable' = Sendable \cup {k} /\ k \notin Sendable
      <4>1. k \in Sendable' /\ k \notin Sendable
        BY <1>6, <1>7, <2>2, <2>3, <3>1
      <4>2. \A i : i \in Sendable' <=> i \in Sendable \/ i = k
        BY <1>9, <2>2, <2>3, <2>4, <2>5, <4>1
      <4> QED BY <4>1, <4>2
    <3>3. IsFiniteSet(Sendable) /\ Cardinality(Sendable) \in Nat
      <4>1. IsFiniteSet(1..n)
        <5>1. 1 \in Int /\ n \in Int
          OBVIOUS
        <5> QED BY <5>1, FS_Interval, Zenon
      <4>2. Sendable \in SUBSET (1..n)
        BY <1>5, <2>2
      <4>3. IsFiniteSet(Sendable)
        BY <4>1, <4>2, FS_Subset, Zenon
      <4> QED BY <4>3, FS_CardinalityType, Zenon
    <3>4. Cardinality(Sendable') = Cardinality(Sendable) + 1
      BY <3>2, <3>3, FS_AddElement, Zenon
    <3>5. PICK m \in Nat : m = Len(sent) /\ DOMAIN sent = 1..m
      BY <1>3
    <3>6. /\ Len(sent') = m + 1 /\ DOMAIN sent' = 1..(m + 1)
          /\ \A j \in 1..m : sent'[j] = sent[j]
          /\ sent'[m + 1].line = k /\ sent'[m + 1].len = len
      <4> DEFINE r == [line |-> k, len |-> len]
      <4>1. r.line = k /\ r.len = len /\ r \in Sends
        BY <1>7, <2>12 DEF Sends
      <4> HIDE DEF r
      <4>2. sent' = Append(sent, r)
        BY <2>12 DEF r
      <4>3. /\ Len(sent') = m + 1 /\ sent'[m + 1] = r
            /\ \A j \in 1..m : sent'[j] = sent[j]
        BY <1>3, <3>5, <4>1, <4>2, AppendProperties
      <4>4. DOMAIN sent' = 1..(m + 1)
        BY <1>11, <4>3, LenProperties
      <4> QED BY <4>1, <4>3, <4>4
    <3>7. Len(sent') = Cardinality(Sendable')
      BY <2>6, <3>3, <3>4, <3>5, <3>6
    <3>8. k \in DOMAIN typed /\ tl[k] = len
      BY <1>6, <1>7, <2>9, <3>1
    <3>9. \A i \in 1..m : sent[i].line < k /\ i \in DOMAIN sent
      BY <2>2, <2>6, <3>5
    <3>10. ASSUME NEW j \in 1..m
           PROVE  /\ sent'[j].line \in Sendable'
                  /\ sent'[j].len = tl[sent'[j].line]
                  /\ j > 1 => sent'[j - 1].line < sent'[j].line
      <4>1. sent'[j] = sent[j] /\ (j > 1 => sent'[j - 1] = sent[j - 1])
        BY <3>5, <3>6
      <4>2. /\ sent[j].line \in Sendable
            /\ sent[j].len = tl[sent[j].line]
            /\ j > 1 => sent[j - 1].line < sent[j].line
        BY <2>6, <2>10, <3>9
      <4> QED BY <3>2, <4>1, <4>2
    <3>11. /\ sent'[m + 1].line \in Sendable'
           /\ sent'[m + 1].len = tl[sent'[m + 1].line]
           /\ m + 1 > 1 => sent'[m].line < sent'[m + 1].line
      <4>1. k \in Sendable'
        BY <3>2
      <4>2. m + 1 > 1 => m \in 1..m
        BY <3>5
      <4>3. m + 1 > 1 => sent'[m].line < k
        BY <3>6, <3>9, <4>2
      <4> QED BY <3>6, <3>8, <4>1, <4>3
    <3>12. \A j \in DOMAIN sent' :
             /\ sent'[j].line \in Sendable'
             /\ sent'[j].len = tl[sent'[j].line]
             /\ j > 1 => sent'[j - 1].line < sent'[j].line
      <4> SUFFICES ASSUME NEW j \in DOMAIN sent'
                   PROVE  /\ sent'[j].line \in Sendable'
                          /\ sent'[j].len = tl[sent'[j].line]
                          /\ j > 1 => sent'[j - 1].line < sent'[j].line
        OBVIOUS
      <4>1. CASE j \in 1..m
        BY <3>10, <4>1
      <4>2. CASE j = m + 1
        <5>1. (m + 1) - 1 = m
          BY <3>5
        <5> QED BY <3>11, <4>2, <5>1
      <4> QED BY <3>5, <3>6, <4>1, <4>2
    <3> QED BY <2>7, <2>8, <3>7, <3>12
  <2> QED BY <1>10, <2>11, <2>12
<1> QED BY <1>12, <1>13, <1>14, <1>16, <1>17 DEF Typing

\* Every step keeps the invariant of the lines.
LEMMA TypingStep == Typing /\ [Next]_vars => Typing'
<1> SUFFICES ASSUME Typing, [Next]_vars PROVE Typing'
  OBVIOUS
<1>1. CASE UNCHANGED vars \/ Serve \/ Deliver \/ Fin \/ Reset \/ EndInput
  <2>1. UNCHANGED <<typed, filled, taken, looped, sent, pc, running>>
    BY <1>1 DEF vars, Serve, Deliver, Fin, Reset, EndInput, terminalVars,
                stdioVars, sendVars
  <2>2. InLoop'
    BY <2>1 DEF Typing, InLoop
  <2> QED BY <2>1, <2>2, QuietTyping
<1>2. CASE Connect
  <2>1. /\ UNCHANGED <<typed, filled, taken, looped, sent>>
        /\ pc = "start" /\ running' = TRUE
    BY <1>2 DEF Connect, terminalVars, stdioVars, sendVars
  <2>2. InLoop'
    BY <2>1 DEF Typing, InLoop
  <2> QED BY <2>1, <2>2, QuietTyping
<1>3. CASE \/ Select \/ PeekPartial \/ PeekOversized \/ PeekHeader
           \/ RecvPart \/ RecvMessage \/ NoStdin
  <2>1. /\ UNCHANGED <<typed, filled, taken, looped, sent, running>>
        /\ pc \in {"select", "peek", "recv", "stdin"}
    BY <1>3 DEF Select, PeekPartial, PeekOversized, PeekHeader, RecvPart,
                RecvMessage, NoStdin, terminalVars, stdioVars, sendVars
  <2>2. InLoop'
    BY <2>1 DEF Typing, InLoop
  <2> QED BY <2>1, <2>2, QuietTyping
<1>4. CASE ConnectFails \/ PeekEnds \/ EndOfCommands
  <2>1. /\ UNCHANGED <<typed, filled, taken, looped, sent>>
        /\ pc' \in {"commands", "exited"}
    BY <1>4 DEF ConnectFails, PeekEnds, EndOfCommands, terminalVars, stdioVars,
                sendVars
  <2>2. InLoop'
    BY <2>1 DEF InLoop
  <2> QED BY <2>1, <2>2, QuietTyping
<1>5. CASE ReadStdin \/ Command \/ Type
  BY <1>5, ReadStdinStep, CommandStep, TypeStep
<1> QED BY <1>1, <1>2, <1>3, <1>4, <1>5 DEF Next, Client

\* Nothing is typed, and nothing sent, at first.
LEMMA TypingInit == Init => Typing
<1> SUFFICES ASSUME Init PROVE Typing
  OBVIOUS
<1>1. /\ typed = <<>> /\ sent = <<>> /\ pc = "start"
      /\ filled = 0 /\ taken = 0 /\ looped = 0
  BY DEF Init
<1>2. DOMAIN typed = {} /\ DOMAIN sent = {} /\ Len(sent) = 0 /\ TypedTotal = 0
  BY <1>1 DEF TypedTotal
<1>3. TypedType /\ TypedLayout /\ InLoop /\ Pieces
  BY <1>1, <1>2 DEF TypedType, TypedLayout, InLoop, Pieces
<1>4. Sendable = {}
  BY <1>2 DEF Sendable
<1>5. Cardinality(Sendable) = 0
  BY <1>4, FS_EmptySet
<1>6. LinesSentInOrder
  BY <1>2, <1>5 DEF LinesSentInOrder
<1> QED BY <1>3, <1>6 DEF Typing

-----------------------------------------------------------------------------
(* The values of the other variables. *)

Flags ==
    /\ conn \in {"open", "fin", "rst"}
    /\ pc \in {"start", "select", "peek", "recv", "stdin", "commands",
               "exited", "killed"}
    /\ resetError \in BOOLEAN /\ eof \in BOOLEAN /\ running \in BOOLEAN
    /\ stdinReady \in BOOLEAN /\ torn \in BOOLEAN
    /\ want \in 0..(HeaderSize + MaxData)

\* A length the client accepts is one its buffer holds, wherever it is read.
LEMMA WantFits ==
    ASSUME StreamType, PeekHeader
    PROVE  want' \in 0..(HeaderSize + MaxData)
<1>1. PICK len \in Lengths(consumed) : ~Oversized(len) /\ want' = Whole(len)
  BY DEF PeekHeader
<1>2. len \in Nat
  <2>1. \A i \in DOMAIN served : served[i].len \in Nat
    BY EndAfterStart
  <2>2. \A l \in 0..(MaxData + 1) : l \in Nat
    BY SizeAssumption
  <2> QED BY <1>1, <2>1, <2>2 DEF Lengths
<1>3. len <= MaxData
  BY <1>1, <1>2, SizeAssumption DEF Oversized
<1> QED BY <1>1, <1>2, <1>3, SizeAssumption DEF Whole

\* The other variables keep their values' sets; want by WantFits.
LEMMA FlagsStep == Stream /\ Flags /\ [Next]_vars => Flags'
<1> SUFFICES ASSUME Stream, Flags, [Next]_vars PROVE Flags'
  OBVIOUS
<1>1. CASE UNCHANGED vars \/ Serve \/ Deliver \/ Type \/ EndInput \/ Fin
  BY <1>1 DEF Flags, vars, Serve, Deliver, Type, EndInput, Fin, serverVars,
              terminalVars, recvVars, sendVars
<1>2. CASE Reset
  <2>1. /\ UNCHANGED <<eof, pc, running, stdinReady, torn, want>>
        /\ conn' = "rst" /\ resetError' \in BOOLEAN
    BY <1>2 DEF Reset, terminalVars, recvVars
  <2> QED BY <2>1 DEF Flags
<1>3. CASE Connect \/ ConnectFails \/ PeekEnds \/ PeekPartial \/ PeekOversized
           \/ RecvPart \/ RecvMessage \/ NoStdin \/ Command \/ EndOfCommands
  <2>1. /\ UNCHANGED <<conn, resetError, eof, stdinReady, want>>
        /\ running' \in {running, TRUE, FALSE} /\ torn' \in {torn, TRUE}
        /\ pc' \in {"select", "stdin", "commands", "exited"}
    BY <1>3 DEF Connect, ConnectFails, PeekEnds, PeekPartial, Retry, PeekOversized,
                RecvPart, RecvMessage, NoStdin, Command, EndOfCommands,
                serverVars, terminalVars, recvVars, sendVars
  <2> QED BY <2>1 DEF Flags
<1>4. CASE Select
  <2>1. /\ UNCHANGED <<conn, resetError, eof, running, torn, want>>
        /\ pc' \in {"peek", "stdin"}
    BY <1>4 DEF Select, serverVars, terminalVars, recvVars, sendVars
  <2>2. stdinReady' \in BOOLEAN
    BY <1>4 DEF Select, StdinReadable, Flags
  <2> QED BY <2>1, <2>2 DEF Flags
<1>5. CASE PeekHeader
  <2>1. /\ UNCHANGED <<conn, resetError, eof, running, stdinReady, torn>>
        /\ pc' = "recv"
    BY <1>5 DEF PeekHeader, serverVars, terminalVars, sendVars
  <2>2. want' \in 0..(HeaderSize + MaxData)
    BY <1>5, WantFits DEF Stream
  <2> QED BY <2>1, <2>2 DEF Flags
<1>6. CASE ReadStdin
  <2>1. UNCHANGED <<conn, eof, running, stdinReady, torn, want>>
    BY <1>6 DEF ReadStdin, serverVars, terminalVars, recvVars
  <2>2. pc' \in {"select", "killed"} /\ resetError' \in {resetError, FALSE}
    BY <1>6 DEF ReadStdin, SendMessage, sendVars
  <2> QED BY <2>1, <2>2 DEF Flags
<1> QED BY <1>1, <1>2, <1>3, <1>4, <1>5, <1>6 DEF Next, Client

\* At first nothing was served, shown or sent.
LEMMA InitInv == Init => Stream /\ LateSends
  BY DEF Init, Stream, StreamType, Layout, Peeked, ShownInOrder, MessageEnd, Total, LateSends

-----------------------------------------------------------------------------
\* Of a stream that was never torn, what is shown is the server's messages, in
\* order, each once, however the connection splits them.
THEOREM MessagesInOrder == Spec => []ShownInOrder
<1>1. Init => Stream
  BY InitInv
<1>2. Stream => ShownInOrder
  BY DEF Stream
<1> QED BY <1>1, <1>2, StreamStep, PTL DEF Spec

\* After the server's close the client sends once more than it shows messages,
\* at most.
THEOREM LateSendsBounded == Spec => []FewLateSends
<1>1. Init => LateSends
  BY InitInv
<1>2. LateSends => FewLateSends
  BY DEF LateSends, FewLateSends
<1> QED BY <1>1, <1>2, LateSendsStep, PTL DEF Spec


\* Of every line that the loop has taken to its end, what the last call of
\* fgets returned of it was sent, once and in the order typed, unless it was
\* too long for a message; nothing else was sent.
THEOREM LinesGoOut == Spec => []LinesSentInOrder
<1>1. Typing => LinesSentInOrder
  BY DEF Typing
<1> QED BY <1>1, TypingInit, TypingStep, PTL DEF Spec

\* Every variable has the values TypeOK lists: what the client reads it has
\* received, what it takes was typed, and it never asks recv for more than its
\* buffer holds.
THEOREM TypesHold == Spec => []TypeOK
<1> DEFINE All == Stream /\ LateSends /\ Typing /\ Flags
<1>1. Init => All
  <2>1. 0 \in 0..(HeaderSize + MaxData)
    BY SizeAssumption
  <2>2. Init => Flags
    BY <2>1, Zenon DEF Init, Flags
  <2> QED BY <2>2, InitInv, TypingInit
<1>2. All /\ [Next]_vars => All'
  BY StreamStep, LateSendsStep, TypingStep, FlagsStep
<1>3. All => TypeOK
  <2> SUFFICES ASSUME All PROVE TypeOK
    OBVIOUS
  <2>1. StreamType /\ TypedType
    BY DEF Stream, Typing
  <2>2. served \in Seq([at : Nat, len : 0..MaxData])
    BY <2>1 DEF StreamType, Messages
  <2>3. typed \in Seq([at : Nat, len : LineLengths])
    BY <2>1 DEF TypedType, Lines
  <2>4. sent \in Seq([line : Nat, len : 0..MaxData])
    BY <2>1 DEF TypedType, Sends
  <2>5. /\ arrived \in 0..Total /\ consumed \in 0..arrived /\ shown \in Seq(Nat)
    <3>1. Total \in Int
      BY <2>1, EndAfterStart DEF StreamType, Total
    <3> QED BY <2>1, <3>1 DEF StreamType
  <2>6. filled \in 0..TypedTotal /\ taken \in 0..filled /\ looped \in 0..taken
    <3>1. TypedTotal \in Int
      <4>1. typed \in Seq(Lines) /\ TypedLayout
        BY DEF Typing, TypedType
      <4> QED BY <4>1, LinesInTotal
    <3> QED BY <2>1, <3>1 DEF TypedType
  <2>7. late \in Nat /\ lateShown \in Nat
    BY DEF LateSends
  <2>8. {resetError, eof, running, stdinReady, torn} \subseteq BOOLEAN
    BY DEF Flags
  <2> QED BY <2>2, <2>3, <2>4, <2>5, <2>6, <2>7, <2>8 DEF TypeOK, Flags
<1> QED BY <1>1, <1>2, <1>3, PTL DEF Spec
=============================================================================

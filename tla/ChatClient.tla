----------------------------- MODULE ChatClient -----------------------------
(***************************************************************************)
(* The interactive chat client (ChatClient.cpp and client/main.cpp, the    *)
(* same in both servers' trees): one thread that watches the connection    *)
(* and the terminal with select, peeks at a message's header, receives the *)
(* message, shows it, and sends what was typed.                            *)
(*                                                                         *)
(* Both inputs are streams of cells of which the client sees a prefix.  A  *)
(* stream is a sequence of records: where each message or line starts, and *)
(* its length.  Lines reach the terminal whole, as a terminal delivers     *)
(* them; the connection delivers any piece.                                *)
(***************************************************************************)
EXTENDS Integers, Sequences, FiniteSets, FiniteSetsExt

CONSTANTS
    HeaderSize,   \* sizeof(ChatMessageHeader)
    MaxData,      \* MAX_MESSAGE_SIZE; readBuffer holds HeaderSize + MaxData
    LineLengths,  \* lengths of typed lines, without the newline
    MaxServed,    \* bound on the server's messages
    MaxTyped      \* bound on the lines typed

ASSUME SizeAssumption ==
    /\ HeaderSize \in Nat \ {0} /\ MaxData \in Nat
    /\ LineLengths \subseteq Nat
    /\ MaxServed \in Nat /\ MaxTyped \in Nat

VARIABLES
    served,       \* the messages the server has sent
    arrived,      \* how many cells of them the connection has delivered
    conn,         \* "open", "fin" (the server has closed), "rst"
    resetError,   \* a reset that no call has reported yet
    typed,        \* the lines typed
    eof,          \* the terminal's input has ended
    pc,           \* where the thread is
    running,      \* running_
    stdinReady,   \* what select said of the terminal
    want,         \* totalMessageSize
    consumed,     \* how many cells recv has taken from the stream
    filled,       \* how many cells of the terminal stdio has read
    taken,        \* how many of them fgets, then getline, have taken
    shown,        \* history: messages shown, 0 for one that was none
    torn,         \* history: a message was received in part
    looped,       \* history: what mainLoop's fgets have taken
    sent,         \* history: calls of send: the line, and the length sent
    late,         \* history: calls of send after the server had closed
    lateShown     \* history: messages shown since then

serverVars   == <<served, arrived, conn>>
terminalVars == <<typed, eof>>
stdioVars    == <<filled, taken, looped>>
recvVars     == <<want, consumed, shown, torn, lateShown>>
sendVars     == <<sent, late, resetError>>
vars == <<serverVars, terminalVars, pc, running, stdinReady, stdioVars,
          recvVars, sendVars>>

Message(at, len) == [at |-> at, len |-> len]

MessageEnd(i) == served[i].at + HeaderSize + served[i].len

Total == IF served = <<>> THEN 0 ELSE MessageEnd(Len(served))

\* The newline counts.
LineEnd(i) == typed[i].at + typed[i].len + 1

TypedTotal == IF typed = <<>> THEN 0 ELSE LineEnd(Len(typed))

-----------------------------------------------------------------------------
(* The server, the network and the user. *)

\* There is a connection, and somebody to use it.
Talking == pc \notin {"start", "exited", "killed"}

Serve ==
    /\ Talking /\ conn = "open" /\ Len(served) < MaxServed
    /\ \E len \in 0..MaxData : served' = Append(served, Message(Total, len))
    /\ UNCHANGED <<arrived, conn, terminalVars, pc, running, stdinReady,
                   stdioVars, recvVars, sendVars>>

Deliver ==
    /\ Talking /\ conn = "open"
    /\ \E n \in (arrived + 1)..Total : arrived' = n
    /\ UNCHANGED <<served, conn, terminalVars, pc, running, stdinReady,
                   stdioVars, recvVars, sendVars>>

\* The server's close arrives after everything it has sent.
Fin ==
    /\ Talking /\ conn = "open" /\ arrived = Total
    /\ conn' = "fin"
    /\ UNCHANGED <<served, arrived, terminalVars, pc, running, stdinReady,
                   stdioVars, recvVars, sendVars>>

\* A reset, on its own, or in answer to what is sent after the close.  What
\* had arrived stays readable.
Reset ==
    /\ Talking
    /\ conn = "open" \/ (conn = "fin" /\ late > 0)
    /\ conn' = "rst"
    /\ resetError' = (conn = "open")
    /\ UNCHANGED <<served, arrived, terminalVars, pc, running, stdinReady,
                   stdioVars, recvVars, sent, late>>

Type ==
    /\ Talking /\ ~eof /\ Len(typed) < MaxTyped
    /\ \E len \in LineLengths : typed' = Append(typed, Message(TypedTotal, len))
    /\ UNCHANGED <<serverVars, eof, pc, running, stdinReady, stdioVars,
                   recvVars, sendVars>>

EndInput ==
    /\ Talking /\ ~eof
    /\ eof' = TRUE
    /\ UNCHANGED <<serverVars, typed, pc, running, stdinReady, stdioVars,
                   recvVars, sendVars>>

-----------------------------------------------------------------------------
(* connect and mainLoop. *)

Connect ==
    /\ pc = "start"
    /\ pc' = "select"
    /\ running' = TRUE
    /\ UNCHANGED <<serverVars, terminalVars, stdinReady, stdioVars, recvVars,
                   sendVars>>

\* The address is wrong or nobody listens: main returns 1.
ConnectFails ==
    /\ pc = "start"
    /\ pc' = "exited"
    /\ UNCHANGED <<serverVars, terminalVars, running, stdinReady, stdioVars,
                   recvVars, sendVars>>

Unread == arrived - consumed

SocketReadable == Unread > 0 \/ conn # "open"

\* select sees the terminal, not what stdio has read from it already.
StdinReadable == filled < TypedTotal \/ eof

Select ==
    /\ pc = "select" /\ running
    /\ SocketReadable \/ StdinReadable
    /\ stdinReady' = StdinReadable
    /\ pc' = IF SocketReadable THEN "peek" ELSE "stdin"
    /\ UNCHANGED <<serverVars, terminalVars, running, stdioVars, recvVars,
                   sendVars>>

\* recv with MSG_PEEK returns 0 or an error.
Ends_OnErrorOnly == Unread = 0 /\ conn = "rst"

Ends == Unread = 0

PeekEnds ==
    /\ pc = "peek" /\ Ends
    /\ pc' = "commands"
    /\ running' = FALSE
    /\ UNCHANGED <<serverVars, terminalVars, stdinReady, stdioVars, recvVars,
                   sendVars>>

\* "continue" after less than a header: what was typed waits too.
Retry_StdinToo == "stdin"

Retry == "select"

PeekPartial ==
    /\ pc = "peek" /\ ~Ends /\ Unread < HeaderSize
    /\ pc' = Retry
    /\ UNCHANGED <<serverVars, terminalVars, running, stdinReady, stdioVars,
                   recvVars, sendVars>>

\* What the length field says: where no message starts, anything.
Lengths(pos) ==
    LET here == {i \in DOMAIN served : served[i].at = pos}
    IN IF here # {} THEN {served[i].len : i \in here} ELSE 0..(MaxData + 1)

Oversized_Unchecked(len) == FALSE

Oversized(len) == len > MaxData

\* The header is skipped, and nothing but the header.
PeekOversized ==
    /\ pc = "peek" /\ Unread >= HeaderSize
    /\ \E len \in Lengths(consumed) : Oversized(len)
    /\ consumed' = consumed + HeaderSize
    /\ pc' = "select"
    /\ UNCHANGED <<serverVars, terminalVars, running, stdinReady, stdioVars,
                   want, shown, torn, lateShown, sendVars>>

Whole_WithoutHeader(len) == len

Whole(len) == HeaderSize + len

PeekHeader ==
    /\ pc = "peek" /\ Unread >= HeaderSize
    /\ \E len \in Lengths(consumed) : ~Oversized(len) /\ want' = Whole(len)
    /\ pc' = "recv"
    /\ UNCHANGED <<serverVars, terminalVars, running, stdinReady, stdioVars,
                   consumed, shown, torn, lateShown, sendVars>>

\* recv takes what there is; less than the message is dropped.
RecvPart ==
    /\ pc = "recv" /\ Unread < want
    /\ consumed' = arrived
    /\ torn' = TRUE
    /\ pc' = "select"
    /\ UNCHANGED <<serverVars, terminalVars, running, stdinReady, stdioVars,
                   want, shown, lateShown, sendVars>>

\* The message that is these cells, or 0.
MessageAt(pos, size) ==
    LET here == {i \in DOMAIN served :
                    served[i].at = pos /\ MessageEnd(i) = pos + size}
    IN IF here = {} THEN 0 ELSE Min(here)

\* All of it: handleMessage shows it.
RecvMessage ==
    /\ pc = "recv" /\ Unread >= want
    /\ consumed' = consumed + want
    /\ shown' = Append(shown, MessageAt(consumed, want))
    /\ lateShown' = IF conn = "open" THEN 0 ELSE lateShown + 1
    /\ pc' = "stdin"
    /\ UNCHANGED <<serverVars, terminalVars, running, stdinReady, stdioVars,
                   want, torn, sendVars>>

\* sendMessage: false after the loop and for too long a message; a connection
\* that was reset reports it once, then each send raises SIGPIPE.
SendMessage(line, len) ==
    IF ~running \/ len > MaxData
    THEN pc' = "select" /\ UNCHANGED sendVars
    ELSE /\ sent' = Append(sent, [line |-> line, len |-> len])
         /\ late' = IF conn = "open" THEN late ELSE late + 1
         /\ pc' = IF conn = "rst" /\ ~resetError THEN "killed" ELSE "select"
         /\ resetError' = FALSE

\* The line the next cell of the terminal belongs to.
NextLine == Min({i \in DOMAIN typed : LineEnd(i) > taken})

\* stdio reads a line of a terminal, or all there is in a pipe.
FilledTo(end) == IF end <= filled THEN {filled}
                 ELSE {LineEnd(NextLine), TypedTotal}

\* fgets into char buffer[1024], and its terminator.
LineRoom_OffByOne == MaxData + 1

LineRoom == MaxData + 2

\* fgets takes the rest of the line, or as much as its buffer holds; a newline
\* at the end is no part of the message.
ReadStdin ==
    /\ pc = "stdin" /\ stdinReady /\ taken < TypedTotal
    /\ LET room == taken + LineRoom
           end  == Min({room, LineEnd(NextLine)})
           len  == IF end = LineEnd(NextLine) THEN end - taken - 1 ELSE end - taken
       IN /\ filled' \in FilledTo(end)
          /\ taken' = end /\ looped' = end
          /\ SendMessage(NextLine, len)
    /\ UNCHANGED <<serverVars, terminalVars, running, stdinReady, recvVars>>

\* Nothing on the terminal, or its end.
NoStdin ==
    /\ pc = "stdin"
    /\ ~stdinReady \/ taken = TypedTotal
    /\ pc' = "select"
    /\ UNCHANGED <<serverVars, terminalVars, running, stdinReady, stdioVars,
                   recvVars, sendVars>>

-----------------------------------------------------------------------------
(* main after connect has returned, which is when the loop has ended: its  *)
(* commands find a client that is not running.                             *)

Command ==
    /\ pc = "commands" /\ taken < TypedTotal
    /\ taken' = LineEnd(NextLine)
    /\ filled' \in FilledTo(taken')
    /\ pc' \in {"commands", "exited"}
    /\ UNCHANGED <<serverVars, terminalVars, running, stdinReady, looped,
                   recvVars, sendVars>>

EndOfCommands ==
    /\ pc = "commands" /\ eof /\ taken = TypedTotal
    /\ pc' = "exited"
    /\ UNCHANGED <<serverVars, terminalVars, running, stdinReady, stdioVars,
                   recvVars, sendVars>>

-----------------------------------------------------------------------------
Init ==
    /\ served = <<>> /\ arrived = 0 /\ conn = "open" /\ resetError = FALSE
    /\ typed = <<>> /\ eof = FALSE
    /\ pc = "start" /\ running = FALSE /\ stdinReady = FALSE
    /\ want = 0 /\ consumed = 0 /\ filled = 0 /\ taken = 0
    /\ shown = <<>> /\ torn = FALSE
    /\ looped = 0 /\ sent = <<>> /\ late = 0 /\ lateShown = 0

Client ==
    \/ Connect \/ ConnectFails \/ Select
    \/ PeekEnds \/ PeekPartial \/ PeekOversized \/ PeekHeader
    \/ RecvPart \/ RecvMessage \/ ReadStdin \/ NoStdin
    \/ Command \/ EndOfCommands

Next == Client \/ Serve \/ Deliver \/ Fin \/ Reset \/ Type \/ EndInput

Spec == Init /\ [][Next]_vars

\* The client is a thread that the system schedules.
FairSpec == Spec /\ WF_vars(Client)

-----------------------------------------------------------------------------
(* What must hold. *)

\* The values the variables take.  In particular recv is never asked for more
\* than readBuffer holds, whatever a header that is none says.
TypeOK ==
    /\ served \in Seq([at : Nat, len : 0..MaxData])
    /\ typed \in Seq([at : Nat, len : LineLengths])
    /\ arrived \in 0..Total /\ consumed \in 0..arrived
    /\ filled \in 0..TypedTotal /\ taken \in 0..filled /\ looped \in 0..taken
    /\ conn \in {"open", "fin", "rst"}
    /\ pc \in {"start", "select", "peek", "recv", "stdin", "commands",
               "exited", "killed"}
    /\ {resetError, eof, running, stdinReady, torn} \subseteq BOOLEAN
    /\ want \in 0..(HeaderSize + MaxData)
    /\ shown \in Seq(Nat) /\ late \in Nat /\ lateShown \in Nat
    /\ sent \in Seq([line : Nat, len : 0..MaxData])

\* As long as no message was received in part, what is shown is what the
\* server has sent, in order, each message once, and the stream is read at
\* the start of a message.
ShownInOrder ==
    ~torn => /\ \A i \in DOMAIN shown : shown[i] = i
             /\ Len(shown) <= Len(served)
             /\ consumed = IF shown = <<>> THEN 0 ELSE MessageEnd(Len(shown))

TailLength(i) == typed[i].len % (MaxData + 2)

\* The lines of which the loop has sent something, and must have.
Sendable == {i \in DOMAIN typed : LineEnd(i) <= looped /\ TailLength(i) <= MaxData}

\* A line is sent at most once, in the order typed: of one that fgets needs
\* several calls for, what the last of them returns; of one it returns whole,
\* everything, unless that is longer than a message may be.
LinesSentInOrder ==
    /\ Len(sent) = Cardinality(Sendable)
    /\ \A k \in DOMAIN sent :
          /\ sent[k].line \in Sendable
          /\ sent[k].len = TailLength(sent[k].line)
          /\ k > 1 => sent[k - 1].line < sent[k].line

\* Once the server has closed, the client sends at most one thing more than
\* it still has messages to show: it does not talk on to nobody (and only the
\* second such send can raise SIGPIPE).
FewLateSends == late <= lateShown + 1

\* The client notices the close: after it has shown all there was, unless the
\* stream was torn, it leaves the loop.  It may die of SIGPIPE first, and it
\* spins for ever if a torn stream ends within a header (the "continue" at
\* ChatClient.cpp:88 is taken again and again).
CloseIsNoticed ==
    conn = "fin" ~>
        \/ pc \in {"commands", "exited"} /\ (torn \/ Len(shown) = Len(served))
        \/ pc = "killed"
        \/ torn /\ Unread \in 1..(HeaderSize - 1)
=============================================================================

-------------------------------- MODULE Bench --------------------------------
(***************************************************************************)
(* The benchmark client (bench.rs; epollechoserver's copy only logs more): *)
(* main starts one thread per connection, sleeps, raises the stop flag and *)
(* waits for one result per thread on a channel; a thread writes a request *)
(* and reads a response in turn, until the flag, an error, a timeout or    *)
(* the server's close ends its loop.                                       *)
(*                                                                         *)
(* A response is a stretch of Reply cells of the connection's stream; a    *)
(* read returns what has arrived, Full cells at most.  A response counts   *)
(* when one read returns Full cells.                                       *)
(***************************************************************************)
EXTENDS Integers, Sequences, FiniteSets, FiniteSetsExt

CONSTANTS
    Threads,      \* 0 .. number - 1
    Full,         \* MESSAGE_TOTAL_SIZE: the size of in_buf
    Reply,        \* the server's response to a message of the length asked for
    MaxRequests   \* bound: then a thread waits for the stop flag

ASSUME SizeAssumption ==
    /\ Full \in Nat \ {0} /\ Reply \in 1..Full /\ MaxRequests \in Nat
    /\ IsFiniteSet(Threads)

VARIABLES
    stop,         \* the stop flag
    mpc,          \* where main is
    pc,           \* where each thread is
    inb, outb,    \* sum.inb and sum.outb of each thread
    misread,      \* history: reads that returned something and did not count
    answered,     \* responses the server has sent to each thread
    arrived,      \* cells of them that have arrived
    readCells,    \* cells of them that were read
    closed,       \* threads whose connection the server has closed
    channel,      \* results sent and not received: the threads they are of
    results       \* results received

threadVars == <<inb, outb, misread, readCells>>
serverVars == <<answered, arrived, closed>>
mainVars   == <<stop, mpc, results>>
vars == <<threadVars, serverVars, mainVars, pc, channel>>

Goto(t, label) == pc' = [pc EXCEPT ![t] = label]

Connected == {t \in Threads : pc[t] \notin {"connect", "gone", "done"}}

-----------------------------------------------------------------------------
(* The server and the network. *)

Answer(t) ==
    /\ t \in Connected \ closed
    /\ answered[t] < outb[t]
    /\ answered' = [answered EXCEPT ![t] = @ + 1]
    /\ UNCHANGED <<threadVars, arrived, closed, mainVars, pc, channel>>

Deliver(t) ==
    /\ t \in Connected \ closed
    /\ \E n \in (arrived[t] + 1)..(answered[t] * Reply) :
          arrived' = [arrived EXCEPT ![t] = n]
    /\ UNCHANGED <<threadVars, answered, closed, mainVars, pc, channel>>

CloseByServer(t) ==
    /\ t \in Connected \ closed
    /\ closed' = closed \cup {t}
    /\ UNCHANGED <<threadVars, answered, arrived, mainVars, pc, channel>>

-----------------------------------------------------------------------------
(* A thread. *)

Connect(t) ==
    /\ pc[t] = "connect"
    /\ Goto(t, "loop")
    /\ UNCHANGED <<threadVars, serverVars, mainVars, channel>>

\* "return", without a result.
ConnectFails(t) ==
    /\ pc[t] = "connect"
    /\ Goto(t, "gone")
    /\ UNCHANGED <<threadVars, serverVars, mainVars, channel>>

\* The flag is tested before the write and after it.
TestStop(t) ==
    /\ \/ pc[t] = "loop" /\ (stop \/ outb[t] < MaxRequests)
       \/ pc[t] = "sent"
    /\ Goto(t, IF stop THEN "report"
               ELSE IF pc[t] = "loop" THEN "write" ELSE "read")
    /\ UNCHANGED <<threadVars, serverVars, mainVars, channel>>

\* A connection the server has closed may still take a request.
Write(t) ==
    /\ pc[t] = "write"
    /\ outb' = [outb EXCEPT ![t] = @ + 1]
    /\ Goto(t, "sent")
    /\ UNCHANGED <<inb, misread, readCells, serverVars, mainVars, channel>>

\* Closed, or a server that does not read, for five seconds.
WriteFails(t) ==
    /\ pc[t] = "write"
    /\ t \in closed \/ answered[t] < outb[t]
    /\ Goto(t, "report")
    /\ UNCHANGED <<threadVars, serverVars, mainVars, channel>>

Unread(t) == arrived[t] - readCells[t]

\* What read returns, and what is left to be counted: a whole buffer counts,
\* if what is in front looks like a response's type (it is one if the read
\* began where a response does).
Counted_Short(t, m) == {TRUE}

Counted(t, m) ==
    IF m < Full THEN {FALSE}
    ELSE IF readCells[t] % Reply = 0 THEN {TRUE} ELSE BOOLEAN

Read(t) ==
    LET m == Min({Full, Unread(t)}) IN
    /\ pc[t] = "read" /\ Unread(t) > 0
    /\ readCells' = [readCells EXCEPT ![t] = @ + m]
    /\ \E counted \in Counted(t, m) :
          /\ inb' = [inb EXCEPT ![t] = IF counted THEN @ + 1 ELSE @]
          /\ misread' = [misread EXCEPT ![t] = IF counted THEN @ ELSE @ + 1]
    /\ Goto(t, "loop")
    /\ UNCHANGED <<outb, serverVars, mainVars, channel>>

\* read returns 0, an error, or WouldBlock after set_read_timeout's 5 s.
ReadOver_NoTimeout(t) == t \in closed

ReadOver(t) == TRUE

ReadEnds(t) ==
    /\ pc[t] = "read" /\ Unread(t) = 0 /\ ReadOver(t)
    /\ Goto(t, "report")
    /\ UNCHANGED <<threadVars, serverVars, mainVars, channel>>

\* tx.send(sum): the channel has no bound.
Report(t) ==
    /\ pc[t] = "report"
    /\ channel' = Append(channel, t)
    /\ Goto(t, "done")
    /\ UNCHANGED <<threadVars, serverVars, mainVars>>

-----------------------------------------------------------------------------
(* main. *)

\* The sleep of the test's duration is over.  main holds the flag itself, so
\* upgrade always finds it.
StopThreads ==
    /\ mpc = "sleep"
    /\ stop' = TRUE
    /\ mpc' = "collect"
    /\ UNCHANGED <<threadVars, serverVars, results, pc, channel>>

\* One recv per thread that was started; main's own tx keeps them waiting.
Expected == Cardinality(Threads)

Recv ==
    /\ mpc = "collect" /\ Len(results) < Expected
    /\ channel # <<>>
    /\ channel' = Tail(channel)
    /\ results' = Append(results, [inb  |-> inb[Head(channel)],
                                   outb |-> outb[Head(channel)]])
    /\ UNCHANGED <<threadVars, serverVars, stop, mpc, pc>>

PrintReport ==
    /\ mpc = "collect" /\ Len(results) = Expected
    /\ mpc' = "reported"
    /\ UNCHANGED <<threadVars, serverVars, stop, results, pc, channel>>

-----------------------------------------------------------------------------
Init ==
    /\ stop = FALSE /\ mpc = "sleep"
    /\ pc = [t \in Threads |-> "connect"]
    /\ inb = [t \in Threads |-> 0] /\ outb = [t \in Threads |-> 0]
    /\ misread = [t \in Threads |-> 0]
    /\ answered = [t \in Threads |-> 0]
    /\ arrived = [t \in Threads |-> 0]
    /\ readCells = [t \in Threads |-> 0]
    /\ closed = {} /\ channel = <<>> /\ results = <<>>

Thread(t) ==
    \/ Connect(t) \/ ConnectFails(t) \/ TestStop(t)
    \/ Write(t) \/ WriteFails(t) \/ Read(t) \/ ReadEnds(t) \/ Report(t)

Main == StopThreads \/ Recv \/ PrintReport

Next ==
    \/ Main
    \/ \E t \in Threads : Thread(t) \/ Answer(t) \/ Deliver(t) \/ CloseByServer(t)

Spec == Init /\ [][Next]_vars

\* main and the threads are scheduled, connect returns, and the sleep and the
\* timeouts end.  Nothing is assumed of the server.
FairSpec == Spec /\ WF_vars(Main) /\ \A t \in Threads : WF_vars(Thread(t))

-----------------------------------------------------------------------------
(* What must hold. *)

\* The figures of the report are real.  A response that is counted was sent:
\* however the network splits and joins responses, none counts twice.  And a
\* thread is at most one request ahead of the reads that it counted or misread,
\* so with a server that answers only misreadings lower the success rate.
CountsAddUp ==
    \A t \in Threads :
        /\ inb[t] <= answered[t]
        /\ outb[t] - (inb[t] + misread[t]) \in {0, 1}

\* The report comes, if every thread could connect: no server can keep a
\* thread from the flag.  (A thread that could not connect sends no result,
\* and main waits for it for ever.)
ReportComes ==
    mpc = "collect" ~> mpc = "reported" \/ \E t \in Threads : pc[t] = "gone"
=============================================================================

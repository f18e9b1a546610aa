# A verification of the echo and chat servers

The repository holds two TCP servers that speak one protocol (a header of a type
byte and a 16-bit length, and a payload of up to 1021 bytes) and answer each
client's chat message with an echo: `epollechoserver`, on edge-triggered epoll,
and `tcpchatserver`, on io_uring with multishot receives and a provided buffer
ring. Both have one listener, which runs on main's thread, and one worker thread
per session; the listener hands each accepted connection to a session by round
robin. Clients, benchmark programs and scripts complete the repository.

This directory holds TLA+ models of the two servers and of their two clients, TLC
configurations that check them on small instances, and TLAPS proofs of all the safety
properties for every instance. `PROJECT.json` maps each definition to the lines it models and lists
the runs, the mutants, the hazards and the theorems.

## Inventory

| part | state | operations | what makes it correct |
|---|---|---|---|
| epoll `Session` | `client_sockets_`, the batch it dispatches | `addClient`, `processEvents`, `handleRead`, `handleWrite`, `handleClose` | no wakeup lost, what is owed is armed for EPOLLOUT, listed clients are registered |
| `EPollBuffer` | free list, one response queue per client | allocate, release, enqueue, partial write, clear | every buffer has one owner, the pool does not run dry, responses keep their order |
| `EPoll` | kernel interest set, event array | add, modify, remove, wait, `prepareWrite`, `prepareClose` | events are for the right connection |
| epoll `SessionManager` | `sessions_`, `session_threads_`, `client_sessions_`, round robin counter | initialize, start, stop, assign, worker loop | balance, the map tells the truth, no Session dies under its worker |
| epoll `Listener`, `Socket` | listening descriptor; a Socket owns a number | accept, set non-blocking, assign; close on destruction | only the connection meant is closed |
| epoll `main` | `running` | start, loop, signal, stop | a signal ends the process |
| io_uring `Session` | `client_sockets_`, batch of completions | `addClient`, `processEvents`, `handleRead`/`Write`/`Close`, join, leave, chat | one receive per listed client, answers come from the message received |
| `IOUring`, `UringBuffer` | submission and completion queue, buffer ring | prepare, submit, wait, peek, advance, release | the buffer ring holds each buffer once at most |
| io_uring `SessionManager` | as above, with joins | assign, remove, look up, worker loop, start, stop | the map agrees with the sessions, a client is in one of them and somebody reads it, stop can join its threads |
| io_uring `Listener`, `main` | a ring of its own | multishot accept, assign | the listener goes on accepting, no accepted descriptor leaks |
| `ChatClient` (two copies) | socket, `running_`, what stdio has read | connect, `mainLoop`, send, main's commands | messages are shown in order, lines are sent once, the server's close is noticed |
| `bench.rs` (two) | threads, channel, stop flag | request loop, collect | the figures are real, the report comes |
| scripts, `Logger`, addresses, build output | - | - | not modelled |

How they interact: the listener's thread calls `assignClientToSession`, which
calls `addClient` on the session, on data the session's worker uses without a
lock; the workers call `removeSession` (io_uring) under the manager's mutex; the
kernel is shared through descriptor numbers, which are reused at once after a
close. What is hard: listener and worker in `addClient`, edge-triggered readiness
with an early exit, a pool shared by all clients of a session, a descriptor
closed twice, completions that arrive after their client was closed, multishot
receives that outlive their descriptor, accepts that end with an error, shutdown
without joins; and in the clients streams that arrive in any pieces, two buffers
(the kernel's and stdio's) in front of one loop, and a channel that waits for
threads which may be gone. `hazards` in
`PROJECT.json` lists each of these at its line.

## Modules

| module | models | checked by |
|---|---|---|
| `EPollSession` | one epoll session: worker, pool, epoll set, a listener adding clients, the kernel | `MCEPollSession`, three cfgs |
| `EchoService` | abstract: what an echo session promises | refined by `EPollSession` (`ImplementsEcho`) |
| `EPollServer` | descriptors, Sockets, accept, round robin, closing, over several sessions | `MCEPollServer`, two cfgs |
| `EPollLifecycle` | main, signal, start, stop, worker loop, owners of Session objects | `MCEPollLifecycle` |
| `UringSession` | one io_uring session: worker, ring, buffer ring, listener adding clients | `MCUringSession`, two cfgs |
| `UringJoin` | CLIENT_JOIN across sessions, `client_sessions_`, Sockets | `MCUringJoin` |
| `UringServer` | io_uring main, listener ring, session manager, descriptor reuse over several sessions | `MCUringServer` |
| `ChatClient` | the interactive client: select loop, framing, terminal, sends | `MCChatClient` |
| `Bench` | the benchmark client: main, its threads, flag and channel | `MCBench` |
| `EPollSession_proofs`, `EPollServer_proofs`, `EPollLifecycle_proofs`, `UringSession_proofs`, `UringJoin_proofs`, `UringServer_proofs`, `ChatClient_proofs`, `Bench_proofs` | theorems about the module of that name | tlapm |

The io_uring server is cut in three, since its whole is too large to explore:
`UringSession` has a session's data, batches and buffers and one name per client,
`UringJoin` the moves between sessions, `UringServer` everything around the
sessions, with descriptor numbers that are reused. What one leaves out the header
of its module names.

### EPollSession

The worker is cut at its system calls and at each turn of its loops: `pc` is
`wait` (epoll_wait), `dispatch` (the next event of the batch), `write` and
`rearm` (`handleWrite`), `read`, `readIO` and `parse` (`handleRead`). Kernel,
clients and listener act between those steps. `interest` and `ready` are the
kernel's side: an edge makes a registered descriptor ready when data, space or a
hangup arrives, and EPOLL_CTL_ADD and MOD raise an edge if a condition holds
already. Bytes are cells: the first cell of a message carries its size, the
others none, so that reads can split and coalesce messages and a parse in the
middle of a message sees `Garbage` or drops what it read, as the code does.
`free`, `hand` and `queue` are the pool, the handler's buffer and
`client_buffers_`. `AddRegister` and `AddInsert` are the two halves of
`addClient`, on the listener's thread. A raised SIGPIPE (`WriteRaises`) kills the
process. `client_sockets_` is taken to be atomic, which it is not: an access
that races is undefined behaviour and has no model.

`EchoService` is the abstract service: it accepts some of the messages, in
order, answers each accepted one once, in order, and gives up what is owed when
it closes. The refinement maps `accepted` to the delivered responses followed by
the queued ones.

### EPollServer

Leaves data out and keeps names: `fdTable` is the descriptor table, `Close`
frees a number for the next accept, `socks[s][fd]` says for which connection the
Socket under that number was made, `wpc` follows a worker from an event
to `prepareClose` (first close) and to the Socket's release (second close), and
`lpc` the listener from accept to `addClient`. The event is a hangup
(`HangupSeen`), or a write or a read finds the connection reset (`WriteFails`,
`ReadFails`). After a failed write processEvents goes on to handleRead with the
Socket it holds, whose number may name another connection by then:
`ReadFailsAgain` is the handleClose that may follow, which can take the new
client's Socket out of the map and close its number. (In `EPollSession`, where a client has one
name for ever, that read always finds the number closed.) `CounterSpan` stands for 2^64, and
`wraps` counts how often the counter has wrapped: each wrap breaks a round off, and
may put two sessions one client further apart.

### EPollLifecycle

`refs` counts the `shared_ptr` owners of each Session (the manager's map and the
thread's argument); `Drop` is the destructor when the last one goes. `stop()`
sleeps two seconds and joins nobody: a sleep bounds nothing, so `ClearSessions`
may come at any time. A start may fail wherever it throws: a Session's constructor
(`InitializeThrows`: those made before stay in the map), a thread's
(`SpawnThrows`: those started before run on), the Listener's or its start
(`ListenerThrows`); main then returns 1, and the static destructors do the rest. `DestroyMembers` is the destruction of `session_threads_`,
which aborts the process as its threads are still joinable.

### UringSession

`sq` holds prepared entries, `sub` those of the io_uring_enter the worker is in
(`enterWait` with a wait, `enter` without), `cq` the completions, `batch` those
of the current round. The kernel receives into the head of `ring` and completes
with or without IORING_CQE_F_MORE; the session looks at buffer 0 (`Seen`) and
gives 0 back (`Released`), since that is what user_data says. What that buffer
holds may fail a check against this completion's result whatever the client sent,
so `ReadBad` may refuse any message; `ReadEnds` closes on the end of the stream, a
reset and EAGAIN. Errors other than
EAGAIN and ECONNRESET are skipped (`SkipError`); a client whose receive ended so
is recorded in `starved`. `handleClose` also closes the number at once, through
the Socket that `removeSession` makes, so the close it prepares fails with EBADF.
A write on a connection that the client has broken fails (`Issue`) or raises
SIGPIPE and ends the process (`SigPipe`): it is prepared without MSG_NOSIGNAL, and
nothing in the server sets the signal aside.

### UringJoin

A join is a sequence of steps of the worker, between which the other workers and
the listener act: `Remove` (removeClient), `JoinRefuse` or `Unmap` (the target is
looked up, removeSession), `DropTemporary`, `JoinAdd` (the target's addClient),
`Rearm` (the end of handleRead); `handleClose` shares its first steps and ends in
`Close`. `fdTable` is the descriptor table: `Unmap` or `DropTemporary` closes the
number through the temporary Socket of `removeSession`, and the next `Accept` takes
it, while the join goes on under that number. A Socket goes by the connection it was
made for; `Released` closes its number, whoever has it by then, when neither a map
nor a hand has the Socket any more. `armed[s][<<fd, c>>]` counts the receives of ring
s on connection c that were prepared for the number fd; they keep working on the
connection when the number is closed, while an entry that is still in `sq`
works on whoever has the number when it is submitted. That is how two rings come to
read one connection (see Divergences).

### UringServer

`fdTable` is the descriptor table; `Accept` (the kernel's multishot accept) takes
the lowest free number, and `Closed` frees one, for whoever calls close: the
Socket made in `removeSession` (`Unmap`, or `DropTemporary` after another session
has given its own up), the close that the worker prepared (`Submit`), handleRead's
Socket (`DropSocket`), `addClient` when it replaces a stale Socket (`Assign`), and
the listener's reset. Any of them may hit a number that belongs to a new client
by then. `mpc` follows main through start, a start that throws, the listening loop and
the static destructor; `wpc[s]` a worker from the completion that closes a client
(`Take`) to `DropSocket`, with the number in `wfd[s]`. `lsq` and `accepting` count
the accepts prepared and in the kernel, `lcq` are the listener's completions.
The mutex of the manager is held across `Unmap` and `DropTemporary`.
`assigned` and `failures` are histories, for `ListenerHears`.

`OpenIsOwned` says that no descriptor leaks. What it does not say, because it is not so, is that a
listed number is open and still the same client's: the stale closes above
break that as they do in `EPollServer` (`epoll_server_double_close`).

### ChatClient

Both inputs are streams of cells in which messages and lines are records (start
and length). `conn` tells how the server's side ended; `Unread` is what recv can
return. `PeekPartial`, `PeekOversized` and `PeekHeader` are the outcomes of the
peek at a header; where no message starts, a header says anything. `RecvPart` is
the recv that returns less than the message and drops it: from there on the stream
is `torn`. The terminal is two buffers: `filled` is what stdio has read, `taken`
what fgets, and later main's getline, took from it; select sees neither. `late`
counts sends after the server's close, of which the first raises a reset and a
later one SIGPIPE (`killed`).

### Bench

A response is a stretch of `Reply` cells, a read returns `Full` at most, so a
thread whose response arrives in two pieces is out of step from then on
(`readCells % Reply`), and then whether a read looks like a response is anybody's guess
(`Counted`). The server answers, stalls or closes at any time. The channel is a sequence
without bound; `main` receives as many results as it started threads.

## Runs

| run | what it shows | instance and why it is enough |
|---|---|---|
| `epoll_session_pool` | buffers are neither shared nor lost, the pool is not dry between handlers, owed responses stay armed, no wakeup is lost | 2 clients, 2 buffers (fewer than both want), buffers of 2 cells, 2 reads per call, a send buffer of 1 cell, messages that split and coalesce; hangups and resets anywhere |
| `epoll_session_echo` | order, refinement of `EchoService`, queued responses leave, arrived data is read | 1 client, 3 buffers (two responses wait while a third read runs), 6 cells, more than one call reads; what two clients do to each other is in the run before |
| `epoll_session_add_race` | violated: a listed client is registered | 2 clients, the second added while the worker serves the first |
| `epoll_server_reuse` | balance across a counter wrap, `client_sessions_` right for live connections, watched connections listed | 4 connections on 2 numbers, 2 sessions, a counter of 3 values (39,254 states): every number is reused, closed two and three times and reassigned, and the wrap falls in mid-round |
| `epoll_server_double_close` | violated: only connections whose client left are closed | 3 connections, 2 numbers |
| `epoll_lifecycle` | no Session destroyed under its worker; a signal ends the process | 2 sessions, signal at any time, a start that throws at each place where it can (178 states) |
| `uring_session` | each listed client has exactly one receive at work, one close, the buffer ring is not overrun | 2 clients, 3 messages of every kind, 2 buffers, batches of 2 (5.0 million states, two minutes): batches are cut, buffers run out, receives end in every way, completions outlive their client, a signal kills the server |
| `uring_session_echo` | violated: a response is the client's own message | 2 clients, 1 message each |
| `uring_join` | the manager's map agrees with the sessions, a Socket is in one session, no descriptor leaks or is cross-wired, every open connection is read or about to be | 2 clients, 2 numbers, 2 joins each, 2 sessions and a number of none (2.6 million states): a number goes to the second client at any step of a join or a close of the first, and two workers move clients at once |
| `uring_server` | `client_sessions_` tells the truth, no descriptor leaks, the listener keeps an accept, stop after a failed start can join | 3 connections on 2 numbers, 2 sessions: a number is given out again while its first client is being closed, by the same session or the other, and accepts fail for want of numbers; start fails at both places |
| `chat_client` | untorn streams are shown in order, lines are sent once, the close is noticed, nothing is said to nobody | header of 2 cells and messages of 0 or 1, 2 messages, 2 lines of 1 to 4 cells against an fgets of 3: whole, refused, split with and without a tail; close, reset and end of input anywhere |
| `bench` | counted responses were sent, requests are at most one ahead; the report comes | 2 threads, 2 requests each, the default length, whose responses fill the buffer, in 2 cells: read whole, in halves, and across two of them; other sizes are the theorem's |

The bounds (`Stream`, `MaxMessages`, `MaxJoins`, the set of connections) limit
what clients do, never what the server does; those of `ChatClient` (`MaxServed`,
`MaxTyped`) limit the server and the user, not the client, and `MaxRequests` of
`Bench` makes a thread wait for the flag that would otherwise go on. Deadlock is
not checked: a run ends when its clients have sent everything and hung up, and the
servers then wait; a client ends.

Every property of a passing run has a mutant: a definition whose plausible bug
(a dropped guard, a buffer released twice, a missing rearm...) makes the property
fail in that run.

### Fairness

Weak fairness of each worker's and of main's steps: they are threads of their
own that the system schedules, block only in calls the model makes disabled, and
never wait for one another. The client of `epoll_session_echo` goes on reading
(fairness of the steps that drain the send buffer): an answer to a client that
never reads cannot leave. Nothing is assumed of what clients send or when they
hang up, of signals, or of the listener beyond finishing an `addClient` it began.
`ChatClient` is one thread, `Bench` a main and its threads, weakly fair each:
their calls return, the benchmark's sleep and its read and write timeouts of five
seconds end. Nothing is assumed of the server they talk to, or of the user.

## Divergences

Three runs show where the code does not do what it says; each is a finding in
`PROJECT.json`, with the line it contradicts.

* `addClient` (epoll) registers before it inserts: the worker may unregister the
  descriptor in between, and the client is never served.
* Closing a connection (epoll) closes its number twice, the second time perhaps
  for a new client; after a failed write the same event can close it a third time.
* `handleRead` (io_uring) reads buffer 0 whatever buffer was filled: a client may
  be sent what another one wrote.

Others were met while modelling. They are steps of the models, without a run of
their own:

* epoll: `handleRead` answers the first message of a read and drops the rest;
  SIGPIPE ends the server (`WriteRaises`); unjoined threads abort it at exit
  (`DestroyMembers`).
* io_uring sessions: `addClient` does not submit the read, which waits for another
  client to wake the worker; a client that comes to lack a buffer is never read
  again (`SkipError`, `starved`); the used buffers never return to the buffer ring
  (`Released`).
* io_uring joins: a join closes the number of the client it moves, which is
  never served again (`Unmap`, `DropTemporary`); the error for a refused join is
  submitted after its number was closed (`JoinRefuse`, `LetGo`). Worse, two rings may
  come to read one connection: session 0 takes a JOIN to session 1, `Unmap` closes the
  number, `JoinAdd` prepares a read of it in ring 1, where it waits for that
  session's worker; the listener accepts a new client on the number and assigns it to
  session 0; both rings submit, and both receives are on the new client's
  connection. What ring 1 receives is handled under the moved client's Socket, whose
  end closes the new client's number too. No property claims the contrary.
* io_uring: a write to a client that has reset its connection may raise SIGPIPE, which
  ends the server (`SigPipe`).
* io_uring listener: a failed accept is not prepared again (`LogFailure`), so that
  with as many failures as clients and one more the server is deaf; every assigned
  client adds an accept to the one that is still there.
* chat client: `connect` returns when the loop has ended, so that the echo test and
  all commands of `main` find a client that is not running (`Command`), and what is
  typed meanwhile, "/quit" included, is sent as chat; a message that arrives in two
  pieces is lost and tears the stream (`RecvPart`); of a line longer than a message
  only the tail is sent; a stream that ends within a header makes the loop spin.
* benchmark: `main` waits for ever if a thread could not connect (`ConnectFails`);
  the usage text and the code give different defaults for the number of clients and
  the address.

## Proofs

Every invariant that a passing run checks is proved, and the refinement of
`EchoService`, for every value of the constants that satisfies the named
assumptions (TLC evaluates those in the runs). No invariant is inductive alone; what
follows is what had to be added, and why.

* `EPollSession_proofs`
  * `TypeCorrect`: `TypeOK`. `WorkerOK` says what the worker's position implies for
    its locals (a handler has a client, `parse` has a chunk inside that client's
    stream), `StreamsOK` that reading never overtakes arrival.
  * `PoolConserved`, `BuffersKept`: `NoSharedBuffer` and `NoLostBuffer`. Free list,
    hand and queues together name every buffer exactly once; lemmas say how taking,
    giving, enqueuing, popping and clearing change the owners, and one step per
    action applies them. Rests on `PoolAssumption`: the constructor's free list
    names each buffer once.
  * `PoolNeverDry`: `ReadFindsBuffer`. A response only gets a buffer while the
    handler keeps its own, which it then gives back.
  * `OwedStaysArmed`, `WakeupsKept`: `OwedIsArmed` and `NoLostWakeup`. `EventsOK`
    follows an edge from the kernel's ready set into the batch: unread data of a
    registered client has its event in one of them, or handleRead ignored it on
    purpose (`Awaited`), and what is queued waits for EPOLLOUT or for the handler at
    work (`Owed`). `Registered` says that a closed client is out of everything, and
    `LastReadOK` that a short read took all there was, or a new edge has come since.
  * `ResponsesInOrder`: `EchoOrder`. All responses of a client, delivered or queued,
    answer messages in the part of the stream that was looked at (`ReadUpTo`), and a
    new one is of the chunk in hand, which is further on. Rests on
    `NumberingAssumption`: message numbers, which exist in the model only, grow along
    a stream.
  * `SessionImplementsEcho`: `ImplementsEcho`. Four lemmas about the session say
    which of its steps is which of the service's: a chunk that parses `Accepts` a
    message, a write that ends a response `Sends` it, `handleClose` and the process's
    death give up what is owed, every other step is `Quiet`; under the mapping those
    are the service's actions, or a stutter.
* `EPollServer_proofs`
  * `TypesHold`, `AssignmentAgrees`, `WatchedAreListed`. `KernelOK` says that a
    connection has one number and that what is watched is open, whichever way a
    worker came to close it, `HandsOK` that
    nobody watches the listener's new connection before `prepareRead`. A close, the
    second one too, only takes away from what is watched (`ClosingKeeps`): that is why
    the map, never cleaned, is right for what is left.
  * `RoundRobinBalances`: `RoundRobinBalance`, from `RoundBalance`: a session that
    had its turn in this round is ahead by one, and each wrap may add one more. That
    a session never has more clients than there are (in `TypeOK`) counts the
    connections that were accepted and are in nobody's hand (`Settled`).
  * Assumptions: `DescriptorAssumption` (accept takes the lowest number, so there is
    an order), `ConnsAssumption` (finitely many connections are made).
* `EPollLifecycle_proofs`
  * `TypeCorrect`, and `WorkersKeepSessions`: `SessionOutlivesWorker`. `refs` is
    a number; `OwnersCounted` says that it counts the manager's map and the
    thread's copy, `ThreadsStarted` that start makes each copy once.
* `UringSession_proofs`
  * `TypesHold`, `ReadByOne`, `ClosedOnce`, `RingNeverOverrun`: `TypeOK`,
    `OneReceive`, `ClosesOnce`, `RingFits`. All but the first are counts over the queues that an
    operation passes through, prepared, submitted, completed. `Count` counts the
    entries of a queue; lemmas say what appending, taking the head and taking a
    prefix do to it, and each action is reduced to the counts it changes. `Inv` adds
    that the batch is a prefix of the completions (so a completion handled is the one
    counted), that no submission is under way while the worker handles, and that a
    client being added has no receive yet.
* `UringJoin_proofs`
  * `TypesHold`, `ManagerIsRight`, `InOneSession`, `NoLeak`, `NobodyUnread`: `TypeOK`,
    `ManagerAgrees`, `OneSession`, `OpenIsListed`, `OpenIsRead`, from one inductive
    invariant `Inv`. Numbers are reused, so the argument follows Sockets: a
    Socket has one number for life (`NumberFixed`), is made once, by the listener,
    in the order of the accepts (`QueueOrder`), and is in one session or in one
    worker's move (`OneClaim`). As long as the connection it was made for is open it is in the session
    that the manager names, and nowhere else under that number (`Home`): a move unmaps a
    number before it adds the Socket elsewhere, and by then the number is closed
    for the connection it moves (`Gone`). `Read` says of the same session that it
    reads the connection, or has the read prepared, or will prepare it (a last
    completion in hand).
* `UringServer_proofs`
  * `TypeCorrect`, `ManagerTellsTruth`, `NoDescriptorLeaks`, `ListenerKeepsAccept`
    and `StopCanJoin`: all five invariants of the run, from one inductive invariant
    `IInv`. Its types also say where main and the workers hold a number (`lfd` at
    "reset" and "assign", `wfd` while closing), without which a step might forget
    one. `AcceptsCounted` is the balance behind `ListenerHears`: accepts prepared, in
    the kernel and failed are one more than clients assigned. `NobodyServed` says
    that no session has a client unless main listens; `JoinReturns` follows from it.
    It rests on `SizeAssumption` and `NoneAssumption`.
* `ChatClient_proofs`
  * `MessagesInOrder`: `ShownInOrder`, with `Layout` (messages follow each other
    without a gap, so that one starts at a place at most) and `Peeked` (what was
    peeked at is still in front when it is received).
  * `LateSendsBounded`: `FewLateSends`; the terminal is only read when the
    connection is open or a message has just been shown.
  * `LinesGoOut`: `LinesSentInOrder`. `Pieces` says that what fgets has taken of the
    line it is in is whole buffers, so that its last call is left with the remainder
    of the line's length, which is what `TailLength` says; `InLoop` that until the
    loop has ended nobody else takes lines.
  * `TypesHold`: `TypeOK`, from all these; `WantFits` is the bound of `readBuffer`.
* `Bench_proofs`
  * `FiguresAreReal`: `CountsAddUp`. Cells counted were read, cells read arrived,
    cells that arrived were sent (`CellsInOrder`); as a response is no longer than
    the buffer (`SizeAssumption`), no answer counts twice. `UnderWay` ties the
    requests that are ahead to where the thread is.

Model-checked only: the liveness properties (`OwedIsAnswered`, `DataIsRead`,
`SignalEndsProcess`, `CloseIsNoticed`, `ReportComes`), since temporal reasoning under
fairness is out of the prover's reach, and the three divergences, which are counterexamples.

## Not modelled

* Formatting and logging, socket options, the set-up of listening sockets, parsing
  of the programs' options; failures of epoll_ctl, io_uring_enter and of memory.
* A data race's undefined outcomes: `client_sockets_` of both servers and the
  submission queue of an io_uring session are used by two threads without a lock.
  The models take each access as atomic.
* The payload of messages, and with it the header that `sendMessage` (io_uring)
  writes over the first three bytes of the payload; short writes of io_uring.
* A full submission queue, at which `getSQE` submits or throws: it has 8192
  entries and is emptied each round.
* The chat code of the epoll `Session` that nothing calls (lines 368-567), which is
  most of what the map lacks of that file.
* The scripts that start servers and benchmarks and parse what they print; the
  logger, address classes, build files.

## Plan

What is left is mostly breadth: short writes of io_uring and a full submission
queue, for which `UringSession` would have to follow the bytes of a response, and
the two halves of the io_uring `addClient` across rings that are out of entries. Of
the proofs, the remaining candidate is a more abstract specification that all three
io_uring modules implement, which would relate them to one another.

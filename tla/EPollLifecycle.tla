--------------------------- MODULE EPollLifecycle ---------------------------
(***************************************************************************)
(* The epoll server from start to exit: main's thread (which is also the   *)
(* listener's), one worker thread per session, the signal handler, and the *)
(* owners of each Session object.                                          *)
(*                                                                         *)
(* Of a session only this is left: whether it has clients.  A worker is    *)
(* cut where it reads the flag and where it enters and leaves              *)
(* processEvents.                                                          *)
(***************************************************************************)
EXTENDS Integers, FiniteSets

CONSTANT Sessions     \* session ids (available_sessions_)

ASSUME SessionsAssumption == Sessions # {} /\ IsFiniteSet(Sessions)

VARIABLES
    mpc,          \* where main is
    running,      \* main's running, cleared by the signal handler
    listening,    \* Listener::running_
    mrunning,     \* SessionManager::running_
    threads,      \* keys of session_threads_: std::thread objects, all joinable
    sessions,     \* keys of sessions_
    refs,         \* shared_ptr owners of each Session
    clients,      \* sessions whose client_sockets_ is not empty
    wpc,          \* where each worker thread is
    status,       \* what main returned, or -1
    outcome       \* how the process ended

mainVars == <<mpc, listening, threads, sessions, status>>
vars == <<mainVars, running, mrunning, refs, clients, wpc, outcome>>

Alive == outcome = "running"

Drop_Sole(S) ==
    /\ refs' = [s \in Sessions |-> IF s \in S THEN 0 ELSE refs[s]]
    /\ clients' = clients \ S

\* ~Session, run by whoever drops the last owner, closes the clients.
Drop(S) ==
    /\ refs' = [s \in Sessions |-> refs[s] - IF s \in S THEN 1 ELSE 0]
    /\ clients' = {s \in clients : refs'[s] > 0}

-----------------------------------------------------------------------------
(* The signal handler. *)

SignalHandler ==
    /\ Alive /\ running
    /\ running' = FALSE
    /\ UNCHANGED <<mainVars, mrunning, refs, clients, wpc, outcome>>

-----------------------------------------------------------------------------
(* main. *)

\* SessionManager::initialize, and the head of start.
Initialize ==
    /\ mpc = "initialize"
    /\ sessions' = Sessions
    /\ refs' = [s \in Sessions |-> 1]
    /\ mrunning' = TRUE
    /\ mpc' = "spawn"
    /\ UNCHANGED <<running, listening, threads, clients, wpc, status, outcome>>

\* The constructor of a Session throws (no epoll set, no memory): those made
\* before it stay in sessions_, and main returns 1.
InitializeThrows ==
    /\ mpc = "initialize"
    /\ sessions' \in SUBSET Sessions \ {Sessions}
    /\ refs' = [s \in Sessions |-> IF s \in sessions' THEN 1 ELSE 0]
    /\ mpc' = "destroy"
    /\ status' = 1
    /\ UNCHANGED <<running, listening, mrunning, threads, clients, wpc, outcome>>

\* std::thread keeps a copy of the shared_ptr for the worker.
ThreadOwners_Twice(s) == refs[s] + 2

ThreadOwners(s) == refs[s] + 1

Spawn(s) ==
    /\ mpc = "spawn"
    /\ s \notin threads
    /\ threads' = threads \cup {s}
    /\ refs' = [refs EXCEPT ![s] = ThreadOwners(s)]
    /\ wpc' = [wpc EXCEPT ![s] = "check"]
    /\ mpc' = IF threads' = Sessions THEN "listen" ELSE "spawn"
    /\ UNCHANGED <<running, listening, mrunning, sessions, clients, status, outcome>>

ListenerStarts ==
    /\ mpc = "listen"
    /\ listening' = TRUE
    /\ mpc' = "loop"
    /\ UNCHANGED <<running, mrunning, threads, sessions, refs, clients, wpc,
                   status, outcome>>

\* Out of main's handler, "return 1".
Return1 ==
    /\ mpc' = "destroy"
    /\ status' = 1
    /\ UNCHANGED <<running, listening, mrunning, threads, sessions, refs,
                   clients, wpc, outcome>>

\* std::thread's constructor throws: the workers started so far run on.
SpawnThrows == mpc = "spawn" /\ Return1

\* The Listener has no epoll set, or no socket, or the port is taken.
ListenerThrows == mpc = "listen" /\ Return1

LoopGoesOn_Listener == listening

LoopGoesOn == running

\* Listener::processEvents hands a connection to a session.
AssignClient(s) ==
    /\ mpc = "loop" /\ LoopGoesOn /\ listening
    /\ s \in sessions
    /\ clients' = clients \cup {s}
    /\ UNCHANGED <<mainVars, running, mrunning, refs, wpc, outcome>>

StopListener ==
    /\ mpc = "loop" /\ ~LoopGoesOn
    /\ listening' = FALSE
    /\ mpc' = "stop"
    /\ UNCHANGED <<running, mrunning, threads, sessions, refs, clients, wpc,
                   status, outcome>>

\* SessionManager::stop clears the flag once, sleeps, clears the map.
BeginStop ==
    /\ mpc \in {"stop", "destroy"} /\ mrunning
    /\ mrunning' = FALSE
    /\ mpc' = IF mpc = "stop" THEN "clear" ELSE "destroyClear"
    /\ UNCHANGED <<running, listening, threads, sessions, refs, clients, wpc,
                   status, outcome>>

ClearSessions ==
    /\ mpc \in {"clear", "destroyClear"}
    /\ Drop(sessions)
    /\ sessions' = {}
    /\ mpc' = IF mpc = "clear" THEN "destroy" ELSE "members"
    /\ status' = IF mpc = "clear" THEN 0 ELSE status
    /\ UNCHANGED <<running, listening, mrunning, threads, wpc, outcome>>

\* At exit ~SessionManager calls stop() again, which returns at once, and
\* clears sessions_.
StopAgain ==
    /\ mpc = "destroy" /\ ~mrunning
    /\ Drop(sessions)
    /\ sessions' = {}
    /\ mpc' = "members"
    /\ UNCHANGED <<running, listening, mrunning, threads, wpc, status, outcome>>

\* session_threads_ is destroyed: ~std::thread terminates the process if the
\* thread was not joined, whether or not its function has returned.
DestroyMembers ==
    /\ mpc = "members" /\ Alive
    /\ outcome' = IF threads # {} THEN "aborted" ELSE "exited"
    /\ UNCHANGED <<mainVars, running, mrunning, refs, clients, wpc>>

-----------------------------------------------------------------------------
(* The worker thread of session s: sessionWorker. *)

EnterProcess(s) ==
    /\ Alive /\ wpc[s] = "check"
    /\ mrunning /\ s \in clients
    /\ wpc' = [wpc EXCEPT ![s] = "process"]
    /\ UNCHANGED <<mainVars, running, mrunning, refs, clients, outcome>>

\* processEvents returns or throws; its clients may all have left.
LeaveProcess(s) ==
    /\ Alive /\ wpc[s] = "process"
    /\ wpc' = [wpc EXCEPT ![s] = "check"]
    /\ clients' \in {clients, clients \ {s}}
    /\ UNCHANGED <<mainVars, running, mrunning, refs, outcome>>

\* The thread's copy of the shared_ptr goes with it.
Terminate(s) ==
    /\ Alive /\ wpc[s] = "check" /\ ~mrunning
    /\ wpc' = [wpc EXCEPT ![s] = "done"]
    /\ Drop({s})
    /\ UNCHANGED <<mainVars, running, mrunning, outcome>>

-----------------------------------------------------------------------------
Init ==
    /\ mpc = "initialize"
    /\ running = TRUE /\ listening = FALSE /\ mrunning = FALSE
    /\ threads = {} /\ sessions = {} /\ clients = {}
    /\ refs = [s \in Sessions |-> 0]
    /\ wpc = [s \in Sessions |-> "none"]
    /\ status = -1
    /\ outcome = "running"

Main ==
    \/ Initialize \/ InitializeThrows
    \/ \E s \in Sessions : Spawn(s)
    \/ SpawnThrows
    \/ ListenerStarts \/ ListenerThrows
    \/ StopListener
    \/ BeginStop \/ ClearSessions \/ StopAgain \/ DestroyMembers

Worker(s) == EnterProcess(s) \/ LeaveProcess(s) \/ Terminate(s)

Next ==
    \/ SignalHandler
    \/ Main
    \/ \E s \in Sessions : AssignClient(s) \/ Worker(s)

Spec == Init /\ [][Next]_vars

\* Every thread goes on running; a signal comes or it does not.
FairSpec == Spec /\ WF_vars(Main) /\ \A s \in Sessions : WF_vars(Worker(s))

-----------------------------------------------------------------------------
(* What must hold. *)

\* The values the variables take.
TypeOK ==
    /\ mpc \in {"initialize", "spawn", "listen", "loop", "stop", "clear",
                "destroy", "destroyClear", "members"}
    /\ running \in BOOLEAN /\ listening \in BOOLEAN /\ mrunning \in BOOLEAN
    /\ threads \subseteq Sessions /\ sessions \subseteq Sessions
    /\ clients \subseteq Sessions
    /\ refs \in [Sessions -> 0..2]
    /\ wpc \in [Sessions -> {"none", "check", "process", "done"}]
    /\ status \in {-1, 0, 1}
    /\ outcome \in {"running", "aborted", "exited"}

\* stop() clears sessions_ after a sleep that waits for nobody; still no
\* Session is destroyed under a worker that is inside its processEvents.
SessionOutlivesWorker == \A s \in Sessions : wpc[s] = "process" => refs[s] > 0

\* A signal ends the process, whatever the workers are doing then.
SignalEndsProcess == mpc = "loop" /\ ~running ~> ~Alive
=============================================================================

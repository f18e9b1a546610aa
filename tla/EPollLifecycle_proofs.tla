----------------------- MODULE EPollLifecycle_proofs -----------------------
(***************************************************************************)
(* No Session is destroyed under its worker, for any set of sessions.      *)
(*                                                                         *)
(* SessionOutlivesWorker is not inductive: refs is a count, and nothing in *)
(* the state says who the owners are.  OwnersCounted names them, the map   *)
(* of the manager and the thread's own copy, and ThreadsStarted says which *)
(* threads there are, so that start makes each copy once.                  *)
(***************************************************************************)
EXTENDS EPollLifecycle, TLAPS

InMap(s) == IF s \in sessions THEN 1 ELSE 0

InThread(s) == IF wpc[s] \in {"check", "process"} THEN 1 ELSE 0

OwnersCounted == \A s \in Sessions : refs[s] = InMap(s) + InThread(s)

ThreadsStarted ==
    /\ \A s \in Sessions : wpc[s] = "none" <=> s \notin threads
    /\ mpc = "initialize" => threads = {}

IInv == TypeOK /\ OwnersCounted /\ ThreadsStarted

-----------------------------------------------------------------------------
\* The initial state: no thread, no session, no owner.
LEMMA InitEstablishes == Init => IInv
<1> SUFFICES ASSUME Init PROVE IInv
  OBVIOUS
<1>1. TypeOK
  <2>1. refs \in [Sessions -> 0..2] /\ status \in {-1, 0, 1}
    BY DEF Init
  <2>2. /\ running \in BOOLEAN /\ listening \in BOOLEAN /\ mrunning \in BOOLEAN
        /\ wpc \in [Sessions -> {"none", "check", "process", "done"}]
    BY Zenon DEF Init
  <2> QED BY <2>1, <2>2 DEF Init, TypeOK
<1>2. OwnersCounted
  BY DEF Init, OwnersCounted, InMap, InThread
<1>3. ThreadsStarted
  BY DEF Init, ThreadsStarted
<1> QED BY <1>1, <1>2, <1>3 DEF IInv

\* The steps that touch neither the owners nor what is counted.
LEMMA OwnersUntouched ==
    ASSUME IInv, TypeOK',
           UNCHANGED <<sessions, refs, wpc, threads>>,
           mpc' # "initialize" \/ UNCHANGED mpc
    PROVE  IInv'
  BY DEF IInv, OwnersCounted, ThreadsStarted, InMap, InThread

\* start gives every thread one copy, and only to threads that are new.
LEMMA SpawnPreserves ==
    ASSUME IInv, NEW s \in Sessions, Spawn(s)
    PROVE  IInv'
<1>1. /\ s \notin threads /\ wpc[s] = "none" /\ InThread(s) = 0
      /\ refs[s] = InMap(s)
  BY DEF IInv, TypeOK, OwnersCounted, ThreadsStarted, Spawn, InMap, InThread
<1>2. TypeOK'
  BY <1>1 DEF IInv, TypeOK, Spawn, ThreadOwners, InMap
<1>3. OwnersCounted'
  BY <1>1 DEF IInv, TypeOK, OwnersCounted, Spawn, ThreadOwners, InMap, InThread
<1>4. ThreadsStarted'
  BY <1>1 DEF IInv, TypeOK, ThreadsStarted, Spawn
<1> QED BY <1>2, <1>3, <1>4 DEF IInv

\* Clearing sessions_, in stop() or at exit, drops the map's owners and no
\* thread's.
LEMMA ClearPreserves ==
    ASSUME IInv, ClearSessions \/ StopAgain
    PROVE  IInv'
<1>1. \A s \in Sessions :
        refs'[s] = refs[s] - (IF s \in sessions THEN 1 ELSE 0)
  BY DEF ClearSessions, StopAgain, Drop
<1>2. \A s \in Sessions : refs'[s] = InThread(s)
  BY <1>1 DEF IInv, TypeOK, OwnersCounted, InMap, InThread
<1>3. TypeOK'
  <2>1. refs' \in [Sessions -> 0..2]
    BY <1>2 DEF ClearSessions, StopAgain, Drop, InThread
  <2>2. clients' \subseteq Sessions
    BY DEF IInv, TypeOK, ClearSessions, StopAgain, Drop
  <2> QED BY <2>1, <2>2 DEF IInv, TypeOK, ClearSessions, StopAgain
<1>4. OwnersCounted'
  BY <1>2 DEF IInv, TypeOK, OwnersCounted, ClearSessions, StopAgain, InMap, InThread
<1>5. ThreadsStarted'
  BY DEF IInv, ThreadsStarted, ClearSessions, StopAgain
<1> QED BY <1>3, <1>4, <1>5 DEF IInv

\* A thread that ends drops its own copy and no other.
LEMMA TerminatePreserves ==
    ASSUME IInv, NEW s \in Sessions, Terminate(s)
    PROVE  IInv'
<1>1. \A r \in Sessions : refs'[r] = refs[r] - (IF r = s THEN 1 ELSE 0)
  BY DEF Terminate, Drop
<1>2. \A r \in Sessions :
        wpc'[r] = IF r = s THEN "done" ELSE wpc[r]
  BY DEF IInv, TypeOK, Terminate
<1>3. OwnersCounted'
  BY <1>1, <1>2 DEF IInv, TypeOK, OwnersCounted, Terminate, mainVars, InMap, InThread
<1>4. TypeOK'
  <2>1. refs' \in [Sessions -> 0..2]
    BY <1>3 DEF Terminate, Drop, OwnersCounted, InMap, InThread
  <2>2. clients' \subseteq Sessions
    BY DEF IInv, TypeOK, Terminate, Drop
  <2> QED BY <2>1, <2>2 DEF IInv, TypeOK, Terminate, mainVars
<1>5. ThreadsStarted'
  BY <1>2 DEF IInv, TypeOK, ThreadsStarted, Terminate, mainVars
<1> QED BY <1>3, <1>4, <1>5 DEF IInv

\* Entering and leaving processEvents keep the thread's copy.
LEMMA ProcessPreserves ==
    ASSUME IInv, NEW s \in Sessions, EnterProcess(s) \/ LeaveProcess(s)
    PROVE  IInv'
<1>1. /\ UNCHANGED <<sessions, refs, threads, mpc>>
      /\ wpc[s] \in {"check", "process"} /\ wpc'[s] \in {"check", "process"}
      /\ \A r \in Sessions \ {s} : wpc'[r] = wpc[r]
  BY DEF IInv, TypeOK, EnterProcess, LeaveProcess, mainVars
<1>2. TypeOK'
  <2>1. CASE EnterProcess(s)
    BY <2>1 DEF IInv, TypeOK, EnterProcess, mainVars
  <2>2. CASE LeaveProcess(s)
    BY <2>2 DEF IInv, TypeOK, LeaveProcess, mainVars
  <2> QED BY <2>1, <2>2
<1>3. OwnersCounted'
  BY <1>1 DEF IInv, OwnersCounted, InMap, InThread
<1>4. ThreadsStarted'
  BY <1>1 DEF IInv, ThreadsStarted
<1> QED BY <1>2, <1>3, <1>4 DEF IInv

\* Every step keeps the invariant.
LEMMA NextPreserves == IInv /\ [Next]_vars => IInv'
<1> SUFFICES ASSUME IInv, [Next]_vars PROVE IInv'
  OBVIOUS
<1>1. CASE SignalHandler
  BY <1>1, OwnersUntouched DEF IInv, TypeOK, SignalHandler, mainVars
<1>2. CASE Initialize
  <2>1. \A s \in Sessions : wpc[s] = "none"
    BY <1>2 DEF IInv, ThreadsStarted, Initialize
  <2>2. TypeOK'
    BY <1>2 DEF IInv, TypeOK, Initialize
  <2>3. OwnersCounted'
    BY <1>2, <2>1 DEF Initialize, OwnersCounted, InMap, InThread
  <2>4. ThreadsStarted'
    BY <1>2 DEF IInv, ThreadsStarted, Initialize
  <2> QED BY <2>2, <2>3, <2>4 DEF IInv
<1>3. ASSUME NEW s \in Sessions, Spawn(s) PROVE IInv'
  BY <1>3, SpawnPreserves
<1>4. CASE ListenerStarts
  BY <1>4, OwnersUntouched DEF IInv, TypeOK, ListenerStarts
<1>5. CASE SpawnThrows \/ ListenerThrows
  BY <1>5, OwnersUntouched DEF IInv, TypeOK, SpawnThrows, ListenerThrows, Return1
<1>6. CASE StopListener
  BY <1>6, OwnersUntouched DEF IInv, TypeOK, StopListener
<1>7. CASE BeginStop
  BY <1>7, OwnersUntouched DEF IInv, TypeOK, BeginStop
<1>8. CASE ClearSessions \/ StopAgain
  BY <1>8, ClearPreserves
<1>9. CASE InitializeThrows
  <2>1. \A s \in Sessions : wpc[s] = "none"
    BY <1>9 DEF IInv, ThreadsStarted, InitializeThrows
  <2>2. TypeOK'
    BY <1>9 DEF IInv, TypeOK, InitializeThrows
  <2>3. OwnersCounted'
    BY <1>9, <2>1 DEF InitializeThrows, OwnersCounted, InMap, InThread
  <2>4. ThreadsStarted'
    BY <1>9 DEF IInv, ThreadsStarted, InitializeThrows
  <2> QED BY <2>2, <2>3, <2>4 DEF IInv
<1>10. CASE DestroyMembers
  BY <1>10, OwnersUntouched DEF IInv, TypeOK, DestroyMembers, mainVars
<1>11. ASSUME NEW s \in Sessions, AssignClient(s) PROVE IInv'
  BY <1>11, OwnersUntouched DEF IInv, TypeOK, AssignClient, mainVars
<1>12. ASSUME NEW s \in Sessions, EnterProcess(s) \/ LeaveProcess(s) PROVE IInv'
  BY <1>12, ProcessPreserves
<1>13. ASSUME NEW s \in Sessions, Terminate(s) PROVE IInv'
  BY <1>13, TerminatePreserves
<1>14. CASE UNCHANGED vars
  BY <1>14, OwnersUntouched DEF IInv, TypeOK, vars, mainVars
<1> QED
  BY <1>1, <1>2, <1>3, <1>4, <1>5, <1>6, <1>7, <1>8, <1>9, <1>10, <1>11,
     <1>12, <1>13, <1>14 DEF Next, Main, Worker

\* The invariant gives each Session an owner while its worker is inside it.
LEMMA InvariantSuffices == IInv => TypeOK /\ SessionOutlivesWorker
  BY DEF IInv, TypeOK, OwnersCounted, InMap, InThread, SessionOutlivesWorker

-----------------------------------------------------------------------------
\* Every variable keeps its type; a Session has two owners at most.
THEOREM TypeCorrect == Spec => []TypeOK
  BY InitEstablishes, NextPreserves, InvariantSuffices, PTL DEF Spec

\* No Session is destroyed while its worker is inside processEvents: stop()
\* clears sessions_ without waiting, but the worker's thread has a shared_ptr
\* of its own, which only its end drops.
THEOREM WorkersKeepSessions == Spec => []SessionOutlivesWorker
  BY InitEstablishes, NextPreserves, InvariantSuffices, PTL DEF Spec
=============================================================================

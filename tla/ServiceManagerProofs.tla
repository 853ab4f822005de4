-------------------------- MODULE ServiceManagerProofs --------------------------
(***************************************************************************)
(* Proofs about ServiceManager, for any sets of services and requests: one *)
(* container per service, no two starts of a service at the same time, and *)
(* a shutdown that stops everything it found.                              *)
(***************************************************************************)
EXTENDS ServiceManager, FiniteSetTheorems, TLAPS

\* A request that has arrived asks for a service.
RequestsHaveService == \A r \in Requests : pc[r] # "idle" => svc[r] \in Services

TypeInv == TypeOK /\ RequestsHaveService

\* A container is there exactly when it was added.
ContainersAdded ==
    /\ \A s \in Services : state[s] = None <=> adds[s] = 0
    /\ \A r \in Requests :
          pc[r] \in {"forget", "require", "settle", "drain", "lock", "starting", "checking"}
              => state[svc[r]] # None
    /\ checking # None => state[checking] # None
    /\ \A s \in todo : state[s] # None
    /\ current # None => current \in todo

Loading(r) == pc[r] \in {"load", "add"}

\* Until a service is loaded its load lock stays the same, and whoever loads it
\* holds that lock.
LoadLocksKept ==
    /\ \A r \in Requests :
          /\ pc[r] \in {"loadlock", "load", "add"} /\ state[svc[r]] = None
                => lock[r] # 0 /\ lock[r] = loadLock[svc[r]]
          /\ Loading(r) => state[svc[r]] = None /\ <<svc[r], lock[r]>> \in locked
    /\ \A q, r \in Requests : Loading(q) /\ Loading(r) /\ svc[q] = svc[r] => q = r

ContainerInv == ContainersAdded /\ LoadLocksKept /\ OneContainer

\* Whoever starts a service holds the lock of its container.
StartersLock ==
    \A r \in Requests : pc[r] \in {"starting", "checking"} => starter[svc[r]] = r

\* What the shutdown has listed is up, or was stopped, or has failed; and as long as
\* it is up and was not stopped, the shutdown still has it before it.
ListedAccounted ==
    /\ stopper = "list" => listed = {}
    /\ current # None => current \in stops
    /\ \A s \in listed \ (stops \cup errors) :
          stopper # "done" /\ s \in todo /\ state[s] \in {"starting", "running"}

-----------------------------------------------------------------------------

\* The shape of the state: a request that has passed the shutdown handler has a
\* service, so that everything it looks up is there.
LEMMA TypeInvHolds == Spec => []TypeInv
<1> USE NoneAssumption
<1>1. Init => TypeInv
  <2>1. RuntimeInit => RuntimeTypeOK
    BY Zenon DEF RuntimeInit, RuntimeTypeOK
  <2>2. QED
    BY <2>1 DEF Init, TypeInv, TypeOK, RequestsHaveService
<1>2. TypeInv /\ [Next]_vars => TypeInv'
  <2> SUFFICES ASSUME TypeInv, [Next]_vars PROVE TypeInv'
    OBVIOUS
  <2> USE DEF TypeInv, TypeOK, RuntimeTypeOK, RequestsHaveService, States, Ended, managerVars,
     loaderVars, requestVars, stopVars, runtimeVars
  <2>1. CASE Alone(Main)
    <3>1. CASE Start
      BY <2>1, <3>1 DEF Alone, Start
    <3>2. CASE Serve
      BY <2>1, <3>2 DEF Alone, Serve
    <3>3. CASE Return
      BY <2>1, <3>3 DEF Alone, Return
    <3>4. QED
      BY <2>1, <3>1, <3>2, <3>3 DEF Alone, Main
  <2>2. CASE Alone(Exit)
    BY <2>2 DEF Alone, Exit
  <2>3. CASE Alone(FinishShutdown)
    BY <2>3 DEF Alone, FinishShutdown, ShutdownServer
  <2>4. ASSUME NEW r \in Requests, NEW s \in Services, Arrive(r, s) PROVE TypeInv'
    BY <2>4 DEF Arrive, Goto
  <2>5. ASSUME NEW r \in Requests, LookUp(r) PROVE TypeInv'
    BY <2>5 DEF LookUp, Goto
  <2>6. ASSUME NEW r \in Requests, GetContainer(r) PROVE TypeInv'
    BY <2>6 DEF GetContainer, Goto
  <2>7. ASSUME NEW r \in Requests, GetLoadLock(r) PROVE TypeInv'
    BY <2>7 DEF GetLoadLock, Goto
  <2>8. ASSUME NEW r \in Requests, AcquireLoadLock(r) PROVE TypeInv'
    BY <2>8 DEF AcquireLoadLock, Goto, LoadedMeanwhile
  <2>9. ASSUME NEW r \in Requests, LoadPlugin(r) PROVE TypeInv'
    BY <2>9 DEF LoadPlugin, Goto
  <2>10. ASSUME NEW r \in Requests, AddService(r) PROVE TypeInv'
    BY <2>10 DEF AddService, Goto, SetState, Added, MutexFree
  <2>11. ASSUME NEW r \in Requests, ForgetLoadLock(r) PROVE TypeInv'
    BY <2>11 DEF ForgetLoadLock, Goto
  <2>12. ASSUME NEW r \in Requests, AwaitStart(r) PROVE TypeInv'
    BY <2>12 DEF AwaitStart, Goto
  <2>13. ASSUME NEW r \in Requests, AwaitStop(r) PROVE TypeInv'
    BY <2>13 DEF AwaitStop, Goto
  <2>14. ASSUME NEW r \in Requests, Drain(r) PROVE TypeInv'
    BY <2>14 DEF Drain, Goto
  <2>15. ASSUME NEW r \in Requests, Require(r) PROVE TypeInv'
    BY <2>15 DEF Require, Goto, SetState, ContainerLockFree
  <2>16. ASSUME NEW r \in Requests, StartFails(r) PROVE TypeInv'
    BY <2>16 DEF StartFails, Goto, SetState
  <2>17. ASSUME NEW r \in Requests, StartService(r) PROVE TypeInv'
    BY <2>17 DEF StartService, Goto
  <2>18. ASSUME NEW r \in Requests, CheckStarted(r) PROVE TypeInv'
    BY <2>18 DEF CheckStarted, Goto, SetState
  <2>19. ASSUME NEW r \in Requests, Attach(r) PROVE TypeInv'
    BY <2>19 DEF Attach, Goto
  <2>20. ASSUME NEW r \in Requests, AddSkeleton(r) PROVE TypeInv'
    BY <2>20 DEF AddSkeleton, Goto
  <2>21. ASSUME NEW r \in Requests, Route(r) PROVE TypeInv'
    BY <2>21 DEF Route, Goto
  <2>22. ASSUME NEW s \in Services, CheckBegin(s) PROVE TypeInv'
    BY <2>22 DEF CheckBegin
  <2>23. CASE CheckEnd
    BY <2>23 DEF CheckEnd, SetState
  <2>24. CASE HooksFail
    BY <2>24 DEF HooksFail, ShutdownTo
  <2>25. CASE StopList
    BY <2>25 DEF StopList
  <2>26. CASE StopAcquire
    BY <2>26 DEF StopAcquire
  <2>27. CASE StopEnd
    BY <2>27 DEF StopEnd, SetState
  <2>28. CASE StopDone
    BY <2>28 DEF StopDone, ShutdownTo
  <2>29. ASSUME NEW s \in Services, StopBegin(s) PROVE TypeInv'
    BY <2>29 DEF StopBegin, SetState, StopTarget
  <2>30. CASE UNCHANGED vars
    BY <2>30 DEF vars
  <2>31. QED
    BY <2>1, <2>2, <2>3, <2>4, <2>5, <2>6, <2>7, <2>8, <2>9, <2>10, <2>11, <2>12, <2>13, <2>14,
       <2>15, <2>16, <2>17, <2>18, <2>19, <2>20, <2>21, <2>22, <2>23, <2>24, <2>25, <2>26, <2>27,
       <2>28, <2>29, <2>30 DEF Next, Request, StopServices
<1>3. QED
  BY <1>1, <1>2, PTL DEF Spec

\* A container is added by the one request that holds the load lock of the service,
\* which stays in the table until the container is there: ContainerInv is inductive.
LEMMA ContainerInvHolds == Spec => []ContainerInv
<1> USE NoneAssumption
<1>1. Init => ContainerInv
  BY DEF Init, ContainerInv, ContainersAdded, LoadLocksKept, Loading, OneContainer
<1>2. TypeInv /\ TypeInv' /\ ContainerInv /\ [Next]_vars => ContainerInv'
  <2> SUFFICES ASSUME TypeInv, TypeInv', ContainerInv, [Next]_vars PROVE ContainerInv'
    OBVIOUS
  <2> USE DEF TypeInv, TypeOK, RequestsHaveService, States, ContainerInv, ContainersAdded,
              LoadLocksKept, Loading, OneContainer, managerVars, loaderVars, requestVars,
              stopVars, runtimeVars
  <2>1. CASE Alone(Main)
    BY <2>1 DEF Alone, Main
  <2>2. CASE Alone(Exit)
    BY <2>2 DEF Alone, Exit
  <2>3. CASE Alone(FinishShutdown)
    BY <2>3 DEF Alone, FinishShutdown
  <2>4. ASSUME NEW r \in Requests, NEW s \in Services, Arrive(r, s) PROVE ContainerInv'
    BY <2>4 DEF Arrive, Goto
  <2>5. ASSUME NEW r \in Requests, LookUp(r) PROVE ContainerInv'
    BY <2>5 DEF LookUp, Goto
  <2>6. ASSUME NEW r \in Requests, GetContainer(r) PROVE ContainerInv'
    BY <2>6 DEF GetContainer, Goto
  <2>7. ASSUME NEW r \in Requests, GetLoadLock(r) PROVE ContainerInv'
    BY <2>7 DEF GetLoadLock, Goto
  <2>8. ASSUME NEW r \in Requests, AcquireLoadLock(r) PROVE ContainerInv'
    <3>1. CASE LoadedMeanwhile(svc[r])
      BY <2>8, <3>1 DEF AcquireLoadLock, Goto, LoadedMeanwhile
    <3>2. CASE ~LoadedMeanwhile(svc[r])
      <4>1. \A q \in Requests : Loading(q) => svc[q] # svc[r]
        <5>1. pc[r] = "loadlock" /\ state[svc[r]] = None /\ <<svc[r], lock[r]>> \notin locked
          BY <2>8, <3>2 DEF AcquireLoadLock, LoadedMeanwhile
        <5>2. lock[r] = loadLock[svc[r]]
          BY <5>1
        <5>3. ASSUME NEW q \in Requests, Loading(q), svc[q] = svc[r] PROVE FALSE
          <6>1. lock[q] = loadLock[svc[q]] /\ <<svc[q], lock[q]>> \in locked
            BY <5>3
          <6>2. QED
            BY <5>1, <5>2, <5>3, <6>1
        <5>4. QED
          BY <5>3
      <4>2. /\ pc' = [pc EXCEPT ![r] = "load"] /\ locked' = locked \cup {<<svc[r], lock[r]>>}
            /\ UNCHANGED <<state, adds, svc, lock, loadLock, checking, todo, current>>
        BY <2>8, <3>2 DEF AcquireLoadLock, Goto, LoadedMeanwhile
      <4>3. pc[r] = "loadlock" /\ state[svc[r]] = None /\ svc[r] \in Services
        BY <2>8, <3>2 DEF AcquireLoadLock, Goto, LoadedMeanwhile
      <4>4. ContainersAdded' /\ OneContainer'
        BY <4>2, <4>3
      <4>5. ASSUME NEW q \in Requests
            PROVE  /\ pc'[q] \in {"loadlock", "load", "add"} /\ state'[svc'[q]] = None
                        => lock'[q] # 0 /\ lock'[q] = loadLock'[svc'[q]]
                   /\ Loading(q)' => state'[svc'[q]] = None /\ <<svc'[q], lock'[q]>> \in locked'
        BY <4>2, <4>3
      <4>6. ASSUME NEW p \in Requests, NEW q \in Requests, Loading(p)', Loading(q)', svc'[p] = svc'[q]
            PROVE  p = q
        BY <4>1, <4>2, <4>6
      <4>7. QED
        BY <4>4, <4>5, <4>6
    <3>3. QED
      BY <3>1, <3>2
  <2>9. ASSUME NEW r \in Requests, LoadPlugin(r) PROVE ContainerInv'
    BY <2>9 DEF LoadPlugin, Goto
  <2>10. ASSUME NEW r \in Requests, AddService(r) PROVE ContainerInv'
    <3>1. /\ pc[r] = "add" /\ state[svc[r]] = None /\ svc[r] \in Services
          /\ \A q \in Requests : Loading(q) /\ svc[q] = svc[r] => q = r
      BY <2>10 DEF AddService
    <3>2. ContainersAdded'
      BY <2>10, <3>1 DEF AddService, Goto, SetState, Added, MutexFree
    <3>3. LoadLocksKept'
      <4>1. /\ pc' = [pc EXCEPT ![r] = "forget"] /\ state' = [state EXCEPT ![svc[r]] = "available"]
            /\ UNCHANGED <<svc, lock, loadLock, locked>>
        BY <2>10 DEF AddService, Goto, SetState, Added, MutexFree
      <4>2. QED
        BY <3>1, <4>1
    <3>4. OneContainer'
      BY <2>10, <3>1 DEF AddService, Goto, SetState, Added, MutexFree
    <3>5. QED
      BY <3>2, <3>3, <3>4
  <2>11. ASSUME NEW r \in Requests, ForgetLoadLock(r) PROVE ContainerInv'
    BY <2>11 DEF ForgetLoadLock, Goto
  <2>12. ASSUME NEW r \in Requests, AwaitStart(r) PROVE ContainerInv'
    BY <2>12 DEF AwaitStart, Goto
  <2>13. ASSUME NEW r \in Requests, AwaitStop(r) PROVE ContainerInv'
    BY <2>13 DEF AwaitStop, Goto
  <2>14. ASSUME NEW r \in Requests, Drain(r) PROVE ContainerInv'
    BY <2>14 DEF Drain, Goto
  <2>15. ASSUME NEW r \in Requests, Require(r) PROVE ContainerInv'
    BY <2>15 DEF Require, Goto, SetState, ContainerLockFree
  <2>16. ASSUME NEW r \in Requests, StartFails(r) PROVE ContainerInv'
    BY <2>16 DEF StartFails, Goto, SetState
  <2>17. ASSUME NEW r \in Requests, StartService(r) PROVE ContainerInv'
    BY <2>17 DEF StartService, Goto
  <2>18. ASSUME NEW r \in Requests, CheckStarted(r) PROVE ContainerInv'
    BY <2>18 DEF CheckStarted, Goto, SetState
  <2>19. ASSUME NEW r \in Requests, Attach(r) PROVE ContainerInv'
    BY <2>19 DEF Attach, Goto
  <2>20. ASSUME NEW r \in Requests, AddSkeleton(r) PROVE ContainerInv'
    BY <2>20 DEF AddSkeleton, Goto
  <2>21. ASSUME NEW r \in Requests, Route(r) PROVE ContainerInv'
    BY <2>21 DEF Route, Goto
  <2>22. ASSUME NEW s \in Services, CheckBegin(s) PROVE ContainerInv'
    BY <2>22 DEF CheckBegin
  <2>23. CASE CheckEnd
    BY <2>23 DEF CheckEnd, SetState
  <2>24. CASE HooksFail
    BY <2>24 DEF HooksFail, ShutdownTo
  <2>25. CASE StopList
    BY <2>25 DEF StopList
  <2>26. CASE StopAcquire
    BY <2>26 DEF StopAcquire
  <2>27. CASE StopEnd
    BY <2>27 DEF StopEnd, SetState
  <2>28. CASE StopDone
    BY <2>28 DEF StopDone, ShutdownTo
  <2>29. ASSUME NEW s \in Services, StopBegin(s) PROVE ContainerInv'
    BY <2>29 DEF StopBegin, SetState, StopTarget
  <2>30. CASE UNCHANGED vars
    BY <2>30 DEF vars
  <2>31. QED
    BY <2>1, <2>2, <2>3, <2>4, <2>5, <2>6, <2>7, <2>8, <2>9, <2>10, <2>11, <2>12, <2>13, <2>14,
       <2>15, <2>16, <2>17, <2>18, <2>19, <2>20, <2>21, <2>22, <2>23, <2>24, <2>25, <2>26, <2>27,
       <2>28, <2>29, <2>30 DEF Next, Request, StopServices
<1>3. QED
  BY <1>1, <1>2, TypeInvHolds, PTL DEF Spec

\* The lock of a container is held from the decision to start its service until the
\* start has succeeded or failed.
LEMMA StartersLockHolds == Spec => []StartersLock
<1> USE NoneAssumption
<1>1. Init => StartersLock
  BY DEF Init, StartersLock
<1>2. TypeInv /\ TypeInv' /\ StartersLock /\ [Next]_vars => StartersLock'
  <2> SUFFICES ASSUME TypeInv, TypeInv', StartersLock, [Next]_vars PROVE StartersLock'
    OBVIOUS
  <2> USE DEF TypeInv, TypeOK, RequestsHaveService, StartersLock, managerVars, loaderVars,
     requestVars, stopVars, runtimeVars
  <2>1. CASE Alone(Main)
    BY <2>1 DEF Alone, Main
  <2>2. CASE Alone(Exit)
    BY <2>2 DEF Alone, Exit
  <2>3. CASE Alone(FinishShutdown)
    BY <2>3 DEF Alone, FinishShutdown
  <2>4. ASSUME NEW r \in Requests, NEW s \in Services, Arrive(r, s) PROVE StartersLock'
    BY <2>4 DEF Arrive, Goto
  <2>5. ASSUME NEW r \in Requests, LookUp(r) PROVE StartersLock'
    BY <2>5 DEF LookUp, Goto
  <2>6. ASSUME NEW r \in Requests, GetContainer(r) PROVE StartersLock'
    BY <2>6 DEF GetContainer, Goto
  <2>7. ASSUME NEW r \in Requests, GetLoadLock(r) PROVE StartersLock'
    BY <2>7 DEF GetLoadLock, Goto
  <2>8. ASSUME NEW r \in Requests, AcquireLoadLock(r) PROVE StartersLock'
    BY <2>8 DEF AcquireLoadLock, Goto, LoadedMeanwhile
  <2>9. ASSUME NEW r \in Requests, LoadPlugin(r) PROVE StartersLock'
    BY <2>9 DEF LoadPlugin, Goto
  <2>10. ASSUME NEW r \in Requests, AddService(r) PROVE StartersLock'
    BY <2>10 DEF AddService, Goto, SetState, Added, MutexFree
  <2>11. ASSUME NEW r \in Requests, ForgetLoadLock(r) PROVE StartersLock'
    BY <2>11 DEF ForgetLoadLock, Goto
  <2>12. ASSUME NEW r \in Requests, AwaitStart(r) PROVE StartersLock'
    BY <2>12 DEF AwaitStart, Goto
  <2>13. ASSUME NEW r \in Requests, AwaitStop(r) PROVE StartersLock'
    BY <2>13 DEF AwaitStop, Goto
  <2>14. ASSUME NEW r \in Requests, Drain(r) PROVE StartersLock'
    BY <2>14 DEF Drain, Goto
  <2>15. ASSUME NEW r \in Requests, Require(r) PROVE StartersLock'
    BY <2>15 DEF Require, Goto, SetState, ContainerLockFree
  <2>16. ASSUME NEW r \in Requests, StartFails(r) PROVE StartersLock'
    BY <2>16 DEF StartFails, Goto, SetState
  <2>17. ASSUME NEW r \in Requests, StartService(r) PROVE StartersLock'
    BY <2>17 DEF StartService, Goto
  <2>18. ASSUME NEW r \in Requests, CheckStarted(r) PROVE StartersLock'
    BY <2>18 DEF CheckStarted, Goto, SetState
  <2>19. ASSUME NEW r \in Requests, Attach(r) PROVE StartersLock'
    BY <2>19 DEF Attach, Goto
  <2>20. ASSUME NEW r \in Requests, AddSkeleton(r) PROVE StartersLock'
    BY <2>20 DEF AddSkeleton, Goto
  <2>21. ASSUME NEW r \in Requests, Route(r) PROVE StartersLock'
    BY <2>21 DEF Route, Goto
  <2>22. ASSUME NEW s \in Services, CheckBegin(s) PROVE StartersLock'
    BY <2>22 DEF CheckBegin
  <2>23. CASE CheckEnd
    BY <2>23 DEF CheckEnd, SetState
  <2>24. CASE HooksFail
    BY <2>24 DEF HooksFail, ShutdownTo
  <2>25. CASE StopList
    BY <2>25 DEF StopList
  <2>26. CASE StopAcquire
    BY <2>26 DEF StopAcquire
  <2>27. CASE StopEnd
    BY <2>27 DEF StopEnd, SetState
  <2>28. CASE StopDone
    BY <2>28 DEF StopDone, ShutdownTo
  <2>29. ASSUME NEW s \in Services, StopBegin(s) PROVE StartersLock'
    BY <2>29 DEF StopBegin, SetState, StopTarget
  <2>30. CASE UNCHANGED vars
    BY <2>30 DEF vars
  <2>31. QED
    BY <2>1, <2>2, <2>3, <2>4, <2>5, <2>6, <2>7, <2>8, <2>9, <2>10, <2>11, <2>12, <2>13, <2>14,
       <2>15, <2>16, <2>17, <2>18, <2>19, <2>20, <2>21, <2>22, <2>23, <2>24, <2>25, <2>26, <2>27,
       <2>28, <2>29, <2>30 DEF Next, Request, StopServices
<1>3. QED
  BY <1>1, <1>2, TypeInvHolds, PTL DEF Spec

\* What the shutdown has listed does not leave its sight: ListedAccounted is inductive
\* relative to the invariants about containers.
LEMMA ListedAccountedHolds == Spec => []ListedAccounted
<1> USE NoneAssumption
<1>1. Init => ListedAccounted
  BY DEF Init, ListedAccounted
<1>2. TypeInv /\ TypeInv' /\ ContainerInv /\ ListedAccounted /\ [Next]_vars => ListedAccounted'
  <2> SUFFICES ASSUME TypeInv, TypeInv', ContainerInv, ListedAccounted, [Next]_vars
               PROVE ListedAccounted'
    OBVIOUS
  <2> USE DEF TypeInv, TypeOK, RequestsHaveService, States, ContainerInv, ContainersAdded,
              LoadLocksKept, Loading, ListedAccounted, managerVars, loaderVars, requestVars,
              stopVars, runtimeVars
  <2>1. CASE Alone(Main)
    BY <2>1 DEF Alone, Main
  <2>2. CASE Alone(Exit)
    BY <2>2 DEF Alone, Exit
  <2>3. CASE Alone(FinishShutdown)
    BY <2>3 DEF Alone, FinishShutdown
  <2>4. ASSUME NEW r \in Requests, NEW s \in Services, Arrive(r, s) PROVE ListedAccounted'
    BY <2>4 DEF Arrive, Goto
  <2>5. ASSUME NEW r \in Requests, LookUp(r) PROVE ListedAccounted'
    BY <2>5 DEF LookUp, Goto
  <2>6. ASSUME NEW r \in Requests, GetContainer(r) PROVE ListedAccounted'
    BY <2>6 DEF GetContainer, Goto
  <2>7. ASSUME NEW r \in Requests, GetLoadLock(r) PROVE ListedAccounted'
    BY <2>7 DEF GetLoadLock, Goto
  <2>8. ASSUME NEW r \in Requests, AcquireLoadLock(r) PROVE ListedAccounted'
    BY <2>8 DEF AcquireLoadLock, Goto, LoadedMeanwhile
  <2>9. ASSUME NEW r \in Requests, LoadPlugin(r) PROVE ListedAccounted'
    BY <2>9 DEF LoadPlugin, Goto
  <2>10. ASSUME NEW r \in Requests, AddService(r) PROVE ListedAccounted'
    <3>1. state[svc[r]] = None /\ svc[r] \in Services
      BY <2>10 DEF AddService
    <3>2. QED
      BY <2>10, <3>1 DEF AddService, Goto, SetState, Added, MutexFree
  <2>11. ASSUME NEW r \in Requests, ForgetLoadLock(r) PROVE ListedAccounted'
    BY <2>11 DEF ForgetLoadLock, Goto
  <2>12. ASSUME NEW r \in Requests, AwaitStart(r) PROVE ListedAccounted'
    BY <2>12 DEF AwaitStart, Goto
  <2>13. ASSUME NEW r \in Requests, AwaitStop(r) PROVE ListedAccounted'
    BY <2>13 DEF AwaitStop, Goto
  <2>14. ASSUME NEW r \in Requests, Drain(r) PROVE ListedAccounted'
    BY <2>14 DEF Drain, Goto
  <2>15. ASSUME NEW r \in Requests, Require(r) PROVE ListedAccounted'
    BY <2>15 DEF Require, Goto, SetState, ContainerLockFree
  <2>16. ASSUME NEW r \in Requests, StartFails(r) PROVE ListedAccounted'
    BY <2>16 DEF StartFails, Goto, SetState
  <2>17. ASSUME NEW r \in Requests, StartService(r) PROVE ListedAccounted'
    BY <2>17 DEF StartService, Goto
  <2>18. ASSUME NEW r \in Requests, CheckStarted(r) PROVE ListedAccounted'
    BY <2>18 DEF CheckStarted, Goto, SetState
  <2>19. ASSUME NEW r \in Requests, Attach(r) PROVE ListedAccounted'
    BY <2>19 DEF Attach, Goto
  <2>20. ASSUME NEW r \in Requests, AddSkeleton(r) PROVE ListedAccounted'
    BY <2>20 DEF AddSkeleton, Goto
  <2>21. ASSUME NEW r \in Requests, Route(r) PROVE ListedAccounted'
    BY <2>21 DEF Route, Goto
  <2>22. ASSUME NEW s \in Services, CheckBegin(s) PROVE ListedAccounted'
    BY <2>22 DEF CheckBegin
  <2>23. CASE CheckEnd
    BY <2>23 DEF CheckEnd, SetState
  <2>24. CASE HooksFail
    BY <2>24 DEF HooksFail, ShutdownTo
  <2>25. CASE StopList
    BY <2>25 DEF StopList
  <2>26. CASE StopAcquire
    BY <2>26 DEF StopAcquire
  <2>27. CASE StopEnd
    BY <2>27 DEF StopEnd, SetState
  <2>28. CASE StopDone
    BY <2>28 DEF StopDone, ShutdownTo
  <2>29. ASSUME NEW s \in Services, StopBegin(s) PROVE ListedAccounted'
    BY <2>29 DEF StopBegin, SetState, StopTarget
  <2>30. CASE UNCHANGED vars
    BY <2>30 DEF vars
  <2>31. QED
    BY <2>1, <2>2, <2>3, <2>4, <2>5, <2>6, <2>7, <2>8, <2>9, <2>10, <2>11, <2>12, <2>13, <2>14,
       <2>15, <2>16, <2>17, <2>18, <2>19, <2>20, <2>21, <2>22, <2>23, <2>24, <2>25, <2>26, <2>27,
       <2>28, <2>29, <2>30 DEF Next, Request, StopServices
<1>3. QED
  BY <1>1, <1>2, TypeInvHolds, ContainerInvHolds, PTL DEF Spec

-----------------------------------------------------------------------------

\* The manager, the loader, the requests and the shutdown keep the shape of their
\* state.
THEOREM TypesHold == Spec => []TypeOK
BY TypeInvHolds, PTL DEF TypeInv

\* get_service_container makes one container for a service, for any number of
\* requests: the check under the load lock is enough although the lock is forgotten
\* and made anew.
THEOREM SingleContainer == Spec => []OneContainer
BY ContainerInvHolds, PTL DEF ContainerInv

\* The lock of a container keeps the starts of its service apart, whatever states
\* the health check and the shutdown set without it.
THEOREM ExclusiveStarts == Spec => []StartsExclusive
<1>1. TypeInv /\ StartersLock => StartsExclusive
  <2> SUFFICES ASSUME TypeInv, StartersLock, NEW s \in Services
               PROVE  Cardinality({r \in Requests : svc[r] = s /\ pc[r] \in {"starting", "checking"}}) <= 1
    BY DEF StartsExclusive
  <2> DEFINE S == {r \in Requests : svc[r] = s /\ pc[r] \in {"starting", "checking"}}
  <2>1. S \subseteq {starter[s]}
    BY DEF StartersLock
  <2>2. IsFiniteSet({starter[s]}) /\ Cardinality({starter[s]}) = 1
    BY FS_Singleton
  <2>3. Cardinality(S) <= Cardinality({starter[s]})
    BY <2>1, <2>2, FS_Subset
  <2>4. QED
    BY <2>2, <2>3
<1>2. QED
  BY <1>1, TypeInvHolds, StartersLockHolds, PTL

\* stop_all_services reaches every service that was up when it listed them, or an
\* error of that service is on record: no start, health check or load makes one
\* that was listed slip through.
THEOREM AllStopped == Spec => []StopsAll
<1>1. ListedAccounted => StopsAll
  BY DEF ListedAccounted, StopsAll
<1>2. QED
  BY <1>1, ListedAccountedHolds, PTL
=============================================================================

----------------------------- MODULE ServiceManager -----------------------------
(***************************************************************************)
(* Lazy loading of services: the handler ServiceLoader that every request  *)
(* passes (aws/handlers/service_plugin.py), the ServicePluginManager with  *)
(* its containers (services/plugins.py), the health check that may change  *)
(* their states, and the shutdown hook that stops them, while the runtime  *)
(* starts and shuts down (LocalstackRuntime).                              *)
(*                                                                         *)
(* Four locks are involved: the load lock of a service, which is forgotten *)
(* once the service is loaded; the mutex of the manager, held while        *)
(* services are added and all the while they are stopped; the lock of a    *)
(* container, held while its service starts but not while it is stopped or *)
(* checked; and the lock of the loader.                                    *)
(***************************************************************************)
EXTENDS LocalstackRuntime, Integers, FiniteSets

CONSTANTS
    Services,
    Requests,  \* the request threads
    Internal,  \* those that serve internal calls
    Fallible,  \* services with start, check and stop functions, which may raise
    None

ASSUME ThreadsAssumption == Internal \subseteq Requests /\ Fallible \subseteq Services

States == {"available", "starting", "running", "stopping", "stopped", "error"}

ASSUME NoneAssumption == None \notin States \cup Services \cup Requests

VARIABLES
    \* ServicePluginManager
    state,      \* the state of a service's container, None without a container
    errors,     \* services whose container has recorded an error
    loadLock,   \* number of the load lock of a service, 0 for none
    locksMade,  \* load locks made for a service
    locked,     \* load locks that are held
    starter,    \* the request that holds the lock of a container
    \* ServiceLoader and ServiceRequestRouter
    loaded_services,
    routes,     \* services whose operations have handlers
    \* requests
    pc, svc,
    lock,       \* the load lock a request has got hold of
    \* the health check with reload
    checking,
    \* stop_all_services
    stopper, todo, current,
    \* what has happened
    adds,       \* containers made for a service
    listed,     \* services that were up when the shutdown listed them
    stops       \* services whose stop() was called

managerVars == <<state, errors, loadLock, locksMade, locked, starter>>
loaderVars  == <<loaded_services, routes>>
requestVars == <<pc, svc, lock>>
stopVars    == <<stopper, todo, current, listed, stops>>

vars == <<runtimeVars, managerVars, loaderVars, requestVars, checking, stopVars, adds>>

Ended == {"served", "unrouted", "failed", "refused"}

\* The shape of the state, as the classes declare it.
TypeOK ==
    /\ RuntimeTypeOK
    /\ state \in [Services -> States \cup {None}]
    /\ errors \subseteq Services
    /\ loadLock \in [Services -> Nat] /\ locksMade \in [Services -> Nat]
    /\ locked \subseteq Services \X Nat
    /\ starter \in [Services -> Requests \cup {None}]
    /\ loaded_services \subseteq Services /\ routes \subseteq Services
    /\ pc \in [Requests -> {"idle", "loader", "container", "getlock", "loadlock", "load", "add",
                            "forget", "require", "settle", "drain", "lock", "starting",
                            "checking", "attach", "skeleton", "route"} \cup Ended]
    /\ svc \in [Requests -> Services \cup {None}]
    /\ lock \in [Requests -> Nat]
    /\ checking \in Services \cup {None}
    /\ stopper \in {"list", "mutex", "loop", "done"}
    /\ todo \subseteq Services /\ current \in Services \cup {None}
    /\ listed \subseteq Services /\ stops \subseteq Services
    /\ adds \in [Services -> Nat]

Init ==
    /\ RuntimeInit
    /\ state = [s \in Services |-> None]
    /\ errors = {}
    /\ loadLock = [s \in Services |-> 0] /\ locksMade = [s \in Services |-> 0]
    /\ locked = {}
    /\ starter = [s \in Services |-> None]
    /\ loaded_services = {} /\ routes = {}
    /\ pc = [r \in Requests |-> "idle"]
    /\ svc = [r \in Requests |-> None]
    /\ lock = [r \in Requests |-> 0]
    /\ checking = None
    /\ stopper = "list" /\ todo = {} /\ current = None /\ listed = {} /\ stops = {}
    /\ adds = [s \in Services |-> 0]

\* stop_all_services holds the mutex of the manager until all services are stopped.
MutexFree == stopper # "loop"

Goto(r, label) == pc' = [pc EXCEPT ![r] = label]

SetState(s, st) == state' = [state EXCEPT ![s] = st]

-----------------------------------------------------------------------------
(* A request: the handlers up to the loader *)

\* RuntimeShutdownHandler: once the runtime stops only internal calls get in.
Arrive(r, s) ==
    /\ pc[r] = "idle" /\ server = "running"
    /\ svc' = [svc EXCEPT ![r] = s]
    /\ Goto(r, IF stopping /\ r \notin Internal THEN "refused" ELSE "loader")
    /\ UNCHANGED <<runtimeVars, managerVars, loaderVars, lock, checking, stopVars, adds>>

\* require_service: a service that was loaded before is not looked at again.
LookUp(r) ==
    /\ pc[r] = "loader"
    /\ Goto(r, IF svc[r] \in loaded_services THEN "route" ELSE "container")
    /\ UNCHANGED <<runtimeVars, managerVars, loaderVars, svc, lock, checking, stopVars, adds>>

-----------------------------------------------------------------------------
(* get_service_container *)

GetContainer(r) ==
    /\ pc[r] = "container"
    /\ Goto(r, IF state[svc[r]] # None THEN "require" ELSE "getlock")
    /\ UNCHANGED <<runtimeVars, managerVars, loaderVars, svc, lock, checking, stopVars, adds>>

\* self._plugin_load_locks[name]: a new lock when there is none, or none any more.
GetLoadLock(r) ==
    LET s == svc[r]
        n == IF loadLock[s] = 0 THEN locksMade[s] + 1 ELSE loadLock[s]
    IN  /\ pc[r] = "getlock"
        /\ loadLock' = [loadLock EXCEPT ![s] = n]
        /\ locksMade' = [locksMade EXCEPT ![s] = IF n > @ THEN n ELSE @]
        /\ lock' = [lock EXCEPT ![r] = n]
        /\ Goto(r, "loadlock")
        /\ UNCHANGED <<runtimeVars, state, errors, locked, starter, loaderVars, svc, checking,
                       stopVars, adds>>

\* Mutant of LoadedMeanwhile: the container is not looked up again.
LoadedMeanwhileNot(s) == FALSE

\* "check once again to avoid race conditions"
LoadedMeanwhile(s) == state[s] # None

AcquireLoadLock(r) ==
    LET s == svc[r] IN
    /\ pc[r] = "loadlock" /\ <<s, lock[r]>> \notin locked
    /\ IF LoadedMeanwhile(s)
       THEN Goto(r, "require") /\ UNCHANGED locked
       ELSE Goto(r, "load") /\ locked' = locked \cup {<<s, lock[r]>>}
    /\ UNCHANGED <<runtimeVars, state, errors, loadLock, locksMade, starter, loaderVars, svc,
                   lock, checking, stopVars, adds>>

\* _load_service_plugin returns the plugin, or raises and leaves the lock behind.
LoadPlugin(r) ==
    /\ pc[r] = "load"
    /\ \/ Goto(r, "add") /\ UNCHANGED locked
       \/ Goto(r, "failed") /\ locked' = locked \ {<<svc[r], lock[r]>>}
    /\ UNCHANGED <<runtimeVars, state, errors, loadLock, locksMade, starter, loaderVars, svc,
                   lock, checking, stopVars, adds>>

\* Mutant of Added: the default state of a ServiceContainer.
AddedUnknown == "unknown"

\* ServiceState.AVAILABLE: a request for a service that is not enabled does not
\* get here.
Added == "available"

\* add_service, under the mutex of the manager.
AddService(r) ==
    LET s == svc[r] IN
    /\ pc[r] = "add" /\ MutexFree
    /\ SetState(s, Added)
    /\ adds' = [adds EXCEPT ![s] = @ + 1]
    /\ Goto(r, "forget")
    /\ UNCHANGED <<runtimeVars, errors, loadLock, locksMade, locked, starter, loaderVars, svc,
                   lock, checking, stopVars>>

\* "we only needed the service lock once"; then the lock is released.
ForgetLoadLock(r) ==
    LET s == svc[r] IN
    /\ pc[r] = "forget"
    /\ loadLock' = [loadLock EXCEPT ![s] = 0]
    /\ locked' = locked \ {<<s, lock[r]>>}
    /\ Goto(r, "require")
    /\ UNCHANGED <<runtimeVars, state, errors, locksMade, starter, loaderVars, svc, lock,
                   checking, stopVars, adds>>

-----------------------------------------------------------------------------
(* require *)

\* A service that is starting is waited for, for 30 seconds at most.
AwaitStart(r) ==
    /\ pc[r] = "require"
    /\ Goto(r, IF state[svc[r]] = "starting" THEN "failed" ELSE "settle")
    /\ UNCHANGED <<runtimeVars, managerVars, loaderVars, svc, lock, checking, stopVars, adds>>

\* One that is being stopped is waited for ...
AwaitStop(r) ==
    /\ pc[r] = "settle"
    /\ Goto(r, IF state[svc[r]] = "stopping" THEN "drain" ELSE "lock")
    /\ UNCHANGED <<runtimeVars, managerVars, loaderVars, svc, lock, checking, stopVars, adds>>

\* Mutant of DrainOver: the wait has no time limit.
DrainOverStopped(r) == state[svc[r]] = "stopped"

\* The poll ends when it finds the state it waits for, or after 30 seconds.
DrainOver(r) == TRUE

\* ... until it is stopped, which never comes if stopping it fails.
Drain(r) ==
    /\ pc[r] = "drain" /\ DrainOver(r)
    /\ Goto(r, IF state[svc[r]] = "stopped" THEN "lock" ELSE "failed")
    /\ UNCHANGED <<runtimeVars, managerVars, loaderVars, svc, lock, checking, stopVars, adds>>

\* Mutant of ContainerLockFree: the container is not locked.
ContainerLockFreeAlways(s) == TRUE

\* with container.lock
ContainerLockFree(s) == starter[s] = None

\* Under the lock of the container, by its state: a running service is returned,
\* one that can be started is started, anything else raises.
Require(r) ==
    LET s == svc[r] IN
    /\ pc[r] = "lock" /\ ContainerLockFree(s)
    /\ \/ /\ state[s] = "running"
          /\ Goto(r, "attach")
          /\ UNCHANGED <<state, starter>>
       \/ /\ state[s] \in {"available", "stopped"}
          /\ SetState(s, "starting")
          /\ starter' = [starter EXCEPT ![s] = r]
          /\ Goto(r, "starting")
       \/ /\ state[s] \in {"error", "starting", "stopping"}
          /\ Goto(r, "failed")
          /\ UNCHANGED <<state, starter>>
    /\ UNCHANGED <<runtimeVars, errors, loadLock, locksMade, locked, loaderVars, svc, lock,
                   checking, stopVars, adds>>

\* An exception in start or check: the error is recorded and raised.
StartFails(r) ==
    LET s == svc[r] IN
    /\ pc[r] \in {"starting", "checking"} /\ s \in Fallible
    /\ SetState(s, "error")
    /\ errors' = errors \cup {s}
    /\ starter' = [starter EXCEPT ![s] = None]
    /\ Goto(r, "failed")
    /\ UNCHANGED <<runtimeVars, loadLock, locksMade, locked, loaderVars, svc, lock, checking,
                   stopVars, adds>>

\* service.start has returned.
StartService(r) ==
    /\ pc[r] = "starting"
    /\ Goto(r, "checking")
    /\ UNCHANGED <<runtimeVars, managerVars, loaderVars, svc, lock, checking, stopVars, adds>>

\* ServiceContainer.check sets RUNNING, whatever the state has become meanwhile.
CheckStarted(r) ==
    LET s == svc[r] IN
    /\ pc[r] = "checking"
    /\ SetState(s, "running")
    /\ starter' = [starter EXCEPT ![s] = None]
    /\ Goto(r, "attach")
    /\ UNCHANGED <<runtimeVars, errors, loadLock, locksMade, locked, loaderVars, svc, lock,
                   checking, stopVars, adds>>

-----------------------------------------------------------------------------
(* The loader's second half, and the router *)

\* The lock of the loader for a service is held while its skeleton is attached.
LoaderLockFree(s) == \A q \in Requests : ~(pc[q] = "skeleton" /\ svc[q] = s)

Attach(r) ==
    LET s == svc[r] IN
    /\ pc[r] = "attach" /\ LoaderLockFree(s)
    /\ loaded_services' = loaded_services \cup {s}
    /\ Goto(r, IF s \in loaded_services THEN "route" ELSE "skeleton")
    /\ UNCHANGED <<runtimeVars, managerVars, routes, svc, lock, checking, stopVars, adds>>

\* request_router.add_skeleton
AddSkeleton(r) ==
    /\ pc[r] = "skeleton"
    /\ routes' = routes \cup {svc[r]}
    /\ Goto(r, "route")
    /\ UNCHANGED <<runtimeVars, managerVars, loaded_services, svc, lock, checking, stopVars,
                   adds>>

\* ServiceRequestRouter: the handler of the operation, or a 501.
Route(r) ==
    /\ pc[r] = "route"
    /\ Goto(r, IF svc[r] \in routes THEN "served" ELSE "unrouted")
    /\ UNCHANGED <<runtimeVars, managerVars, loaderVars, svc, lock, checking, stopVars, adds>>

Request(r) ==
    \/ LookUp(r) \/ GetContainer(r) \/ GetLoadLock(r) \/ AcquireLoadLock(r) \/ LoadPlugin(r)
    \/ AddService(r) \/ ForgetLoadLock(r) \/ AwaitStart(r) \/ AwaitStop(r) \/ Drain(r) \/ Require(r)
    \/ StartFails(r) \/ StartService(r) \/ CheckStarted(r) \/ Attach(r) \/ AddSkeleton(r)
    \/ Route(r)

-----------------------------------------------------------------------------
(* GET /_localstack/health?reload: check_all, without any lock *)

CheckBegin(s) ==
    /\ checking = None /\ server = "running"
    /\ state[s] \in {"running", "error"}
    /\ checking' = s
    /\ UNCHANGED <<runtimeVars, managerVars, loaderVars, requestVars, stopVars, adds>>

CheckEnd ==
    LET s == checking IN
    /\ s # None
    /\ checking' = None
    /\ \/ SetState(s, "running") /\ UNCHANGED errors
       \/ s \in Fallible /\ SetState(s, "error") /\ errors' = errors \cup {s}
    /\ UNCHANGED <<runtimeVars, loadLock, locksMade, locked, starter, loaderVars, requestVars,
                   stopVars, adds>>

-----------------------------------------------------------------------------
(* The shutdown hooks: stop_all_services *)

ShutdownTo(label) ==
    /\ shutdown' = label
    /\ UNCHANGED <<main, server, stopping, stopped>>

\* A hook that runs before shutdown_services raises, and the others are skipped.
HooksFail ==
    /\ shutdown = "hooks" /\ stopper = "list"
    /\ ShutdownTo("server")
    /\ stopper' = "done"
    /\ UNCHANGED <<managerVars, loaderVars, requestVars, checking, todo, current, listed, stops,
                   adds>>

\* The containers there are, collected without the mutex.
StopList ==
    /\ shutdown = "hooks" /\ stopper = "list"
    /\ stopper' = "mutex"
    /\ todo' = {s \in Services : state[s] # None}
    /\ listed' = {s \in Services : state[s] \in {"starting", "running"}}
    /\ UNCHANGED <<runtimeVars, managerVars, loaderVars, requestVars, checking, current, stops,
                   adds>>

StopAcquire ==
    /\ stopper = "mutex"
    /\ stopper' = "loop"
    /\ UNCHANGED <<runtimeVars, managerVars, loaderVars, requestVars, checking, todo, current,
                   listed, stops, adds>>

\* Mutant of StopTarget: a service that is starting is not stopped.
StopTargetRunning(s) == state[s] = "running"

\* target_service_states
StopTarget(s) == state[s] \in {"starting", "running"}

StopBegin(s) ==
    /\ stopper = "loop" /\ s \in todo /\ current = None
    /\ \/ /\ StopTarget(s)
          /\ SetState(s, "stopping")
          /\ current' = s
          /\ stops' = stops \cup {s}
          /\ UNCHANGED todo
       \/ /\ ~StopTarget(s)
          /\ todo' = todo \ {s}
          /\ UNCHANGED <<state, current, stops>>
    /\ UNCHANGED <<runtimeVars, errors, loadLock, locksMade, locked, starter, loaderVars,
                   requestVars, checking, stopper, listed, adds>>

\* service.stop has returned or raised.
StopEnd ==
    LET s == current IN
    /\ s # None
    /\ \/ SetState(s, "stopped") /\ UNCHANGED errors
       \/ s \in Fallible /\ SetState(s, "error") /\ errors' = errors \cup {s}
    /\ current' = None
    /\ todo' = todo \ {s}
    /\ UNCHANGED <<runtimeVars, loadLock, locksMade, locked, starter, loaderVars, requestVars,
                   checking, stopper, listed, stops, adds>>

\* The mutex is given back and the shutdown goes on.
StopDone ==
    /\ stopper = "loop" /\ todo = {}
    /\ stopper' = "done"
    /\ ShutdownTo("server")
    /\ UNCHANGED <<managerVars, loaderVars, requestVars, checking, todo, current, listed, stops,
                   adds>>

StopServices ==
    \/ HooksFail \/ StopList \/ StopAcquire \/ StopEnd \/ StopDone
    \/ \E s \in Services : StopBegin(s)

-----------------------------------------------------------------------------

\* A step of the runtime alone.
Alone(step) ==
    step /\ UNCHANGED <<managerVars, loaderVars, requestVars, checking, stopVars, adds>>

Next ==
    \/ Alone(Main) \/ Alone(Exit) \/ Alone(FinishShutdown)
    \/ \E r \in Requests : Request(r) \/ \E s \in Services : Arrive(r, s)
    \/ \E s \in Services : CheckBegin(s)
    \/ CheckEnd
    \/ StopServices

Spec == Init /\ [][Next]_vars

\* Threads run, polls time out, and hooks return.  Nobody has to send a request
\* or a signal.
Fairness ==
    /\ \A r \in Requests : WF_vars(Request(r))
    /\ WF_vars(CheckEnd)
    /\ WF_vars(StopServices)
    /\ WF_vars(Alone(Main)) /\ WF_vars(Alone(FinishShutdown))

FairSpec == Spec /\ Fairness

-----------------------------------------------------------------------------
(* Properties *)

\* A service gets one container, however many requests find it missing at the
\* same time, load locks are forgotten and made anew, and loading fails.
OneContainer == \A s \in Services : adds[s] <= 1

\* Two start() of a service never overlap, also when the service is stopped, or
\* set running by a health check, while it starts.
StartsExclusive ==
    \A s \in Services :
        Cardinality({r \in Requests : svc[r] = s /\ pc[r] \in {"starting", "checking"}}) <= 1

\* stop_all_services calls stop() of every service that was running or starting when it
\* listed them, unless something went wrong with the service.  A hook that raises before
\* stop_all_services leaves the list empty and all services up.
StopsAll == stopper = "done" => listed \subseteq stops \cup errors

\* Every request ends: none waits for ever for a lock or for a state, whatever
\* fails and whatever the shutdown does.
RequestsEnd == \A r \in Requests : (pc[r] # "idle") ~> (pc[r] \in Ended)

\* A shutdown of a runtime that is serving ends.
ShutdownEnds == (server = "running" /\ shutdown \in {"hooks", "server"}) ~> stopped

(* What the repository says of the code and the code does not keep *)

\* "once we know the service is loaded we can route the request": a request that
\* comes through the loader finds the operations of its service.
RoutedWhenLoaded == \A r \in Requests : pc[r] # "unrouted"

=============================================================================

-------------------------- MODULE LambdaVersionManager --------------------------
(***************************************************************************)
(* One Lambda function version: the invocations of LambdaVersionManager    *)
(* (services/lambda_/invocation/version_manager.py), the pool of execution *)
(* environments AssignmentService keeps for them (assignment.py), the life *)
(* of every ExecutionEnvironment (execution_environment.py), updates of    *)
(* the provisioned concurrency and the shutdown of the version.            *)
(*                                                                         *)
(* Every environment has a status and a lock for it; a step that holds the *)
(* lock is one action.  The threads are: one per invocation, one per start *)
(* of a provisioned environment, one per startup or keepalive timer that   *)
(* fires, one per environment being stopped, and one per update.  The pool *)
(* itself, a dict in insertion order, is used without a lock.              *)
(*                                                                         *)
(* Names: an on-demand environment is named by the invocation that starts  *)
(* it, a keepalive timer by the invocation that creates it, and a          *)
(* ProvisionedConcurrencyState object by the update that creates it, since *)
(* each of them creates at most one.                                       *)
(*                                                                         *)
(* Whether the account has on-demand concurrency left is CountingService's *)
(* business: here an on-demand lease is granted or refused.                *)
(***************************************************************************)
EXTENDS Integers, Sequences, FiniteSets, SequencesExt

CONSTANTS
    Invocations,  \* calls of LambdaVersionManager.invoke
    Updates,      \* changes of the provisioned concurrency configuration
    NewEnvs,      \* the environments each update creates
    None,         \* Python's None
    MaxStarting,  \* size of on_demand_start_semaphore
    Events        \* what may happen in this instance

ProvisionedEnvs == UNION {NewEnvs[u] : u \in Updates}

Envs == Invocations \cup ProvisionedEnvs

ASSUME NewEnvsAssumption ==
    /\ \A u \in Updates : IsFiniteSet(NewEnvs[u])
    /\ \A u, v \in Updates : u # v => NewEnvs[u] \cap NewEnvs[v] = {}
    /\ Invocations \cap ProvisionedEnvs = {}

ASSUME NamesAssumption ==
    /\ None \notin Envs \cup Updates
    /\ {"version", "keepalive"} \cap (Invocations \cup Updates) = {}

\* "on_demand": the account has concurrency left for on-demand leases;
\* "start_failure", "startup_timeout", "invocation_failure": containers fail to
\* start, do so too late, or fail an invocation; "shutdown": the version is stopped.
AllEvents == {"on_demand", "start_failure", "startup_timeout", "invocation_failure",
              "shutdown"}

ASSUME EventsAssumption == Events \subseteq AllEvents

ASSUME MaxStartingAssumption == MaxStarting \in Nat \ {0}

VARIABLES
    \* AssignmentService
    environments,       \* the registered environments, in the order of the dict
    stops,              \* threads that are stopping an environment
    \* ExecutionEnvironment
    status,             \* RuntimeStatus
    starter,            \* how far the thread in start() is
    startup_timer,      \* environments whose startup timer is ticking
    timing_out,         \* environments in timed_out, status set, not yet stopped
    keepalive_timer,    \* the latest keepalive timer of an environment
    armed, cancelled, fired, \* keepalive timers started, cancelled, run out
    \* RuntimeExecutor
    container,          \* the container of an environment
    startup_future,     \* what the container answered, if anything
    \* LambdaVersionManager.invoke
    pc, lease, seen, todo, env,
    unavailable,        \* invocations that found no environment despite a lease
    stolen,             \* invocations that could not reserve what they started
    \* provisioned concurrency
    config,             \* provisioned_concurrent_executions, 0 for no config
    concurrent_executions, \* provisioned leases given out
    provisioned_state, state_status, updater,
    \* the version: "running", "shutdown" (event set) or "stopped"
    version

poolVars   == <<environments, stops>>
envVars    == <<status, starter, startup_timer, timing_out>>
timerVars  == <<keepalive_timer, armed, cancelled, fired>>
execVars   == <<container, startup_future>>
invokeVars == <<pc, lease, seen, todo, env, unavailable, stolen>>
provVars   == <<config, concurrent_executions, provisioned_state, state_status, updater>>

vars == <<poolVars, envVars, timerVars, execVars, invokeVars, provVars, version>>

Init ==
    /\ environments = <<>> /\ stops = {}
    /\ status = [e \in Envs |-> "INACTIVE"]
    /\ starter = [e \in Envs |-> "none"]
    /\ startup_timer = {} /\ timing_out = {}
    /\ keepalive_timer = [e \in Envs |-> None]
    /\ armed = {} /\ cancelled = {} /\ fired = {}
    /\ container = [e \in Envs |-> "absent"]
    /\ startup_future = [e \in Envs |-> "pending"]
    /\ pc = [i \in Invocations |-> "new"]
    /\ lease = [i \in Invocations |-> "none"]
    /\ seen = [i \in Invocations |-> None]
    /\ todo = [i \in Invocations |-> <<>>]
    /\ env = [i \in Invocations |-> None]
    /\ unavailable = {} /\ stolen = {}
    /\ config = 0 /\ concurrent_executions = 0
    /\ provisioned_state = None
    /\ state_status = [u \in Updates |-> "IN_PROGRESS"]
    /\ updater = [u \in Updates |-> "new"]
    /\ version = "running"

\* InitializationType of an environment.
Kind(e) == IF e \in Invocations THEN "on_demand" ELSE "provisioned"

Goto(i, label) == pc' = [pc EXCEPT ![i] = label]

\* A thread in AssignmentService.stop_environment or keepalive_passed.
StopThread(e, by) == [env |-> e, by |-> by, stage |-> "begin"]

\* Mutant of Halt: the futures are not cancelled.
HaltKeepsFuture(e) ==
    /\ container' = [container EXCEPT ![e] = IF @ = "present" THEN "removed" ELSE @]
    /\ UNCHANGED startup_future

\* RuntimeExecutor.stop fails when there is no container, before it cancels the
\* futures; otherwise the container is removed and a pending start cancelled.
Halt(e) ==
    /\ container' = [container EXCEPT ![e] = IF @ = "present" THEN "removed" ELSE @]
    /\ startup_future' =
           [startup_future EXCEPT ![e] = IF container[e] = "present" /\ @ = "pending"
                                         THEN "failed" ELSE @]

-----------------------------------------------------------------------------
(* LambdaVersionManager.invoke: the lease *)

\* The shutdown event is checked, and the reference to the provisioned state is
\* read, before the lease is asked for.
Invoke(i) ==
    /\ pc[i] = "new"
    /\ IF version = "running"
       THEN Goto(i, "lease") /\ seen' = [seen EXCEPT ![i] = provisioned_state]
       ELSE Goto(i, "done") /\ UNCHANGED seen
    /\ UNCHANGED <<poolVars, envVars, timerVars, execVars, lease, todo, env, unavailable,
                   stolen, provVars, version>>

\* Free provisioned concurrency: configured, ready and not all leased.
ProvisionedFree(i) ==
    /\ config > 0
    /\ seen[i] # None
    /\ state_status[seen[i]] = "READY"
    /\ concurrent_executions < config

LeaseProvisioned(i) ==
    /\ pc[i] = "lease"
    /\ ProvisionedFree(i)
    /\ concurrent_executions' = concurrent_executions + 1
    /\ lease' = [lease EXCEPT ![i] = "provisioned"]
    /\ Goto(i, "assign")
    /\ UNCHANGED <<poolVars, envVars, timerVars, execVars, seen, todo, env, unavailable,
                   stolen, config, provisioned_state, state_status, updater, version>>

\* No provisioned lease: an on-demand one, or TooManyRequestsException.
LeaseOnDemand(i) ==
    /\ pc[i] = "lease"
    /\ ~ProvisionedFree(i)
    /\ config > 0 => seen[i] # None
    /\ \/ /\ "on_demand" \in Events
          /\ lease' = [lease EXCEPT ![i] = "on_demand"]
          /\ Goto(i, "assign")
       \/ Goto(i, "done") /\ UNCHANGED lease
    /\ UNCHANGED <<poolVars, envVars, timerVars, execVars, seen, todo, env, unavailable,
                   stolen, provVars, version>>

\* A configuration without a state: provisioned_state.status is an
\* AttributeError.
LeaseCrashes(i) ==
    /\ pc[i] = "lease"
    /\ config > 0 /\ seen[i] = None
    /\ Goto(i, "done")
    /\ UNCHANGED <<poolVars, envVars, timerVars, execVars, lease, seen, todo, env,
                   unavailable, stolen, provVars, version>>

-----------------------------------------------------------------------------
(* AssignmentService.get_environment *)

\* A snapshot of the dict.  That only the environments of the kind of the lease
\* count is looked at in the loop; the kind of an environment never changes.
Snapshot(i) ==
    /\ pc[i] = "assign"
    /\ todo' = [todo EXCEPT ![i] = environments]
    /\ Goto(i, "scan")
    /\ UNCHANGED <<poolVars, envVars, timerVars, execVars, lease, seen, env, unavailable,
                   stolen, provVars, version>>

\* Mutant of Reservable: a busy environment may be reserved.
ReservableBusy(e) == status[e] \in {"READY", "INVOKING"}

\* ExecutionEnvironment.reserve succeeds.
Reservable(e) == status[e] = "READY"

Reserve(i, e) ==
    /\ status' = [status EXCEPT ![e] = "INVOKING"]
    /\ env' = [env EXCEPT ![i] = e]
    /\ Goto(i, "reserved")

\* One turn of the loop over the snapshot, in the order of the dict.
TryReserve(i) ==
    LET e == Head(todo[i]) IN
    /\ pc[i] = "scan"
    /\ todo[i] # <<>>
    /\ \/ Kind(e) = lease[i] /\ Reservable(e) /\ Reserve(i, e) /\ UNCHANGED todo
       \/ /\ Kind(e) = lease[i] => ~Reservable(e)
          /\ todo' = [todo EXCEPT ![i] = Tail(@)]
          /\ UNCHANGED <<status, env, pc>>
    /\ UNCHANGED <<poolVars, starter, startup_timer, timing_out, timerVars, execVars, lease,
                   seen, unavailable, stolen, provVars, version>>

\* "No provisioned concurrency environment available despite lease."
NoneAvailable(i) ==
    /\ pc[i] = "scan"
    /\ todo[i] = <<>>
    /\ lease[i] = "provisioned"
    /\ unavailable' = unavailable \cup {i}
    /\ Goto(i, "return")
    /\ UNCHANGED <<poolVars, envVars, timerVars, execVars, lease, seen, todo, env, stolen,
                   provVars, version>>

\* start_environment, under the semaphore.
StartOnDemand(i) ==
    /\ pc[i] = "scan"
    /\ todo[i] = <<>>
    /\ lease[i] = "on_demand"
    /\ Cardinality({j \in Invocations : pc[j] = "starting"}) < MaxStarting
    /\ starter' = [starter EXCEPT ![i] = "queued"]
    /\ Goto(i, "starting")
    /\ UNCHANGED <<poolVars, status, startup_timer, timing_out, timerVars, execVars, lease,
                   seen, todo, env, unavailable, stolen, provVars, version>>

\* The start has raised: the environment is never registered.
StartOnDemandFailed(i) ==
    /\ pc[i] = "starting"
    /\ starter[i] = "failed"
    /\ Goto(i, "return")
    /\ UNCHANGED <<poolVars, envVars, timerVars, execVars, lease, seen, todo, env,
                   unavailable, stolen, provVars, version>>

\* The new environment is put into the dict ...
Register(i) ==
    /\ pc[i] = "starting"
    /\ starter[i] = "started"
    /\ environments' = Append(environments, i)
    /\ Goto(i, "registered")
    /\ UNCHANGED <<stops, envVars, timerVars, execVars, lease, seen, todo, env, unavailable,
                   stolen, provVars, version>>

\* ... and then reserved, unless it is no longer ready: InvalidStatusException.
ReserveNew(i) ==
    /\ pc[i] = "registered"
    /\ \/ Reservable(i) /\ Reserve(i, i) /\ UNCHANGED stolen
       \/ /\ ~Reservable(i)
          /\ stolen' = stolen \cup {i}
          /\ Goto(i, "return")
          /\ UNCHANGED <<status, env>>
    /\ UNCHANGED <<poolVars, starter, startup_timer, timing_out, timerVars, execVars, lease,
                   seen, todo, unavailable, provVars, version>>

\* The rest of reserve, outside the lock: the keepalive timer is cancelled.
CancelKeepalive(i) ==
    /\ pc[i] = "reserved"
    /\ cancelled' = cancelled \cup ({keepalive_timer[env[i]]} \ {None})
    /\ Goto(i, "invoke")
    /\ UNCHANGED <<poolVars, envVars, keepalive_timer, armed, fired, execVars, lease, seen,
                   todo, env, unavailable, stolen, provVars, version>>

-----------------------------------------------------------------------------
(* ExecutionEnvironment.invoke and what follows it in get_environment *)

\* assert self.status == RuntimeStatus.INVOKING
InvokeEnvironment(i) ==
    /\ pc[i] = "invoke"
    /\ Goto(i, IF status[env[i]] = "INVOKING" THEN "running" ELSE "failing")
    /\ UNCHANGED <<poolVars, envVars, timerVars, execVars, lease, seen, todo, env,
                   unavailable, stolen, provVars, version>>

\* The container answers, or the invocation fails: the container is gone, cannot
\* be reached, or does not answer in time.
InvocationEnds(i) ==
    /\ pc[i] = "running"
    /\ \/ container[env[i]] = "present" /\ Goto(i, "release")
       \/ /\ container[env[i]] = "removed" \/ "invocation_failure" \in Events
          /\ Goto(i, "failing")
    /\ UNCHANGED <<poolVars, envVars, timerVars, execVars, lease, seen, todo, env,
                   unavailable, stolen, provVars, version>>

\* Mutant of AfterRelease: only the first release of an environment sets a timer.
AfterReleaseFirst(i) ==
    IF Kind(env[i]) = "on_demand" /\ keepalive_timer[env[i]] = None
    THEN "timer" ELSE "return"

\* An on-demand environment gets a keepalive timer.
AfterRelease(i) == IF Kind(env[i]) = "on_demand" THEN "timer" ELSE "return"

\* release: back to READY; InvalidStatusException is logged and that is all.
Release(i) ==
    /\ pc[i] = "release"
    /\ \/ /\ status[env[i]] = "INVOKING"
          /\ status' = [status EXCEPT ![env[i]] = "READY"]
          /\ Goto(i, AfterRelease(i))
       \/ status[env[i]] # "INVOKING" /\ Goto(i, "return") /\ UNCHANGED status
    /\ UNCHANGED <<poolVars, starter, startup_timer, timing_out, timerVars, execVars, lease,
                   seen, todo, env, unavailable, stolen, provVars, version>>

\* self.keepalive_timer = Timer(...), outside the lock
NewKeepalive(i) ==
    /\ pc[i] = "timer"
    /\ keepalive_timer' = [keepalive_timer EXCEPT ![env[i]] = i]
    /\ Goto(i, "arm")
    /\ UNCHANGED <<poolVars, envVars, armed, cancelled, fired, execVars, lease, seen, todo,
                   env, unavailable, stolen, provVars, version>>

\* self.keepalive_timer.start(): by now it may be the timer of another release,
\* and starting a timer twice is a RuntimeError.
ArmKeepalive(i) ==
    LET t == keepalive_timer[env[i]] IN
    /\ pc[i] = "arm"
    /\ \/ t \notin armed /\ armed' = armed \cup {t} /\ Goto(i, "return")
       \/ t \in armed /\ Goto(i, "failing") /\ UNCHANGED armed
    /\ UNCHANGED <<poolVars, envVars, keepalive_timer, cancelled, fired, execVars, lease,
                   seen, todo, env, unavailable, stolen, provVars, version>>

\* Mutant of StopsOnFailure: a failed invocation costs any environment its life.
StopsOnFailureAlways(e) == TRUE

\* An on-demand environment is stopped after a failure, a provisioned one only
\* if it cannot be released.
StopsOnFailure(e) == Kind(e) = "on_demand" \/ status[e] # "INVOKING"

\* The exception handler.
HandleFailure(i) ==
    LET e == env[i] IN
    /\ pc[i] = "failing"
    /\ \/ /\ ~StopsOnFailure(e)
          /\ status' = [status EXCEPT ![e] = "READY"]
          /\ Goto(i, "return")
          /\ UNCHANGED stops
       \/ /\ StopsOnFailure(e)
          /\ stops' = stops \cup {StopThread(e, i)}
          /\ Goto(i, "stopping")
          /\ UNCHANGED status
    /\ UNCHANGED <<environments, starter, startup_timer, timing_out, timerVars, execVars,
                   lease, seen, todo, env, unavailable, stolen, provVars, version>>

\* stop_environment has returned.
FailureHandled(i) ==
    /\ pc[i] = "stopping"
    /\ \A s \in stops : s.by # i
    /\ Goto(i, "return")
    /\ UNCHANGED <<poolVars, envVars, timerVars, execVars, lease, seen, todo, env,
                   unavailable, stolen, provVars, version>>

\* Mutant of Returned: whatever the kind of the lease.
ReturnedAlways(i) == 1

\* What the lease of an invocation counts for in the provisioned tracker.
Returned(i) == IF lease[i] = "provisioned" THEN 1 ELSE 0

\* The finally clause of get_invocation_lease.
ReturnLease(i) ==
    /\ pc[i] = "return"
    /\ concurrent_executions' = concurrent_executions - Returned(i)
    /\ lease' = [lease EXCEPT ![i] = "none"]
    /\ Goto(i, "done")
    /\ UNCHANGED <<poolVars, envVars, timerVars, execVars, seen, todo, env, unavailable,
                   stolen, config, provisioned_state, state_status, updater, version>>

Invocation(i) ==
    \/ LeaseProvisioned(i) \/ LeaseOnDemand(i) \/ LeaseCrashes(i)
    \/ Snapshot(i) \/ TryReserve(i) \/ NoneAvailable(i) \/ StartOnDemand(i)
    \/ StartOnDemandFailed(i) \/ Register(i) \/ ReserveNew(i) \/ CancelKeepalive(i)
    \/ InvokeEnvironment(i) \/ InvocationEnds(i) \/ Release(i) \/ NewKeepalive(i)
    \/ ArmKeepalive(i) \/ HandleFailure(i) \/ FailureHandled(i) \/ ReturnLease(i)

-----------------------------------------------------------------------------
(* ExecutionEnvironment.start, by the invocation or a thread of the pool *)

StartBegins(e) ==
    /\ starter[e] = "queued"
    /\ status[e] = "INACTIVE"
    /\ status' = [status EXCEPT ![e] = "STARTING"]
    /\ startup_timer' = startup_timer \cup {e}
    /\ starter' = [starter EXCEPT ![e] = "creating"]
    /\ UNCHANGED <<poolVars, timing_out, timerVars, execVars, invokeVars, provVars, version>>

\* RuntimeExecutor.start, up to the wait for the container.
CreateContainer(e) ==
    /\ starter[e] = "creating"
    /\ startup_future[e] = "pending"
    /\ container' = [container EXCEPT ![e] = "present"]
    /\ starter' = [starter EXCEPT ![e] = "waiting"]
    /\ UNCHANGED <<poolVars, status, startup_timer, timing_out, timerVars, startup_future,
                   invokeVars, provVars, version>>

\* status_ready and status_error of the executor endpoint; the container may
\* also never report.
ContainerReports(e) ==
    /\ starter[e] = "waiting"
    /\ container[e] = "present"
    /\ startup_future[e] = "pending"
    /\ \/ startup_future' = [startup_future EXCEPT ![e] = "ready"]
       \/ /\ "start_failure" \in Events
          /\ startup_future' = [startup_future EXCEPT ![e] = "failed"]
    /\ UNCHANGED <<poolVars, envVars, timerVars, container, invokeVars, provVars, version>>

\* Creating the container or reading the credentials fails.
CreateFails(e) ==
    /\ "start_failure" \in Events
    /\ starter[e] = "creating"
    /\ startup_future' = [startup_future EXCEPT ![e] = "failed"]
    /\ UNCHANGED <<poolVars, envVars, timerVars, container, invokeVars, provVars, version>>

\* The status is set whatever happened to it since the start began.
StartSucceeds(e) ==
    /\ starter[e] = "waiting"
    /\ startup_future[e] = "ready"
    /\ status' = [status EXCEPT ![e] = "READY"]
    /\ starter' = [starter EXCEPT ![e] = "started"]
    /\ startup_timer' = startup_timer \ {e}
    /\ UNCHANGED <<poolVars, timing_out, timerVars, execVars, invokeVars, provVars, version>>

\* The except clause of start, with errored(), and its finally clause.
StartFails(e) ==
    /\ starter[e] \in {"creating", "waiting"}
    /\ startup_future[e] = "failed"
    /\ \/ /\ status[e] = "STARTING"
          /\ status' = [status EXCEPT ![e] = "STARTUP_FAILED"]
          /\ Halt(e)
       \/ status[e] # "STARTING" /\ UNCHANGED <<status, execVars>>
    /\ starter' = [starter EXCEPT ![e] = "failed"]
    /\ startup_timer' = startup_timer \ {e}
    /\ UNCHANGED <<poolVars, timing_out, timerVars, invokeVars, provVars, version>>

\* timed_out, on the timer's thread: the status ...
StartupTimesOut(e) ==
    /\ "startup_timeout" \in Events
    /\ e \in startup_timer
    /\ status[e] = "STARTING"
    /\ status' = [status EXCEPT ![e] = "STARTUP_TIMED_OUT"]
    /\ startup_timer' = startup_timer \ {e}
    /\ timing_out' = timing_out \cup {e}
    /\ UNCHANGED <<poolVars, starter, timerVars, execVars, invokeVars, provVars, version>>

\* ... and then the container; a failure is logged.
TimeoutHalts(e) ==
    /\ e \in timing_out
    /\ Halt(e)
    /\ timing_out' = timing_out \ {e}
    /\ UNCHANGED <<poolVars, status, starter, startup_timer, timerVars, invokeVars, provVars,
                   version>>

Start(e) ==
    StartBegins(e) \/ CreateContainer(e) \/ StartSucceeds(e) \/ StartFails(e)

StartupTimer(e) == StartupTimesOut(e) \/ TimeoutHalts(e)

-----------------------------------------------------------------------------
(* Stopping an environment *)

\* Mutant of KeepaliveMayStop: whatever the environment is doing.
KeepaliveMayStopAny(e) == status[e] # "STOPPED"

\* Only an idle environment may be stopped by its keepalive timer.
KeepaliveMayStop(e) == status[e] = "READY"

\* keepalive_passed: TIMING_OUT keeps invocations from reserving.
KeepalivePassed(t) ==
    /\ t \in armed \ (cancelled \cup fired)
    /\ fired' = fired \cup {t}
    /\ \/ /\ KeepaliveMayStop(env[t])
          /\ status' = [status EXCEPT ![env[t]] = "TIMING_OUT"]
          /\ stops' = stops \cup {StopThread(env[t], "keepalive")}
       \/ ~KeepaliveMayStop(env[t]) /\ UNCHANGED <<status, stops>>
    /\ UNCHANGED <<environments, starter, startup_timer, timing_out, keepalive_timer, armed,
                   cancelled, execVars, invokeVars, provVars, version>>

\* ExecutionEnvironment.stop: the status, under the lock.  An environment that is
\* inactive or already stopped is an exception that ends the thread.
StopBegins(s) ==
    /\ s.stage = "begin"
    /\ \/ /\ status[s.env] \notin {"INACTIVE", "STOPPED"}
          /\ status' = [status EXCEPT ![s.env] = "STOPPED"]
          /\ stops' = (stops \ {s}) \cup {[s EXCEPT !.stage = "halt"]}
       \/ /\ status[s.env] \in {"INACTIVE", "STOPPED"}
          /\ stops' = stops \ {s}
          /\ UNCHANGED status
    /\ UNCHANGED <<environments, starter, startup_timer, timing_out, timerVars, execVars,
                   invokeVars, provVars, version>>

\* The container and the keepalive timer.  Without a container the exception ends
\* the thread here, and the environment stays in the dict.
StopHalts(s) ==
    /\ s.stage = "halt"
    /\ Halt(s.env)
    /\ \/ /\ container[s.env] = "present"
          /\ cancelled' = cancelled \cup ({keepalive_timer[s.env]} \ {None})
          /\ stops' = (stops \ {s}) \cup {[s EXCEPT !.stage = "remove"]}
       \/ /\ container[s.env] # "present"
          /\ stops' = stops \ {s}
          /\ UNCHANGED cancelled
    /\ UNCHANGED <<environments, envVars, keepalive_timer, armed, fired, invokeVars, provVars,
                   version>>

\* stop_environment pops the environment; the keepalive thread calls on_timeout,
\* which deletes it.  Both leave the dict alone when it is no longer there.
StopRemoves(s) ==
    /\ s.stage = "remove"
    /\ \/ \E k \in DOMAIN environments : /\ environments[k] = s.env
                                        /\ environments' = RemoveAt(environments, k)
       \/ s.env \notin ToSet(environments) /\ UNCHANGED environments
    /\ stops' = stops \ {s}
    /\ UNCHANGED <<envVars, timerVars, execVars, invokeVars, provVars, version>>

Stop(s) == StopBegins(s) \/ StopHalts(s) \/ StopRemoves(s)

-----------------------------------------------------------------------------
(* Put- and DeleteProvisionedConcurrencyConfig *)

\* The provider stores the configuration, or removes it ...
Configure(u) ==
    /\ updater[u] = "new"
    /\ version = "running"
    /\ NewEnvs[u] = {} => config > 0
    /\ config' = Cardinality(NewEnvs[u])
    /\ updater' = [updater EXCEPT ![u] = "configured"]
    /\ UNCHANGED <<poolVars, envVars, timerVars, execVars, invokeVars, concurrent_executions,
                   provisioned_state, state_status, version>>

\* ... before update_provisioned_concurrency_config refuses an update while
\* another one is in progress, or creates the state if there is none.
BeginUpdate(u) ==
    /\ updater[u] = "configured"
    /\ IF provisioned_state # None /\ state_status[provisioned_state] = "IN_PROGRESS"
       THEN /\ updater' = [updater EXCEPT ![u] = "refused"]
            /\ UNCHANGED provisioned_state
       ELSE /\ updater' = [updater EXCEPT ![u] = "scaling"]
            /\ provisioned_state' = IF provisioned_state = None THEN u ELSE provisioned_state
    /\ UNCHANGED <<poolVars, envVars, timerVars, execVars, invokeVars, config,
                   concurrent_executions, state_status, version>>

\* scale_provisioned_concurrency: the new environments are registered and their
\* starts queued, then the existing ones are stopped.
Scale(u) ==
    LET existing == {e \in ToSet(environments) : Kind(e) = "provisioned"} IN
    /\ updater[u] = "scaling"
    /\ environments' = environments \o SetToSeq(NewEnvs[u])
    /\ starter' = [e \in Envs |-> IF e \in NewEnvs[u] THEN "queued" ELSE starter[e]]
    /\ stops' = stops \cup {StopThread(e, u) : e \in existing}
    /\ updater' = [updater EXCEPT ![u] = "waiting"]
    /\ UNCHANGED <<status, startup_timer, timing_out, timerVars, execVars, invokeVars, config,
                   concurrent_executions, provisioned_state, state_status, version>>

\* All futures are done.  Without environments to keep the state is dropped; a
\* state dropped by another update is an AttributeError that ends the thread.
FinishUpdate(u) ==
    /\ updater[u] = "waiting"
    /\ \A e \in NewEnvs[u] : starter[e] \in {"started", "failed"}
    /\ \A s \in stops : s.by # u
    /\ updater' = [updater EXCEPT ![u] = "done"]
    /\ \/ NewEnvs[u] = {} /\ provisioned_state' = None /\ UNCHANGED state_status
       \/ /\ NewEnvs[u] # {}
          /\ state_status' =
                 [v \in Updates |->
                      IF v # provisioned_state THEN state_status[v]
                      ELSE IF \A e \in NewEnvs[u] : starter[e] = "started" THEN "READY"
                      ELSE "FAILED"]
          /\ UNCHANGED provisioned_state
    /\ UNCHANGED <<poolVars, envVars, timerVars, execVars, invokeVars, config,
                   concurrent_executions, version>>

Update(u) == BeginUpdate(u) \/ Scale(u) \/ FinishUpdate(u)

-----------------------------------------------------------------------------
(* LambdaVersionManager.stop *)

Shutdown ==
    /\ "shutdown" \in Events
    /\ version = "running"
    /\ version' = "shutdown"
    /\ UNCHANGED <<poolVars, envVars, timerVars, execVars, invokeVars, provVars>>

\* stop_environments_for_version, of the environments registered by now.
StopEnvironments ==
    /\ version = "shutdown"
    /\ version' = "stopped"
    /\ stops' = stops \cup {StopThread(e, "version") : e \in ToSet(environments)}
    /\ UNCHANGED <<environments, envVars, timerVars, execVars, invokeVars, provVars>>

Next ==
    \/ \E i \in Invocations : Invoke(i) \/ Invocation(i) \/ KeepalivePassed(i)
    \/ \E e \in Envs : Start(e) \/ ContainerReports(e) \/ CreateFails(e) \/ StartupTimer(e)
    \/ \E s \in stops : Stop(s)
    \/ \E u \in Updates : Configure(u) \/ Update(u)
    \/ Shutdown \/ StopEnvironments

Spec == Init /\ [][Next]_vars

\* Threads and timers run; nothing is assumed of clients and containers.
Fairness ==
    /\ \A i \in Invocations : WF_vars(Invocation(i)) /\ WF_vars(KeepalivePassed(i))
    /\ \A e \in Envs : WF_vars(Start(e)) /\ WF_vars(StartupTimer(e))
    /\ WF_vars(\E s \in stops : Stop(s))
    /\ \A u \in Updates : WF_vars(Update(u))
    /\ WF_vars(StopEnvironments)

FairSpec == Spec /\ Fairness

-----------------------------------------------------------------------------
(* Properties *)

Statuses == {"INACTIVE", "STARTING", "READY", "INVOKING", "STARTUP_FAILED",
             "STARTUP_TIMED_OUT", "STOPPED", "TIMING_OUT"}

Labels == {"new", "lease", "assign", "scan", "starting", "registered", "reserved", "invoke",
           "running", "release", "timer", "arm", "failing", "stopping", "return", "done"}

\* Threads that stop an environment, and on whose behalf.
StopThreads == [env : Envs, by : Invocations \cup Updates \cup {"version", "keepalive"},
                stage : {"begin", "halt", "remove"}]

PoolTypeOK == environments \in Seq(Envs) /\ stops \subseteq StopThreads

EnvTypeOK ==
    /\ status \in [Envs -> Statuses]
    /\ starter \in [Envs -> {"none", "queued", "creating", "waiting", "started", "failed"}]
    /\ startup_timer \subseteq Envs /\ timing_out \subseteq Envs

TimerTypeOK ==
    /\ keepalive_timer \in [Envs -> Invocations \cup {None}]
    /\ armed \subseteq Invocations /\ cancelled \subseteq Invocations /\ fired \subseteq armed

ExecTypeOK ==
    /\ container \in [Envs -> {"absent", "present", "removed"}]
    /\ startup_future \in [Envs -> {"pending", "ready", "failed"}]

InvokeTypeOK ==
    /\ pc \in [Invocations -> Labels]
    /\ lease \in [Invocations -> {"none", "on_demand", "provisioned"}]
    /\ seen \in [Invocations -> Updates \cup {None}]
    /\ todo \in [Invocations -> Seq(Envs)]
    /\ env \in [Invocations -> Envs \cup {None}]
    /\ unavailable \subseteq Invocations /\ stolen \subseteq Invocations

ProvTypeOK ==
    /\ config \in Nat /\ concurrent_executions \in Nat
    /\ provisioned_state \in Updates \cup {None}
    /\ state_status \in [Updates -> {"IN_PROGRESS", "READY", "FAILED"}]
    /\ updater \in [Updates -> {"new", "configured", "refused", "scaling", "waiting", "done"}]

\* The shape of the state: the pool, the environments, their timers and
\* executors, the invocations, the updates and the version.
TypeOK ==
    /\ PoolTypeOK /\ EnvTypeOK /\ TimerTypeOK /\ ExecTypeOK /\ InvokeTypeOK /\ ProvTypeOK
    /\ version \in {"running", "shutdown", "stopped"}

\* Invocations that rely on their environment.
Users(e) ==
    {i \in Invocations : env[i] = e /\ pc[i] \in {"reserved", "invoke", "running", "release"}}

\* An environment runs one invocation at a time, and it is marked as invoking only
\* while there is one, or while its failure is being handled.
ExclusiveUse ==
    \A e \in Envs :
        /\ \A i, j \in Users(e) : i = j
        /\ status[e] = "INVOKING" =>
               \/ Users(e) # {}
               \/ \E i \in Invocations : env[i] = e /\ pc[i] \in {"failing", "stopping"}

\* The keepalive timer never stops an environment that an invocation relies on.
KeepaliveSparesInvocations ==
    \A s \in stops : s.by = "keepalive" => Users(s.env) = {}

\* An idle on-demand environment is going to be stopped: a timer is ticking for it
\* or an invocation is about to use it or to start one.
IdleHasTimer ==
    \A e \in ToSet(environments) \cap Invocations :
        status[e] = "READY" =>
            \/ \E t \in armed \ (cancelled \cup fired) : env[t] = e
            \/ pc[e] = "registered"
            \/ \E i \in Invocations : env[i] = e /\ pc[i] \in {"timer", "arm", "failing", "stopping"}

\* A provisioned lease is worth an environment, as long as the configuration is
\* not changed a second time and the version is not stopped.
LeaseServed ==
    unavailable # {} =>
        \/ version # "running"
        \/ Cardinality({u \in Updates : updater[u] # "new"}) > 1

\* The startup timer fired before there was a container to stop, and the start now waits
\* for that container with nobody to end the wait.
Hung(e) ==
    /\ starter[e] = "waiting" /\ startup_future[e] = "pending" /\ container[e] = "present"
    /\ status[e] = "STARTUP_TIMED_OUT" /\ e \notin timing_out

\* The invocation is hung, or waits for the semaphore and all permits are with such starts.
Stuck(i) ==
    \/ pc[i] = "starting" /\ Hung(i)
    \/ /\ pc[i] = "scan"
       /\ Cardinality({j \in Invocations : pc[j] = "starting" /\ Hung(j)}) = MaxStarting

\* Every invocation ends, although containers may never report: the startup timer ends a
\* start whose container is there.  The only way not to end is a timer that came too early
\* for that, and a container that stays silent after it.
InvocationsEnd ==
    \A i \in Invocations : <>[](pc[i] \in {"new", "done"}) \/ <>[]Stuck(i)

\* No on-demand environment stays ready for ever.
IdleReclaimed == \A i \in Invocations : <>[](status[i] # "READY")

(* What the repository says of the code and the code does not keep *)

\* "potentially creates a new execution environment for this invocation": who
\* starts an environment gets it.
OwnEnvironment == stolen # {} => version # "running"

=============================================================================

----------------------- MODULE LambdaVersionManagerProofs -----------------------
(***************************************************************************)
(* Proofs about LambdaVersionManager, for any number of invocations,       *)
(* updates and environments: an execution environment runs one invocation  *)
(* at a time, its keepalive timer leaves invocations alone, and an idle    *)
(* environment has a timer.                                                *)
(***************************************************************************)
EXTENDS LambdaVersionManager, FiniteSetTheorems, SequenceTheorems, TLAPS

\* Labels at which an invocation has an environment.
HasEnv == {"reserved", "invoke", "running", "release", "timer", "arm", "failing", "stopping"}

\* Labels an invocation can be at once it has created a keepalive timer.
Past == {"arm", "failing", "stopping", "return", "done"}

\* Who has an environment, and of which kind.
EnvInv ==
    \A i \in Invocations :
        /\ pc[i] \in HasEnv => env[i] \in Envs
        /\ pc[i] \in {"timer", "arm"} => env[i] \in Invocations
        /\ pc[i] = "arm" => keepalive_timer[env[i]] # None

\* A keepalive timer belongs to the environment of the invocation that made it.
TimerInv ==
    /\ \A e \in Envs : keepalive_timer[e] # None =>
           /\ e \in Invocations
           /\ env[keepalive_timer[e]] = e
           /\ pc[keepalive_timer[e]] \in Past
    /\ \A t \in armed \cup cancelled : env[t] \in Invocations /\ pc[t] \in Past

Lessees == {i \in Invocations : lease[i] = "provisioned"}

\* The tracker counts the provisioned leases that are out.
LeaseInv ==
    /\ \A i \in Invocations : pc[i] \in {"new", "lease"} => lease[i] = "none"
    /\ IsFiniteSet(Lessees)
    /\ concurrent_executions = Cardinality(Lessees)

TypeInv == TypeOK /\ EnvInv /\ TimerInv /\ LeaseInv

\* The status of an environment goes with how far its start is, and only one that was
\* started is reserved, registered by an invocation or stopped for one.
StartInv ==
    /\ \A e \in Envs :
          /\ starter[e] \in {"none", "queued"} => status[e] = "INACTIVE"
          /\ starter[e] \in {"creating", "waiting"} =>
                 status[e] \in {"STARTING", "STARTUP_TIMED_OUT", "STOPPED"}
          /\ starter[e] = "failed" =>
                 status[e] \in {"STARTUP_FAILED", "STARTUP_TIMED_OUT", "STOPPED"}
          /\ starter[e] = "started" => status[e] \in {"READY", "INVOKING", "TIMING_OUT", "STOPPED"}
    /\ \A i \in Invocations :
          /\ pc[i] \in {"new", "lease", "assign", "scan"} => starter[i] = "none"
          /\ pc[i] \in HasEnv => starter[env[i]] = "started"
    /\ \A u \in Updates :
          updater[u] \in {"new", "configured", "scaling"} =>
              \A e \in NewEnvs[u] : starter[e] = "none"

\* An on-demand environment is registered once it is started,
EnvironmentsOK == \A e \in ToSet(environments) \cap Invocations : starter[e] = "started"

\* a thread that stops one has set its status first,
ThreadsOK ==
    \A s \in stops :
        /\ s.by = "keepalive" => starter[s.env] = "started"
        /\ s.env \in Invocations =>
               starter[s.env] = "started" /\ (s.stage # "begin" => status[s.env] = "STOPPED")

\* and so has whoever waits for the end of the thread.
HandlersOK ==
    \A i \in Invocations :
        pc[i] = "stopping" /\ env[i] \in Invocations =>
            StopThread(env[i], i) \in stops \/ status[env[i]] = "STOPPED"

StopInv == EnvironmentsOK /\ ThreadsOK /\ HandlersOK

\* Users of an environment, and whoever is about to release a provisioned one
\* after a failure.
Holds(i, e) ==
    /\ env[i] = e
    /\ \/ pc[i] \in {"reserved", "invoke", "running", "release"}
       \/ pc[i] = "failing" /\ e \notin Invocations

\* There is one holder at most, and while there is one the environment is busy or
\* has been stopped for good.
HoldInv ==
    /\ \A i, j \in Invocations : \A e \in Envs : Holds(i, e) /\ Holds(j, e) => i = j
    /\ \A i \in Invocations : \A e \in Envs : Holds(i, e) => status[e] \in {"INVOKING", "STOPPED"}

\* Whoever uses an environment, or is going to release or stop it.
Minds(i, e) ==
    /\ env[i] = e
    /\ \/ pc[i] \in {"reserved", "invoke", "running", "release", "failing"}
       \/ pc[i] = "stopping" /\ StopThread(e, i) \in stops

\* A busy environment is minded by an invocation.
BusyInv == \A e \in Envs : status[e] = "INVOKING" => \E i \in Invocations : Minds(i, e)

\* What a keepalive timer stops is unused and cannot be reserved any more.
KeepaliveInv ==
    \A s \in stops :
        s.by = "keepalive" =>
            /\ status[s.env] \in {"TIMING_OUT", "STOPPED"}
            /\ \A i \in Invocations : ~Holds(i, s.env)

UseInv == HoldInv /\ BusyInv /\ KeepaliveInv

\* A timer for environment e is ticking, or is going to be started, or somebody is
\* about to reserve e or to stop it.
Watched(e) ==
    \/ \E t \in armed \ (cancelled \cup fired) : env[t] = e
    \/ pc[e] = "registered"
    \/ \E i \in Invocations :
          /\ env[i] = e
          /\ \/ pc[i] \in {"timer", "failing", "stopping"}
             \/ pc[i] = "arm" /\ keepalive_timer[e] \notin cancelled

\* IdleHasTimer, with what is known of a timer that is not started yet.
IdleInv == \A e \in ToSet(environments) \cap Invocations : status[e] = "READY" => Watched(e)

-----------------------------------------------------------------------------

\* The environments of an update are a sequence of environments.
LEMMA NewEnvsAreSeq == \A u \in Updates : SetToSeq(NewEnvs[u]) \in Seq(NewEnvs[u]) \cap Seq(Envs)
<1> SUFFICES ASSUME NEW u \in Updates PROVE SetToSeq(NewEnvs[u]) \in Seq(NewEnvs[u]) \cap Seq(Envs)
  OBVIOUS
<1> DEFINE S == NewEnvs[u]
           n == Cardinality(S)
<1>1. IsFiniteSet(S) /\ S \subseteq Envs
  BY NewEnvsAssumption DEF Envs, ProvisionedEnvs
<1>2. n \in Nat /\ ExistsBijection(1..n, S)
  BY <1>1, FS_CardinalityType
<1>3. \E f \in [1..n -> S] : IsInjective(f)
  BY <1>2 DEF ExistsBijection, Bijection, Injection, IsInjective
<1>4. SetToSeq(S) \in [1..n -> S]
  BY <1>3 DEF SetToSeq
<1>5. QED
  BY <1>1, <1>2, <1>4

\* Taking an element out of a sequence leaves a sequence of the others.
LEMMA RemoveAtType ==
    ASSUME NEW S, NEW q \in Seq(S), NEW k \in DOMAIN q
    PROVE  RemoveAt(q, k) \in Seq(S) /\ ToSet(RemoveAt(q, k)) \subseteq ToSet(q)
<1> DEFINE a == SubSeq(q, 1, k - 1)
           b == SubSeq(q, k + 1, Len(q))
<1>1. Len(q) \in Nat /\ k \in 1..Len(q) /\ DOMAIN q = 1..Len(q)
  BY LenProperties
<1>2. /\ a \in Seq(S) /\ Len(a) = k - 1
      /\ \A j \in 1..k - 1 : a[j] = q[j]
  <2>1. \A j \in 1..k - 1 : q[j] \in S
    BY <1>1, ElementOfSeq
  <2>2. QED
    BY <1>1, <2>1, SubSeqProperties
<1>3. /\ b \in Seq(S) /\ Len(b) = Len(q) - k
      /\ \A j \in 1..Len(q) - k : b[j] = q[k + j]
  <2>1. \A j \in k + 1..Len(q) : q[j] \in S
    BY <1>1, ElementOfSeq
  <2>2. QED
    BY <1>1, <2>1, SubSeqProperties
<1> HIDE DEF a, b
<1>4. /\ a \o b \in Seq(S) /\ Len(a \o b) = Len(q) - 1
      /\ \A j \in 1..Len(q) - 1 : (a \o b)[j] = IF j <= k - 1 THEN a[j] ELSE b[j - (k - 1)]
  <2>1. /\ a \o b \in Seq(S) /\ Len(a \o b) = Len(a) + Len(b)
        /\ \A j \in 1..Len(a) + Len(b) : (a \o b)[j] = IF j <= Len(a) THEN a[j] ELSE b[j - Len(a)]
    BY <1>2, <1>3, ConcatProperties
  <2>2. Len(a) + Len(b) = Len(q) - 1
    BY <1>1, <1>2, <1>3
  <2>3. QED
    BY <1>2, <2>1, <2>2
<1>5. \A j \in 1..Len(q) - 1 : (a \o b)[j] \in ToSet(q)
  <2> SUFFICES ASSUME NEW j \in 1..Len(q) - 1 PROVE (a \o b)[j] \in ToSet(q)
    OBVIOUS
  <2>1. CASE j <= k - 1
    <3>1. j \in 1..k - 1 /\ j \in DOMAIN q
      BY <1>1, <2>1
    <3>2. (a \o b)[j] = q[j]
      BY <1>2, <1>4, <2>1, <3>1
    <3>3. QED
      BY <3>1, <3>2 DEF ToSet
  <2>2. CASE j > k - 1
    <3>1. j - (k - 1) \in 1..Len(q) - k /\ k + (j - (k - 1)) = j + 1 /\ j + 1 \in 1..Len(q)
      BY <1>1, <2>2
    <3>2. (a \o b)[j] = b[j - (k - 1)]
      <4>1. ~(j <= k - 1)
        BY <1>1, <2>2
      <4>2. QED
        BY <1>4, <4>1
    <3>3. (a \o b)[j] = q[j + 1]
      BY <1>3, <3>1, <3>2
    <3>4. QED
      BY <1>1, <3>1, <3>3 DEF ToSet
  <2>3. j <= k - 1 \/ j > k - 1
    BY <1>1
  <2>4. QED
    BY <2>1, <2>2, <2>3
<1>6. ToSet(a \o b) \subseteq ToSet(q)
  <2>1. DOMAIN (a \o b) = 1..Len(q) - 1
    BY <1>4, LenProperties
  <2>2. QED
    BY <1>5, <2>1 DEF ToSet
<1>7. QED
  BY <1>4, <1>6 DEF RemoveAt, a, b

\* The shape of the state.  What a timer or a thread refers to exists: a timer is made
\* before it is armed or cancelled, and by an invocation with an environment.
LEMMA TypeInvHolds == Spec => []TypeInv
<1> USE NamesAssumption, NewEnvsAssumption
<1>1. Init => TypeInv
  <2>1. Init => TypeOK /\ EnvInv /\ TimerInv
    BY DEF Init, TypeOK, PoolTypeOK, EnvTypeOK, TimerTypeOK, ExecTypeOK, InvokeTypeOK, ProvTypeOK,
           EnvInv, TimerInv, HasEnv, Statuses, Labels
  <2>2. Init => LeaseInv
    <3>1. Init => Lessees = {}
      BY DEF Init, Lessees
    <3>2. QED
      BY <3>1, FS_EmptySet, ZenonT(30) DEF Init, LeaseInv
  <2>3. QED
    BY <2>1, <2>2 DEF TypeInv
<1>2. ASSUME TypeInv, [Next]_vars PROVE TypeOK'
  <2> USE <1>2
  <2> USE DEF TypeInv, TypeOK
  <2>0. /\ UNCHANGED poolVars => PoolTypeOK'
        /\ UNCHANGED envVars => EnvTypeOK'
        /\ UNCHANGED timerVars => TimerTypeOK'
        /\ UNCHANGED execVars => ExecTypeOK'
        /\ UNCHANGED invokeVars => InvokeTypeOK'
        /\ UNCHANGED provVars => ProvTypeOK'
    BY DEF PoolTypeOK, EnvTypeOK, TimerTypeOK, ExecTypeOK, InvokeTypeOK, ProvTypeOK,
           poolVars, envVars, timerVars, execVars, invokeVars, provVars
  <2>1. ASSUME NEW i \in Invocations, Invoke(i) PROVE TypeOK'
    <3>1. pc' \in [Invocations -> Labels]
      BY <2>1 DEF Invoke, Goto, InvokeTypeOK, Labels
    <3>2. seen' \in [Invocations -> Updates \cup {None}]
      BY <2>1 DEF Invoke, InvokeTypeOK, ProvTypeOK
    <3>3. InvokeTypeOK'
      BY <2>1, <3>1, <3>2 DEF Invoke, InvokeTypeOK
    <3>4. QED
      BY <2>0, <2>1, <3>3 DEF Invoke
  <2>2. ASSUME NEW i \in Invocations, LeaseProvisioned(i) PROVE TypeOK'
    <3>1. InvokeTypeOK'
      BY <2>2 DEF LeaseProvisioned, Goto, InvokeTypeOK, Labels
    <3>2. ProvTypeOK'
      BY <2>2 DEF LeaseProvisioned, Goto, ProvTypeOK
    <3>3. QED
      BY <2>0, <2>2, <3>1, <3>2 DEF LeaseProvisioned
  <2>3. ASSUME NEW i \in Invocations, LeaseOnDemand(i) PROVE TypeOK'
    <3>1. InvokeTypeOK'
      BY <2>3 DEF LeaseOnDemand, Goto, InvokeTypeOK, Labels
    <3>2. QED
      BY <2>0, <2>3, <3>1 DEF LeaseOnDemand
  <2>4. ASSUME NEW i \in Invocations, LeaseCrashes(i) PROVE TypeOK'
    <3>1. InvokeTypeOK'
      BY <2>4 DEF LeaseCrashes, Goto, InvokeTypeOK, Labels
    <3>2. QED
      BY <2>0, <2>4, <3>1 DEF LeaseCrashes
  <2>5. ASSUME NEW i \in Invocations, Snapshot(i) PROVE TypeOK'
    <3>1. InvokeTypeOK'
      BY <2>5 DEF Snapshot, Goto, InvokeTypeOK, Labels, PoolTypeOK, StopThreads
    <3>2. QED
      BY <2>0, <2>5, <3>1 DEF Snapshot
  <2>6. ASSUME NEW i \in Invocations, TryReserve(i) PROVE TypeOK'
    <3>1. Head(todo[i]) \in Envs /\ Tail(todo[i]) \in Seq(Envs)
      BY <2>6, HeadTailProperties DEF TryReserve, InvokeTypeOK
    <3>2. EnvTypeOK'
      BY <2>6, <3>1 DEF TryReserve, Goto, Reservable, Reserve, EnvTypeOK, Statuses
    <3>3. pc' \in [Invocations -> Labels]
      BY <2>6 DEF TryReserve, Goto, Reservable, Reserve, InvokeTypeOK, Labels
    <3>4. env' \in [Invocations -> Envs \cup {None}]
      BY <2>6, <3>1 DEF TryReserve, Goto, Reservable, Reserve, InvokeTypeOK
    <3>5. todo' \in [Invocations -> Seq(Envs)]
      BY <2>6, <3>1 DEF TryReserve, Goto, Reservable, Reserve, InvokeTypeOK
    <3>6. InvokeTypeOK'
      BY <2>6, <3>3, <3>4, <3>5 DEF TryReserve, InvokeTypeOK
    <3>7. QED
      BY <2>0, <2>6, <3>2, <3>6 DEF TryReserve
  <2>7. ASSUME NEW i \in Invocations, NoneAvailable(i) PROVE TypeOK'
    <3>1. InvokeTypeOK'
      BY <2>7 DEF NoneAvailable, Goto, InvokeTypeOK, Labels
    <3>2. QED
      BY <2>0, <2>7, <3>1 DEF NoneAvailable
  <2>8. ASSUME NEW i \in Invocations, StartOnDemand(i) PROVE TypeOK'
    <3>1. EnvTypeOK'
      BY <2>8 DEF StartOnDemand, Goto, EnvTypeOK, Statuses
    <3>2. InvokeTypeOK'
      BY <2>8 DEF StartOnDemand, Goto, InvokeTypeOK, Labels
    <3>3. QED
      BY <2>0, <2>8, <3>1, <3>2 DEF StartOnDemand
  <2>9. ASSUME NEW i \in Invocations, StartOnDemandFailed(i) PROVE TypeOK'
    <3>1. InvokeTypeOK'
      BY <2>9 DEF StartOnDemandFailed, Goto, InvokeTypeOK, Labels
    <3>2. QED
      BY <2>0, <2>9, <3>1 DEF StartOnDemandFailed
  <2>10. ASSUME NEW i \in Invocations, Register(i) PROVE TypeOK'
    <3>1. i \in Envs
      BY DEF Envs
    <3>2. PoolTypeOK'
      BY <2>10, <3>1, AppendProperties DEF Register, PoolTypeOK
    <3>3. InvokeTypeOK'
      BY <2>10 DEF Register, Goto, InvokeTypeOK, Labels
    <3>4. QED
      BY <2>0, <2>10, <3>2, <3>3 DEF Register
  <2>11. ASSUME NEW i \in Invocations, ReserveNew(i) PROVE TypeOK'
    <3>1. i \in Envs
      BY DEF Envs
    <3>2. EnvTypeOK'
      BY <2>11, <3>1 DEF ReserveNew, Goto, Reservable, Reserve, EnvTypeOK, Statuses
    <3>3. pc' \in [Invocations -> Labels]
      BY <2>11 DEF ReserveNew, Goto, Reservable, Reserve, InvokeTypeOK, Labels
    <3>4. env' \in [Invocations -> Envs \cup {None}]
      BY <2>11, <3>1, SMTT(20) DEF ReserveNew, Goto, Reservable, Reserve, InvokeTypeOK
    <3>5. InvokeTypeOK'
      BY <2>11, <3>3, <3>4 DEF ReserveNew, InvokeTypeOK
    <3>6. QED
      BY <2>0, <2>11, <3>2, <3>5 DEF ReserveNew
  <2>12. ASSUME NEW i \in Invocations, CancelKeepalive(i) PROVE TypeOK'
    <3>1. TimerTypeOK'
      BY <2>12 DEF CancelKeepalive, Goto, TimerTypeOK, InvokeTypeOK, Labels, EnvInv, HasEnv
    <3>2. InvokeTypeOK'
      BY <2>12 DEF CancelKeepalive, Goto, InvokeTypeOK, Labels
    <3>3. QED
      BY <2>0, <2>12, <3>1, <3>2 DEF CancelKeepalive
  <2>13. ASSUME NEW i \in Invocations, InvokeEnvironment(i) PROVE TypeOK'
    <3>1. InvokeTypeOK'
      BY <2>13 DEF InvokeEnvironment, Goto, InvokeTypeOK, Labels
    <3>2. QED
      BY <2>0, <2>13, <3>1 DEF InvokeEnvironment
  <2>14. ASSUME NEW i \in Invocations, InvocationEnds(i) PROVE TypeOK'
    <3>1. InvokeTypeOK'
      BY <2>14 DEF InvocationEnds, Goto, InvokeTypeOK, Labels
    <3>2. QED
      BY <2>0, <2>14, <3>1 DEF InvocationEnds
  <2>15. ASSUME NEW i \in Invocations, Release(i) PROVE TypeOK'
    <3>1. EnvTypeOK'
      BY <2>15 DEF Release, Goto, AfterRelease, Kind, EnvTypeOK, Statuses
    <3>2. InvokeTypeOK'
      BY <2>15 DEF Release, Goto, AfterRelease, Kind, InvokeTypeOK, Labels
    <3>3. QED
      BY <2>0, <2>15, <3>1, <3>2 DEF Release
  <2>16. ASSUME NEW i \in Invocations, NewKeepalive(i) PROVE TypeOK'
    <3>1. TimerTypeOK'
      BY <2>16 DEF NewKeepalive, Goto, TimerTypeOK, InvokeTypeOK, Labels, EnvInv, HasEnv
    <3>2. InvokeTypeOK'
      BY <2>16 DEF NewKeepalive, Goto, InvokeTypeOK, Labels
    <3>3. QED
      BY <2>0, <2>16, <3>1, <3>2 DEF NewKeepalive
  <2>17. ASSUME NEW i \in Invocations, ArmKeepalive(i) PROVE TypeOK'
    <3>1. TimerTypeOK'
      BY <2>17 DEF ArmKeepalive, Goto, TimerTypeOK, InvokeTypeOK, Labels, EnvInv, HasEnv
    <3>2. InvokeTypeOK'
      BY <2>17 DEF ArmKeepalive, Goto, InvokeTypeOK, Labels
    <3>3. QED
      BY <2>0, <2>17, <3>1, <3>2 DEF ArmKeepalive
  <2>18. ASSUME NEW i \in Invocations, HandleFailure(i) PROVE TypeOK'
    <3>1. PoolTypeOK'
      BY <2>18 DEF HandleFailure, Goto, StopsOnFailure, StopThread, Kind, PoolTypeOK, StopThreads,
         InvokeTypeOK, Labels, EnvInv, HasEnv
    <3>2. EnvTypeOK'
      BY <2>18 DEF HandleFailure, Goto, StopsOnFailure, StopThread, Kind, EnvTypeOK, Statuses
    <3>3. InvokeTypeOK'
      BY <2>18 DEF HandleFailure, Goto, StopsOnFailure, StopThread, Kind, InvokeTypeOK, Labels
    <3>4. QED
      BY <2>0, <2>18, <3>1, <3>2, <3>3 DEF HandleFailure
  <2>19. ASSUME NEW i \in Invocations, FailureHandled(i) PROVE TypeOK'
    <3>1. InvokeTypeOK'
      BY <2>19 DEF FailureHandled, Goto, InvokeTypeOK, Labels
    <3>2. QED
      BY <2>0, <2>19, <3>1 DEF FailureHandled
  <2>20. ASSUME NEW i \in Invocations, ReturnLease(i) PROVE TypeOK'
    <3>1. Cardinality(Lessees) \in Nat
      BY FS_CardinalityType DEF LeaseInv
    <3>2. lease[i] = "provisioned" => Cardinality(Lessees) # 0
      <4>1. lease[i] = "provisioned" => Lessees # {}
        BY DEF Lessees
      <4>2. QED
        BY <4>1, FS_EmptySet DEF LeaseInv
    <3>3. concurrent_executions' \in Nat
      BY <2>20, <3>1, <3>2 DEF ReturnLease, Returned, LeaseInv
    <3>4. ProvTypeOK'
      BY <2>20, <3>3 DEF ReturnLease, ProvTypeOK
    <3>5. InvokeTypeOK'
      BY <2>20 DEF ReturnLease, Goto, InvokeTypeOK, Labels
    <3>6. QED
      BY <2>0, <2>20, <3>4, <3>5 DEF ReturnLease
  <2>21. ASSUME NEW i \in Invocations, KeepalivePassed(i) PROVE TypeOK'
    <3>1. env[i] \in Envs
      BY <2>21 DEF KeepalivePassed, TimerTypeOK, TimerInv, Envs
    <3>2. PoolTypeOK'
      BY <2>21, <3>1 DEF KeepalivePassed, StopThread, PoolTypeOK, StopThreads
    <3>3. EnvTypeOK'
      BY <2>21 DEF KeepalivePassed, EnvTypeOK, Statuses
    <3>4. TimerTypeOK'
      BY <2>21 DEF KeepalivePassed, TimerTypeOK
    <3>5. QED
      BY <2>0, <2>21, <3>2, <3>3, <3>4 DEF KeepalivePassed
  <2>22. ASSUME NEW e \in Envs, StartBegins(e) PROVE TypeOK'
    <3>1. EnvTypeOK'
      BY <2>22 DEF StartBegins, EnvTypeOK, Statuses
    <3>2. QED
      BY <2>0, <2>22, <3>1 DEF StartBegins
  <2>23. ASSUME NEW e \in Envs, CreateContainer(e) PROVE TypeOK'
    <3>1. ExecTypeOK'
      BY <2>23 DEF CreateContainer, ExecTypeOK
    <3>2. EnvTypeOK'
      BY <2>23 DEF CreateContainer, EnvTypeOK, Statuses
    <3>3. QED
      BY <2>0, <2>23, <3>1, <3>2 DEF CreateContainer
  <2>24. ASSUME NEW e \in Envs, StartSucceeds(e) PROVE TypeOK'
    <3>1. EnvTypeOK'
      BY <2>24 DEF StartSucceeds, EnvTypeOK, Statuses
    <3>2. QED
      BY <2>0, <2>24, <3>1 DEF StartSucceeds
  <2>25. ASSUME NEW e \in Envs, StartFails(e) PROVE TypeOK'
    <3>1. EnvTypeOK'
      BY <2>25 DEF StartFails, EnvTypeOK, Statuses
    <3>2. Halt(e) => ExecTypeOK'
      BY DEF Halt, ExecTypeOK
    <3>3. QED
      BY <2>0, <2>25, <3>1, <3>2 DEF StartFails
  <2>26. ASSUME NEW e \in Envs, ContainerReports(e) PROVE TypeOK'
    <3>1. ExecTypeOK'
      BY <2>26 DEF ContainerReports, ExecTypeOK
    <3>2. QED
      BY <2>0, <2>26, <3>1 DEF ContainerReports
  <2>27. ASSUME NEW e \in Envs, CreateFails(e) PROVE TypeOK'
    <3>1. ExecTypeOK'
      BY <2>27 DEF CreateFails, ExecTypeOK
    <3>2. QED
      BY <2>0, <2>27, <3>1 DEF CreateFails
  <2>28. ASSUME NEW e \in Envs, StartupTimesOut(e) PROVE TypeOK'
    <3>1. EnvTypeOK'
      BY <2>28 DEF StartupTimesOut, EnvTypeOK, Statuses
    <3>2. QED
      BY <2>0, <2>28, <3>1 DEF StartupTimesOut
  <2>29. ASSUME NEW e \in Envs, TimeoutHalts(e) PROVE TypeOK'
    <3>1. EnvTypeOK'
      BY <2>29 DEF TimeoutHalts, Halt, EnvTypeOK, Statuses
    <3>2. ExecTypeOK'
      BY <2>29 DEF TimeoutHalts, Halt, ExecTypeOK
    <3>3. QED
      BY <2>0, <2>29, <3>1, <3>2 DEF TimeoutHalts
  <2>30. ASSUME NEW s \in stops, StopBegins(s) PROVE TypeOK'
    <3>1. PoolTypeOK'
      BY <2>30 DEF StopBegins, PoolTypeOK, StopThreads
    <3>2. EnvTypeOK'
      BY <2>30 DEF StopBegins, EnvTypeOK, Statuses
    <3>3. QED
      BY <2>0, <2>30, <3>1, <3>2 DEF StopBegins
  <2>31. ASSUME NEW s \in stops, StopHalts(s) PROVE TypeOK'
    <3>1. PoolTypeOK'
      BY <2>31 DEF StopHalts, Halt, PoolTypeOK, StopThreads
    <3>2. TimerTypeOK'
      BY <2>31 DEF StopHalts, Halt, TimerTypeOK, PoolTypeOK, StopThreads
    <3>3. ExecTypeOK'
      BY <2>31 DEF StopHalts, Halt, ExecTypeOK
    <3>4. QED
      BY <2>0, <2>31, <3>1, <3>2, <3>3 DEF StopHalts
  <2>32. ASSUME NEW s \in stops, StopRemoves(s) PROVE TypeOK'
    <3>1. PoolTypeOK'
      BY <2>32, RemoveAtType DEF StopRemoves, PoolTypeOK, StopThreads
    <3>2. QED
      BY <2>0, <2>32, <3>1 DEF StopRemoves
  <2>33. ASSUME NEW u \in Updates, Configure(u) PROVE TypeOK'
    <3>1. ProvTypeOK'
      BY <2>33, FS_CardinalityType DEF Configure, ProvTypeOK
    <3>2. QED
      BY <2>0, <2>33, <3>1 DEF Configure
  <2>34. ASSUME NEW u \in Updates, BeginUpdate(u) PROVE TypeOK'
    <3>1. ProvTypeOK'
      BY <2>34 DEF BeginUpdate, ProvTypeOK
    <3>2. QED
      BY <2>0, <2>34, <3>1 DEF BeginUpdate
  <2>35. ASSUME NEW u \in Updates, Scale(u) PROVE TypeOK'
    <3>1. \A e \in ToSet(environments) : e \in Envs
      BY LenProperties, ElementOfSeq DEF PoolTypeOK, ToSet
    <3>2. stops' \subseteq StopThreads
      BY <2>35, <3>1 DEF Scale, Kind, StopThread, PoolTypeOK, StopThreads
    <3>3. environments' \in Seq(Envs)
      BY <2>35, NewEnvsAreSeq, ConcatProperties DEF Scale, PoolTypeOK
    <3>4. PoolTypeOK'
      BY <3>2, <3>3 DEF PoolTypeOK
    <3>5. EnvTypeOK'
      BY <2>35 DEF Scale, EnvTypeOK
    <3>6. ProvTypeOK'
      BY <2>35 DEF Scale, ProvTypeOK
    <3>7. QED
      BY <2>0, <2>35, <3>4, <3>5, <3>6 DEF Scale
  <2>36. ASSUME NEW u \in Updates, FinishUpdate(u) PROVE TypeOK'
    <3>1. ProvTypeOK'
      BY <2>36 DEF FinishUpdate, ProvTypeOK
    <3>2. QED
      BY <2>0, <2>36, <3>1 DEF FinishUpdate
  <2>37. CASE Shutdown
    <3>1. QED
      BY <2>0, <2>37 DEF Shutdown
  <2>38. CASE StopEnvironments
    <3>1. \A e \in ToSet(environments) : e \in Envs
      BY LenProperties, ElementOfSeq DEF PoolTypeOK, ToSet
    <3>2. stops' \subseteq StopThreads
      BY <2>38, <3>1 DEF StopEnvironments, StopThread, PoolTypeOK, StopThreads
    <3>3. PoolTypeOK'
      BY <2>38, <3>2 DEF StopEnvironments, PoolTypeOK
    <3>4. QED
      BY <2>0, <2>38, <3>3 DEF StopEnvironments
  <2>39. CASE UNCHANGED vars
    BY <2>0, <2>39 DEF vars
  <2>40. QED
    BY <2>1, <2>2, <2>3, <2>4, <2>5, <2>6, <2>7, <2>8, <2>9, <2>10, <2>11, <2>12, <2>13,
       <2>14, <2>15, <2>16, <2>17, <2>18, <2>19, <2>20, <2>21, <2>22, <2>23, <2>24,
       <2>25, <2>26, <2>27, <2>28, <2>29, <2>30, <2>31, <2>32, <2>33, <2>34, <2>35,
       <2>36, <2>37, <2>38, <2>39
       DEF Next, Invocation, Start, StartupTimer, Stop, Update
<1>3. ASSUME TypeInv, TypeOK', [Next]_vars PROVE EnvInv' /\ TimerInv'
  <2> DEFINE Goal == EnvInv /\ TimerInv
  <2> SUFFICES Goal'
    OBVIOUS
  <2>0. ASSUME NEW i \in Invocations, NEW l, Goto(i, l),
               UNCHANGED <<env, keepalive_timer, armed, cancelled>>,
               l \in HasEnv => env[i] \in Envs /\ l # "arm" /\ (l = "timer" => env[i] \in Invocations),
               pc[i] \in Past => l \in Past
        PROVE  Goal'
    <3>1. EnvInv'
      BY <1>3, <2>0 DEF TypeInv, TypeOK, InvokeTypeOK, EnvInv, HasEnv, Goto
    <3>2. TimerInv'
      BY <1>3, <2>0 DEF TypeInv, TypeOK, InvokeTypeOK, TimerTypeOK, TimerInv, Goto
    <3>3. QED
      BY <3>1, <3>2
  <2>a. ASSUME NEW i \in Invocations, NEW e \in Envs, Reserve(i, e), pc[i] \in {"scan", "registered"},
               UNCHANGED <<keepalive_timer, armed, cancelled>>
        PROVE  Goal'
    <3>1. EnvInv'
      BY <1>3, <2>a DEF TypeInv, TypeOK, InvokeTypeOK, EnvInv, HasEnv, Reserve, Goto
    <3>2. TimerInv'
      BY <1>3, <2>a DEF TypeInv, TypeOK, InvokeTypeOK, TimerTypeOK, TimerInv, Past, Reserve, Goto
    <3>3. QED
      BY <3>1, <3>2
  <2> USE <1>3 DEF TypeInv, TypeOK, InvokeTypeOK, TimerTypeOK, EnvInv, TimerInv, HasEnv, Past,
     Labels,
              poolVars, envVars, timerVars, execVars, invokeVars, provVars
  <2>1. ASSUME NEW i \in Invocations, Invoke(i) PROVE Goal'
    <3>1. Goto(i, "lease") \/ Goto(i, "done")
      BY <2>1 DEF Invoke
    <3>2. QED
      BY <2>1, <3>1, <2>0 DEF Invoke
  <2>2. ASSUME NEW i \in Invocations, LeaseProvisioned(i) PROVE Goal'
    BY <2>2 DEF LeaseProvisioned, Goto
  <2>3. ASSUME NEW i \in Invocations, LeaseOnDemand(i) PROVE Goal'
    <3>1. Goto(i, "assign") \/ Goto(i, "done")
      BY <2>3 DEF LeaseOnDemand
    <3>2. QED
      BY <2>3, <3>1, <2>0 DEF LeaseOnDemand
  <2>4. ASSUME NEW i \in Invocations, LeaseCrashes(i) PROVE Goal'
    BY <2>4 DEF LeaseCrashes, Goto
  <2>5. ASSUME NEW i \in Invocations, Snapshot(i) PROVE Goal'
    BY <2>5 DEF Snapshot, Goto
  <2>6. ASSUME NEW i \in Invocations, TryReserve(i) PROVE Goal'
    <3>1. PICK e \in Envs : e = Head(todo[i])
      BY <2>6, HeadTailProperties DEF TryReserve
    <3>2. CASE Reserve(i, e)
      BY <2>6, <2>a, <3>2 DEF TryReserve
    <3>3. CASE UNCHANGED <<status, env, pc>>
      BY <2>6, <3>3 DEF TryReserve
    <3>4. QED
      BY <2>6, <3>1, <3>2, <3>3, Zenon DEF TryReserve
  <2>7. ASSUME NEW i \in Invocations, NoneAvailable(i) PROVE Goal'
    BY <2>7 DEF NoneAvailable, Goto
  <2>8. ASSUME NEW i \in Invocations, StartOnDemand(i) PROVE Goal'
    BY <2>8 DEF StartOnDemand, Goto
  <2>9. ASSUME NEW i \in Invocations, StartOnDemandFailed(i) PROVE Goal'
    BY <2>9 DEF StartOnDemandFailed, Goto
  <2>10. ASSUME NEW i \in Invocations, Register(i) PROVE Goal'
    BY <2>10 DEF Register, Goto
  <2>11. ASSUME NEW i \in Invocations, ReserveNew(i) PROVE Goal'
    <3>1. i \in Envs
      BY DEF Envs
    <3>2. CASE Reserve(i, i)
      BY <2>11, <2>a, <3>1, <3>2 DEF ReserveNew
    <3>3. CASE Goto(i, "return") /\ UNCHANGED <<status, env>>
      BY <2>11, <2>0, <3>3 DEF ReserveNew
    <3>4. QED
      BY <2>11, <3>2, <3>3, Zenon DEF ReserveNew
  <2>12. ASSUME NEW i \in Invocations, CancelKeepalive(i) PROVE Goal'
    BY <2>12 DEF CancelKeepalive, Goto
  <2>13. ASSUME NEW i \in Invocations, InvokeEnvironment(i) PROVE Goal'
    BY <2>13 DEF InvokeEnvironment, Goto
  <2>14. ASSUME NEW i \in Invocations, InvocationEnds(i) PROVE Goal'
    <3>1. Goto(i, "release") \/ Goto(i, "failing")
      BY <2>14 DEF InvocationEnds
    <3>2. QED
      BY <2>14, <3>1, <2>0 DEF InvocationEnds
  <2>15. ASSUME NEW i \in Invocations, Release(i) PROVE Goal'
    <3>1. (Goto(i, "timer") /\ env[i] \in Invocations) \/ Goto(i, "return")
      BY <2>15 DEF Release, AfterRelease, Kind
    <3>2. QED
      BY <2>15, <3>1, <2>0 DEF Release
  <2>16. ASSUME NEW i \in Invocations, NewKeepalive(i) PROVE Goal'
    <3>1. env[i] \in Envs /\ env[i] \in Invocations /\ i \notin armed \cup cancelled
      BY <2>16 DEF NewKeepalive, Envs
    <3>2. \A e \in Envs : keepalive_timer'[e] = IF e = env[i] THEN i ELSE keepalive_timer[e]
      BY <2>16, <3>1 DEF NewKeepalive
    <3>3. i # None /\ pc' = [pc EXCEPT ![i] = "arm"]
      BY <2>16 DEF NewKeepalive, Goto, Envs
    <3>4. EnvInv'
      BY <2>16, <3>1, <3>2, <3>3 DEF NewKeepalive
    <3>5. TimerInv'
      BY <2>16, <3>1, <3>2, <3>3 DEF NewKeepalive
    <3>6. QED
      BY <3>4, <3>5
  <2>17. ASSUME NEW i \in Invocations, ArmKeepalive(i) PROVE Goal'
    <3>1. PICK t \in Invocations : t = keepalive_timer[env[i]]
      BY <2>17 DEF ArmKeepalive
    <3>2. env[i] \in Invocations /\ env[t] = env[i] /\ pc[t] \in Past
      BY <2>17, <3>1 DEF ArmKeepalive
    <3>3. CASE armed' = armed \cup {t} /\ Goto(i, "return")
      <4>1. EnvInv'
        BY <2>17, <3>3 DEF ArmKeepalive, Goto
      <4>2. TimerInv'
        BY <2>17, <3>2, <3>3 DEF ArmKeepalive, Goto
      <4>3. QED
        BY <4>1, <4>2
    <3>4. CASE Goto(i, "failing") /\ UNCHANGED armed
      BY <2>17, <2>0, <3>2, <3>4 DEF ArmKeepalive
    <3>5. QED
      BY <2>17, <3>1, <3>3, <3>4, Zenon DEF ArmKeepalive
  <2>18. ASSUME NEW i \in Invocations, HandleFailure(i) PROVE Goal'
    <3>1. Goto(i, "return") \/ Goto(i, "stopping")
      BY <2>18 DEF HandleFailure
    <3>2. QED
      BY <2>18, <3>1, <2>0 DEF HandleFailure
  <2>19. ASSUME NEW i \in Invocations, FailureHandled(i) PROVE Goal'
    BY <2>19 DEF FailureHandled, Goto
  <2>20. ASSUME NEW i \in Invocations, ReturnLease(i) PROVE Goal'
    BY <2>20 DEF ReturnLease, Goto, Returned
  <2>21. ASSUME NEW i \in Invocations, KeepalivePassed(i) PROVE Goal'
    BY <2>21 DEF KeepalivePassed, KeepaliveMayStop, StopThread
  <2>22. ASSUME NEW e \in Envs, StartBegins(e) PROVE Goal'
    BY <2>22 DEF StartBegins
  <2>23. ASSUME NEW e \in Envs, CreateContainer(e) PROVE Goal'
    BY <2>23 DEF CreateContainer
  <2>24. ASSUME NEW e \in Envs, StartSucceeds(e) PROVE Goal'
    BY <2>24 DEF StartSucceeds
  <2>25. ASSUME NEW e \in Envs, StartFails(e) PROVE Goal'
    BY <2>25 DEF StartFails, Halt
  <2>26. ASSUME NEW e \in Envs, ContainerReports(e) PROVE Goal'
    BY <2>26 DEF ContainerReports
  <2>27. ASSUME NEW e \in Envs, CreateFails(e) PROVE Goal'
    BY <2>27 DEF CreateFails
  <2>28. ASSUME NEW e \in Envs, StartupTimesOut(e) PROVE Goal'
    BY <2>28 DEF StartupTimesOut
  <2>29. ASSUME NEW e \in Envs, TimeoutHalts(e) PROVE Goal'
    BY <2>29 DEF TimeoutHalts, Halt
  <2>30. ASSUME NEW s \in stops, StopBegins(s) PROVE Goal'
    BY <2>30 DEF StopBegins
  <2>31. ASSUME NEW s \in stops, StopHalts(s) PROVE Goal'
    <3>1. s.env \in Envs
      BY DEF PoolTypeOK, StopThreads
    <3>2. QED
      BY <2>31, <3>1 DEF StopHalts
  <2>32. ASSUME NEW s \in stops, StopRemoves(s) PROVE Goal'
    BY <2>32 DEF StopRemoves
  <2>33. ASSUME NEW u \in Updates, Configure(u) PROVE Goal'
    BY <2>33 DEF Configure
  <2>34. ASSUME NEW u \in Updates, BeginUpdate(u) PROVE Goal'
    BY <2>34 DEF BeginUpdate
  <2>35. ASSUME NEW u \in Updates, Scale(u) PROVE Goal'
    BY <2>35 DEF Scale, Kind, StopThread
  <2>36. ASSUME NEW u \in Updates, FinishUpdate(u) PROVE Goal'
    BY <2>36 DEF FinishUpdate
  <2>37. CASE Shutdown
    BY <2>37 DEF Shutdown
  <2>38. CASE StopEnvironments
    BY <2>38 DEF StopEnvironments, StopThread
  <2>39. CASE UNCHANGED vars
    BY <2>39 DEF vars
  <2>40. QED
    BY <2>1, <2>2, <2>3, <2>4, <2>5, <2>6, <2>7, <2>8, <2>9, <2>10, <2>11, <2>12, <2>13,
       <2>14, <2>15, <2>16, <2>17, <2>18, <2>19, <2>20, <2>21, <2>22, <2>23, <2>24,
       <2>25, <2>26, <2>27, <2>28, <2>29, <2>30, <2>31, <2>32, <2>33, <2>34, <2>35,
       <2>36, <2>37, <2>38, <2>39
       DEF Next, Invocation, Start, StartupTimer, Stop, Update
<1>4. ASSUME TypeInv, TypeOK', [Next]_vars PROVE LeaseInv'
  <2> USE <1>4
  <2>0. ASSUME /\ UNCHANGED <<lease, concurrent_executions>>
               /\ \A i \in Invocations : pc'[i] \in {"new", "lease"} => pc[i] \in {"new", "lease"}
        PROVE  LeaseInv'
    BY <2>0 DEF TypeInv, LeaseInv, Lessees
  <2> USE DEF TypeInv, TypeOK, InvokeTypeOK, poolVars, envVars, timerVars, execVars, invokeVars,
     provVars
  <2>1. ASSUME NEW i \in Invocations, Invoke(i) PROVE LeaseInv'
    BY <2>1, <2>0 DEF Invoke, Goto
  <2>2. ASSUME NEW i \in Invocations, LeaseProvisioned(i) PROVE LeaseInv'
    <3>1. Lessees' = Lessees \cup {i} /\ i \notin Lessees
      BY <2>2 DEF LeaseProvisioned, Lessees, LeaseInv
    <3>2. IsFiniteSet(Lessees') /\ Cardinality(Lessees') = Cardinality(Lessees) + 1
      BY <3>1, FS_AddElement DEF LeaseInv
    <3>3. QED
      BY <2>2, <3>2 DEF LeaseProvisioned, LeaseInv, Goto
  <2>3. ASSUME NEW i \in Invocations, LeaseOnDemand(i) PROVE LeaseInv'
    <3>1. Lessees' = Lessees
      BY <2>3 DEF LeaseOnDemand, Lessees, LeaseInv
    <3>2. QED
      BY <2>3, <3>1 DEF LeaseOnDemand, LeaseInv, Goto
  <2>4. ASSUME NEW i \in Invocations, LeaseCrashes(i) PROVE LeaseInv'
    BY <2>4, <2>0 DEF LeaseCrashes, Goto
  <2>5. ASSUME NEW i \in Invocations, Snapshot(i) PROVE LeaseInv'
    BY <2>5, <2>0 DEF Snapshot, Goto
  <2>6. ASSUME NEW i \in Invocations, TryReserve(i) PROVE LeaseInv'
    BY <2>6, <2>0 DEF TryReserve, Goto, Reservable, Reserve
  <2>7. ASSUME NEW i \in Invocations, NoneAvailable(i) PROVE LeaseInv'
    BY <2>7, <2>0 DEF NoneAvailable, Goto
  <2>8. ASSUME NEW i \in Invocations, StartOnDemand(i) PROVE LeaseInv'
    BY <2>8, <2>0 DEF StartOnDemand, Goto
  <2>9. ASSUME NEW i \in Invocations, StartOnDemandFailed(i) PROVE LeaseInv'
    BY <2>9, <2>0 DEF StartOnDemandFailed, Goto
  <2>10. ASSUME NEW i \in Invocations, Register(i) PROVE LeaseInv'
    BY <2>10, <2>0 DEF Register, Goto
  <2>11. ASSUME NEW i \in Invocations, ReserveNew(i) PROVE LeaseInv'
    BY <2>11, <2>0 DEF ReserveNew, Goto, Reservable, Reserve
  <2>12. ASSUME NEW i \in Invocations, CancelKeepalive(i) PROVE LeaseInv'
    BY <2>12, <2>0 DEF CancelKeepalive, Goto
  <2>13. ASSUME NEW i \in Invocations, InvokeEnvironment(i) PROVE LeaseInv'
    BY <2>13, <2>0 DEF InvokeEnvironment, Goto
  <2>14. ASSUME NEW i \in Invocations, InvocationEnds(i) PROVE LeaseInv'
    BY <2>14, <2>0 DEF InvocationEnds, Goto
  <2>15. ASSUME NEW i \in Invocations, Release(i) PROVE LeaseInv'
    BY <2>15, <2>0 DEF Release, Goto, AfterRelease, Kind
  <2>16. ASSUME NEW i \in Invocations, NewKeepalive(i) PROVE LeaseInv'
    BY <2>16, <2>0 DEF NewKeepalive, Goto
  <2>17. ASSUME NEW i \in Invocations, ArmKeepalive(i) PROVE LeaseInv'
    BY <2>17, <2>0 DEF ArmKeepalive, Goto
  <2>18. ASSUME NEW i \in Invocations, HandleFailure(i) PROVE LeaseInv'
    BY <2>18, <2>0 DEF HandleFailure, Goto, StopsOnFailure, StopThread, Kind
  <2>19. ASSUME NEW i \in Invocations, FailureHandled(i) PROVE LeaseInv'
    BY <2>19, <2>0 DEF FailureHandled, Goto
  <2>20. ASSUME NEW i \in Invocations, ReturnLease(i) PROVE LeaseInv'
    <3>1. CASE lease[i] = "provisioned"
      <4>1. Lessees' = Lessees \ {i} /\ i \in Lessees
        BY <2>20, <3>1 DEF ReturnLease, Lessees
      <4>2. IsFiniteSet(Lessees') /\ Cardinality(Lessees') = Cardinality(Lessees) - 1
        BY <4>1, FS_RemoveElement DEF LeaseInv
      <4>3. QED
        BY <2>20, <3>1, <4>2 DEF ReturnLease, Returned, LeaseInv, Goto
    <3>2. CASE lease[i] # "provisioned"
      <4>1. Lessees' = Lessees
        BY <2>20, <3>2 DEF ReturnLease, Lessees
      <4>2. concurrent_executions' = concurrent_executions
        BY <2>20, <3>2 DEF ReturnLease, Returned, ProvTypeOK
      <4>3. QED
        BY <2>20, <4>1, <4>2 DEF ReturnLease, LeaseInv, Goto
    <3>3. QED
      BY <3>1, <3>2
  <2>21. ASSUME NEW i \in Invocations, KeepalivePassed(i) PROVE LeaseInv'
    BY <2>21, <2>0 DEF KeepalivePassed, KeepaliveMayStop, StopThread
  <2>22. ASSUME NEW e \in Envs, StartBegins(e) PROVE LeaseInv'
    BY <2>22, <2>0 DEF StartBegins
  <2>23. ASSUME NEW e \in Envs, CreateContainer(e) PROVE LeaseInv'
    BY <2>23, <2>0 DEF CreateContainer
  <2>24. ASSUME NEW e \in Envs, StartSucceeds(e) PROVE LeaseInv'
    BY <2>24, <2>0 DEF StartSucceeds
  <2>25. ASSUME NEW e \in Envs, StartFails(e) PROVE LeaseInv'
    BY <2>25, <2>0 DEF StartFails, Halt
  <2>26. ASSUME NEW e \in Envs, ContainerReports(e) PROVE LeaseInv'
    BY <2>26, <2>0 DEF ContainerReports
  <2>27. ASSUME NEW e \in Envs, CreateFails(e) PROVE LeaseInv'
    BY <2>27, <2>0 DEF CreateFails
  <2>28. ASSUME NEW e \in Envs, StartupTimesOut(e) PROVE LeaseInv'
    BY <2>28, <2>0 DEF StartupTimesOut
  <2>29. ASSUME NEW e \in Envs, TimeoutHalts(e) PROVE LeaseInv'
    BY <2>29, <2>0 DEF TimeoutHalts, Halt
  <2>30. ASSUME NEW s \in stops, StopBegins(s) PROVE LeaseInv'
    BY <2>30, <2>0 DEF StopBegins
  <2>31. ASSUME NEW s \in stops, StopHalts(s) PROVE LeaseInv'
    BY <2>31, <2>0 DEF StopHalts, Halt
  <2>32. ASSUME NEW s \in stops, StopRemoves(s) PROVE LeaseInv'
    BY <2>32, <2>0 DEF StopRemoves
  <2>33. ASSUME NEW u \in Updates, Configure(u) PROVE LeaseInv'
    BY <2>33, <2>0 DEF Configure
  <2>34. ASSUME NEW u \in Updates, BeginUpdate(u) PROVE LeaseInv'
    BY <2>34, <2>0 DEF BeginUpdate
  <2>35. ASSUME NEW u \in Updates, Scale(u) PROVE LeaseInv'
    BY <2>35, <2>0 DEF Scale, Kind, StopThread
  <2>36. ASSUME NEW u \in Updates, FinishUpdate(u) PROVE LeaseInv'
    BY <2>36, <2>0 DEF FinishUpdate
  <2>37. CASE Shutdown
    BY <2>37, <2>0 DEF Shutdown
  <2>38. CASE StopEnvironments
    BY <2>38, <2>0 DEF StopEnvironments, StopThread
  <2>39. CASE UNCHANGED vars
    BY <2>39, <2>0 DEF vars
  <2>40. QED
    BY <2>1, <2>2, <2>3, <2>4, <2>5, <2>6, <2>7, <2>8, <2>9, <2>10, <2>11, <2>12, <2>13,
       <2>14, <2>15, <2>16, <2>17, <2>18, <2>19, <2>20, <2>21, <2>22, <2>23, <2>24,
       <2>25, <2>26, <2>27, <2>28, <2>29, <2>30, <2>31, <2>32, <2>33, <2>34, <2>35,
       <2>36, <2>37, <2>38, <2>39
       DEF Next, Invocation, Start, StartupTimer, Stop, Update
<1>5. QED
  BY <1>1, <1>2, <1>3, <1>4, PTL DEF Spec, TypeInv

\* Environments are those of invocations and those of updates, all different.
LEMMA EnvsAre ==
    /\ Invocations \subseteq Envs /\ None \notin Envs
    /\ \A u \in Updates : NewEnvs[u] \subseteq Envs /\ NewEnvs[u] \cap Invocations = {}
    /\ \A u, v \in Updates : u # v => NewEnvs[u] \cap NewEnvs[v] = {}
BY NewEnvsAssumption, NamesAssumption DEF Envs, ProvisionedEnvs

\* An environment has the statuses that go with its start: a start is made once, and
\* the startup timer acts only while it is under way.
LEMMA StartInvHolds == Spec => []StartInv
<1> USE EnvsAre
<1>1. Init => StartInv
  BY DEF Init, StartInv, HasEnv
<1>2. ASSUME TypeInv, TypeInv', StartInv, [Next]_vars PROVE StartInv'
  <2>0. ASSUME NEW i \in Invocations, NEW l, Goto(i, l), UNCHANGED <<status, starter, env, updater>>,
               l \in {"new", "lease", "assign", "scan"} => pc[i] \in {"new", "lease", "assign", "scan"},
               l \in HasEnv => pc[i] \in HasEnv
        PROVE  StartInv'
    BY <1>2, <2>0 DEF TypeInv, TypeOK, InvokeTypeOK, StartInv, Goto
  <2>t. /\ status \in [Envs -> Statuses]
        /\ starter \in [Envs -> {"none", "queued", "creating", "waiting", "started", "failed"}]
        /\ pc \in [Invocations -> Labels] /\ env \in [Invocations -> Envs \cup {None}]
        /\ \A i \in Invocations : pc[i] \in HasEnv => env[i] \in Envs
    BY <1>2 DEF TypeInv, TypeOK, InvokeTypeOK, EnvTypeOK, EnvInv
  <2> USE <1>2, <2>t DEF StartInv, HasEnv,
              poolVars, envVars, timerVars, execVars, invokeVars, provVars
  <2>1. ASSUME NEW i \in Invocations, Invoke(i) PROVE StartInv'
    <3>1. Goto(i, "lease") \/ Goto(i, "done")
      BY <2>1 DEF Invoke
    <3>2. QED
      BY <2>1, <2>0, <3>1 DEF Invoke
  <2>2. ASSUME NEW i \in Invocations, LeaseProvisioned(i) PROVE StartInv'
    BY <2>2, <2>0 DEF LeaseProvisioned
  <2>3. ASSUME NEW i \in Invocations, LeaseOnDemand(i) PROVE StartInv'
    <3>1. Goto(i, "assign") \/ Goto(i, "done")
      BY <2>3 DEF LeaseOnDemand
    <3>2. QED
      BY <2>3, <2>0, <3>1 DEF LeaseOnDemand
  <2>4. ASSUME NEW i \in Invocations, LeaseCrashes(i) PROVE StartInv'
    BY <2>4, <2>0 DEF LeaseCrashes
  <2>5. ASSUME NEW i \in Invocations, Snapshot(i) PROVE StartInv'
    BY <2>5, <2>0 DEF Snapshot
  <2>6. ASSUME NEW i \in Invocations, TryReserve(i) PROVE StartInv'
    <3>1. PICK e \in Envs : e = Head(todo[i])
      BY <2>6, HeadTailProperties DEF TryReserve, TypeInv, TypeOK, InvokeTypeOK
    <3>2. CASE Reserve(i, e) /\ Reservable(e)
      BY <2>6, <3>2 DEF TryReserve, Reserve, Reservable, Goto
    <3>3. CASE UNCHANGED <<status, env, pc>>
      BY <2>6, <3>3 DEF TryReserve
    <3>4. QED
      BY <2>6, <3>1, <3>2, <3>3, Zenon DEF TryReserve
  <2>7. ASSUME NEW i \in Invocations, NoneAvailable(i) PROVE StartInv'
    BY <2>7, <2>0 DEF NoneAvailable
  <2>8. ASSUME NEW i \in Invocations, StartOnDemand(i) PROVE StartInv'
    BY <2>8 DEF StartOnDemand, Goto
  <2>9. ASSUME NEW i \in Invocations, StartOnDemandFailed(i) PROVE StartInv'
    BY <2>9, <2>0 DEF StartOnDemandFailed
  <2>10. ASSUME NEW i \in Invocations, Register(i) PROVE StartInv'
    BY <2>10, <2>0 DEF Register
  <2>11. ASSUME NEW i \in Invocations, ReserveNew(i) PROVE StartInv'
    <3>1. CASE Reserve(i, i) /\ Reservable(i)
      <4>1. i \in Envs /\ status[i] = "READY" /\ starter[i] = "started"
        BY <3>1 DEF Reservable
      <4>2. UNCHANGED <<starter, updater>>
        BY <2>11 DEF ReserveNew
      <4>3. /\ status' = [status EXCEPT ![i] = "INVOKING"]
            /\ env' = [env EXCEPT ![i] = i]
            /\ pc' = [pc EXCEPT ![i] = "reserved"]
        BY <3>1 DEF Reserve, Goto
      <4>4. \A e \in Envs : status'[e] = status[e] \/ (e = i /\ status'[e] = "INVOKING")
        BY <4>3
      <4>5. /\ pc'[i] = "reserved" /\ env'[i] = i
            /\ \A j \in Invocations \ {i} : pc'[j] = pc[j] /\ env'[j] = env[j]
        BY <4>3
      <4>6. QED
        BY <4>1, <4>2, <4>4, <4>5
    <3>2. CASE Goto(i, "return") /\ UNCHANGED <<status, env>>
      BY <2>11, <2>0, <3>2 DEF ReserveNew
    <3>3. QED
      BY <2>11, <3>1, <3>2, Zenon DEF ReserveNew
  <2>12. ASSUME NEW i \in Invocations, CancelKeepalive(i) PROVE StartInv'
    BY <2>12, <2>0 DEF CancelKeepalive
  <2>13. ASSUME NEW i \in Invocations, InvokeEnvironment(i) PROVE StartInv'
    <3>1. Goto(i, "running") \/ Goto(i, "failing")
      BY <2>13 DEF InvokeEnvironment
    <3>2. QED
      BY <2>13, <2>0, <3>1 DEF InvokeEnvironment
  <2>14. ASSUME NEW i \in Invocations, InvocationEnds(i) PROVE StartInv'
    <3>1. Goto(i, "release") \/ Goto(i, "failing")
      BY <2>14 DEF InvocationEnds
    <3>2. QED
      BY <2>14, <2>0, <3>1 DEF InvocationEnds
  <2>15. ASSUME NEW i \in Invocations, Release(i) PROVE StartInv'
    BY <2>15 DEF Release, Goto, AfterRelease, Kind
  <2>16. ASSUME NEW i \in Invocations, NewKeepalive(i) PROVE StartInv'
    BY <2>16, <2>0 DEF NewKeepalive
  <2>17. ASSUME NEW i \in Invocations, ArmKeepalive(i) PROVE StartInv'
    <3>1. Goto(i, "return") \/ Goto(i, "failing")
      BY <2>17 DEF ArmKeepalive
    <3>2. QED
      BY <2>17, <2>0, <3>1 DEF ArmKeepalive
  <2>18. ASSUME NEW i \in Invocations, HandleFailure(i) PROVE StartInv'
    BY <2>18 DEF HandleFailure, Goto, StopsOnFailure, StopThread, Kind
  <2>19. ASSUME NEW i \in Invocations, FailureHandled(i) PROVE StartInv'
    BY <2>19, <2>0 DEF FailureHandled
  <2>20. ASSUME NEW i \in Invocations, ReturnLease(i) PROVE StartInv'
    BY <2>20, <2>0 DEF ReturnLease
  <2>21. ASSUME NEW i \in Invocations, KeepalivePassed(i) PROVE StartInv'
    BY <2>21 DEF KeepalivePassed, KeepaliveMayStop, StopThread
  <2>22. ASSUME NEW e \in Envs, StartBegins(e) PROVE StartInv'
    BY <2>22 DEF StartBegins
  <2>23. ASSUME NEW e \in Envs, CreateContainer(e) PROVE StartInv'
    BY <2>23 DEF CreateContainer
  <2>24. ASSUME NEW e \in Envs, StartSucceeds(e) PROVE StartInv'
    BY <2>24 DEF StartSucceeds
  <2>25. ASSUME NEW e \in Envs, StartFails(e) PROVE StartInv'
    BY <2>25 DEF StartFails, Halt
  <2>26. ASSUME NEW e \in Envs, ContainerReports(e) PROVE StartInv'
    BY <2>26 DEF ContainerReports
  <2>27. ASSUME NEW e \in Envs, CreateFails(e) PROVE StartInv'
    BY <2>27 DEF CreateFails
  <2>28. ASSUME NEW e \in Envs, StartupTimesOut(e) PROVE StartInv'
    BY <2>28 DEF StartupTimesOut
  <2>29. ASSUME NEW e \in Envs, TimeoutHalts(e) PROVE StartInv'
    BY <2>29 DEF TimeoutHalts, Halt
  <2>30. ASSUME NEW s \in stops, StopBegins(s) PROVE StartInv'
    BY <2>30 DEF StopBegins
  <2>31. ASSUME NEW s \in stops, StopHalts(s) PROVE StartInv'
    BY <2>31 DEF StopHalts, Halt
  <2>32. ASSUME NEW s \in stops, StopRemoves(s) PROVE StartInv'
    BY <2>32 DEF StopRemoves
  <2>33. ASSUME NEW u \in Updates, Configure(u) PROVE StartInv'
    BY <2>33 DEF Configure
  <2>34. ASSUME NEW u \in Updates, BeginUpdate(u) PROVE StartInv'
    <3>1. /\ UNCHANGED <<status, starter, pc, env>>
          /\ \A v \in Updates : v # u => updater'[v] = updater[v]
      BY <2>34 DEF BeginUpdate, TypeInv, TypeOK, ProvTypeOK
    <3>2. updater[u] = "configured"
      BY <2>34 DEF BeginUpdate
    <3>3. QED
      BY <3>1, <3>2
  <2>35. ASSUME NEW u \in Updates, Scale(u) PROVE StartInv'
    <3>1. /\ updater[u] = "scaling" /\ updater'[u] = "waiting"
          /\ \A v \in Updates : v # u => updater'[v] = updater[v]
          /\ UNCHANGED <<status, pc, env>>
      BY <2>35 DEF Scale, TypeInv, TypeOK, ProvTypeOK
    <3>2. \A e \in NewEnvs[u] : e \notin Invocations /\ starter[e] = "none" /\ starter'[e] = "queued"
      BY <2>35, <3>1 DEF Scale
    <3>3. \A e \in Envs : e \notin NewEnvs[u] => starter'[e] = starter[e]
      BY <2>35 DEF Scale
    <3>4. QED
      BY <3>1, <3>2, <3>3
  <2>36. ASSUME NEW u \in Updates, FinishUpdate(u) PROVE StartInv'
    BY <2>36 DEF FinishUpdate
  <2>37. CASE Shutdown
    BY <2>37 DEF Shutdown
  <2>38. CASE StopEnvironments
    BY <2>38 DEF StopEnvironments, StopThread
  <2>39. CASE UNCHANGED vars
    BY <2>39 DEF vars
  <2>40. QED
    BY <2>1, <2>2, <2>3, <2>4, <2>5, <2>6, <2>7, <2>8, <2>9, <2>10, <2>11, <2>12, <2>13,
       <2>14, <2>15, <2>16, <2>17, <2>18, <2>19, <2>20, <2>21, <2>22, <2>23, <2>24,
       <2>25, <2>26, <2>27, <2>28, <2>29, <2>30, <2>31, <2>32, <2>33, <2>34, <2>35,
       <2>36, <2>37, <2>38, <2>39
       DEF Next, Invocation, Start, StartupTimer, Stop, Update
<1>3. QED
  BY <1>1, <1>2, TypeInvHolds, PTL DEF Spec

\* Membership in the dict after an environment, or those of an update, are added.
LEMMA ToSetOfAppend ==
    ASSUME NEW S, NEW q \in Seq(S), NEW x \in S
    PROVE  ToSet(Append(q, x)) = ToSet(q) \cup {x}
<1>1. Len(q) \in Nat /\ DOMAIN q = 1..Len(q)
  BY LenProperties
<1>2. /\ Append(q, x) \in Seq(S) /\ Len(Append(q, x)) = Len(q) + 1
      /\ \A j \in 1..Len(q) : Append(q, x)[j] = q[j]
      /\ Append(q, x)[Len(q) + 1] = x
  BY AppendProperties
<1>3. DOMAIN Append(q, x) = 1..(Len(q) + 1)
  BY <1>2, LenProperties
<1>4. 1..(Len(q) + 1) = 1..Len(q) \cup {Len(q) + 1}
  BY <1>1
<1>5. QED
  BY <1>1, <1>2, <1>3, <1>4 DEF ToSet

LEMMA ToSetOfConcat ==
    ASSUME NEW S, NEW q \in Seq(S), NEW r \in Seq(S), NEW e \in ToSet(q \o r)
    PROVE  e \in ToSet(q) \cup ToSet(r)
<1>1. Len(q) \in Nat /\ Len(r) \in Nat /\ DOMAIN q = 1..Len(q) /\ DOMAIN r = 1..Len(r)
  BY LenProperties
<1>2. /\ q \o r \in Seq(S) /\ Len(q \o r) = Len(q) + Len(r)
      /\ \A j \in 1..Len(q) + Len(r) : (q \o r)[j] = IF j <= Len(q) THEN q[j] ELSE r[j - Len(q)]
  BY ConcatProperties
<1>3. PICK j \in 1..Len(q) + Len(r) : e = (q \o r)[j]
  BY <1>2, LenProperties DEF ToSet
<1>4. CASE j <= Len(q)
  BY <1>1, <1>2, <1>3, <1>4 DEF ToSet
<1>5. CASE j > Len(q)
  <2>1. j - Len(q) \in 1..Len(r) /\ ~(j <= Len(q))
    BY <1>1, <1>5
  <2>2. e = r[j - Len(q)]
    BY <1>2, <1>3, <2>1
  <2>3. QED
    BY <1>1, <2>1, <2>2 DEF ToSet
<1>6. QED
  BY <1>1, <1>4, <1>5

LEMMA ScaledEnvironments ==
    ASSUME NEW q \in Seq(Envs), NEW u \in Updates, NEW e \in ToSet(q \o SetToSeq(NewEnvs[u]))
    PROVE  e \in ToSet(q) \cup NewEnvs[u]
<1>1. e \in ToSet(q) \cup ToSet(SetToSeq(NewEnvs[u]))
  BY NewEnvsAreSeq, ToSetOfConcat
<1>2. ToSet(SetToSeq(NewEnvs[u])) \subseteq NewEnvs[u]
  BY NewEnvsAreSeq, LenProperties, ElementOfSeq DEF ToSet
<1>3. QED
  BY <1>1, <1>2

\* A start that has succeeded is never undone, and an environment stopped after
\* that stays stopped.
LEMMA StartedPersists ==
    ASSUME TypeInv, StartInv, [Next]_vars, NEW e \in Envs, starter[e] = "started"
    PROVE  starter'[e] = "started" /\ (status[e] = "STOPPED" => status'[e] = "STOPPED")
<1> USE EnvsAre
<1> DEFINE Goal == starter'[e] = "started" /\ (status[e] = "STOPPED" => status'[e] = "STOPPED")
<1>t. /\ status \in [Envs -> Statuses]
      /\ starter \in [Envs -> {"none", "queued", "creating", "waiting", "started", "failed"}]
      /\ todo \in [Invocations -> Seq(Envs)]
  BY DEF TypeInv, TypeOK, EnvTypeOK, InvokeTypeOK
<1> USE <1>t DEF poolVars, envVars, timerVars, execVars, invokeVars, provVars
<1>1. Goal
  <2>1. ASSUME NEW i \in Invocations, Invoke(i) PROVE Goal
    BY <2>1 DEF Invoke, Goto
  <2>2. ASSUME NEW i \in Invocations, LeaseProvisioned(i) PROVE Goal
    BY <2>2 DEF LeaseProvisioned, Goto
  <2>3. ASSUME NEW i \in Invocations, LeaseOnDemand(i) PROVE Goal
    BY <2>3 DEF LeaseOnDemand, Goto
  <2>4. ASSUME NEW i \in Invocations, LeaseCrashes(i) PROVE Goal
    BY <2>4 DEF LeaseCrashes, Goto
  <2>5. ASSUME NEW i \in Invocations, Snapshot(i) PROVE Goal
    BY <2>5 DEF Snapshot, Goto
  <2>6. ASSUME NEW i \in Invocations, TryReserve(i) PROVE Goal
    BY <2>6 DEF TryReserve, Goto, Reservable, Reserve
  <2>7. ASSUME NEW i \in Invocations, NoneAvailable(i) PROVE Goal
    BY <2>7 DEF NoneAvailable, Goto
  <2>8. ASSUME NEW i \in Invocations, StartOnDemand(i) PROVE Goal
    BY <2>8 DEF StartOnDemand, StartInv
  <2>9. ASSUME NEW i \in Invocations, StartOnDemandFailed(i) PROVE Goal
    BY <2>9 DEF StartOnDemandFailed, Goto
  <2>10. ASSUME NEW i \in Invocations, Register(i) PROVE Goal
    BY <2>10 DEF Register, Goto
  <2>11. ASSUME NEW i \in Invocations, ReserveNew(i) PROVE Goal
    BY <2>11 DEF ReserveNew, Goto, Reservable, Reserve
  <2>12. ASSUME NEW i \in Invocations, CancelKeepalive(i) PROVE Goal
    BY <2>12 DEF CancelKeepalive, Goto
  <2>13. ASSUME NEW i \in Invocations, InvokeEnvironment(i) PROVE Goal
    BY <2>13 DEF InvokeEnvironment, Goto
  <2>14. ASSUME NEW i \in Invocations, InvocationEnds(i) PROVE Goal
    BY <2>14 DEF InvocationEnds, Goto
  <2>15. ASSUME NEW i \in Invocations, Release(i) PROVE Goal
    BY <2>15 DEF Release, Goto, AfterRelease, Kind
  <2>16. ASSUME NEW i \in Invocations, NewKeepalive(i) PROVE Goal
    BY <2>16 DEF NewKeepalive, Goto
  <2>17. ASSUME NEW i \in Invocations, ArmKeepalive(i) PROVE Goal
    BY <2>17 DEF ArmKeepalive, Goto
  <2>18. ASSUME NEW i \in Invocations, HandleFailure(i) PROVE Goal
    BY <2>18 DEF HandleFailure, Goto, StopsOnFailure, StopThread, Kind
  <2>19. ASSUME NEW i \in Invocations, FailureHandled(i) PROVE Goal
    BY <2>19 DEF FailureHandled, Goto
  <2>20. ASSUME NEW i \in Invocations, ReturnLease(i) PROVE Goal
    BY <2>20 DEF ReturnLease, Goto, Returned
  <2>21. ASSUME NEW i \in Invocations, KeepalivePassed(i) PROVE Goal
    BY <2>21 DEF KeepalivePassed, KeepaliveMayStop, StopThread
  <2>22. ASSUME NEW e1 \in Envs, StartBegins(e1) PROVE Goal
    BY <2>22 DEF StartBegins
  <2>23. ASSUME NEW e1 \in Envs, CreateContainer(e1) PROVE Goal
    BY <2>23 DEF CreateContainer
  <2>24. ASSUME NEW e1 \in Envs, StartSucceeds(e1) PROVE Goal
    BY <2>24 DEF StartSucceeds
  <2>25. ASSUME NEW e1 \in Envs, StartFails(e1) PROVE Goal
    BY <2>25 DEF StartFails, Halt
  <2>26. ASSUME NEW e1 \in Envs, ContainerReports(e1) PROVE Goal
    BY <2>26 DEF ContainerReports
  <2>27. ASSUME NEW e1 \in Envs, CreateFails(e1) PROVE Goal
    BY <2>27 DEF CreateFails
  <2>28. ASSUME NEW e1 \in Envs, StartupTimesOut(e1) PROVE Goal
    BY <2>28 DEF StartupTimesOut
  <2>29. ASSUME NEW e1 \in Envs, TimeoutHalts(e1) PROVE Goal
    BY <2>29 DEF TimeoutHalts, Halt
  <2>30. ASSUME NEW s \in stops, StopBegins(s) PROVE Goal
    BY <2>30 DEF StopBegins
  <2>31. ASSUME NEW s \in stops, StopHalts(s) PROVE Goal
    BY <2>31 DEF StopHalts, Halt
  <2>32. ASSUME NEW s \in stops, StopRemoves(s) PROVE Goal
    BY <2>32 DEF StopRemoves
  <2>33. ASSUME NEW u \in Updates, Configure(u) PROVE Goal
    BY <2>33 DEF Configure
  <2>34. ASSUME NEW u \in Updates, BeginUpdate(u) PROVE Goal
    BY <2>34 DEF BeginUpdate
  <2>35. ASSUME NEW u \in Updates, Scale(u) PROVE Goal
    BY <2>35 DEF Scale, StartInv
  <2>36. ASSUME NEW u \in Updates, FinishUpdate(u) PROVE Goal
    BY <2>36 DEF FinishUpdate
  <2>37. CASE Shutdown
    BY <2>37 DEF Shutdown
  <2>38. CASE StopEnvironments
    BY <2>38 DEF StopEnvironments, StopThread
  <2>39. CASE UNCHANGED vars
    BY <2>39 DEF vars
  <2>40. QED
    BY <2>1, <2>2, <2>3, <2>4, <2>5, <2>6, <2>7, <2>8, <2>9, <2>10, <2>11, <2>12, <2>13,
       <2>14, <2>15, <2>16, <2>17, <2>18, <2>19, <2>20, <2>21, <2>22, <2>23, <2>24,
       <2>25, <2>26, <2>27, <2>28, <2>29, <2>30, <2>31, <2>32, <2>33, <2>34, <2>35,
       <2>36, <2>37, <2>38, <2>39
       DEF Next, Invocation, Start, StartupTimer, Stop, Update
<1>2. QED
  BY <1>1

\* Stopping is in order: only started on-demand environments are in the dict or being
\* stopped, and a failed invocation waits until its environment is marked as stopped.
LEMMA StopInvHolds == Spec => []StopInv
<1> USE EnvsAre DEF StopInv
<1>1. Init => StopInv
  BY DEF Init, EnvironmentsOK, ThreadsOK, HandlersOK, ToSet
<1>2. ASSUME TypeInv, StartInv, StopInv, [Next]_vars PROVE StopInv'
  <2>p. \A e \in Envs :
           starter[e] = "started" =>
               starter'[e] = "started" /\ (status[e] = "STOPPED" => status'[e] = "STOPPED")
    BY <1>2, StartedPersists
  <2>t. /\ status \in [Envs -> Statuses]
        /\ starter \in [Envs -> {"none", "queued", "creating", "waiting", "started", "failed"}]
        /\ pc \in [Invocations -> Labels] /\ env \in [Invocations -> Envs \cup {None}]
        /\ stops \subseteq StopThreads
    BY <1>2 DEF TypeInv, TypeOK, InvokeTypeOK, EnvTypeOK, PoolTypeOK
  <2> DEFINE Same == \A i \in Invocations : pc'[i] = "stopping" => pc[i] = "stopping" /\ env'[i] = env[i]
  <2>0. /\ UNCHANGED environments => EnvironmentsOK'
        /\ UNCHANGED stops => ThreadsOK'
        /\ UNCHANGED stops /\ Same => HandlersOK'
    <3>1. UNCHANGED environments => EnvironmentsOK'
      BY <1>2, <2>p DEF EnvironmentsOK
    <3>2. UNCHANGED stops => ThreadsOK'
      BY <1>2, <2>p, <2>t DEF ThreadsOK, StopThreads
    <3>3. UNCHANGED stops /\ Same => HandlersOK'
      BY <1>2, <2>p DEF HandlersOK, StartInv, HasEnv
    <3>4. QED
      BY <3>1, <3>2, <3>3
  <2> USE <1>2, <2>t DEF poolVars, envVars, timerVars, execVars, invokeVars, provVars
  <2>1. ASSUME NEW i \in Invocations, Invoke(i) PROVE StopInv'
    BY <2>1, <2>0 DEF Invoke, Goto
  <2>2. ASSUME NEW i \in Invocations, LeaseProvisioned(i) PROVE StopInv'
    BY <2>2, <2>0 DEF LeaseProvisioned, Goto
  <2>3. ASSUME NEW i \in Invocations, LeaseOnDemand(i) PROVE StopInv'
    BY <2>3, <2>0 DEF LeaseOnDemand, Goto
  <2>4. ASSUME NEW i \in Invocations, LeaseCrashes(i) PROVE StopInv'
    BY <2>4, <2>0 DEF LeaseCrashes, Goto
  <2>5. ASSUME NEW i \in Invocations, Snapshot(i) PROVE StopInv'
    BY <2>5, <2>0 DEF Snapshot, Goto
  <2>6. ASSUME NEW i \in Invocations, TryReserve(i) PROVE StopInv'
    BY <2>6, <2>0 DEF TryReserve, Goto, Reservable, Reserve
  <2>7. ASSUME NEW i \in Invocations, NoneAvailable(i) PROVE StopInv'
    BY <2>7, <2>0 DEF NoneAvailable, Goto
  <2>8. ASSUME NEW i \in Invocations, StartOnDemand(i) PROVE StopInv'
    BY <2>8, <2>0 DEF StartOnDemand, Goto
  <2>9. ASSUME NEW i \in Invocations, StartOnDemandFailed(i) PROVE StopInv'
    BY <2>9, <2>0 DEF StartOnDemandFailed, Goto
  <2>10. ASSUME NEW i \in Invocations, Register(i) PROVE StopInv'
    <3>1. environments \in Seq(Envs) /\ i \in Envs
      BY DEF TypeInv, TypeOK, PoolTypeOK
    <3>2. ToSet(environments') = ToSet(environments) \cup {i} /\ starter[i] = "started"
      BY <2>10, <3>1, ToSetOfAppend DEF Register
    <3>3. stops' = stops /\ \A j \in Invocations : pc'[j] = "stopping" => pc[j] = "stopping" /\ env'[j] = env[j]
      BY <2>10 DEF Register, Goto
    <3>4. QED
      BY <2>p, <2>0, <3>1, <3>2, <3>3 DEF EnvironmentsOK
  <2>11. ASSUME NEW i \in Invocations, ReserveNew(i) PROVE StopInv'
    BY <2>11, <2>0 DEF ReserveNew, Goto, Reservable, Reserve
  <2>12. ASSUME NEW i \in Invocations, CancelKeepalive(i) PROVE StopInv'
    BY <2>12, <2>0 DEF CancelKeepalive, Goto
  <2>13. ASSUME NEW i \in Invocations, InvokeEnvironment(i) PROVE StopInv'
    BY <2>13, <2>0 DEF InvokeEnvironment, Goto
  <2>14. ASSUME NEW i \in Invocations, InvocationEnds(i) PROVE StopInv'
    BY <2>14, <2>0 DEF InvocationEnds, Goto
  <2>15. ASSUME NEW i \in Invocations, Release(i) PROVE StopInv'
    BY <2>15, <2>0 DEF Release, Goto, AfterRelease, Kind
  <2>16. ASSUME NEW i \in Invocations, NewKeepalive(i) PROVE StopInv'
    BY <2>16, <2>0 DEF NewKeepalive, Goto
  <2>17. ASSUME NEW i \in Invocations, ArmKeepalive(i) PROVE StopInv'
    BY <2>17, <2>0 DEF ArmKeepalive, Goto
  <2>18. ASSUME NEW i \in Invocations, HandleFailure(i) PROVE StopInv'
    <3>1. CASE Goto(i, "return") /\ UNCHANGED stops
      BY <2>18, <2>0, <3>1 DEF HandleFailure, Goto
    <3>2. CASE Goto(i, "stopping") /\ stops' = stops \cup {StopThread(env[i], i)}
      <4>0. i # "keepalive"
        BY NamesAssumption
      <4>1. pc[i] \in HasEnv /\ env[i] \in Envs /\ starter[env[i]] = "started"
        BY <2>18 DEF HandleFailure, StartInv, HasEnv, TypeInv, EnvInv
      <4>2. ThreadsOK'
        BY <2>18, <2>p, <3>2, <4>0, <4>1 DEF HandleFailure, ThreadsOK, StopThread
      <4>3. HandlersOK'
        BY <2>18, <2>p, <3>2 DEF HandleFailure, HandlersOK, Goto
      <4>4. QED
        BY <2>18, <2>0, <4>2, <4>3 DEF HandleFailure
    <3>3. QED
      BY <2>18, <3>1, <3>2, Zenon DEF HandleFailure
  <2>19. ASSUME NEW i \in Invocations, FailureHandled(i) PROVE StopInv'
    BY <2>19, <2>0 DEF FailureHandled, Goto
  <2>20. ASSUME NEW i \in Invocations, ReturnLease(i) PROVE StopInv'
    BY <2>20, <2>0 DEF ReturnLease, Goto, Returned
  <2>21. ASSUME NEW i \in Invocations, KeepalivePassed(i) PROVE StopInv'
    <3>1. env[i] \in Envs
      BY <2>21 DEF KeepalivePassed, TypeInv, TimerInv
    <3>2. CASE UNCHANGED stops
      BY <2>21, <2>0, <3>2 DEF KeepalivePassed
    <3>3. CASE status[env[i]] = "READY" /\ stops' = stops \cup {StopThread(env[i], "keepalive")}
      <4>1. starter[env[i]] = "started"
        BY <3>1, <3>3 DEF StartInv
      <4>2. ThreadsOK'
        BY <2>21, <2>p, <3>1, <3>3, <4>1 DEF KeepalivePassed, ThreadsOK, StopThread
      <4>3. HandlersOK'
        BY <2>21, <2>p, <3>3 DEF KeepalivePassed, HandlersOK, StartInv, HasEnv
      <4>4. QED
        BY <2>21, <2>0, <4>2, <4>3 DEF KeepalivePassed
    <3>4. QED
      BY <2>21, <3>2, <3>3, Zenon DEF KeepalivePassed, KeepaliveMayStop
  <2>22. ASSUME NEW e \in Envs, StartBegins(e) PROVE StopInv'
    BY <2>22, <2>0 DEF StartBegins
  <2>23. ASSUME NEW e \in Envs, CreateContainer(e) PROVE StopInv'
    BY <2>23, <2>0 DEF CreateContainer
  <2>24. ASSUME NEW e \in Envs, StartSucceeds(e) PROVE StopInv'
    BY <2>24, <2>0 DEF StartSucceeds
  <2>25. ASSUME NEW e \in Envs, StartFails(e) PROVE StopInv'
    BY <2>25, <2>0 DEF StartFails, Halt
  <2>26. ASSUME NEW e \in Envs, ContainerReports(e) PROVE StopInv'
    BY <2>26, <2>0 DEF ContainerReports
  <2>27. ASSUME NEW e \in Envs, CreateFails(e) PROVE StopInv'
    BY <2>27, <2>0 DEF CreateFails
  <2>28. ASSUME NEW e \in Envs, StartupTimesOut(e) PROVE StopInv'
    BY <2>28, <2>0 DEF StartupTimesOut
  <2>29. ASSUME NEW e \in Envs, TimeoutHalts(e) PROVE StopInv'
    BY <2>29, <2>0 DEF TimeoutHalts, Halt
  <2>30. ASSUME NEW s \in stops, StopBegins(s) PROVE StopInv'
    <3>1. s \in StopThreads /\ s.env \in Envs
      BY DEF StopThreads
    <3> DEFINE n == [s EXCEPT !.stage = "halt"]
    <3>2. n.env = s.env /\ n.by = s.by /\ n.stage = "halt"
      BY <3>1 DEF StopThreads
    <3> HIDE DEF n
    <3>3. CASE status' = [status EXCEPT ![s.env] = "STOPPED"] /\ stops' = (stops \ {s}) \cup {n}
      <4>1. status'[s.env] = "STOPPED"
        BY <3>1, <3>3
      <4>2. ThreadsOK'
        BY <2>30, <2>p, <3>1, <3>2, <3>3, <4>1 DEF StopBegins, ThreadsOK
      <4>3. HandlersOK'
        BY <2>30, <2>p, <3>1, <3>3, <4>1 DEF StopBegins, HandlersOK, StopThread, StartInv, HasEnv
      <4>4. QED
        BY <2>30, <2>0, <4>2, <4>3 DEF StopBegins
    <3>4. CASE status[s.env] \in {"INACTIVE", "STOPPED"} /\ stops' = stops \ {s} /\ UNCHANGED status
      <4>1. ThreadsOK'
        BY <2>30, <2>p, <3>4 DEF StopBegins, ThreadsOK
      <4>2. HandlersOK'
        BY <2>30, <2>p, <3>1, <3>4 DEF StopBegins, HandlersOK, StopThread, StartInv, HasEnv
      <4>3. QED
        BY <2>30, <2>0, <4>1, <4>2 DEF StopBegins
    <3>5. QED
      BY <2>30, <3>3, <3>4, Zenon DEF StopBegins, n
  <2>31. ASSUME NEW s \in stops, StopHalts(s) PROVE StopInv'
    <3>1. s \in StopThreads /\ s.env \in Envs
      BY DEF StopThreads
    <3> DEFINE n == [s EXCEPT !.stage = "remove"]
    <3>2. n.env = s.env /\ n.by = s.by /\ n.stage = "remove"
      BY <3>1 DEF StopThreads
    <3> HIDE DEF n
    <3>3. stops' \subseteq (stops \ {s}) \cup {n} /\ stops \ {s} \subseteq stops'
      BY <2>31 DEF StopHalts, n
    <3>4. ThreadsOK'
      BY <2>31, <2>p, <3>1, <3>2, <3>3 DEF StopHalts, ThreadsOK
    <3>5. HandlersOK'
      BY <2>31, <2>p, <3>3 DEF StopHalts, HandlersOK, StopThread, StartInv, HasEnv
    <3>6. QED
      BY <2>31, <2>0, <3>4, <3>5 DEF StopHalts
  <2>32. ASSUME NEW s \in stops, StopRemoves(s) PROVE StopInv'
    <3>1. ToSet(environments') \subseteq ToSet(environments)
      BY <2>32, RemoveAtType DEF StopRemoves, TypeInv, TypeOK, PoolTypeOK
    <3>2. EnvironmentsOK'
      BY <2>p, <3>1 DEF EnvironmentsOK
    <3>3. ThreadsOK'
      BY <2>32, <2>p DEF StopRemoves, ThreadsOK
    <3>4. HandlersOK'
      BY <2>32, <2>p DEF StopRemoves, HandlersOK, StopThread, StartInv, HasEnv
    <3>5. QED
      BY <3>2, <3>3, <3>4
  <2>33. ASSUME NEW u \in Updates, Configure(u) PROVE StopInv'
    BY <2>33, <2>0 DEF Configure
  <2>34. ASSUME NEW u \in Updates, BeginUpdate(u) PROVE StopInv'
    BY <2>34, <2>0 DEF BeginUpdate
  <2>35. ASSUME NEW u \in Updates, Scale(u) PROVE StopInv'
    <3>1. \A e \in ToSet(environments') : e \in ToSet(environments) \/ e \in NewEnvs[u]
      BY <2>35, ScaledEnvironments DEF Scale, TypeInv, TypeOK, PoolTypeOK
    <3>2. EnvironmentsOK'
      BY <2>p, <3>1 DEF EnvironmentsOK
    <3>3. stops \subseteq stops' /\ \A s \in stops' : s \in stops \/ (s.env \notin Invocations /\ s.by = u)
      BY <2>35 DEF Scale, Kind, StopThread
    <3>4. ThreadsOK'
      BY <2>p, <3>3, NamesAssumption DEF ThreadsOK, StopThreads
    <3>5. HandlersOK'
      BY <2>35, <2>p, <3>3 DEF Scale, HandlersOK, StartInv, HasEnv
    <3>6. QED
      BY <3>2, <3>4, <3>5
  <2>36. ASSUME NEW u \in Updates, FinishUpdate(u) PROVE StopInv'
    BY <2>36, <2>0 DEF FinishUpdate
  <2>37. CASE Shutdown
    BY <2>37, <2>0 DEF Shutdown
  <2>38. CASE StopEnvironments
    <3>1. /\ stops \subseteq stops'
          /\ \A s \in stops' :
                \/ s \in stops
                \/ s.env \in ToSet(environments) /\ s.by = "version" /\ s.stage = "begin"
      BY <2>38 DEF StopEnvironments, StopThread
    <3>2. ThreadsOK'
      BY <2>38, <2>p, <3>1 DEF StopEnvironments, ThreadsOK, EnvironmentsOK, StopThreads
    <3>3. HandlersOK'
      BY <2>38, <2>p, <3>1 DEF StopEnvironments, HandlersOK, StartInv, HasEnv
    <3>4. QED
      BY <2>38, <2>0, <3>2, <3>3 DEF StopEnvironments
  <2>39. CASE UNCHANGED vars
    BY <2>39, <2>0 DEF vars
  <2>40. QED
    BY <2>1, <2>2, <2>3, <2>4, <2>5, <2>6, <2>7, <2>8, <2>9, <2>10, <2>11, <2>12, <2>13,
       <2>14, <2>15, <2>16, <2>17, <2>18, <2>19, <2>20, <2>21, <2>22, <2>23, <2>24,
       <2>25, <2>26, <2>27, <2>28, <2>29, <2>30, <2>31, <2>32, <2>33, <2>34, <2>35,
       <2>36, <2>37, <2>38, <2>39
       DEF Next, Invocation, Start, StartupTimer, Stop, Update
<1>3. QED
  BY <1>1, <1>2, TypeInvHolds, StartInvHolds, PTL DEF Spec

\* An environment has one user at a time: it is reserved only when it is ready, and
\* it becomes ready again only by the hand of its holder.
LEMMA UseInvHolds == Spec => []UseInv
<1> USE EnvsAre DEF UseInv
<1>1. Init => UseInv
  BY DEF Init, HoldInv, BusyInv, KeepaliveInv, Holds
<1>2. ASSUME TypeInv, StartInv, StopInv, UseInv, [Next]_vars PROVE UseInv'
  <2>t. /\ status \in [Envs -> Statuses]
        /\ starter \in [Envs -> {"none", "queued", "creating", "waiting", "started", "failed"}]
        /\ pc \in [Invocations -> Labels] /\ env \in [Invocations -> Envs \cup {None}]
        /\ stops \subseteq StopThreads
    BY <1>2 DEF TypeInv, TypeOK, InvokeTypeOK, EnvTypeOK, PoolTypeOK
  <2> DEFINE Fewer == \A i \in Invocations : \A e \in Envs : Holds(i, e)' => Holds(i, e)
             More  == \A i \in Invocations : \A e \in Envs : Minds(i, e) => Minds(i, e)'
  <2>0. ASSUME UNCHANGED status, Fewer, More
        PROVE  /\ HoldInv' /\ BusyInv'
               /\ (\A s \in stops' : s.by = "keepalive" => s \in stops) => KeepaliveInv'
    <3>1. HoldInv'
      BY <1>2, <2>0 DEF HoldInv
    <3>2. BusyInv'
      BY <1>2, <2>0 DEF BusyInv
    <3>3. (\A s \in stops' : s.by = "keepalive" => s \in stops) => KeepaliveInv'
      BY <1>2, <2>0, <2>t DEF KeepaliveInv, StopThreads
    <3>4. QED
      BY <3>1, <3>2, <3>3
  <2>u. UNCHANGED <<status, stops, pc, env>> => UseInv'
    BY <1>2 DEF HoldInv, BusyInv, KeepaliveInv, Holds, Minds
  <2>s. ASSUME NEW e \in Envs, starter[e] # "started", UNCHANGED <<stops, pc, env>>,
               NEW x, x # "INVOKING", status' = [status EXCEPT ![e] = x]
        PROVE  UseInv'
    <3>1. \A j \in Invocations : \A f \in Envs : Holds(j, f)' => Holds(j, f) /\ f # e
      BY <1>2, <2>s DEF Holds, StartInv, HasEnv
    <3>2. More
      BY <2>s DEF Minds
    <3>3. HoldInv'
      BY <1>2, <2>s, <2>t, <3>1 DEF HoldInv
    <3>4. BusyInv'
      BY <1>2, <2>s, <2>t, <3>2 DEF BusyInv
    <3>5. KeepaliveInv'
      BY <1>2, <2>s, <2>t, <3>1 DEF KeepaliveInv, StopInv, ThreadsOK, StopThreads
    <3>6. QED
      BY <3>3, <3>4, <3>5
  <2>r. ASSUME NEW i \in Invocations, NEW e \in Envs, Reserve(i, e), Reservable(e),
               pc[i] \in {"scan", "registered"}, UNCHANGED stops
        PROVE  UseInv'
    <3>1. status[e] = "READY" /\ status' = [status EXCEPT ![e] = "INVOKING"]
      BY <2>r DEF Reserve, Reservable
    <3>2. \A j \in Invocations : \A f \in Envs : Holds(j, f)' => Holds(j, f) \/ (j = i /\ f = e)
      BY <2>r, <2>t DEF Reserve, Goto, Holds
    <3>3. \A f \in Envs : f # e => \A j \in Invocations : Minds(j, f) => Minds(j, f)'
      BY <2>r, <2>t DEF Reserve, Goto, Minds
    <3>4. Minds(i, e)'
      BY <2>r, <2>t DEF Reserve, Goto, Minds
    <3>5. HoldInv'
      BY <1>2, <2>t, <3>1, <3>2 DEF HoldInv
    <3>6. BusyInv'
      BY <1>2, <2>t, <3>1, <3>3, <3>4 DEF BusyInv
    <3>7. KeepaliveInv'
      BY <1>2, <2>r, <2>t, <3>1, <3>2 DEF KeepaliveInv, StopThreads
    <3>8. QED
      BY <3>5, <3>6, <3>7
  <2> USE <1>2, <2>t DEF poolVars, envVars, timerVars, execVars, invokeVars, provVars
  <2>1. ASSUME NEW i \in Invocations, Invoke(i) PROVE UseInv'
    <3>1. Fewer
      BY <2>1 DEF Invoke, Goto, Holds
    <3>2. More
      BY <2>1 DEF Invoke, Goto, Minds
    <3>3. QED
      BY <2>0, <2>1, <3>1, <3>2 DEF Invoke
  <2>2. ASSUME NEW i \in Invocations, LeaseProvisioned(i) PROVE UseInv'
    <3>1. Fewer
      BY <2>2 DEF LeaseProvisioned, Goto, Holds
    <3>2. More
      BY <2>2 DEF LeaseProvisioned, Goto, Minds
    <3>3. QED
      BY <2>0, <2>2, <3>1, <3>2 DEF LeaseProvisioned
  <2>3. ASSUME NEW i \in Invocations, LeaseOnDemand(i) PROVE UseInv'
    <3>1. Fewer
      BY <2>3 DEF LeaseOnDemand, Goto, Holds
    <3>2. More
      BY <2>3 DEF LeaseOnDemand, Goto, Minds
    <3>3. QED
      BY <2>0, <2>3, <3>1, <3>2 DEF LeaseOnDemand
  <2>4. ASSUME NEW i \in Invocations, LeaseCrashes(i) PROVE UseInv'
    <3>1. Fewer
      BY <2>4 DEF LeaseCrashes, Goto, Holds
    <3>2. More
      BY <2>4 DEF LeaseCrashes, Goto, Minds
    <3>3. QED
      BY <2>0, <2>4, <3>1, <3>2 DEF LeaseCrashes
  <2>5. ASSUME NEW i \in Invocations, Snapshot(i) PROVE UseInv'
    <3>1. Fewer
      BY <2>5 DEF Snapshot, Goto, Holds
    <3>2. More
      BY <2>5 DEF Snapshot, Goto, Minds
    <3>3. QED
      BY <2>0, <2>5, <3>1, <3>2 DEF Snapshot
  <2>6. ASSUME NEW i \in Invocations, TryReserve(i) PROVE UseInv'
    <3>1. PICK e \in Envs : e = Head(todo[i])
      BY <2>6, HeadTailProperties DEF TryReserve, TypeInv, TypeOK, InvokeTypeOK
    <3>2. CASE Reserve(i, e) /\ Reservable(e)
      BY <2>6, <2>r, <3>2 DEF TryReserve
    <3>3. CASE UNCHANGED <<status, env, pc>>
      BY <2>6, <2>u, <3>3 DEF TryReserve
    <3>4. QED
      BY <2>6, <3>1, <3>2, <3>3, Zenon DEF TryReserve
  <2>7. ASSUME NEW i \in Invocations, NoneAvailable(i) PROVE UseInv'
    <3>1. Fewer
      BY <2>7 DEF NoneAvailable, Goto, Holds
    <3>2. More
      BY <2>7 DEF NoneAvailable, Goto, Minds
    <3>3. QED
      BY <2>0, <2>7, <3>1, <3>2 DEF NoneAvailable
  <2>8. ASSUME NEW i \in Invocations, StartOnDemand(i) PROVE UseInv'
    <3>1. Fewer
      BY <2>8 DEF StartOnDemand, Goto, Holds
    <3>2. More
      BY <2>8 DEF StartOnDemand, Goto, Minds
    <3>3. QED
      BY <2>0, <2>8, <3>1, <3>2 DEF StartOnDemand
  <2>9. ASSUME NEW i \in Invocations, StartOnDemandFailed(i) PROVE UseInv'
    <3>1. Fewer
      BY <2>9 DEF StartOnDemandFailed, Goto, Holds
    <3>2. More
      BY <2>9 DEF StartOnDemandFailed, Goto, Minds
    <3>3. QED
      BY <2>0, <2>9, <3>1, <3>2 DEF StartOnDemandFailed
  <2>10. ASSUME NEW i \in Invocations, Register(i) PROVE UseInv'
    <3>1. Fewer
      BY <2>10 DEF Register, Goto, Holds
    <3>2. More
      BY <2>10 DEF Register, Goto, Minds
    <3>3. QED
      BY <2>0, <2>10, <3>1, <3>2 DEF Register
  <2>11. ASSUME NEW i \in Invocations, ReserveNew(i) PROVE UseInv'
    <3>1. CASE Reserve(i, i) /\ Reservable(i)
      BY <2>11, <2>r, <3>1 DEF ReserveNew
    <3>2. CASE Goto(i, "return") /\ UNCHANGED <<status, env>>
      <4>1. Fewer
        BY <2>11, <3>2 DEF ReserveNew, Goto, Holds
      <4>2. More
        BY <2>11, <3>2 DEF ReserveNew, Goto, Minds
      <4>3. QED
        BY <2>0, <2>11, <3>2, <4>1, <4>2 DEF ReserveNew
    <3>3. QED
      BY <2>11, <3>1, <3>2, Zenon DEF ReserveNew
  <2>12. ASSUME NEW i \in Invocations, CancelKeepalive(i) PROVE UseInv'
    <3>1. Fewer
      BY <2>12 DEF CancelKeepalive, Goto, Holds
    <3>2. More
      BY <2>12 DEF CancelKeepalive, Goto, Minds
    <3>3. QED
      BY <2>0, <2>12, <3>1, <3>2 DEF CancelKeepalive
  <2>13. ASSUME NEW i \in Invocations, InvokeEnvironment(i) PROVE UseInv'
    <3>1. Fewer
      BY <2>13 DEF InvokeEnvironment, Goto, Holds
    <3>2. More
      BY <2>13 DEF InvokeEnvironment, Goto, Minds
    <3>3. QED
      BY <2>0, <2>13, <3>1, <3>2 DEF InvokeEnvironment
  <2>14. ASSUME NEW i \in Invocations, InvocationEnds(i) PROVE UseInv'
    <3>1. Fewer
      BY <2>14 DEF InvocationEnds, Goto, Holds
    <3>2. More
      BY <2>14 DEF InvocationEnds, Goto, Minds
    <3>3. QED
      BY <2>0, <2>14, <3>1, <3>2 DEF InvocationEnds
  <2>15. ASSUME NEW i \in Invocations, Release(i) PROVE UseInv'
    <3>1. PICK e \in Envs : e = env[i]
      BY <2>15 DEF Release, TypeInv, EnvInv, HasEnv
    <3>2. pc[i] = "release" /\ Holds(i, e)
      BY <2>15, <3>1 DEF Release, Holds
    <3>3. pc' = [pc EXCEPT ![i] = "timer"] \/ pc' = [pc EXCEPT ![i] = "return"]
      BY <2>15 DEF Release, Goto, AfterRelease
    <3>4. env' = env /\ stops' = stops
      BY <2>15 DEF Release
    <3>5. \A j \in Invocations : \A f \in Envs : Holds(j, f)' => Holds(j, f) /\ j # i
      BY <3>3, <3>4 DEF Holds
    <3>6. \A j \in Invocations : \A f \in Envs : Minds(j, f) => Minds(j, f)' \/ f = e
      BY <3>1, <3>3, <3>4 DEF Minds
    <3>7. \/ status[e] = "INVOKING" /\ status' = [status EXCEPT ![e] = "READY"]
          \/ status[e] # "INVOKING" /\ status' = status
      BY <2>15, <3>1 DEF Release
    <3>8. HoldInv'
      BY <3>2, <3>5, <3>7 DEF HoldInv
    <3>9. BusyInv'
      BY <3>6, <3>7 DEF BusyInv
    <3>10. KeepaliveInv'
      BY <3>4, <3>5, <3>7 DEF KeepaliveInv, StopThreads
    <3>11. QED
      BY <3>8, <3>9, <3>10
  <2>16. ASSUME NEW i \in Invocations, NewKeepalive(i) PROVE UseInv'
    <3>1. Fewer
      BY <2>16 DEF NewKeepalive, Goto, Holds
    <3>2. More
      BY <2>16 DEF NewKeepalive, Goto, Minds
    <3>3. QED
      BY <2>0, <2>16, <3>1, <3>2 DEF NewKeepalive
  <2>17. ASSUME NEW i \in Invocations, ArmKeepalive(i) PROVE UseInv'
    <3>1. env[i] \in Invocations
      BY <2>17 DEF ArmKeepalive, TypeInv, EnvInv
    <3>2. Fewer
      BY <2>17, <3>1 DEF ArmKeepalive, Goto, Holds
    <3>3. More
      BY <2>17 DEF ArmKeepalive, Goto, Minds
    <3>4. QED
      BY <2>0, <2>17, <3>2, <3>3 DEF ArmKeepalive
  <2>18. ASSUME NEW i \in Invocations, HandleFailure(i) PROVE UseInv'
    <3>1. PICK e \in Envs : e = env[i]
      BY <2>18 DEF HandleFailure, TypeInv, EnvInv, HasEnv
    <3>2. pc[i] = "failing" /\ env' = env
      BY <2>18 DEF HandleFailure
    <3>3. CASE /\ e \notin Invocations /\ status[e] = "INVOKING"
               /\ status' = [status EXCEPT ![e] = "READY"]
               /\ Goto(i, "return") /\ UNCHANGED stops
      <4>1. Holds(i, e)
        BY <3>1, <3>2, <3>3 DEF Holds
      <4>2. \A j \in Invocations : \A f \in Envs : Holds(j, f)' => Holds(j, f) /\ j # i
        BY <3>2, <3>3 DEF Holds, Goto
      <4>3. \A j \in Invocations : \A f \in Envs : Minds(j, f) => Minds(j, f)' \/ f = e
        BY <3>1, <3>2, <3>3 DEF Minds, Goto
      <4>4. HoldInv'
        BY <3>3, <4>1, <4>2 DEF HoldInv
      <4>5. BusyInv'
        BY <3>3, <4>3 DEF BusyInv
      <4>6. KeepaliveInv'
        BY <3>3, <4>2 DEF KeepaliveInv, StopThreads
      <4>7. QED
        BY <4>4, <4>5, <4>6
    <3>4. CASE Goto(i, "stopping") /\ stops' = stops \cup {StopThread(e, i)} /\ UNCHANGED status
      <4>1. Fewer
        BY <3>2, <3>4 DEF Holds, Goto
      <4>2. More
        BY <3>1, <3>2, <3>4 DEF Minds, Goto
      <4>3. \A s \in stops' : s.by = "keepalive" => s \in stops
        BY <3>4, NamesAssumption DEF StopThread
      <4>4. QED
        BY <2>0, <3>4, <4>1, <4>2, <4>3
    <3>5. QED
      BY <2>18, <3>1, <3>3, <3>4, Zenon DEF HandleFailure, StopsOnFailure, Kind
  <2>19. ASSUME NEW i \in Invocations, FailureHandled(i) PROVE UseInv'
    <3>1. Fewer
      BY <2>19 DEF FailureHandled, Goto, Holds
    <3>2. \A e \in Envs : StopThread(e, i) \notin stops
      BY <2>19 DEF FailureHandled, StopThread
    <3>3. More
      BY <2>19, <3>2 DEF FailureHandled, Goto, Minds
    <3>4. QED
      BY <2>0, <2>19, <3>1, <3>3 DEF FailureHandled
  <2>20. ASSUME NEW i \in Invocations, ReturnLease(i) PROVE UseInv'
    <3>1. Fewer
      BY <2>20 DEF ReturnLease, Goto, Holds
    <3>2. More
      BY <2>20 DEF ReturnLease, Goto, Minds
    <3>3. QED
      BY <2>0, <2>20, <3>1, <3>2 DEF ReturnLease
  <2>21. ASSUME NEW i \in Invocations, KeepalivePassed(i) PROVE UseInv'
    <3>1. PICK e \in Envs : e = env[i]
      BY <2>21 DEF KeepalivePassed, TypeInv, TimerInv
    <3>2. UNCHANGED <<pc, env>>
      BY <2>21 DEF KeepalivePassed
    <3>3. CASE /\ status[e] = "READY" /\ status' = [status EXCEPT ![e] = "TIMING_OUT"]
               /\ stops' = stops \cup {StopThread(e, "keepalive")}
      <4>1. \A j \in Invocations : \A f \in Envs : Holds(j, f)' => Holds(j, f) /\ f # e
        BY <3>2, <3>3 DEF Holds, HoldInv
      <4>2. More
        BY <3>2, <3>3 DEF Minds
      <4>3. HoldInv'
        BY <3>3, <4>1 DEF HoldInv
      <4>4. BusyInv'
        BY <3>3, <4>2 DEF BusyInv
      <4>5. \A s \in stops' : s \in stops \/ s.env = e
        BY <3>3 DEF StopThread
      <4>6. KeepaliveInv'
        BY <3>3, <4>1, <4>5 DEF KeepaliveInv, StopThreads
      <4>7. QED
        BY <4>3, <4>4, <4>6
    <3>4. CASE UNCHANGED <<status, stops>>
      BY <2>u, <3>2, <3>4
    <3>5. QED
      BY <2>21, <3>1, <3>3, <3>4, Zenon DEF KeepalivePassed, KeepaliveMayStop
  <2>22. ASSUME NEW e \in Envs, StartBegins(e) PROVE UseInv'
    <3>1. starter[e] # "started"
      BY <2>22 DEF StartBegins, StartInv
    <3>2. status' = [status EXCEPT ![e] = "STARTING"] /\ UNCHANGED <<stops, pc, env>>
      BY <2>22 DEF StartBegins
    <3>3. QED
      BY <2>s, <3>1, <3>2
  <2>23. ASSUME NEW e \in Envs, CreateContainer(e) PROVE UseInv'
    BY <2>23, <2>u DEF CreateContainer
  <2>24. ASSUME NEW e \in Envs, StartSucceeds(e) PROVE UseInv'
    <3>1. starter[e] # "started"
      BY <2>24 DEF StartSucceeds, StartInv
    <3>2. status' = [status EXCEPT ![e] = "READY"] /\ UNCHANGED <<stops, pc, env>>
      BY <2>24 DEF StartSucceeds
    <3>3. QED
      BY <2>s, <3>1, <3>2
  <2>25. ASSUME NEW e \in Envs, StartFails(e) PROVE UseInv'
    <3>1. starter[e] # "started"
      BY <2>25 DEF StartFails
    <3>2. UNCHANGED <<stops, pc, env>>
      BY <2>25 DEF StartFails
    <3>3. status' = [status EXCEPT ![e] = "STARTUP_FAILED"] \/ UNCHANGED status
      BY <2>25 DEF StartFails
    <3>4. QED
      BY <2>s, <2>u, <3>1, <3>2, <3>3
  <2>26. ASSUME NEW e \in Envs, ContainerReports(e) PROVE UseInv'
    BY <2>26, <2>u DEF ContainerReports
  <2>27. ASSUME NEW e \in Envs, CreateFails(e) PROVE UseInv'
    BY <2>27, <2>u DEF CreateFails
  <2>28. ASSUME NEW e \in Envs, StartupTimesOut(e) PROVE UseInv'
    <3>1. starter[e] # "started"
      BY <2>28 DEF StartupTimesOut, StartInv
    <3>2. status' = [status EXCEPT ![e] = "STARTUP_TIMED_OUT"] /\ UNCHANGED <<stops, pc, env>>
      BY <2>28 DEF StartupTimesOut
    <3>3. QED
      BY <2>s, <3>1, <3>2
  <2>29. ASSUME NEW e \in Envs, TimeoutHalts(e) PROVE UseInv'
    BY <2>29, <2>u DEF TimeoutHalts, Halt
  <2>30. ASSUME NEW s \in stops, StopBegins(s) PROVE UseInv'
    <3>1. s \in StopThreads /\ s.env \in Envs
      BY DEF StopThreads
    <3> DEFINE n == [s EXCEPT !.stage = "halt"]
    <3>2. n.env = s.env /\ n.by = s.by
      BY <3>1 DEF StopThreads
    <3> HIDE DEF n
    <3>3. UNCHANGED <<pc, env>>
      BY <2>30 DEF StopBegins
    <3>4. /\ stops \ {s} \subseteq stops' /\ stops' \subseteq stops \cup {n}
          /\ status'[s.env] # "INVOKING"
          /\ \A f \in Envs : status'[f] = status[f] \/ status'[f] = "STOPPED"
      <4>1. CASE status' = [status EXCEPT ![s.env] = "STOPPED"] /\ stops' = (stops \ {s}) \cup {n}
        BY <3>1, <4>1
      <4>2. CASE status[s.env] \in {"INACTIVE", "STOPPED"} /\ stops' = stops \ {s} /\ UNCHANGED status
        BY <3>1, <4>2
      <4>3. QED
        BY <2>30, <4>1, <4>2, Zenon DEF StopBegins, n
    <3>5. Fewer
      BY <3>3 DEF Holds
    <3>6. \A j \in Invocations : \A f \in Envs : Minds(j, f) => Minds(j, f)' \/ f = s.env
      BY <3>3, <3>4 DEF Minds, StopThread
    <3>7. HoldInv'
      BY <3>4, <3>5 DEF HoldInv
    <3>8. BusyInv'
      BY <3>1, <3>4, <3>6 DEF BusyInv
    <3>9. KeepaliveInv'
      BY <3>1, <3>2, <3>4, <3>5 DEF KeepaliveInv, StopThreads
    <3>10. QED
      BY <3>7, <3>8, <3>9
  <2>31. ASSUME NEW s \in stops, StopHalts(s) PROVE UseInv'
    <3>1. s \in StopThreads /\ s.stage = "halt"
      BY <2>31 DEF StopHalts
    <3> DEFINE n == [s EXCEPT !.stage = "remove"]
    <3>2. n.env = s.env /\ n.by = s.by
      BY <3>1 DEF StopThreads
    <3> HIDE DEF n
    <3>3. stops \ {s} \subseteq stops' /\ stops' \subseteq stops \cup {n}
      BY <2>31 DEF StopHalts, n
    <3>4. UNCHANGED <<status, pc, env>>
      BY <2>31 DEF StopHalts
    <3>5. Fewer
      BY <3>4 DEF Holds
    <3>6. More
      BY <3>1, <3>3, <3>4 DEF Minds, StopThread
    <3>7. KeepaliveInv'
      BY <3>1, <3>2, <3>3, <3>4, <3>5 DEF KeepaliveInv, StopThreads
    <3>8. QED
      BY <2>0, <3>4, <3>5, <3>6, <3>7
  <2>32. ASSUME NEW s \in stops, StopRemoves(s) PROVE UseInv'
    <3>1. s.stage = "remove" /\ stops' = stops \ {s} /\ UNCHANGED <<status, pc, env>>
      BY <2>32 DEF StopRemoves
    <3>2. Fewer
      BY <3>1 DEF Holds
    <3>3. More
      BY <3>1 DEF Minds, StopThread
    <3>4. QED
      BY <2>0, <3>1, <3>2, <3>3
  <2>33. ASSUME NEW u \in Updates, Configure(u) PROVE UseInv'
    BY <2>33, <2>u DEF Configure
  <2>34. ASSUME NEW u \in Updates, BeginUpdate(u) PROVE UseInv'
    BY <2>34, <2>u DEF BeginUpdate
  <2>35. ASSUME NEW u \in Updates, Scale(u) PROVE UseInv'
    <3>1. stops \subseteq stops' /\ UNCHANGED <<status, pc, env>>
      BY <2>35 DEF Scale
    <3>2. \A s \in stops' : s.by = "keepalive" => s \in stops
      BY <2>35, NamesAssumption DEF Scale, StopThread
    <3>3. Fewer
      BY <3>1 DEF Holds
    <3>4. More
      BY <3>1 DEF Minds
    <3>5. QED
      BY <2>0, <3>1, <3>2, <3>3, <3>4
  <2>36. ASSUME NEW u \in Updates, FinishUpdate(u) PROVE UseInv'
    BY <2>36, <2>u DEF FinishUpdate
  <2>37. CASE Shutdown
    BY <2>37, <2>u DEF Shutdown
  <2>38. CASE StopEnvironments
    <3>1. stops \subseteq stops' /\ UNCHANGED <<status, pc, env>>
      BY <2>38 DEF StopEnvironments
    <3>2. \A s \in stops' : s.by = "keepalive" => s \in stops
      BY <2>38 DEF StopEnvironments, StopThread
    <3>3. Fewer
      BY <3>1 DEF Holds
    <3>4. More
      BY <3>1 DEF Minds
    <3>5. QED
      BY <2>0, <3>1, <3>2, <3>3, <3>4
  <2>39. CASE UNCHANGED vars
    BY <2>39, <2>u DEF vars
  <2>40. QED
    BY <2>1, <2>2, <2>3, <2>4, <2>5, <2>6, <2>7, <2>8, <2>9, <2>10, <2>11, <2>12, <2>13,
       <2>14, <2>15, <2>16, <2>17, <2>18, <2>19, <2>20, <2>21, <2>22, <2>23, <2>24,
       <2>25, <2>26, <2>27, <2>28, <2>29, <2>30, <2>31, <2>32, <2>33, <2>34, <2>35,
       <2>36, <2>37, <2>38, <2>39
       DEF Next, Invocation, Start, StartupTimer, Stop, Update
<1>3. QED
  BY <1>1, <1>2, TypeInvHolds, StartInvHolds, StopInvHolds, PTL DEF Spec

\* An idle environment is watched: a timer for it is made, armed and not cancelled
\* unless somebody uses or stops the environment.
LEMMA IdleInvHolds == Spec => []IdleInv
<1> USE EnvsAre
<1>1. Init => IdleInv
  BY DEF Init, IdleInv
<1>2. ASSUME TypeInv, StartInv, StopInv, UseInv, IdleInv, [Next]_vars PROVE IdleInv'
  <2>t. /\ status \in [Envs -> Statuses]
        /\ starter \in [Envs -> {"none", "queued", "creating", "waiting", "started", "failed"}]
        /\ pc \in [Invocations -> Labels] /\ env \in [Invocations -> Envs \cup {None}]
        /\ stops \subseteq StopThreads
        /\ keepalive_timer \in [Envs -> Invocations \cup {None}]
        /\ armed \subseteq Invocations /\ cancelled \subseteq Invocations /\ fired \subseteq armed
    BY <1>2 DEF TypeInv, TypeOK, InvokeTypeOK, EnvTypeOK, PoolTypeOK, TimerTypeOK
  <2>0. ASSUME ToSet(environments') \cap Invocations \subseteq ToSet(environments),
               \A e \in ToSet(environments) \cap Invocations :
                   status'[e] = "READY" => status[e] = "READY",
               \A e \in Invocations :
                   Watched(e) /\ status[e] = "READY" /\ status'[e] = "READY" => Watched(e)'
        PROVE  IdleInv'
    BY <1>2, <2>0 DEF IdleInv
  <2>u. ASSUME UNCHANGED <<pc, env, timerVars>>
        PROVE  \A e \in Invocations : Watched(e) => Watched(e)'
    BY <2>u DEF Watched, timerVars
  <2>g. ASSUME NEW i \in Invocations, \E l : Goto(i, l), UNCHANGED <<env, timerVars>>,
               pc[i] \notin {"registered", "timer", "arm", "failing", "stopping"}
        PROVE  \A e \in Invocations : Watched(e) => Watched(e)'
    BY <2>g, <2>t DEF Watched, Goto, timerVars
  <2>c. ASSUME NEW f \in Envs, cancelled' = cancelled \cup ({keepalive_timer[f]} \ {None}),
               UNCHANGED <<env, keepalive_timer, armed, fired>>,
               \A i \in Invocations : pc'[i] = pc[i] \/ (pc[i] = "reserved" /\ pc'[i] = "invoke")
        PROVE  \A e \in Invocations : e # f /\ Watched(e) => Watched(e)'
    <3>1. keepalive_timer[f] # None => env[keepalive_timer[f]] = f
      BY <1>2 DEF TypeInv, TimerInv
    <3>2. \A e \in Envs : keepalive_timer[e] # None => env[keepalive_timer[e]] = e
      BY <1>2 DEF TypeInv, TimerInv
    <3>3. \A i \in Invocations : pc[i] = "arm" => keepalive_timer[env[i]] # None
      BY <1>2 DEF TypeInv, EnvInv
    <3>4. QED
      BY <2>c, <2>t, <3>1, <3>2, <3>3 DEF Watched
  <2>r. ASSUME NEW i \in Invocations, NEW f \in Envs, Reserve(i, f),
               pc[i] = "scan" \/ (pc[i] = "registered" /\ f = i),
               UNCHANGED <<environments, timerVars>>
        PROVE  IdleInv'
    <3>1. i \notin armed
      BY <1>2, <2>r DEF TypeInv, TimerInv, Past
    <3>2. /\ status'[f] = "INVOKING" /\ \A e \in Envs : e # f => status'[e] = status[e]
          /\ \A j \in Invocations : j # i => pc'[j] = pc[j] /\ env'[j] = env[j]
      BY <2>r, <2>t DEF Reserve, Goto
    <3>3. \A e \in Invocations : e # f /\ Watched(e) => Watched(e)'
      BY <2>r, <2>t, <3>1, <3>2 DEF Watched, timerVars
    <3>4. QED
      BY <2>0, <2>r, <3>2, <3>3
  <2> USE <1>2, <2>t DEF poolVars, envVars, timerVars, execVars, invokeVars, provVars
  <2>1. ASSUME NEW i \in Invocations, Invoke(i) PROVE IdleInv'
    <3>1. /\ pc[i] \notin {"registered", "timer", "arm", "failing", "stopping"}
          /\ \E l : Goto(i, l)
      BY <2>1 DEF Invoke
    <3>2. UNCHANGED <<environments, status, env, timerVars>>
      BY <2>1 DEF Invoke
    <3>3. QED
      BY <2>0, <2>g, <3>1, <3>2
  <2>2. ASSUME NEW i \in Invocations, LeaseProvisioned(i) PROVE IdleInv'
    <3>1. /\ pc[i] \notin {"registered", "timer", "arm", "failing", "stopping"}
          /\ \E l : Goto(i, l)
      BY <2>2 DEF LeaseProvisioned
    <3>2. UNCHANGED <<environments, status, env, timerVars>>
      BY <2>2 DEF LeaseProvisioned
    <3>3. QED
      BY <2>0, <2>g, <3>1, <3>2
  <2>3. ASSUME NEW i \in Invocations, LeaseOnDemand(i) PROVE IdleInv'
    <3>1. /\ pc[i] \notin {"registered", "timer", "arm", "failing", "stopping"}
          /\ \E l : Goto(i, l)
      BY <2>3 DEF LeaseOnDemand
    <3>2. UNCHANGED <<environments, status, env, timerVars>>
      BY <2>3 DEF LeaseOnDemand
    <3>3. QED
      BY <2>0, <2>g, <3>1, <3>2
  <2>4. ASSUME NEW i \in Invocations, LeaseCrashes(i) PROVE IdleInv'
    <3>1. /\ pc[i] \notin {"registered", "timer", "arm", "failing", "stopping"}
          /\ \E l : Goto(i, l)
      BY <2>4 DEF LeaseCrashes
    <3>2. UNCHANGED <<environments, status, env, timerVars>>
      BY <2>4 DEF LeaseCrashes
    <3>3. QED
      BY <2>0, <2>g, <3>1, <3>2
  <2>5. ASSUME NEW i \in Invocations, Snapshot(i) PROVE IdleInv'
    <3>1. /\ pc[i] \notin {"registered", "timer", "arm", "failing", "stopping"}
          /\ \E l : Goto(i, l)
      BY <2>5 DEF Snapshot
    <3>2. UNCHANGED <<environments, status, env, timerVars>>
      BY <2>5 DEF Snapshot
    <3>3. QED
      BY <2>0, <2>g, <3>1, <3>2
  <2>6. ASSUME NEW i \in Invocations, TryReserve(i) PROVE IdleInv'
    <3>1. PICK e \in Envs : e = Head(todo[i])
      BY <2>6, HeadTailProperties DEF TryReserve, TypeInv, TypeOK, InvokeTypeOK
    <3>2. CASE Reserve(i, e)
      BY <2>6, <2>r, <3>2 DEF TryReserve
    <3>3. CASE UNCHANGED <<status, env, pc>>
      BY <2>6, <2>0, <2>u, <3>3 DEF TryReserve
    <3>4. QED
      BY <2>6, <3>1, <3>2, <3>3, Zenon DEF TryReserve
  <2>7. ASSUME NEW i \in Invocations, NoneAvailable(i) PROVE IdleInv'
    <3>1. /\ pc[i] \notin {"registered", "timer", "arm", "failing", "stopping"}
          /\ \E l : Goto(i, l)
      BY <2>7 DEF NoneAvailable
    <3>2. UNCHANGED <<environments, status, env, timerVars>>
      BY <2>7 DEF NoneAvailable
    <3>3. QED
      BY <2>0, <2>g, <3>1, <3>2
  <2>8. ASSUME NEW i \in Invocations, StartOnDemand(i) PROVE IdleInv'
    <3>1. /\ pc[i] \notin {"registered", "timer", "arm", "failing", "stopping"}
          /\ \E l : Goto(i, l)
      BY <2>8 DEF StartOnDemand
    <3>2. UNCHANGED <<environments, status, env, timerVars>>
      BY <2>8 DEF StartOnDemand
    <3>3. QED
      BY <2>0, <2>g, <3>1, <3>2
  <2>9. ASSUME NEW i \in Invocations, StartOnDemandFailed(i) PROVE IdleInv'
    <3>1. /\ pc[i] \notin {"registered", "timer", "arm", "failing", "stopping"}
          /\ \E l : Goto(i, l)
      BY <2>9 DEF StartOnDemandFailed
    <3>2. UNCHANGED <<environments, status, env, timerVars>>
      BY <2>9 DEF StartOnDemandFailed
    <3>3. QED
      BY <2>0, <2>g, <3>1, <3>2
  <2>10. ASSUME NEW i \in Invocations, Register(i) PROVE IdleInv'
    <3>1. environments \in Seq(Envs) /\ i \in Envs
      BY DEF TypeInv, TypeOK, PoolTypeOK
    <3>2. ToSet(environments') = ToSet(environments) \cup {i}
      BY <2>10, <3>1, ToSetOfAppend DEF Register
    <3>3. pc'[i] = "registered" /\ \A e \in Invocations : Watched(e) => Watched(e)'
      <4>1. pc[i] = "starting" /\ Goto(i, "registered") /\ UNCHANGED <<env, timerVars>>
        BY <2>10 DEF Register
      <4>2. QED
        BY <2>g, <4>1 DEF Goto
    <3>4. Watched(i)'
      BY <3>3 DEF Watched
    <3>5. status' = status
      BY <2>10 DEF Register
    <3>6. QED
      BY <3>2, <3>3, <3>4, <3>5 DEF IdleInv
  <2>11. ASSUME NEW i \in Invocations, ReserveNew(i) PROVE IdleInv'
    <3>1. CASE Reserve(i, i)
      BY <2>11, <2>r, <3>1 DEF ReserveNew
    <3>2. CASE status[i] # "READY" /\ Goto(i, "return") /\ UNCHANGED <<status, env>>
      <4>1. pc[i] = "registered" /\ UNCHANGED <<environments, timerVars>>
        BY <2>11 DEF ReserveNew
      <4>2. \A e \in Invocations : e # i /\ Watched(e) => Watched(e)'
        BY <3>2, <4>1 DEF Watched, Goto
      <4>3. QED
        BY <2>0, <3>2, <4>1, <4>2
    <3>3. QED
      BY <2>11, <3>1, <3>2, Zenon DEF ReserveNew, Reservable
  <2>12. ASSUME NEW i \in Invocations, CancelKeepalive(i) PROVE IdleInv'
    <3>1. PICK f \in Envs : f = env[i]
      BY <2>12 DEF CancelKeepalive, TypeInv, EnvInv, HasEnv
    <3>2. Holds(i, f) /\ status[f] # "READY"
      BY <2>12, <3>1 DEF CancelKeepalive, Holds, UseInv, HoldInv
    <3>3. /\ pc[i] = "reserved" /\ Goto(i, "invoke")
          /\ cancelled' = cancelled \cup ({keepalive_timer[f]} \ {None})
          /\ UNCHANGED <<environments, status, env, keepalive_timer, armed, fired>>
      BY <2>12, <3>1 DEF CancelKeepalive
    <3>4. \A e \in Invocations : e # f /\ Watched(e) => Watched(e)'
      BY <2>c, <3>3 DEF Goto
    <3>5. QED
      BY <2>0, <3>2, <3>3, <3>4
  <2>13. ASSUME NEW i \in Invocations, InvokeEnvironment(i) PROVE IdleInv'
    <3>1. /\ pc[i] \notin {"registered", "timer", "arm", "failing", "stopping"}
          /\ \E l : Goto(i, l)
      BY <2>13 DEF InvokeEnvironment
    <3>2. UNCHANGED <<environments, status, env, timerVars>>
      BY <2>13 DEF InvokeEnvironment
    <3>3. QED
      BY <2>0, <2>g, <3>1, <3>2
  <2>14. ASSUME NEW i \in Invocations, InvocationEnds(i) PROVE IdleInv'
    <3>1. /\ pc[i] \notin {"registered", "timer", "arm", "failing", "stopping"}
          /\ \E l : Goto(i, l)
      BY <2>14 DEF InvocationEnds
    <3>2. UNCHANGED <<environments, status, env, timerVars>>
      BY <2>14 DEF InvocationEnds
    <3>3. QED
      BY <2>0, <2>g, <3>1, <3>2
  <2>15. ASSUME NEW i \in Invocations, Release(i) PROVE IdleInv'
    <3>1. PICK f \in Envs : f = env[i]
      BY <2>15 DEF Release, TypeInv, EnvInv, HasEnv
    <3>2. pc[i] = "release" /\ UNCHANGED <<environments, env, timerVars>>
      BY <2>15 DEF Release
    <3>3. CASE status' = [status EXCEPT ![f] = "READY"] /\ Goto(i, AfterRelease(i))
      <4>1. \A e \in Invocations : Watched(e) => Watched(e)'
        BY <2>g, <3>2, <3>3
      <4>2. f \in Invocations => pc'[i] = "timer"
        BY <3>1, <3>3 DEF AfterRelease, Kind, Goto
      <4>3. f \in Invocations => Watched(f)'
        BY <3>1, <3>2, <4>2 DEF Watched
      <4>4. QED
        BY <3>2, <3>3, <4>1, <4>3 DEF IdleInv
    <3>4. CASE Goto(i, "return") /\ UNCHANGED status
      BY <2>0, <2>g, <3>2, <3>4
    <3>5. QED
      BY <2>15, <3>1, <3>3, <3>4, Zenon DEF Release
  <2>16. ASSUME NEW i \in Invocations, NewKeepalive(i) PROVE IdleInv'
    <3>1. PICK f \in Envs : f = env[i]
      BY <2>16 DEF NewKeepalive, TypeInv, EnvInv, HasEnv
    <3>2. pc[i] = "timer" /\ i \notin cancelled
      BY <2>16 DEF NewKeepalive, TypeInv, TimerInv, Past
    <3>3. /\ keepalive_timer' = [keepalive_timer EXCEPT ![f] = i] /\ Goto(i, "arm")
          /\ UNCHANGED <<environments, status, env, armed, cancelled, fired>>
      BY <2>16, <3>1 DEF NewKeepalive
    <3>4. keepalive_timer'[f] = i /\ \A e \in Invocations : e # f => keepalive_timer'[e] = keepalive_timer[e]
      BY <3>3
    <3>5. Watched(f)'
      BY <3>1, <3>2, <3>3, <3>4 DEF Watched, Goto
    <3>6. \A e \in Invocations : e # f /\ Watched(e) => Watched(e)'
      BY <3>1, <3>2, <3>3, <3>4 DEF Watched, Goto
    <3>7. QED
      BY <2>0, <3>3, <3>5, <3>6
  <2>17. ASSUME NEW i \in Invocations, ArmKeepalive(i) PROVE IdleInv'
    <3>1. PICK f \in Envs, t \in Invocations : f = env[i] /\ t = keepalive_timer[f]
      BY <2>17 DEF ArmKeepalive, TypeInv, EnvInv, HasEnv
    <3>2. pc[i] = "arm" /\ env[t] = f /\ UNCHANGED <<environments, status, env, keepalive_timer, cancelled, fired>>
      BY <2>17, <3>1 DEF ArmKeepalive, TypeInv, EnvInv, TimerInv
    <3>3. CASE t \notin armed /\ armed' = armed \cup {t} /\ Goto(i, "return")
      <4>1. t \notin fired
        BY <3>3
      <4>2. \A e \in Invocations : e # f /\ Watched(e) => Watched(e)'
        BY <3>1, <3>2, <3>3 DEF Watched, Goto
      <4>3. Watched(f) => Watched(f)'
        <5>1. CASE t \notin cancelled
          BY <3>2, <3>3, <4>1, <5>1 DEF Watched
        <5>2. CASE t \in cancelled
          BY <3>1, <3>2, <3>3, <5>2 DEF Watched, Goto
        <5>3. QED
          BY <5>1, <5>2
      <4>4. QED
        BY <2>0, <3>2, <4>2, <4>3
    <3>4. CASE Goto(i, "failing") /\ UNCHANGED armed
      <4>1. \A e \in Invocations : Watched(e) => Watched(e)'
        BY <3>2, <3>4 DEF Watched, Goto
      <4>2. QED
        BY <2>0, <3>2, <4>1
    <3>5. QED
      BY <2>17, <3>1, <3>3, <3>4, Zenon DEF ArmKeepalive
  <2>18. ASSUME NEW i \in Invocations, HandleFailure(i) PROVE IdleInv'
    <3>1. PICK f \in Envs : f = env[i]
      BY <2>18 DEF HandleFailure, TypeInv, EnvInv, HasEnv
    <3>2. pc[i] = "failing" /\ UNCHANGED <<environments, env, timerVars>>
      BY <2>18 DEF HandleFailure
    <3>3. CASE f \notin Invocations /\ status' = [status EXCEPT ![f] = "READY"] /\ Goto(i, "return")
      <4>1. \A e \in Invocations : Watched(e) => Watched(e)'
        BY <3>1, <3>2, <3>3 DEF Watched, Goto
      <4>2. \A e \in Invocations : status'[e] = status[e]
        BY <3>3
      <4>3. QED
        BY <2>0, <3>2, <4>1, <4>2
    <3>4. CASE Goto(i, "stopping") /\ UNCHANGED status
      <4>1. \A e \in Invocations : Watched(e) => Watched(e)'
        BY <3>2, <3>4 DEF Watched, Goto
      <4>2. QED
        BY <2>0, <3>2, <3>4, <4>1
    <3>5. QED
      BY <2>18, <3>1, <3>3, <3>4, Zenon DEF HandleFailure, StopsOnFailure, Kind
  <2>19. ASSUME NEW i \in Invocations, FailureHandled(i) PROVE IdleInv'
    <3>1. /\ pc[i] = "stopping" /\ Goto(i, "return")
          /\ UNCHANGED <<environments, status, env, timerVars>>
      BY <2>19 DEF FailureHandled
    <3>2. StopThread(env[i], i) \notin stops
      BY <2>19 DEF FailureHandled, StopThread
    <3>3. env[i] \in Invocations => status[env[i]] = "STOPPED"
      BY <3>1, <3>2 DEF StopInv, HandlersOK
    <3>4. \A e \in Invocations : e # env[i] /\ Watched(e) => Watched(e)'
      BY <3>1 DEF Watched, Goto
    <3>5. QED
      BY <2>0, <3>1, <3>3, <3>4
  <2>20. ASSUME NEW i \in Invocations, ReturnLease(i) PROVE IdleInv'
    <3>1. /\ pc[i] \notin {"registered", "timer", "arm", "failing", "stopping"}
          /\ \E l : Goto(i, l)
      BY <2>20 DEF ReturnLease
    <3>2. UNCHANGED <<environments, status, env, timerVars>>
      BY <2>20 DEF ReturnLease
    <3>3. QED
      BY <2>0, <2>g, <3>1, <3>2
  <2>21. ASSUME NEW i \in Invocations, KeepalivePassed(i) PROVE IdleInv'
    <3>1. PICK f \in Envs : f = env[i]
      BY <2>21 DEF KeepalivePassed, TypeInv, TimerInv
    <3>2. fired' = fired \cup {i} /\ UNCHANGED <<environments, pc, env, keepalive_timer, armed, cancelled>>
      BY <2>21 DEF KeepalivePassed
    <3>3. /\ status'[f] # "READY"
          /\ \A e \in Envs : e # f => status'[e] = status[e]
      BY <2>21, <3>1 DEF KeepalivePassed, KeepaliveMayStop
    <3>4. \A e \in Invocations : e # f /\ Watched(e) => Watched(e)'
      BY <3>1, <3>2 DEF Watched
    <3>5. QED
      BY <2>0, <3>2, <3>3, <3>4
  <2>22. ASSUME NEW e \in Envs, StartBegins(e) PROVE IdleInv'
    <3>1. starter[e] # "started"
      BY <2>22 DEF StartBegins, StartInv
    <3>2. \A f \in Envs : f # e => status'[f] = status[f]
      BY <2>22 DEF StartBegins
    <3>3. UNCHANGED <<environments, pc, env, timerVars>>
      BY <2>22 DEF StartBegins
    <3>4. \A f \in ToSet(environments) \cap Invocations : status'[f] = status[f]
      BY <3>1, <3>2 DEF StopInv, EnvironmentsOK
    <3>5. QED
      BY <2>0, <2>u, <3>3, <3>4
  <2>23. ASSUME NEW e \in Envs, CreateContainer(e) PROVE IdleInv'
    BY <2>23, <2>0, <2>u DEF CreateContainer
  <2>24. ASSUME NEW e \in Envs, StartSucceeds(e) PROVE IdleInv'
    <3>1. starter[e] # "started"
      BY <2>24 DEF StartSucceeds, StartInv
    <3>2. \A f \in Envs : f # e => status'[f] = status[f]
      BY <2>24 DEF StartSucceeds
    <3>3. UNCHANGED <<environments, pc, env, timerVars>>
      BY <2>24 DEF StartSucceeds
    <3>4. \A f \in ToSet(environments) \cap Invocations : status'[f] = status[f]
      BY <3>1, <3>2 DEF StopInv, EnvironmentsOK
    <3>5. QED
      BY <2>0, <2>u, <3>3, <3>4
  <2>25. ASSUME NEW e \in Envs, StartFails(e) PROVE IdleInv'
    <3>1. starter[e] # "started"
      BY <2>25 DEF StartFails, StartInv
    <3>2. \A f \in Envs : f # e => status'[f] = status[f]
      BY <2>25 DEF StartFails
    <3>3. UNCHANGED <<environments, pc, env, timerVars>>
      BY <2>25 DEF StartFails
    <3>4. \A f \in ToSet(environments) \cap Invocations : status'[f] = status[f]
      BY <3>1, <3>2 DEF StopInv, EnvironmentsOK
    <3>5. QED
      BY <2>0, <2>u, <3>3, <3>4
  <2>26. ASSUME NEW e \in Envs, ContainerReports(e) PROVE IdleInv'
    BY <2>26, <2>0, <2>u DEF ContainerReports
  <2>27. ASSUME NEW e \in Envs, CreateFails(e) PROVE IdleInv'
    BY <2>27, <2>0, <2>u DEF CreateFails
  <2>28. ASSUME NEW e \in Envs, StartupTimesOut(e) PROVE IdleInv'
    <3>1. starter[e] # "started"
      BY <2>28 DEF StartupTimesOut, StartInv
    <3>2. \A f \in Envs : f # e => status'[f] = status[f]
      BY <2>28 DEF StartupTimesOut
    <3>3. UNCHANGED <<environments, pc, env, timerVars>>
      BY <2>28 DEF StartupTimesOut
    <3>4. \A f \in ToSet(environments) \cap Invocations : status'[f] = status[f]
      BY <3>1, <3>2 DEF StopInv, EnvironmentsOK
    <3>5. QED
      BY <2>0, <2>u, <3>3, <3>4
  <2>29. ASSUME NEW e \in Envs, TimeoutHalts(e) PROVE IdleInv'
    BY <2>29, <2>0, <2>u DEF TimeoutHalts, Halt
  <2>30. ASSUME NEW s \in stops, StopBegins(s) PROVE IdleInv'
    <3>1. s.env \in Envs
      BY DEF StopThreads
    <3>2. \A e \in Envs : status'[e] = status[e] \/ status'[e] = "STOPPED"
      BY <2>30, <3>1 DEF StopBegins
    <3>3. UNCHANGED <<environments, pc, env, timerVars>>
      BY <2>30 DEF StopBegins
    <3>4. QED
      BY <2>0, <2>u, <3>2, <3>3
  <2>31. ASSUME NEW s \in stops, StopHalts(s) PROVE IdleInv'
    <3>1. s.env \in Envs /\ s.stage = "halt"
      BY <2>31 DEF StopHalts, StopThreads
    <3>2. s.env \in Invocations => status[s.env] = "STOPPED"
      BY <3>1 DEF StopInv, ThreadsOK
    <3>3. /\ UNCHANGED <<environments, status, pc, env, keepalive_timer, armed, fired>>
          /\ cancelled' = cancelled \cup ({keepalive_timer[s.env]} \ {None}) \/ cancelled' = cancelled
      BY <2>31 DEF StopHalts
    <3>4. \A e \in Invocations : e # s.env /\ Watched(e) => Watched(e)'
      <4>1. CASE cancelled' = cancelled
        BY <2>u, <3>3, <4>1
      <4>2. CASE cancelled' = cancelled \cup ({keepalive_timer[s.env]} \ {None})
        BY <2>c, <3>1, <3>3, <4>2
      <4>3. QED
        BY <3>3, <4>1, <4>2
    <3>5. QED
      BY <2>0, <3>2, <3>3, <3>4
  <2>32. ASSUME NEW s \in stops, StopRemoves(s) PROVE IdleInv'
    <3>1. ToSet(environments') \subseteq ToSet(environments)
      BY <2>32, RemoveAtType DEF StopRemoves, TypeInv, TypeOK, PoolTypeOK
    <3>2. UNCHANGED <<status, pc, env, timerVars>>
      BY <2>32 DEF StopRemoves
    <3>3. QED
      BY <2>0, <2>u, <3>1, <3>2
  <2>33. ASSUME NEW u \in Updates, Configure(u) PROVE IdleInv'
    BY <2>33, <2>0, <2>u DEF Configure
  <2>34. ASSUME NEW u \in Updates, BeginUpdate(u) PROVE IdleInv'
    BY <2>34, <2>0, <2>u DEF BeginUpdate
  <2>35. ASSUME NEW u \in Updates, Scale(u) PROVE IdleInv'
    <3>1. \A e \in ToSet(environments') : e \in ToSet(environments) \/ e \in NewEnvs[u]
      BY <2>35, ScaledEnvironments DEF Scale, TypeInv, TypeOK, PoolTypeOK
    <3>2. UNCHANGED <<status, pc, env, timerVars>>
      BY <2>35 DEF Scale
    <3>3. QED
      BY <2>0, <2>u, <3>1, <3>2
  <2>36. ASSUME NEW u \in Updates, FinishUpdate(u) PROVE IdleInv'
    BY <2>36, <2>0, <2>u DEF FinishUpdate
  <2>37. CASE Shutdown
    BY <2>37, <2>0, <2>u DEF Shutdown
  <2>38. CASE StopEnvironments
    BY <2>38, <2>0, <2>u DEF StopEnvironments, StopThread
  <2>39. CASE UNCHANGED vars
    BY <2>39, <2>0, <2>u DEF vars
  <2>40. QED
    BY <2>1, <2>2, <2>3, <2>4, <2>5, <2>6, <2>7, <2>8, <2>9, <2>10, <2>11, <2>12, <2>13,
       <2>14, <2>15, <2>16, <2>17, <2>18, <2>19, <2>20, <2>21, <2>22, <2>23, <2>24,
       <2>25, <2>26, <2>27, <2>28, <2>29, <2>30, <2>31, <2>32, <2>33, <2>34, <2>35,
       <2>36, <2>37, <2>38, <2>39
       DEF Next, Invocation, Start, StartupTimer, Stop, Update
<1>3. QED
  BY <1>1, <1>2, TypeInvHolds, StartInvHolds, StopInvHolds, UseInvHolds, PTL DEF Spec

-----------------------------------------------------------------------------
(* The properties *)

\* The pool, the environments, their timers and executors, the invocations and the
\* updates keep their shapes; in particular the tracker of provisioned leases never
\* goes below zero.
THEOREM TypesHold == Spec => []TypeOK
<1>1. TypeInv => TypeOK
  BY DEF TypeInv
<1>2. QED
  BY <1>1, TypeInvHolds, PTL

\* reserve and release keep an environment to one invocation at a time, and never
\* leave one marked as invoking for nobody.
THEOREM EnvironmentsExclusive == Spec => []ExclusiveUse
<1>1. UseInv => ExclusiveUse
  <2> SUFFICES ASSUME UseInv, NEW e \in Envs
               PROVE  /\ \A i, j \in Users(e) : i = j
                      /\ status[e] = "INVOKING" =>
                             \/ Users(e) # {}
                             \/ \E i \in Invocations : env[i] = e /\ pc[i] \in {"failing", "stopping"}
    BY DEF ExclusiveUse
  <2>1. \A i \in Users(e) : i \in Invocations /\ Holds(i, e)
    BY DEF Users, Holds
  <2>2. \A i, j \in Users(e) : i = j
    BY <2>1 DEF UseInv, HoldInv
  <2>3. status[e] = "INVOKING" => \E i \in Invocations : Minds(i, e)
    BY DEF UseInv, BusyInv
  <2>4. \A i \in Invocations : Minds(i, e) =>
            i \in Users(e) \/ (env[i] = e /\ pc[i] \in {"failing", "stopping"})
    BY DEF Minds, Users
  <2>5. QED
    BY <2>2, <2>3, <2>4
<1>2. QED
  BY <1>1, UseInvHolds, PTL

\* keepalive_passed only ever stops environments that no invocation relies on.
THEOREM KeepaliveSpares == Spec => []KeepaliveSparesInvocations
<1>1. TypeInv /\ UseInv => KeepaliveSparesInvocations
  BY DEF TypeInv, TypeOK, PoolTypeOK, UseInv, KeepaliveInv, KeepaliveSparesInvocations, Users, Holds
<1>2. QED
  BY <1>1, TypeInvHolds, UseInvHolds, PTL

\* No on-demand environment is forgotten: one that is ready has a keepalive timer
\* running, or somebody about to start one, to reserve it or to stop it.
THEOREM IdleTimed == Spec => []IdleHasTimer
<1>1. IdleInv => IdleHasTimer
  BY DEF IdleInv, Watched, IdleHasTimer
<1>2. QED
  BY <1>1, IdleInvHolds, PTL

=============================================================================

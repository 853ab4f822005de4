---------------------- MODULE StepFunctionsCallbackProofs ----------------------
(***************************************************************************)
(* Proofs about StepFunctionsCallback, for any number of attempts and of   *)
(* calls: the state keeps its shape, and no heartbeat is lost.             *)
(***************************************************************************)
EXTENDS StepFunctionsCallback, TLAPS

\* An attempt that the interpreter has not come to has no worker.
LaterUnborn == \A i \in Attempts : i > attempt => pc[i] = "unborn"

TypeInv == TypeOK /\ LaterUnborn

\* A heartbeat that the worker has not acted upon is still in its event, or has
\* ended the wait and the worker is about to look at the outcome.
HeardKept == \A i \in heard : i \in beat \/ pc[i] = "read"

-----------------------------------------------------------------------------

\* The shape of the state is kept; a retry starts a worker that was not there.
LEMMA TypeInvHolds == Spec => []TypeInv
<1> USE BoundsAssumption, NoneAssumption DEF Attempts
<1>1. Init => TypeInv
  BY DEF Init, TypeInv, TypeOK, LaterUnborn
<1>2. TypeInv /\ [Next]_vars => TypeInv'
  <2> SUFFICES ASSUME TypeInv, [Next]_vars PROVE TypeInv'
    OBVIOUS
  <2> USE DEF TypeInv, TypeOK, LaterUnborn, Errors, declVars, interpVars, workerVars, endpVars,
     clientVars
  <2>1. ASSUME NEW i \in Attempts, SubmitService(i) PROVE TypeInv'
    BY <2>1 DEF SubmitService, Goto
  <2>2. ASSUME NEW i \in Attempts, SubmitFails(i) PROVE TypeInv'
    BY <2>2 DEF SubmitFails, Goto
  <2>3. ASSUME NEW i \in Attempts, ScheduleActivity(i) PROVE TypeInv'
    BY <2>3 DEF ScheduleActivity, Goto
  <2>4. ASSUME NEW i \in Attempts, PublishEndpoint(i) PROVE TypeInv'
    BY <2>4 DEF PublishEndpoint, Goto
  <2>5. ASSUME NEW i \in Attempts, ActivityStarted(i) PROVE TypeInv'
    BY <2>5 DEF ActivityStarted, Goto
  <2>6. ASSUME NEW i \in Attempts, ActivityNotStarted(i) PROVE TypeInv'
    BY <2>6 DEF ActivityNotStarted, Goto
  <2>7. ASSUME NEW i \in Attempts, Setup(i) PROVE TypeInv'
    <3>1. EndpointOf(i) \in Attempts
      BY DEF EndpointOf
    <3>2. heartbeat' \in [Attempts -> {None} \cup Attempts]
      BY <2>7, <3>1 DEF Setup
    <3>3. pc' = [pc EXCEPT ![i] = IF hasHeartbeat THEN "loop" ELSE "wait"]
      BY <2>7 DEF Setup, Goto
    <3>4. QED
      BY <2>7, <3>2, <3>3 DEF Setup
  <2>8. ASSUME NEW i \in Attempts, WaitEnds(i) PROVE TypeInv'
    BY <2>8 DEF WaitEnds, EndpointOf, Done, Goto
  <2>9. ASSUME NEW i \in Attempts, Loop(i) PROVE TypeInv'
    <3>1. CASE i \in frames /\ verdict[i] = None
      BY <2>9, <3>1, ZenonT(30) DEF Loop, ClearAndWait, Done, Goto
    <3>2. CASE ~(i \in frames /\ verdict[i] = None)
      BY <2>9, <3>2, ZenonT(30) DEF Loop, ClearAndWait, Done, Goto
    <3>3. QED
      BY <3>1, <3>2
  <2>10. ASSUME NEW i \in Attempts, Awake(i) PROVE TypeInv'
    BY <2>10 DEF Awake, Goto
  <2>11. ASSUME NEW i \in Attempts, HeartbeatTimeout(i) PROVE TypeInv'
    BY <2>11, SMTT(20) DEF HeartbeatTimeout, Goto
  <2>12. ASSUME NEW i \in Attempts, Read(i) PROVE TypeInv'
    BY <2>12 DEF Read, EndpointOf, Goto
  <2>13. ASSUME NEW i \in Attempts, Interrupt(i) PROVE TypeInv'
    <3>1. heartbeat[EndpointOf(i)] # None => heartbeat[EndpointOf(i)] \in Attempts
      BY <2>13 DEF EndpointOf
    <3>2. beat' \subseteq Attempts /\ heard' \subseteq Attempts
      BY <2>13, <3>1 DEF Interrupt, NotifyHeartbeat, EndpointOf, Terminate, Goto
    <3>3. QED
      BY <2>13, <3>2 DEF Interrupt, NotifyHeartbeat, EndpointOf, Terminate, Goto
  <2>14. ASSUME NEW i \in Attempts, Report(i) PROVE TypeInv'
    BY <2>14 DEF Report, Terminate, Goto
  <2>15. ASSUME NEW i \in Attempts, Wake(i) PROVE TypeInv'
    <3>1. heartbeat[i] # None => heartbeat[i] \in Attempts
      BY <2>15 DEF EndpointOf
    <3>2. beat' \subseteq Attempts /\ heard' \subseteq Attempts
      BY <2>15, <3>1 DEF Wake, NotifyHeartbeat
    <3>3. QED
      BY <2>15, <3>2 DEF Wake, NotifyHeartbeat
  <2>16. CASE Collect
    BY <2>16 DEF Collect
  <2>17. CASE Timeout
    BY <2>17 DEF Timeout, Goto
  <2>18. CASE Expire
    BY <2>18 DEF Expire
  <2>19. CASE Retry
    BY <2>19 DEF Retry, AttemptsLeft, Goto
  <2>20. CASE LeaveStopped
    BY <2>20 DEF LeaveStopped
  <2>21. CASE GiveUp
    BY <2>21 DEF GiveUp
  <2>22. ASSUME NEW i \in Attempts, SendTaskHeartbeat(i) PROVE TypeInv'
    <3>1. heartbeat[i] # None => heartbeat[i] \in Attempts
      BY <2>22 DEF EndpointOf
    <3>2. beat' \subseteq Attempts /\ heard' \subseteq Attempts
      BY <2>22, <3>1 DEF SendTaskHeartbeat, NotifyHeartbeat
    <3>3. QED
      BY <2>22, <3>2 DEF SendTaskHeartbeat, NotifyHeartbeat
  <2>23. ASSUME NEW e \in Attempts, NEW o \in {"success", "failure"}, SendTask(e, o)
        PROVE  TypeInv'
    BY <2>23 DEF SendTask, SetOutcome
  <2>24. CASE GetActivityTask
    <3>1. Head(tasks) \in Attempts /\ Tail(tasks) \in Seq(Attempts)
      BY <2>24 DEF GetActivityTask
    <3>2. QED
      BY <2>24, <3>1 DEF GetActivityTask
  <2>25. CASE StopExecution
    BY <2>25 DEF StopExecution
  <2>26. CASE UNCHANGED vars
    BY <2>26 DEF vars
  <2>27. QED
    BY <2>1, <2>2, <2>3, <2>4, <2>5, <2>6, <2>7, <2>8, <2>9, <2>10, <2>11, <2>12, <2>13, <2>14,
       <2>15, <2>16, <2>17, <2>18, <2>19, <2>20, <2>21, <2>22, <2>23, <2>24, <2>25, <2>26
       DEF Next, Worker, Interpreter, Client
<1>3. QED
  BY <1>1, <1>2, PTL DEF Spec

\* clear_and_wait clears an event only together with ending the wait, so HeardKept is
\* inductive.
LEMMA HeardKeptHolds == Spec => []HeardKept
<1> USE BoundsAssumption, NoneAssumption DEF Attempts
<1>1. Init => HeardKept
  BY DEF Init, HeardKept
<1>2. TypeInv /\ HeardKept /\ [Next]_vars => HeardKept'
  <2> SUFFICES ASSUME TypeInv, HeardKept, [Next]_vars PROVE HeardKept'
    OBVIOUS
  <2> USE DEF TypeInv, TypeOK, LaterUnborn, HeardKept, declVars, interpVars, workerVars, endpVars,
     clientVars
  <2>1. ASSUME NEW i \in Attempts, SubmitService(i) PROVE HeardKept'
    BY <2>1 DEF SubmitService, Goto
  <2>2. ASSUME NEW i \in Attempts, SubmitFails(i) PROVE HeardKept'
    BY <2>2 DEF SubmitFails, Goto
  <2>3. ASSUME NEW i \in Attempts, ScheduleActivity(i) PROVE HeardKept'
    BY <2>3 DEF ScheduleActivity, Goto
  <2>4. ASSUME NEW i \in Attempts, PublishEndpoint(i) PROVE HeardKept'
    BY <2>4 DEF PublishEndpoint, Goto
  <2>5. ASSUME NEW i \in Attempts, ActivityStarted(i) PROVE HeardKept'
    BY <2>5 DEF ActivityStarted, Goto
  <2>6. ASSUME NEW i \in Attempts, ActivityNotStarted(i) PROVE HeardKept'
    BY <2>6 DEF ActivityNotStarted, Goto
  <2>7. ASSUME NEW i \in Attempts, Setup(i) PROVE HeardKept'
    BY <2>7 DEF Setup, EndpointOf, Goto
  <2>8. ASSUME NEW i \in Attempts, WaitEnds(i) PROVE HeardKept'
    BY <2>8 DEF WaitEnds, EndpointOf, Done, Goto
  <2>9. ASSUME NEW i \in Attempts, Loop(i) PROVE HeardKept'
    BY <2>9 DEF Loop, ClearAndWait, Done, Goto
  <2>10. ASSUME NEW i \in Attempts, Awake(i) PROVE HeardKept'
    BY <2>10 DEF Awake, Goto
  <2>11. ASSUME NEW i \in Attempts, HeartbeatTimeout(i) PROVE HeardKept'
    BY <2>11 DEF HeartbeatTimeout, Goto
  <2>12. ASSUME NEW i \in Attempts, Read(i) PROVE HeardKept'
    BY <2>12 DEF Read, EndpointOf, Goto
  <2>13. ASSUME NEW i \in Attempts, Interrupt(i) PROVE HeardKept'
    BY <2>13 DEF Interrupt, NotifyHeartbeat, EndpointOf, Terminate, Goto
  <2>14. ASSUME NEW i \in Attempts, Report(i) PROVE HeardKept'
    BY <2>14 DEF Report, Terminate, Goto
  <2>15. ASSUME NEW i \in Attempts, Wake(i) PROVE HeardKept'
    BY <2>15 DEF Wake, NotifyHeartbeat
  <2>16. CASE Collect
    BY <2>16 DEF Collect
  <2>17. CASE Timeout
    BY <2>17 DEF Timeout, Goto
  <2>18. CASE Expire
    BY <2>18 DEF Expire
  <2>19. CASE Retry
    BY <2>19 DEF Retry, AttemptsLeft, Goto
  <2>20. CASE LeaveStopped
    BY <2>20 DEF LeaveStopped
  <2>21. CASE GiveUp
    BY <2>21 DEF GiveUp
  <2>22. ASSUME NEW i \in Attempts, SendTaskHeartbeat(i) PROVE HeardKept'
    BY <2>22 DEF SendTaskHeartbeat, NotifyHeartbeat
  <2>23. ASSUME NEW e \in Attempts, NEW o \in {"success", "failure"}, SendTask(e, o)
        PROVE  HeardKept'
    BY <2>23 DEF SendTask, SetOutcome
  <2>24. CASE GetActivityTask
    BY <2>24 DEF GetActivityTask
  <2>25. CASE StopExecution
    BY <2>25 DEF StopExecution
  <2>26. CASE UNCHANGED vars
    BY <2>26 DEF vars
  <2>27. QED
    BY <2>1, <2>2, <2>3, <2>4, <2>5, <2>6, <2>7, <2>8, <2>9, <2>10, <2>11, <2>12, <2>13, <2>14,
       <2>15, <2>16, <2>17, <2>18, <2>19, <2>20, <2>21, <2>22, <2>23, <2>24, <2>25, <2>26
       DEF Next, Worker, Interpreter, Client
<1>3. QED
  BY <1>1, <1>2, TypeInvHolds, PTL DEF Spec

-----------------------------------------------------------------------------

\* The outcome of the endpoint of an attempt is what a client answered, or nothing: a
\* missing heartbeat is never stored in the endpoint.
LEMMA OutcomeIsAnswer ==
  ASSUME TypeInv, NEW i \in Attempts
  PROVE  outcome[EndpointOf(i)] # "HeartbeatTimedOut"
<1>1. EndpointOf(i) \in Attempts
  BY BoundsAssumption DEF EndpointOf, Attempts
<1>2. outcome \in [Attempts -> {None, "success", "failure"}]
  BY DEF TypeInv, TypeOK
<1>3. outcome[EndpointOf(i)] \in {None, "success", "failure"}
  BY <1>1, <1>2
<1>4. None # "HeartbeatTimedOut"
  BY NoneAssumption DEF Errors
<1>5. QED
  BY <1>3, <1>4

\* The interpreter, the workers, the endpoints and the deque keep the shape of their
\* state; in particular the retrier allows no attempt beyond MaxAttempts.
THEOREM TypesHold == Spec => []TypeOK
BY TypeInvHolds, PTL DEF TypeInv

\* A worker gives up for a missing heartbeat only if none has come since it last
\* looked, for any number of attempts that share a token and any interleaving of
\* notify with clear_and_wait.
THEOREM NoHeartbeatLost == Spec => HeartbeatsCount
<1> DEFINE Counted == \A i \in Attempts :
                verdict[i] = None /\ verdict'[i] = "HeartbeatTimedOut" => i \notin heard
<1>n. None # "HeartbeatTimedOut"
  BY NoneAssumption DEF Errors
<1> USE BoundsAssumption, <1>n DEF Attempts
<1>1. TypeInv /\ HeardKept /\ [Next]_vars => [Counted]_vars
  <2> SUFFICES ASSUME TypeInv, HeardKept, [Next]_vars PROVE Counted
    OBVIOUS
  <2> USE DEF TypeInv, TypeOK, HeardKept, Errors, declVars, interpVars, workerVars, endpVars,
     clientVars
  <2>1. ASSUME NEW i \in Attempts, SubmitService(i) PROVE Counted
    BY <2>1 DEF SubmitService, Goto
  <2>2. ASSUME NEW i \in Attempts, SubmitFails(i) PROVE Counted
    BY <2>2 DEF SubmitFails, Goto
  <2>3. ASSUME NEW i \in Attempts, ScheduleActivity(i) PROVE Counted
    BY <2>3 DEF ScheduleActivity, Goto
  <2>4. ASSUME NEW i \in Attempts, PublishEndpoint(i) PROVE Counted
    BY <2>4 DEF PublishEndpoint, Goto
  <2>5. ASSUME NEW i \in Attempts, ActivityStarted(i) PROVE Counted
    BY <2>5 DEF ActivityStarted, Goto
  <2>6. ASSUME NEW i \in Attempts, ActivityNotStarted(i) PROVE Counted
    BY <2>6 DEF ActivityNotStarted, Goto
  <2>7. ASSUME NEW i \in Attempts, Setup(i) PROVE Counted
    BY <2>7 DEF Setup, EndpointOf, Goto
  <2>8. ASSUME NEW i \in Attempts, WaitEnds(i) PROVE Counted
    <3>1. outcome[EndpointOf(i)] # "HeartbeatTimedOut"
      BY OutcomeIsAnswer
    <3>2. QED
      BY <2>8, <3>1 DEF WaitEnds
  <2>9. ASSUME NEW i \in Attempts, Loop(i) PROVE Counted
    BY <2>9 DEF Loop, ClearAndWait, Done, Goto
  <2>10. ASSUME NEW i \in Attempts, Awake(i) PROVE Counted
    BY <2>10 DEF Awake, Goto
  <2>11. ASSUME NEW i \in Attempts, HeartbeatTimeout(i) PROVE Counted
    BY <2>11 DEF HeartbeatTimeout, Goto
  <2>12. ASSUME NEW i \in Attempts, Read(i) PROVE Counted
    <3>1. outcome[EndpointOf(i)] # "HeartbeatTimedOut"
      BY OutcomeIsAnswer
    <3>2. QED
      BY <2>12, <3>1 DEF Read
  <2>13. ASSUME NEW i \in Attempts, Interrupt(i) PROVE Counted
    BY <2>13 DEF Interrupt, NotifyHeartbeat, EndpointOf, Terminate, Goto
  <2>14. ASSUME NEW i \in Attempts, Report(i) PROVE Counted
    BY <2>14 DEF Report, Terminate, Goto
  <2>15. ASSUME NEW i \in Attempts, Wake(i) PROVE Counted
    BY <2>15 DEF Wake, NotifyHeartbeat
  <2>16. CASE Collect
    BY <2>16 DEF Collect
  <2>17. CASE Timeout
    BY <2>17 DEF Timeout, Goto
  <2>18. CASE Expire
    BY <2>18 DEF Expire
  <2>19. CASE Retry
    BY <2>19 DEF Retry, AttemptsLeft, Goto
  <2>20. CASE LeaveStopped
    BY <2>20 DEF LeaveStopped
  <2>21. CASE GiveUp
    BY <2>21 DEF GiveUp
  <2>22. ASSUME NEW i \in Attempts, SendTaskHeartbeat(i) PROVE Counted
    BY <2>22 DEF SendTaskHeartbeat, NotifyHeartbeat
  <2>23. ASSUME NEW e \in Attempts, NEW o \in {"success", "failure"}, SendTask(e, o)
        PROVE  Counted
    BY <2>23 DEF SendTask, SetOutcome
  <2>24. CASE GetActivityTask
    BY <2>24 DEF GetActivityTask
  <2>25. CASE StopExecution
    BY <2>25 DEF StopExecution
  <2>26. CASE UNCHANGED vars
    BY <2>26 DEF vars
  <2>27. QED
    BY <2>1, <2>2, <2>3, <2>4, <2>5, <2>6, <2>7, <2>8, <2>9, <2>10, <2>11, <2>12, <2>13, <2>14,
       <2>15, <2>16, <2>17, <2>18, <2>19, <2>20, <2>21, <2>22, <2>23, <2>24, <2>25, <2>26
       DEF Next, Worker, Interpreter, Client
<1>2. QED
  BY <1>1, TypeInvHolds, HeardKeptHolds, PTL DEF Spec, HeartbeatsCount
=============================================================================

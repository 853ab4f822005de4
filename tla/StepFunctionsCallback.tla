-------------------------- MODULE StepFunctionsCallback --------------------------
(***************************************************************************)
(* A Task state of Step Functions that waits for a client: a service task  *)
(* with .waitForTaskToken (state_task_service_callback.py) or an activity  *)
(* task (state_task_activitiy.py), the retry loop and the timeout around   *)
(* it (execute_state.py), the endpoints it waits on (callback.py) and the  *)
(* API calls that notify them (provider.py).                               *)
(*                                                                         *)
(* The threads are the interpreter, which starts one worker per attempt    *)
(* and waits for it no longer than the timeout, the workers (an attempt    *)
(* that timed out leaves its worker behind) and the request threads of     *)
(* SendTaskSuccess, SendTaskFailure, SendTaskHeartbeat, GetActivityTask and *)
(* StopExecution.  An endpoint is the set of Python events they meet at.   *)
(*                                                                         *)
(* A service task makes its token once, before the retry loop, and every   *)
(* attempt waits on the same endpoint; an activity task makes a token and  *)
(* an endpoint per attempt.                                                *)
(***************************************************************************)
EXTENDS Integers, Sequences

CONSTANTS
    MaxAttempts,  \* attempts the retrier allows, the first one included
    MaxSignals,   \* bound: SendTask* calls the clients make
    None

ASSUME BoundsAssumption == MaxAttempts \in Nat \ {0} /\ MaxSignals \in Nat

Attempts == 1..MaxAttempts

Errors == {"failure", "TimedOut", "HeartbeatTimedOut", "Error"}

ASSUME NoneAssumption == None \notin Attempts /\ None \notin Errors /\ None # "success"

VARIABLES
    \* what the state declares
    kind,
    hasTimeout,    \* a timeout the worker uses
    hasHeartbeat,
    \* the interpreter
    state,       \* where _eval_state is
    attempt,     \* number of the attempt under way
    program,     \* program state of the execution's environment
    frames,      \* attempts whose frame is still running
    \* the worker of every attempt
    pc,
    verdict,     \* its local variable outcome
    reported,    \* what the one under way left in execution_outputs or execution_exceptions
    \* the endpoints
    outcome, notified, heartbeat,
    beat,        \* the event of the heartbeat endpoint an attempt made
    tasks,       \* the deque of the activity
    \* the clients
    tokens,      \* endpoints whose token a client has; the task of an activity is started
    waking,      \* endpoints whose notify has yet to reach the heartbeat endpoint
    signals,     \* SendTask* calls made
    heard        \* attempts whose heartbeat endpoint was notified after their last look

declVars   == <<kind, hasTimeout, hasHeartbeat>>
interpVars == <<state, attempt, program, frames>>
workerVars == <<pc, verdict, reported>>
endpVars   == <<outcome, notified, heartbeat, beat, tasks>>
clientVars == <<tokens, waking, signals>>

vars == <<declVars, interpVars, workerVars, endpVars, clientVars, heard>>

\* from_state_props: a heartbeat brings a timeout of 60 seconds where none is declared.
\* The interpreter keeps to it; the worker of an activity uses declared ones only.
Expires == hasTimeout \/ hasHeartbeat

\* The endpoint attempt i waits on, named by the first attempt that uses it.
EndpointOf(i) == IF kind = "service" THEN 1 ELSE i

\* The shape of the state; the attempts of a state stay within what its retrier allows.
TypeOK ==
    /\ kind \in {"service", "activity"}
    /\ hasTimeout \in BOOLEAN /\ hasHeartbeat \in BOOLEAN
    /\ state \in {"waiting", "expired", "handling", "left", "failed", "stopped"}
    /\ attempt \in Attempts
    /\ program \in {"running", "stopped"}
    /\ frames \subseteq Attempts
    /\ pc \in [Attempts -> {"unborn", "submit", "publish", "start", "setup", "wait", "loop",
                            "block", "read", "interrupt", "report", "ended"}]
    /\ verdict \in [Attempts -> {None, "success"} \cup Errors]
    /\ reported \in {None, "success"} \cup Errors
    /\ outcome \in [Attempts -> {None, "success", "failure"}]
    /\ notified \subseteq Attempts
    /\ heartbeat \in [Attempts -> {None} \cup Attempts]
    /\ beat \subseteq Attempts
    /\ tasks \in Seq(Attempts)
    /\ tokens \subseteq Attempts /\ waking \subseteq Attempts
    /\ signals \in 0..MaxSignals
    /\ heard \subseteq Attempts

\* _eval_body has made the token of a service task and _evaluate_with_timeout
\* has started the worker of the first attempt.
Init ==
    /\ kind \in {"service", "activity"}
    /\ hasTimeout \in BOOLEAN /\ hasHeartbeat \in BOOLEAN
    /\ kind = "service" /\ hasHeartbeat => hasTimeout
    /\ state = "waiting" /\ attempt = 1 /\ program = "running" /\ frames = {1}
    /\ pc = [i \in Attempts |-> IF i = 1 THEN "submit" ELSE "unborn"]
    /\ verdict = [i \in Attempts |-> None]
    /\ reported = None
    /\ outcome = [i \in Attempts |-> None]
    /\ notified = {}
    /\ heartbeat = [i \in Attempts |-> None]
    /\ beat = {} /\ tasks = <<>>
    /\ tokens = {} /\ waking = {} /\ signals = 0 /\ heard = {}

Goto(i, label) == pc' = [pc EXCEPT ![i] = label]

\* HeartbeatEndpoint.notify, of the endpoint that e has at this moment.
NotifyHeartbeat(e) ==
    IF heartbeat[e] = None
    THEN UNCHANGED <<beat, heard>>
    ELSE beat' = beat \cup {heartbeat[e]} /\ heard' = heard \cup {heartbeat[e]}

-----------------------------------------------------------------------------
(* The worker of attempt i: _eval_execution *)

\* _eval_service_task sends the token away.
SubmitService(i) ==
    /\ kind = "service" /\ pc[i] = "submit"
    /\ Goto(i, "setup")
    /\ tokens' = tokens \cup {1}
    /\ UNCHANGED <<declVars, interpVars, verdict, reported, endpVars, waking, signals, heard>>

\* The service call fails, or the activity does not exist: an exception that
\* passes by the wait and by interrupt_all.
SubmitFails(i) ==
    /\ pc[i] = "submit"
    /\ verdict' = [verdict EXCEPT ![i] = "Error"]
    /\ Goto(i, "report")
    /\ UNCHANGED <<declVars, interpVars, reported, endpVars, clientVars, heard>>

\* add_activity_task: a token of its own, in the deque of the activity ...
ScheduleActivity(i) ==
    /\ kind = "activity" /\ pc[i] = "submit"
    /\ tasks' = Append(tasks, i)
    /\ Goto(i, "publish")
    /\ UNCHANGED <<declVars, interpVars, verdict, reported, outcome, notified, heartbeat, beat,
                   clientVars, heard>>

\* ... and after that its endpoint in the pool.
PublishEndpoint(i) ==
    /\ pc[i] = "publish"
    /\ Goto(i, "start")
    /\ UNCHANGED <<declVars, interpVars, verdict, reported, endpVars, clientVars, heard>>

\* ActivityTaskStartEndpoint.wait returns the start ...
ActivityStarted(i) ==
    /\ pc[i] = "start" /\ i \in tokens
    /\ Goto(i, "setup")
    /\ UNCHANGED <<declVars, interpVars, verdict, reported, endpVars, clientVars, heard>>

\* ... or times out and fails: _outcome was never assigned.
ActivityNotStarted(i) ==
    /\ pc[i] = "start" /\ i \notin tokens
    /\ hasTimeout
    /\ verdict' = [verdict EXCEPT ![i] = "Error"]
    /\ Goto(i, "report")
    /\ UNCHANGED <<declVars, interpVars, reported, endpVars, clientVars, heard>>

\* setup_heartbeat_endpoint replaces the endpoint of an earlier attempt.
Setup(i) ==
    /\ pc[i] = "setup"
    /\ IF hasHeartbeat
       THEN /\ heartbeat' = [heartbeat EXCEPT ![EndpointOf(i)] = i]
            /\ Goto(i, "loop")
       ELSE UNCHANGED heartbeat /\ Goto(i, "wait")
    /\ UNCHANGED <<declVars, interpVars, verdict, reported, outcome, notified, beat, tasks,
                   clientVars, heard>>

\* After the wait: a service task interrupts everyone else, an activity does not.
Done == IF kind = "service" THEN "interrupt" ELSE "report"

\* Mutant of WaitOver: the wait has no timeout of its own.
WaitOverNotified(i) == EndpointOf(i) \in notified

\* CallbackEndpoint.wait: the event is set, or the timeout has passed.
WaitOver(i) == EndpointOf(i) \in notified \/ hasTimeout

\* What the wait returns is the outcome, and no outcome is a timeout.
WaitEnds(i) ==
    /\ pc[i] = "wait"
    /\ WaitOver(i)
    /\ verdict' = [verdict EXCEPT ![i] =
                      IF outcome[EndpointOf(i)] = None THEN "TimedOut" ELSE outcome[EndpointOf(i)]]
    /\ Goto(i, Done)
    /\ UNCHANGED <<declVars, interpVars, reported, endpVars, clientVars, heard>>

\* Mutant of ClearAndWait: the event is cleared whether or not it was set.
ClearAndWaitBlindly(i) == beat' = beat \ {i} /\ Goto(i, "block")

\* clear_and_wait, under the mutex: a heartbeat that came meanwhile is consumed.
\* One that ends the wait itself is not, and ends the next wait too.
ClearAndWait(i) == beat' = beat \ {i} /\ Goto(i, IF i \in beat THEN "read" ELSE "block")

\* while env.is_running() and outcome is None
Loop(i) ==
    /\ pc[i] = "loop"
    /\ \/ /\ i \in frames /\ verdict[i] = None
          /\ ClearAndWait(i)
          /\ UNCHANGED verdict
       \/ /\ i \notin frames \/ verdict[i] # None
          /\ verdict' = [verdict EXCEPT ![i] = IF @ = None THEN "TimedOut" ELSE @]
          /\ Goto(i, Done)
          /\ UNCHANGED beat
    /\ UNCHANGED <<declVars, interpVars, reported, outcome, notified, heartbeat, tasks,
                   clientVars, heard>>

Awake(i) ==
    /\ pc[i] = "block" /\ i \in beat
    /\ Goto(i, "read")
    /\ UNCHANGED <<declVars, interpVars, verdict, reported, endpVars, clientVars, heard>>

\* The wait times out.  That is the end unless the frame has ended before.
HeartbeatTimeout(i) ==
    /\ pc[i] = "block" /\ i \notin beat
    /\ IF i \in frames
       THEN verdict' = [verdict EXCEPT ![i] = "HeartbeatTimedOut"] /\ Goto(i, "loop")
       ELSE UNCHANGED verdict /\ Goto(i, "read")
    /\ UNCHANGED <<declVars, interpVars, reported, endpVars, clientVars, heard>>

\* outcome = callback_endpoint.get_outcome()
Read(i) ==
    /\ pc[i] = "read"
    /\ verdict' = [verdict EXCEPT ![i] = outcome[EndpointOf(i)]]
    /\ heard' = heard \ {i}
    /\ Goto(i, "loop")
    /\ UNCHANGED <<declVars, interpVars, reported, endpVars, clientVars>>

\* _exec_and_notify: the output or the exception is stored and terminated_event
\* is set.  Nobody waits for a worker that is late.
Terminate(i) ==
    /\ reported' = IF attempt = i /\ state = "waiting" THEN verdict[i] ELSE reported
    /\ verdict' = [verdict EXCEPT ![i] = None]
    /\ Goto(i, "ended")

\* The wait is over.  interrupt_all wakes the heartbeat endpoint of whichever
\* attempt was the latest to make one.
Interrupt(i) ==
    /\ pc[i] = "interrupt"
    /\ notified' = notified \cup {EndpointOf(i)}
    /\ NotifyHeartbeat(EndpointOf(i))
    /\ Terminate(i)
    /\ UNCHANGED <<declVars, interpVars, outcome, heartbeat, tasks, clientVars>>

Report(i) ==
    /\ pc[i] = "report"
    /\ Terminate(i)
    /\ UNCHANGED <<declVars, interpVars, endpVars, clientVars, heard>>

Worker(i) ==
    \/ SubmitService(i) \/ SubmitFails(i) \/ ScheduleActivity(i) \/ PublishEndpoint(i)
    \/ ActivityStarted(i) \/ ActivityNotStarted(i) \/ Setup(i) \/ WaitEnds(i)
    \/ Loop(i) \/ Awake(i) \/ HeartbeatTimeout(i) \/ Read(i)
    \/ Interrupt(i) \/ Report(i)

-----------------------------------------------------------------------------
(* The interpreter: _evaluate_with_timeout inside the loop of _eval_state *)

\* terminated_event was set in time: the frame ends and the result is taken.
Collect ==
    /\ state = "waiting" /\ reported # None
    /\ frames' = frames \ {attempt}
    /\ state' = CASE reported # "success" -> "handling"
                  [] program = "running" -> "left"
                  [] OTHER -> "stopped"
    /\ reported' = None
    /\ UNCHANGED <<declVars, attempt, program, pc, verdict, endpVars, clientVars, heard>>

\* The wait ran into the timeout; the frame ends under the worker.
Timeout ==
    /\ state = "waiting" /\ Expires /\ reported = None
    /\ state' = "expired"
    /\ frames' = frames \ {attempt}
    /\ UNCHANGED <<declVars, attempt, program, workerVars, endpVars, clientVars, heard>>

\* An exception the worker has left by now is raised, EvalTimeoutError otherwise,
\* also when the worker has succeeded by now.
Expire ==
    /\ state = "expired"
    /\ state' = "handling"
    /\ UNCHANGED <<declVars, attempt, program, frames, workerVars, endpVars, clientVars, heard>>

\* Mutant of AttemptsLeft: one attempt too many.
AttemptsLeftOffByOne == attempt <= MaxAttempts

\* MaxAttemptsDecl compares the number of retries made, here that of attempts.
AttemptsLeft == attempt < MaxAttempts

\* The retrier allows another attempt: a frame of its own, the same token.
Retry ==
    /\ state = "handling" /\ AttemptsLeft /\ program = "running"
    /\ state' = "waiting"
    /\ attempt' = attempt + 1
    /\ frames' = frames \cup {attempt + 1}
    /\ Goto(attempt + 1, "submit")
    /\ UNCHANGED <<declVars, program, verdict, reported, endpVars, clientVars, heard>>

\* A retrier matched but the execution was stopped: the loop ends quietly.
LeaveStopped ==
    /\ state = "handling" /\ AttemptsLeft /\ program = "stopped"
    /\ state' = "stopped"
    /\ UNCHANGED <<declVars, attempt, program, frames, workerVars, endpVars, clientVars, heard>>

\* No retrier matches or no attempt is left: a catcher takes the error and the
\* execution goes on, or it is raised and fails the execution.
GiveUp ==
    /\ state = "handling"
    /\ state' \in {"left", "failed"}
    /\ UNCHANGED <<declVars, attempt, program, frames, workerVars, endpVars, clientVars, heard>>

Interpreter == Collect \/ Timeout \/ Expire \/ Retry \/ LeaveStopped \/ GiveUp

-----------------------------------------------------------------------------
(* The API *)

\* exec_status is RUNNING until the program has ended.
Running == state \notin {"failed", "stopped"}

\* Mutant of SetOutcome: the waiting thread is not woken.
SetOutcomeSilently(e, o) == outcome' = [outcome EXCEPT ![e] = o] /\ UNCHANGED notified

\* CallbackEndpoint.notify, its first half.
SetOutcome(e, o) ==
    /\ outcome' = [outcome EXCEPT ![e] = o]
    /\ notified' = notified \cup {e}

\* send_task_success looks at running executions, send_task_failure at all.
SendTask(e, o) ==
    /\ signals < MaxSignals
    /\ e \in tokens \ waking
    /\ o = "success" => Running
    /\ SetOutcome(e, o)
    /\ waking' = waking \cup {e}
    /\ signals' = signals + 1
    /\ UNCHANGED <<declVars, interpVars, workerVars, heartbeat, beat, tasks, tokens, heard>>

\* CallbackEndpoint.notify, its second half.
Wake(e) ==
    /\ e \in waking
    /\ waking' = waking \ {e}
    /\ NotifyHeartbeat(e)
    /\ UNCHANGED <<declVars, interpVars, workerVars, outcome, notified, heartbeat, tasks,
                   tokens, signals>>

\* send_task_heartbeat: InvalidToken before the heartbeat endpoint is there.
SendTaskHeartbeat(e) ==
    /\ signals < MaxSignals
    /\ e \in tokens /\ Running /\ heartbeat[e] # None
    /\ NotifyHeartbeat(e)
    /\ signals' = signals + 1
    /\ UNCHANGED <<declVars, interpVars, workerVars, outcome, notified, heartbeat, tasks,
                   tokens, waking>>

\* get_activity_task pops the oldest task, whether or not its attempt is over.  A
\* task whose endpoint is not in the pool yet is gone: the call ends in InvalidToken.
GetActivityTask ==
    LET found == {i \in {Head(tasks)} : pc[i] # "publish"} IN
    /\ tasks # <<>>
    /\ tasks' = Tail(tasks)
    /\ tokens' = tokens \cup found
    /\ UNCHANGED <<declVars, interpVars, workerVars, outcome, notified, heartbeat, beat, waking,
                   signals, heard>>

\* stop_execution: set_stop on the environment and the frames it has open.
StopExecution ==
    /\ program = "running" /\ state \in {"waiting", "expired", "handling"}
    /\ program' = "stopped"
    /\ frames' = {}
    /\ UNCHANGED <<declVars, state, attempt, workerVars, endpVars, clientVars, heard>>

Client ==
    \/ \E e \in Attempts : SendTaskHeartbeat(e) \/ \E o \in {"success", "failure"} : SendTask(e, o)
    \/ GetActivityTask \/ StopExecution

Next ==
    \/ \E i \in Attempts : Worker(i) \/ Wake(i)
    \/ Interpreter \/ Client

Spec == Init /\ [][Next]_vars

\* Threads run and timeouts pass; clients need not do anything.
Fairness ==
    /\ \A i \in Attempts : WF_vars(Worker(i))
    /\ WF_vars(\E e \in Attempts : Wake(e))
    /\ WF_vars(Interpreter)

FairSpec == Spec /\ Fairness

-----------------------------------------------------------------------------
(* Properties *)

\* No heartbeat is lost: a worker gives its task up for a missing heartbeat only
\* if its heartbeat endpoint was not notified since the worker last looked at the
\* outcome, however notify falls between the check and the wait of clear_and_wait.
HeartbeatsCount ==
    [][\A i \in Attempts :
          verdict[i] = None /\ verdict'[i] = "HeartbeatTimedOut" => i \notin heard]_vars

\* The worker of attempt i is going to see an answer: it waits without heartbeats, or its
\* heartbeat endpoint was notified since its last look.  (An answer that comes before the
\* endpoint is set up, or after another attempt has set up its own, notifies nobody.)
Answered(i) ==
    /\ attempt = i /\ state = "waiting" /\ program = "running"
    /\ outcome[EndpointOf(i)] # None
    /\ IF hasHeartbeat
       THEN pc[i] \in {"loop", "block", "read"} /\ verdict[i] = None /\ i \in heard
       ELSE pc[i] \in {"setup", "wait"}

\* An answer counts: it is what the attempt ends with, and not a missing heartbeat or a
\* wait that ran out, unless the timeout of the state or a stop comes first; also without
\* any timeout, however notify falls into clear_and_wait, and whatever the workers that
\* earlier attempts have left behind do to the endpoint.
AnswerEndsAttempt ==
    \A i \in Attempts :
        Answered(i) ~> /\ attempt = i
                       /\ \/ reported \in {"success", "failure"}
                          \/ state = "expired" \/ program = "stopped"

\* No worker is left behind: with a timeout or a heartbeat the worker of every
\* attempt ends, also of an attempt that was given up; only the worker of an
\* activity without a timeout may wait for a client to take its task.
WorkersEnd ==
    \A i \in Attempts :
        (pc[i] # "unborn" /\ Expires)
            ~> (pc[i] = "ended" \/ (pc[i] = "start" /\ ~hasTimeout))

=============================================================================

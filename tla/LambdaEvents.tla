------------------------------ MODULE LambdaEvents ------------------------------
(***************************************************************************)
(* Asynchronous invocations of a Lambda function                           *)
(* (services/lambda_/invocation/event_manager.py) while the function is    *)
(* updated or deleted (lambda_service.py).                                 *)
(*                                                                         *)
(* An event waits in a queue that belongs to the function and outlives its *)
(* revisions.  Every revision has a LambdaEventManager with a Poller, and  *)
(* the poller hands messages to a thread pool whose threads invoke the     *)
(* function and then delete the message, send it again or give it up.  An  *)
(* update starts the poller of the new revision first and stops that of    *)
(* the old one afterwards, so that for a while two pollers share the queue.*)
(* A message whose visibility timeout ends before a thread has deleted it  *)
(* is delivered, and handled, once more.                                   *)
(*                                                                         *)
(* The queue is the abstract MessageQueue, which SqsStandardQueue          *)
(* implements: this module composes its actions with the steps of the      *)
(* event managers.  The internal queue has no redrive policy.              *)
(***************************************************************************)
EXTENDS Integers, FiniteSets

CONSTANTS
    Events,      \* asynchronous invocations clients may make
    MaxMsgs,     \* bound: messages sent to the queue
    Revisions,   \* bound: the function has the revisions 1..Revisions
    MaxRetries,  \* maximum_retry_attempts, 2 unless configured
    MaxReceives, \* bound: deliveries of one message
    MaxLate,     \* bound: leases that end before the message is handled
    LateDelete,  \* bound: whether a function with such leases may be deleted
    None

ASSUME NoneAssumption == None \notin Events

ASSUME BoundsAssumption ==
    /\ MaxMsgs \in Nat \ {0} /\ Revisions \in Nat \ {0} /\ MaxRetries \in Nat
    /\ MaxReceives \in Nat \ {0} /\ MaxLate \in Nat /\ LateDelete \in BOOLEAN

Msgs == 1..MaxMsgs

\* A delivery is a message and the number of the receive: it has its own receipt
\* handle, and its own thread.
Deliveries == Msgs \X (1..MaxReceives)
Revs == 1..Revisions

VARIABLES
    \* the queue
    sent, waiting, ready, claimed, receiving, unacked, acked, lease, count, dead, purged, open,
    receipts,    \* deliveries whose receipt handle the queue knows
    \* SQSInvocation, the body of a message
    event, retries,
    \* LambdaService
    manager,     \* the revision whose event manager is registered, None after a delete
    update,      \* how far the update to the next revision has come
    old,         \* the revision that an update has replaced and not yet stopped
    up,          \* revisions whose version manager is not shut down
    \* LambdaEventManager and Poller of every revision
    poller,      \* program counter of Poller.run
    shutdown,    \* _shutdown_event is set and the pool is shut down
    fetching,    \* the message a receive call is working on
    batch,       \* deliveries received and not yet submitted to the pool
    \* handle_message, per delivery
    handler, owner,
    \* what became of the events
    accepted,    \* enqueue_event returned
    errors,      \* per event and number of retries, invocations that ended in an error
    results,     \* events counted as succeeded or failed
    late         \* deliveries whose lease ended before their message was deleted

queueVars   == <<sent, waiting, ready, claimed, receiving, unacked, acked, lease, count, dead,
                 purged, open>>
bodyVars    == <<event, retries>>
serviceVars == <<manager, update, old, up>>
pollerVars  == <<poller, shutdown, fetching, batch>>
handlerVars == <<handler, owner>>
eventVars   == <<accepted, errors, results, late>>

vars == <<queueVars, receipts, bodyVars, serviceVars, pollerVars, handlerVars, eventVars>>

Queue == INSTANCE MessageQueue WITH MaxReceiveCount <- 0

\* Revision 1 is running: create_function_version is over.
Init ==
    /\ Queue!Init
    /\ receipts = {} /\ late = {}
    /\ event = [m \in Msgs |-> None]
    /\ retries = [m \in Msgs |-> 0]
    /\ manager = 1 /\ update = "idle" /\ old = None /\ up = {1}
    /\ poller = [r \in Revs |-> IF r = 1 THEN "poll" ELSE "unborn"]
    /\ shutdown = {}
    /\ fetching = [r \in Revs |-> None]
    /\ batch = [r \in Revs |-> {}]
    /\ handler = [d \in Deliveries |-> "none"]
    /\ owner = [d \in Deliveries |-> None]
    /\ accepted = {}
    /\ errors = [e \in Events |-> [k \in 0..MaxRetries |-> 0]]
    /\ results = [e \in Events |-> 0]

-----------------------------------------------------------------------------
(* The queue's own steps: delays and leases pass, the update worker returns *)
(* messages.                                                                *)

\* The latest delivery of a message, the one its lease belongs to.
Latest(m) == <<m, count[m]>>

\* A poller or a thread of the pool has the message in hand.
InHand(m) ==
    \/ \E r \in Revs : Latest(m) \in batch[r]
    \/ Latest(m) \in Deliveries /\ handler[Latest(m)] # "none"

\* The visibility timeout of function_timeout + 60 seconds ends.  The message may still be
\* in hand: "queueing within the thread pool executor could lead to double executions due
\* to the visibility timeout".  (A lease that ends during the receive shows no sooner than
\* one that ends right after it.)
LeaseEnds(m) ==
    /\ m \in unacked
    /\ Queue!LeaseEnds(m)
    /\ IF InHand(m)
       THEN /\ Cardinality(late) < MaxLate /\ (LateDelete \/ manager # None)
            /\ late' = late \cup {Latest(m)}
       ELSE UNCHANGED late

QueueStep(m) ==
    /\ \/ (Queue!Ripen(m) \/ Queue!Return(m)) /\ UNCHANGED late
       \/ LeaseEnds(m)
    /\ UNCHANGED <<receipts, bodyVars, serviceVars, pollerVars, handlerVars, accepted, errors,
                   results>>

\* send_message with a fresh message id.
SendMessage(e, n) ==
    LET m == Cardinality(sent) + 1 IN
    /\ m \in Msgs
    /\ Queue!Send(m)
    /\ event' = [event EXCEPT ![m] = e]
    /\ retries' = [retries EXCEPT ![m] = n]

-----------------------------------------------------------------------------
(* Invoke with InvocationType Event *)

\* The registered event manager has its queue once it is started; before that,
\* and after a delete, enqueue_event raises.
EnqueueEvent(e) ==
    /\ e \notin accepted
    /\ manager # None /\ poller[manager] # "unborn"
    /\ SendMessage(e, 0)
    /\ accepted' = accepted \cup {e}
    /\ UNCHANGED <<receipts, serviceVars, pollerVars, handlerVars, errors, results, late>>

-----------------------------------------------------------------------------
(* Poller.run *)

\* Mutant of PollerDone: the loop goes on until the queue is gone.
PollerDoneClosed(r) == r \in shutdown /\ ~open

\* self._shutdown_event.is_set(), at the head of the loop
PollerDone(r) == r \in shutdown

\* The loop ends at its head.  A receive_message that brings nothing, or raises because the
\* queue is gone, leads back to the head and is not a step of its own.
PollLoop(r) ==
    /\ poller[r] = "poll" /\ fetching[r] = None /\ batch[r] = {}
    /\ PollerDone(r)
    /\ poller' = [poller EXCEPT ![r] = "ended"]
    /\ UNCHANGED <<queueVars, receipts, bodyVars, serviceVars, shutdown, fetching, batch,
                   handlerVars, eventVars>>

\* receive_message picks a message, counts the receive and puts it in flight; it
\* does so too when the shutdown comes while it waits.
ReceiveClaim(r, m) ==
    /\ poller[r] = "poll" /\ fetching[r] = None
    /\ Queue!Claim(m) /\ count[m] < MaxReceives
    /\ fetching' = [fetching EXCEPT ![r] = m]
    /\ UNCHANGED <<receipts, bodyVars, serviceVars, poller, shutdown, batch, handlerVars,
                   eventVars>>

\* A message that was deleted with an older handle meanwhile is skipped.
ReceiveDiscard(r) ==
    LET m == fetching[r] IN
    /\ poller[r] = "poll" /\ m \in claimed
    /\ Queue!Discard(m)
    /\ fetching' = [fetching EXCEPT ![r] = None]
    /\ UNCHANGED <<receipts, bodyVars, serviceVars, poller, shutdown, batch, handlerVars,
                   eventVars>>

ReceiveCount(r) ==
    LET m == fetching[r] IN
    /\ poller[r] = "poll" /\ m \in claimed
    /\ Queue!Count(m) /\ m \in lease'
    /\ UNCHANGED <<receipts, bodyVars, serviceVars, pollerVars, handlerVars, eventVars>>

ReceiveDeliver(r) ==
    LET m == fetching[r] IN
    /\ poller[r] = "poll" /\ m \in receiving
    /\ Queue!Deliver(m) /\ m \in unacked'
    /\ fetching' = [fetching EXCEPT ![r] = None]
    /\ receipts' = receipts \cup {Latest(m)}
    /\ batch' = [batch EXCEPT ![r] = @ \cup {Latest(m)}]
    /\ UNCHANGED <<bodyVars, serviceVars, poller, shutdown, handlerVars, eventVars>>

\* The answer holds messages: they are submitted, unless a shutdown came meanwhile and the
\* loop ends.
Received(r) ==
    /\ poller[r] = "poll" /\ fetching[r] = None /\ batch[r] # {}
    /\ IF r \in shutdown
       THEN batch' = [batch EXCEPT ![r] = {}] /\ poller' = [poller EXCEPT ![r] = "ended"]
       ELSE poller' = [poller EXCEPT ![r] = "submit"] /\ UNCHANGED batch
    /\ UNCHANGED <<queueVars, receipts, bodyVars, serviceVars, shutdown, fetching, handlerVars,
                   eventVars>>

\* invoker_pool.submit
Submit(r, d) ==
    /\ poller[r] = "submit" /\ d \in batch[r] /\ r \notin shutdown
    /\ handler' = [handler EXCEPT ![d] = "queued"]
    /\ owner' = [owner EXCEPT ![d] = r]
    /\ batch' = [batch EXCEPT ![r] = @ \ {d}]
    /\ poller' = [poller EXCEPT ![r] = IF batch[r] = {d} THEN "poll" ELSE "submit"]
    /\ UNCHANGED <<queueVars, receipts, bodyVars, serviceVars, shutdown, fetching, eventVars>>

\* submit raises because the pool is shut down, and the poller returns.
SubmitRefused(r) ==
    /\ poller[r] = "submit" /\ r \in shutdown
    /\ batch' = [batch EXCEPT ![r] = {}]
    /\ poller' = [poller EXCEPT ![r] = "ended"]
    /\ UNCHANGED <<queueVars, receipts, bodyVars, serviceVars, shutdown, fetching, handlerVars,
                   eventVars>>

Poll(r) ==
    \/ \E m \in Msgs : ReceiveClaim(r, m)
    \/ \E d \in Deliveries : Submit(r, d)
    \/ ReceiveDiscard(r) \/ ReceiveCount(r) \/ ReceiveDeliver(r)
    \/ Received(r) \/ PollLoop(r) \/ SubmitRefused(r)

-----------------------------------------------------------------------------
(* handle_message, in a thread of the pool, for the delivery d = <<m, n>> *)

Handle(d, label) ==
    /\ handler' = [handler EXCEPT ![d] = label]
    /\ owner' = [owner EXCEPT ![d] = IF label = "none" THEN None ELSE @]

Finish(e) == results' = [results EXCEPT ![e] = @ + 1]

\* version_manager.invoke: the function answers, or the call is throttled or
\* fails; once the version manager is shut down it always fails.
Invoke(d) ==
    LET m == d[1] IN
    /\ handler[d] = "queued"
    /\ \/ Handle(d, "exception") /\ UNCHANGED errors
       \/ owner[d] \in up /\ Handle(d, "success") /\ UNCHANGED errors
       \/ /\ owner[d] \in up
          /\ Handle(d, "error")
          /\ errors' = [errors EXCEPT ![event[m]][retries[m]] = @ + 1]
    /\ UNCHANGED <<queueVars, receipts, bodyVars, serviceVars, pollerVars, accepted, results,
                   late>>

\* Mutant of ReturnToQueue: an event whose version was stopped is not sent again.
ReturnToQueueIfUp(d) ==
    IF owner[d] \in up THEN SendMessage(event[d[1]], retries[d[1]])
    ELSE UNCHANGED <<queueVars, bodyVars>>

\* process_throttles_and_system_errors: the same event again, the number of
\* retries unchanged.
ReturnToQueue(d) == SendMessage(event[d[1]], retries[d[1]])

\* An exception: the event goes back to the queue ...
ExceptionRetry(d) ==
    /\ handler[d] = "exception" /\ open
    /\ ReturnToQueue(d)
    /\ Handle(d, "delete")
    /\ UNCHANGED <<receipts, serviceVars, pollerVars, eventVars>>

\* ... unless the reserved concurrency is 0 or the event is too old for a retry.
ExceptionGiveUp(d) ==
    /\ handler[d] = "exception"
    /\ Finish(event[d[1]])
    /\ Handle(d, "delete")
    /\ UNCHANGED <<queueVars, receipts, bodyVars, serviceVars, pollerVars, accepted, errors,
                   late>>

\* A message is deleted with all its handles.
Acknowledged(m) == Queue!Acknowledge(m) /\ receipts' = {d \in receipts : d[1] # m}

\* Mutant of DeleteMessage: a stopped revision leaves the message in flight.
DeleteMessageIfUp(d) ==
    IF owner[d] \in up THEN Acknowledged(d[1]) ELSE UNCHANGED <<queueVars, receipts>>

\* delete_message: nothing happens when the handle is gone because another thread has
\* deleted the message.
DeleteMessage(d) ==
    IF d \in receipts THEN Acknowledged(d[1]) ELSE UNCHANGED <<queueVars, receipts>>

\* The finally clause, for every way the invocation can end.  After an error the
\* message is deleted before the retry is sent.
Delete(d) ==
    /\ handler[d] \in {"delete", "success", "error"} /\ open
    /\ DeleteMessage(d)
    /\ Handle(d, CASE handler[d] = "delete" -> "none"
                   [] handler[d] = "success" -> "succeeded"
                   [] handler[d] = "error" -> "failed")
    /\ UNCHANGED <<bodyVars, serviceVars, pollerVars, eventVars>>

\* process_success_destination
Succeed(d) ==
    /\ handler[d] = "succeeded"
    /\ Finish(event[d[1]])
    /\ Handle(d, "none")
    /\ UNCHANGED <<queueVars, receipts, bodyVars, serviceVars, pollerVars, accepted, errors,
                   late>>

\* sqs_invocation.retries >= max_retry_attempts
RetriesExhausted(m) == retries[m] >= MaxRetries

\* The event is given up: out of retries, too old, or the reserved concurrency is 0.
ErrorGiveUp(d) ==
    /\ handler[d] = "failed"
    /\ Finish(event[d[1]])
    /\ Handle(d, "none")
    /\ UNCHANGED <<queueVars, receipts, bodyVars, serviceVars, pollerVars, accepted, errors,
                   late>>

\* Mutant of NextRetry: the retry is not counted.
NextRetryUncounted(m) == retries[m]

\* Mutant of NextRetry: the retry is counted where it is decided and where it is sent.
NextRetryTwice(m) == retries[m] + 2

\* sqs_invocation.retries += 1
NextRetry(m) == retries[m] + 1

ErrorRetry(d) ==
    /\ handler[d] = "failed" /\ open
    /\ ~RetriesExhausted(d[1])
    /\ SendMessage(event[d[1]], NextRetry(d[1]))
    /\ Handle(d, "none")
    /\ UNCHANGED <<receipts, serviceVars, pollerVars, eventVars>>

\* Any call on a queue that was deleted raises, and the thread ends.
QueueGone(d) ==
    /\ handler[d] \in {"exception", "delete", "success", "error", "failed"} /\ ~open
    /\ Handle(d, "none")
    /\ UNCHANGED <<queueVars, receipts, bodyVars, serviceVars, pollerVars, eventVars>>

HandleMessage(d) ==
    \/ Invoke(d) \/ ExceptionRetry(d) \/ ExceptionGiveUp(d) \/ Delete(d) \/ Succeed(d)
    \/ ErrorGiveUp(d) \/ ErrorRetry(d) \/ QueueGone(d)

-----------------------------------------------------------------------------
(* LambdaService: update and delete *)

\* update_version_state, under the lock: the new version and its event manager
\* are registered ...
Rollover ==
    /\ manager # None /\ manager < Revisions
    /\ update = "idle" /\ old = None
    /\ update' = "registered"
    /\ old' = manager
    /\ manager' = manager + 1
    /\ up' = up \cup {manager + 1}
    /\ UNCHANGED <<queueVars, receipts, bodyVars, pollerVars, handlerVars, eventVars>>

\* Mutant of StartPoller: start returns because the queue exists.
StartPollerNot(r) == UNCHANGED poller

\* LambdaEventManager.start: create_queue returns the queue of the function, and
\* the poller's thread is started.
StartPoller(r) == poller' = [poller EXCEPT ![r] = "poll"]

\* ... and the event manager is started.
StartManager ==
    /\ update = "registered"
    /\ update' = "started"
    /\ StartPoller(manager)
    /\ UNCHANGED <<queueVars, receipts, bodyVars, manager, old, up, shutdown, fetching, batch,
                   handlerVars, eventVars>>

\* Poller.stop: the event is set, and futures that are not running are cancelled.
StopPoller(r) ==
    /\ shutdown' = shutdown \cup {r}
    /\ LET cancelled == {d \in Deliveries : owner[d] = r /\ handler[d] = "queued"} IN
       /\ handler' = [d \in Deliveries |-> IF d \in cancelled THEN "none" ELSE handler[d]]
       /\ owner' = [d \in Deliveries |-> IF d \in cancelled THEN None ELSE owner[d]]

\* stop_for_update, for the old revision, in a thread of the service.
StopForUpdate ==
    /\ update = "started" /\ old \notin shutdown
    /\ StopPoller(old)
    /\ UNCHANGED <<queueVars, receipts, bodyVars, serviceVars, poller, fetching, batch,
                   eventVars>>

\* old_version.stop, in another thread.
StopOldVersion ==
    /\ update = "started" /\ old \in up
    /\ up' = up \ {old}
    /\ UNCHANGED <<queueVars, receipts, bodyVars, manager, update, old, pollerVars, handlerVars,
                   eventVars>>

UpdateDone ==
    /\ update = "started" /\ old \in shutdown \ up
    /\ update' = "idle" /\ old' = None
    /\ UNCHANGED <<queueVars, receipts, bodyVars, manager, up, pollerVars, handlerVars,
                   eventVars>>

\* stop_version; clients do not delete a function during an update.
DeleteFunction ==
    /\ manager # None /\ update = "idle" /\ (LateDelete \/ late = {})
    /\ manager' = None
    /\ old' = manager
    /\ update' = "deleting"
    /\ UNCHANGED <<queueVars, receipts, bodyVars, up, pollerVars, handlerVars, eventVars>>

\* LambdaEventManager.stop, and the version manager's.
StopManager ==
    /\ update = "deleting" /\ old \notin shutdown
    /\ StopPoller(old)
    /\ up' = up \ {old}
    /\ UNCHANGED <<queueVars, receipts, bodyVars, manager, update, old, poller, fetching, batch,
                   eventVars>>

\* After waiting for the poller, for 3 seconds at most, the queue is deleted.
DeleteQueue ==
    /\ update = "deleting" /\ old \in shutdown
    /\ Queue!Close
    /\ UNCHANGED <<receipts, bodyVars, serviceVars, pollerVars, handlerVars, eventVars>>

Service ==
    \/ StartManager \/ StopForUpdate \/ StopOldVersion \/ UpdateDone \/ StopManager
    \/ DeleteQueue

-----------------------------------------------------------------------------

Next ==
    \/ \E e \in Events : EnqueueEvent(e)
    \/ Rollover \/ DeleteFunction
    \/ \E m \in Msgs : QueueStep(m)
    \/ \E d \in Deliveries : HandleMessage(d)
    \/ \E r \in Revs : Poll(r)
    \/ Service

Spec == Init /\ [][Next]_vars

\* Threads run, delays and leases pass.
Fairness ==
    /\ \A m \in Msgs : WF_vars(QueueStep(m))
    /\ \A d \in Deliveries : WF_vars(HandleMessage(d))
    /\ \A r \in Revs : WF_vars(Poll(r))
    /\ WF_vars(Service)

FairSpec == Spec /\ Fairness

-----------------------------------------------------------------------------
(* Properties *)

\* The shape of the state; no message asks for more retries than are allowed.
TypeOK ==
    /\ event \in [Msgs -> Events \cup {None}]
    /\ retries \in [Msgs -> 0..MaxRetries]
    /\ manager \in Revs \cup {None} /\ old \in Revs \cup {None}
    /\ update \in {"idle", "registered", "started", "deleting"}
    /\ up \subseteq Revs /\ shutdown \subseteq Revs
    /\ poller \in [Revs -> {"unborn", "poll", "submit", "ended"}]
    /\ fetching \in [Revs -> Msgs \cup {None}]
    /\ batch \in [Revs -> SUBSET Deliveries]
    /\ receipts \subseteq Deliveries /\ late \subseteq Deliveries
    /\ handler \in [Deliveries -> {"none", "queued", "exception", "success", "error", "delete",
                                   "succeeded", "failed"}]
    /\ owner \in [Deliveries -> Revs \cup {None}]
    /\ accepted \subseteq Events
    /\ errors \in [Events -> [0..MaxRetries -> Nat]] /\ results \in [Events -> Nat]

\* In the queue, wherever the queue has it.
InQueue(m) == m \in waiting \cup ready \cup claimed \cup receiving \cup unacked

\* A thread works on the message.
Handled(m, labels) == \E d \in Deliveries : d[1] = m /\ handler[d] \in labels

\* No event is lost: until the function is deleted, an accepted event has its
\* result, or a message in the queue that nobody is about to delete, or a thread that works
\* on it; in particular when an update stops a poller between receiving and submitting,
\* cancels queued threads, or stops the version under an invocation, and when one thread
\* deletes the message that another one still handles.
EventKept ==
    open => \A e \in accepted :
                \/ results[e] > 0
                \/ \E m \in Msgs :
                      /\ event[m] = e
                      /\ \/ InQueue(m) /\ m \notin acked /\ ~Handled(m, {"delete"})
                         \/ Handled(m, {"succeeded", "failed"})

\* Leases of the event that ended too early.
LateOf(e) == {d \in late : event[d[1]] = e}

\* No event has two results, although two pollers share the queue during an
\* update and messages come back from stopped pollers.  Only the visibility timeout can
\* give an event another one, and one for every lease that ends before its message is
\* deleted, also when both executions are retried.
OneResult == \A e \in Events : results[e] <= 1 + Cardinality(LateOf(e))

\* The function fails for an event at most maximum_retry_attempts + 1 times: once with
\* every number of retries, and once more for every lease that ended too early.
RetriesBounded ==
    \A e \in Events : \A k \in 0..MaxRetries : errors[e][k] <= 1 + Cardinality(LateOf(e))

\* Every accepted event gets its result, unless the function is deleted: throttled
\* events do not go round for ever, because they become too old.
EventsEnd == \A e \in Events : (e \in accepted) ~> (results[e] > 0 \/ ~open)

\* A poller that is told to stop ends.
PollersEnd == \A r \in Revs : (r \in shutdown) ~> (poller[r] = "ended")

=============================================================================

---------------------------- MODULE SqsStandardQueue ----------------------------
(***************************************************************************)
(* A standard SQS queue (services/sqs/models.py, class StandardQueue) with *)
(* the API calls that use it (services/sqs/provider.py) and the background *)
(* QueueUpdateWorker.                                                      *)
(*                                                                         *)
(* Two locks protect a queue, and they protect different things:           *)
(*   - SqsQueue.mutex is held by remove, update_visibility_timeout, clear, *)
(*     and by the three jobs of the update worker;                         *)
(*   - the heap `visible` has the lock of queue.PriorityQueue, held by its *)
(*     get and put_nowait alone.                                           *)
(* receive and put do not take SqsQueue.mutex.  A ReceiveMessage call is   *)
(* therefore a process (a consumer) with several steps, and a step that    *)
(* holds the mutex is one action wherever nothing it touches can change    *)
(* under it.  Removing expired messages is the exception: it looks at the  *)
(* top of the heap and then pops the heap, and a get can run in between.   *)
(*                                                                         *)
(* Time is abstracted to what the code asks the clock.  `leased` holds the *)
(* messages whose visibility deadline is in the future, `delaying` those   *)
(* whose delay has not passed, and a message is past its retention period  *)
(* when it was created at or before `horizon`.                             *)
(***************************************************************************)
EXTENDS Integers, FiniteSets

CONSTANTS
    Msgs,            \* the messages clients may send
    Consumers,       \* the ReceiveMessage callers
    NoMsg,           \* "no message": a consumer's empty hand
    MaxReceiveCount, \* maxReceiveCount of the redrive policy, 0 for no policy
    MaxNum,          \* the largest MaxNumberOfMessages a consumer asks for
    MaxReceives      \* bound: how many ReceiveMessage calls are made

ASSUME NoMsgAssumption == NoMsg \notin Msgs

ASSUME MaxReceiveCountAssumption == MaxReceiveCount \in Nat

ASSUME BoundsAssumption == MaxNum \in Nat \ {0} /\ MaxReceives \in Nat

VARIABLES
    \* SqsQueue / StandardQueue
    visible,         \* the heap of messages that can be received
    inflight,        \* received, visibility timeout running or just run out
    delayed,         \* sent with a delay, not yet receivable
    receipts,        \* the receipt handles the queue accepts
    open,            \* in the store and not shut down
    \* SqsMessage
    created,         \* send order of a message (its heap priority), 0 = unsent
    receive_count,   \* how often a message was taken from the heap
    receipt_handles, \* the handles every message remembers
    deleted,         \* messages whose deleted flag is set
    zeroTimeout,     \* messages whose visibility_timeout is 0
    leased,          \* messages whose visibility_deadline is in the future
    delaying,        \* messages for which is_delayed holds
    \* clocks
    clock,           \* number of messages sent
    horizon,         \* messages created up to here are past retention
    \* one ReceiveMessage call per consumer
    pc, num, zeroReq,
    hand,            \* the message a consumer is working on
    successful,      \* taken, receipt handle not yet created
    dead,            \* taken once too often, on their way to the DLQ
    results,         \* handles created for the answer
    calls,           \* ReceiveMessage calls made so far
    \* the update worker: top of the heap it found expired (holds the mutex)
    expiring,
    \* the dead letter queue
    dlq, dlqExists,
    \* what the outside world knows or has caused
    known,           \* handles some client was given
    purged,          \* messages sent before the latest PurgeQueue
    dropped,         \* messages the retention job took from the heap
    lost             \* dead letters whose forwarding failed

queueVars    == <<visible, inflight, delayed, receipts, open>>
messageVars  == <<created, receive_count, receipt_handles, deleted, zeroTimeout,
                  leased, delaying>>
timeVars     == <<clock, horizon>>
consumerVars == <<pc, num, zeroReq, hand, successful, dead, results, calls>>
dlqVars      == <<dlq, dlqExists>>
worldVars    == <<known, purged, dropped, lost>>

vars == <<queueVars, messageVars, timeVars, consumerVars, expiring, dlqVars, worldVars>>

Handles == Msgs \X Nat

\* encode_receipt_handle: a handle names the message and is fresh at every
\* receive; the receive count tells the receives of one message apart.
Handle(m) == <<m, receive_count[m]>>

HandlesOf(m) == {h \in receipt_handles : h[1] = m}

Sent == {m \in Msgs : created[m] > 0}

\* Messages a receive call holds outside the queue's collections.
InHands(c) == ({hand[c]} \ {NoMsg}) \cup successful[c] \cup dead[c]

Held == UNION {InHands(c) : c \in Consumers}

\* Everywhere a message can be that the queue may still deliver from.
Located == visible \cup inflight \cup delayed \cup Held

\* heap[0]: the heap is ordered by priority, which is the creation time.
Oldest(m) == m \in visible /\ \A n \in visible : created[m] <= created[n]

\* SqsQueue.mutex is free, except between the two steps of remove_expired.
MutexFree == expiring = NoMsg

Init ==
    /\ visible = {} /\ inflight = {} /\ delayed = {} /\ receipts = {} /\ open = TRUE
    /\ created = [m \in Msgs |-> 0]
    /\ receive_count = [m \in Msgs |-> 0]
    /\ receipt_handles = {} /\ deleted = {}
    /\ zeroTimeout = {} /\ leased = {} /\ delaying = {}
    /\ clock = 0 /\ horizon = 0
    /\ pc = [c \in Consumers |-> "idle"]
    /\ num = [c \in Consumers |-> 1]
    /\ zeroReq = {}
    /\ hand = [c \in Consumers |-> NoMsg]
    /\ successful = [c \in Consumers |-> {}]
    /\ dead = [c \in Consumers |-> {}]
    /\ results = [c \in Consumers |-> {}]
    /\ calls = 0
    /\ expiring = NoMsg
    /\ dlq = {} /\ dlqExists = TRUE
    /\ known = {} /\ purged = {} /\ dropped = {} /\ lost = {}

-----------------------------------------------------------------------------
(* SendMessage *)

\* StandardQueue.put: no mutex.  A delay of 0 may count as a delay too, since
\* is_delayed compares with <=; so both outcomes are always possible.
Send(m) ==
    /\ open
    /\ m \notin Sent
    /\ clock' = clock + 1
    /\ created' = [created EXCEPT ![m] = clock + 1]
    /\ \/ delayed' = delayed \cup {m} /\ delaying' = delaying \cup {m} /\ UNCHANGED visible
       \/ visible' = visible \cup {m} /\ UNCHANGED <<delayed, delaying>>
    /\ UNCHANGED <<inflight, receipts, open, receive_count, receipt_handles, deleted,
                   zeroTimeout, leased, horizon, consumerVars, expiring, dlqVars, worldVars>>

-----------------------------------------------------------------------------
(* ReceiveMessage, step by step *)

\* max_number_of_messages or 1
Requested(n) == IF n = 0 THEN 1 ELSE n

\* Mutant of ValidNum: one message too many may be asked for.
ValidNumOffByOne(n) == n \in 1..MaxNum + 1

\* MaxNumberOfMessages must be between 1 and the limit.
ValidNum(n) == n \in 1..MaxNum

\* The call resolves the queue and reads its arguments.
ReceiveStart(c, n, zero) ==
    /\ open
    /\ ValidNum(Requested(n))
    /\ pc[c] = "idle"
    /\ calls < MaxReceives
    /\ calls' = calls + 1
    /\ pc' = [pc EXCEPT ![c] = "get"]
    /\ num' = [num EXCEPT ![c] = Requested(n)]
    /\ zeroReq' = IF zero THEN zeroReq \cup {c} ELSE zeroReq \ {c}
    /\ UNCHANGED <<queueVars, messageVars, timeVars, hand, successful, dead, results,
                   expiring, dlqVars, worldVars>>

\* visible.get returns the oldest message ...
Get(c, m) ==
    /\ pc[c] = "get"
    /\ open
    /\ Oldest(m)
    /\ visible' = visible \ {m}
    /\ hand' = [hand EXCEPT ![c] = m]
    /\ pc' = [pc EXCEPT ![c] = "popped"]
    /\ UNCHANGED <<inflight, delayed, receipts, open, messageVars, timeVars, num, zeroReq,
                   successful, dead, results, calls, expiring, dlqVars, worldVars>>

\* Mutant of NothingToGet: a shut down queue does not end the wait.
NothingToGetNoShutdown == visible = {}

\* InterruptibleQueue.get finds no message within the wait time, or a shutdown.
NothingToGet == visible = {} \/ ~open

\* ... or raises Empty.
GetEmpty(c) ==
    /\ pc[c] = "get"
    /\ NothingToGet
    /\ pc' = [pc EXCEPT ![c] = "register"]
    /\ UNCHANGED <<queueVars, messageVars, timeVars, num, zeroReq, hand, successful, dead,
                   results, calls, expiring, dlqVars, worldVars>>

\* A message deleted after it was re-queued is skipped.
SkipDeleted(c) ==
    /\ pc[c] = "popped"
    /\ hand[c] \in deleted
    /\ hand' = [hand EXCEPT ![c] = NoMsg]
    /\ pc' = [pc EXCEPT ![c] = "get"]
    /\ UNCHANGED <<queueVars, messageVars, timeVars, num, zeroReq, successful, dead,
                   results, calls, expiring, dlqVars, worldVars>>

\* Mutant of Exhausted: the receive under way is not counted.
ExhaustedOffByOne(m) == MaxReceiveCount > 0 /\ receive_count[m] > MaxReceiveCount

\* A receive may not hand out a message that has used up its receives.
Exhausted(m) == MaxReceiveCount > 0 /\ receive_count[m] + 1 > MaxReceiveCount

\* The receive is counted and the visibility timeout starts; the message is
\* either handed out or marked for the DLQ.
Take(c) ==
    LET m == hand[c] IN
    /\ pc[c] = "popped"
    /\ m \notin deleted
    /\ receive_count' = [receive_count EXCEPT ![m] = @ + 1]
    /\ IF c \in zeroReq
       THEN leased' = leased \ {m} /\ zeroTimeout' = zeroTimeout \cup {m}
       ELSE leased' = leased \cup {m} /\ zeroTimeout' = zeroTimeout \ {m}
    /\ hand' = [hand EXCEPT ![c] = NoMsg]
    /\ \/ /\ Exhausted(m)
          /\ dead' = [dead EXCEPT ![c] = @ \cup {m}]
          /\ pc' = [pc EXCEPT ![c] = "get"]
          /\ UNCHANGED successful
       \/ /\ ~Exhausted(m)
          /\ successful' = [successful EXCEPT ![c] = @ \cup {m}]
          /\ pc' = [pc EXCEPT ![c] = IF Cardinality(successful[c]) + 1 = num[c]
                                     THEN "register" ELSE "get"]
          /\ UNCHANGED dead
    /\ UNCHANGED <<queueVars, created, receipt_handles, deleted, delaying, timeVars, num,
                   zeroReq, results, calls, expiring, dlqVars, worldVars>>

\* message.receipt_handles.add(receipt_handle)
AddHandle(c, m) ==
    /\ pc[c] = "register"
    /\ m \in successful[c]
    /\ successful' = [successful EXCEPT ![c] = @ \ {m}]
    /\ hand' = [hand EXCEPT ![c] = m]
    /\ receipt_handles' = receipt_handles \cup {Handle(m)}
    /\ pc' = [pc EXCEPT ![c] = "handled"]
    /\ UNCHANGED <<queueVars, created, receive_count, deleted, zeroTimeout, leased, delaying,
                   timeVars, num, zeroReq, dead, results, calls, expiring, dlqVars, worldVars>>

\* self.receipts[receipt_handle] = message; result.receipt_handles.append(...)
AddReceipt(c) ==
    /\ pc[c] = "handled"
    /\ receipts' = receipts \cup {Handle(hand[c])}
    /\ results' = [results EXCEPT ![c] = @ \cup {Handle(hand[c])}]
    /\ pc' = [pc EXCEPT ![c] = "receipted"]
    /\ UNCHANGED <<visible, inflight, delayed, open, messageVars, timeVars, num, zeroReq,
                   hand, successful, dead, calls, expiring, dlqVars, worldVars>>

\* Back to the heap for a visibility timeout of 0, in flight otherwise.
Settle(c) ==
    LET m == hand[c] IN
    /\ pc[c] = "receipted"
    /\ IF m \in zeroTimeout
       THEN visible' = visible \cup {m} /\ UNCHANGED inflight
       ELSE inflight' = inflight \cup {m} /\ UNCHANGED visible
    /\ hand' = [hand EXCEPT ![c] = NoMsg]
    /\ pc' = [pc EXCEPT ![c] = "register"]
    /\ UNCHANGED <<delayed, receipts, open, messageVars, timeVars, num, zeroReq, successful,
                   dead, results, calls, expiring, dlqVars, worldVars>>

\* queue.receive has returned; the provider looks the dead letter queue up.
FindDlq(c) ==
    /\ pc[c] = "register"
    /\ successful[c] = {}
    /\ dead[c] # {}
    /\ dlqExists
    /\ pc' = [pc EXCEPT ![c] = "forward"]
    /\ UNCHANGED <<queueVars, messageVars, timeVars, num, zeroReq, hand, successful, dead,
                   results, calls, expiring, dlqVars, worldVars>>

\* No such queue: the whole call fails with QueueDoesNotExist.
DlqMissing(c) ==
    /\ pc[c] = "register"
    /\ successful[c] = {}
    /\ dead[c] # {}
    /\ ~dlqExists
    /\ lost' = lost \cup dead[c]
    /\ dead' = [dead EXCEPT ![c] = {}]
    /\ results' = [results EXCEPT ![c] = {}]
    /\ pc' = [pc EXCEPT ![c] = "idle"]
    /\ UNCHANGED <<queueVars, messageVars, timeVars, num, zeroReq, hand, successful, calls,
                   expiring, dlqVars, known, purged, dropped>>

\* dl_queue.put, one message at a time, on the queue that was looked up.
ForwardDead(c, m) ==
    /\ pc[c] = "forward"
    /\ m \in dead[c]
    /\ dead' = [dead EXCEPT ![c] = @ \ {m}]
    /\ dlq' = dlq \cup {m}
    /\ UNCHANGED <<queueVars, messageVars, timeVars, pc, num, zeroReq, hand, successful,
                   results, calls, expiring, dlqExists, worldVars>>

\* The call returns the handles to its client.
Respond(c) ==
    /\ pc[c] \in {"register", "forward"}
    /\ successful[c] = {}
    /\ dead[c] = {}
    /\ known' = known \cup results[c]
    /\ results' = [results EXCEPT ![c] = {}]
    /\ pc' = [pc EXCEPT ![c] = "idle"]
    /\ UNCHANGED <<queueVars, messageVars, timeVars, num, zeroReq, hand, successful, dead,
                   calls, expiring, dlqVars, purged, dropped, lost>>

Receive(c) ==
    \/ \E m \in Msgs : Get(c, m) \/ AddHandle(c, m) \/ ForwardDead(c, m)
    \/ GetEmpty(c) \/ SkipDeleted(c) \/ Take(c) \/ AddReceipt(c) \/ Settle(c)
    \/ FindDlq(c) \/ DlqMissing(c) \/ Respond(c)

-----------------------------------------------------------------------------
(* DeleteMessage, ChangeMessageVisibility, PurgeQueue, DeleteQueue *)

\* Mutant of RemoveFromQueue: the in-flight set is not looked at.
RemoveFromQueueHeapOnly(m) == visible' = visible \ {m} /\ UNCHANGED inflight

\* _on_remove_message: out of inflight, or else out of the heap.
RemoveFromQueue(m) ==
    IF m \in inflight
    THEN inflight' = inflight \ {m} /\ UNCHANGED visible
    ELSE visible' = visible \ {m} /\ UNCHANGED inflight

\* Mutant of MarkDeleted: the flag that receive checks is not set.
MarkDeletedNot(m) == UNCHANGED deleted

\* standard_message.deleted = True
MarkDeleted(m) == deleted' = deleted \cup {m}

\* remove: every handle the message remembers is taken out of receipts.
Remove(h) ==
    LET m == h[1] IN
    /\ open
    /\ MutexFree
    /\ h \in known
    /\ h \in receipts
    /\ HandlesOf(m) \subseteq receipts
    /\ MarkDeleted(m)
    /\ receipts' = receipts \ HandlesOf(m)
    /\ receipt_handles' = receipt_handles \ HandlesOf(m)
    /\ RemoveFromQueue(m)
    /\ UNCHANGED <<delayed, open, created, receive_count, zeroTimeout, leased, delaying,
                   timeVars, consumerVars, expiring, dlqVars, worldVars>>

\* remove, when the message remembers a handle that receipts does not hold:
\* the loop ends in a KeyError after any number of handles, and neither the
\* rest of the handles nor the message itself is removed.
RemoveFails(h) ==
    LET m == h[1] IN
    /\ open
    /\ MutexFree
    /\ h \in known
    /\ h \in receipts
    /\ ~(HandlesOf(m) \subseteq receipts)
    /\ MarkDeleted(m)
    /\ \E done \in SUBSET (HandlesOf(m) \cap receipts) : receipts' = receipts \ done
    /\ UNCHANGED <<visible, inflight, delayed, open, created, receive_count, receipt_handles,
                   zeroTimeout, leased, delaying, timeVars, consumerVars, expiring, dlqVars,
                   worldVars>>

\* Mutant of Requeue: the message leaves inflight and is not put back.
RequeueWithoutPut(m) == inflight' = inflight \ {m} /\ UNCHANGED visible

\* del self.inflight[message]; self._put_message(message)
Requeue(m) == inflight' = inflight \ {m} /\ visible' = visible \cup {m}

\* Mutant of MayChangeVisibility: any message with a valid handle.
MayChangeVisibilityAny(m) == TRUE

\* Only a message in flight has a visibility timeout to change.
MayChangeVisibility(m) == m \in inflight

\* update_visibility_timeout with a new timeout, 0 or more, for a message in
\* flight; it has no effect on any other message.
ChangeVisibility(h, zero) ==
    LET m == h[1] IN
    /\ open
    /\ MutexFree
    /\ h \in known
    /\ h \in receipts
    /\ MayChangeVisibility(m)
    /\ IF zero
       THEN /\ leased' = leased \ {m}
            /\ zeroTimeout' = zeroTimeout \cup {m}
            /\ Requeue(m)
       ELSE /\ leased' = leased \cup {m}
            /\ zeroTimeout' = zeroTimeout \ {m}
            /\ UNCHANGED <<inflight, visible>>
    /\ UNCHANGED <<delayed, receipts, open, created, receive_count, receipt_handles, deleted,
                   delaying, timeVars, consumerVars, expiring, dlqVars, worldVars>>

\* clear: the collections of the queue, not what messages or receives hold.
Purge ==
    /\ open
    /\ MutexFree
    /\ visible' = {} /\ inflight' = {} /\ delayed' = {} /\ receipts' = {}
    /\ purged' = Sent
    /\ UNCHANGED <<open, messageVars, timeVars, consumerVars, expiring, dlqVars, known,
                   dropped, lost>>

\* delete_queue shuts the heap down and forgets the queue.
DeleteQueue ==
    /\ open
    /\ open' = FALSE
    /\ UNCHANGED <<visible, inflight, delayed, receipts, messageVars, timeVars, consumerVars,
                   expiring, dlqVars, worldVars>>

\* delete_queue, of the dead letter queue.
DeleteDlq ==
    /\ dlqExists
    /\ dlqExists' = FALSE
    /\ UNCHANGED <<queueVars, messageVars, timeVars, consumerVars, expiring, dlq, worldVars>>

-----------------------------------------------------------------------------
(* The update worker, over the queues in the store.  A pass re-queues its    *)
(* messages one put at a time and a get may run between two puts.           *)

\* Mutant of VisibilityExpired: the deadline is not looked at.
VisibilityExpiredAlways(m) == m \in inflight

\* Mutant of VisibilityExpired: deleted messages are left where they are.
VisibilityExpiredUndeleted(m) == m \in inflight \ (leased \cup deleted)

\* In flight, and is_visible: the deadline has passed.
VisibilityExpired(m) == m \in inflight \ leased

\* requeue_inflight_messages
RequeueInflight(m) ==
    /\ open
    /\ MutexFree
    /\ VisibilityExpired(m)
    /\ Requeue(m)
    /\ UNCHANGED <<delayed, receipts, open, messageVars, timeVars, consumerVars, expiring,
                   dlqVars, worldVars>>

\* enqueue_delayed_messages
EnqueueDelayed(m) ==
    /\ open
    /\ MutexFree
    /\ m \in delayed \ delaying
    /\ delayed' = delayed \ {m}
    /\ visible' = visible \cup {m}
    /\ UNCHANGED <<inflight, receipts, open, messageVars, timeVars, consumerVars, expiring,
                   dlqVars, worldVars>>

\* remove_expired_messages_from_heap: heap[0] is past its retention period.
PeekExpired(m) ==
    /\ open
    /\ MutexFree
    /\ Oldest(m)
    /\ created[m] <= horizon
    /\ expiring' = m
    /\ UNCHANGED <<queueVars, messageVars, timeVars, consumerVars, dlqVars, worldVars>>

\* heapq.heappop(heap): whatever is on top now; an empty heap is an IndexError
\* that ends the pass.
PopExpired ==
    /\ expiring # NoMsg
    /\ expiring' = NoMsg
    /\ \/ \E m \in Msgs : /\ Oldest(m)
                          /\ visible' = visible \ {m}
                          /\ dropped' = dropped \cup {m}
       \/ visible = {} /\ UNCHANGED <<visible, dropped>>
    /\ UNCHANGED <<inflight, delayed, receipts, open, messageVars, timeVars, consumerVars,
                   dlqVars, known, purged, lost>>

-----------------------------------------------------------------------------
(* Time *)

DeadlinePasses(m) ==
    /\ m \in leased
    /\ leased' = leased \ {m}
    /\ UNCHANGED <<queueVars, created, receive_count, receipt_handles, deleted, zeroTimeout,
                   delaying, timeVars, consumerVars, expiring, dlqVars, worldVars>>

DelayPasses(m) ==
    /\ m \in delaying
    /\ delaying' = delaying \ {m}
    /\ UNCHANGED <<queueVars, created, receive_count, receipt_handles, deleted, zeroTimeout,
                   leased, timeVars, consumerVars, expiring, dlqVars, worldVars>>

RetentionPasses ==
    /\ horizon < clock
    /\ horizon' = horizon + 1
    /\ UNCHANGED <<queueVars, messageVars, clock, consumerVars, expiring, dlqVars, worldVars>>

-----------------------------------------------------------------------------

Client ==
    \/ \E m \in Msgs : Send(m)
    \/ \E c \in Consumers, n \in 0..MaxNum + 1, zero \in BOOLEAN : ReceiveStart(c, n, zero)
    \/ \E h \in known : \/ Remove(h) \/ RemoveFails(h)
                        \/ \E zero \in BOOLEAN : ChangeVisibility(h, zero)
    \/ Purge \/ DeleteQueue \/ DeleteDlq

Worker ==
    \/ \E m \in Msgs : RequeueInflight(m) \/ EnqueueDelayed(m) \/ PeekExpired(m)
    \/ PopExpired

Time ==
    \/ \E m \in Msgs : DeadlinePasses(m) \/ DelayPasses(m)
    \/ RetentionPasses

Next == Client \/ (\E c \in Consumers : Receive(c)) \/ Worker \/ Time

Spec == Init /\ [][Next]_vars

\* Request threads and the worker keep running and time keeps passing; clients
\* need not do anything.
Fairness ==
    /\ \A c \in Consumers : WF_vars(Receive(c))
    /\ \A m \in Msgs : /\ WF_vars(RequeueInflight(m))
                       /\ WF_vars(EnqueueDelayed(m))
                       /\ WF_vars(DelayPasses(m))
    /\ WF_vars(PopExpired)

FairSpec == Spec /\ Fairness

-----------------------------------------------------------------------------
(* Properties *)

\* The shape of the state: every collection of the queue, of a message and of
\* a receive call holds what the class declarations of models.py say.
TypeOK ==
    /\ visible \subseteq Msgs /\ inflight \subseteq Msgs /\ delayed \subseteq Msgs
    /\ receipts \subseteq Handles /\ open \in BOOLEAN
    /\ created \in [Msgs -> Nat]
    /\ receive_count \in [Msgs -> Nat]
    /\ receipt_handles \subseteq Handles
    /\ deleted \subseteq Msgs /\ zeroTimeout \subseteq Msgs
    /\ leased \subseteq Msgs /\ delaying \subseteq Msgs
    /\ clock \in Nat /\ horizon \in 0..clock
    /\ pc \in [Consumers -> {"idle", "get", "popped", "register", "handled", "receipted",
                             "forward"}]
    /\ num \in [Consumers -> 1..MaxNum]
    /\ zeroReq \subseteq Consumers
    /\ hand \in [Consumers -> Msgs \cup {NoMsg}]
    /\ successful \in [Consumers -> SUBSET Msgs]
    /\ dead \in [Consumers -> SUBSET Msgs]
    /\ results \in [Consumers -> SUBSET Handles]
    /\ calls \in 0..MaxReceives
    /\ expiring \in Msgs \cup {NoMsg}
    /\ dlq \subseteq Msgs /\ dlqExists \in BOOLEAN
    /\ known \subseteq Handles
    /\ purged \subseteq Msgs /\ dropped \subseteq Msgs /\ lost \subseteq Msgs

\* The three collections of the queue are disjoint.
PlacesDisjoint ==
    /\ visible \cap inflight = {}
    /\ visible \cap delayed = {}
    /\ inflight \cap delayed = {}

\* What a receive call holds is in no collection of the queue, and in the hands
\* of no other call.
HandsDisjoint ==
    /\ \A c \in Consumers : InHands(c) \cap (visible \cup inflight \cup delayed) = {}
    /\ \A c, d \in Consumers : c # d => InHands(c) \cap InHands(d) = {}

\* No message is in two places: however receives without the mutex, deletes by
\* expired handles, visibility changes and the worker interleave, a message is
\* in the heap, in flight, delayed, or with exactly one receive call.
OnePlace == PlacesDisjoint /\ HandsDisjoint

\* No silent loss: a message that was sent can still be delivered, or it was
\* deleted, purged, taken by the retention job, or handled as a dead letter.
NoLoss == Sent \subseteq Located \cup deleted \cup purged \cup dropped \cup dlq \cup lost

\* Exclusive delivery: a message whose visibility deadline is in the future is
\* not in the heap, so no second receive can take it.
VisibleNotLeased == visible \cap leased = {}

\* A message in flight can be acknowledged: the handle of its latest receive is
\* in receipts, unless the message was already deleted or purged.
InflightHasReceipt ==
    \A m \in inflight : Handle(m) \in receipts \/ m \in deleted \cup purged

\* Redrive policy: no client is given a message more than maxReceiveCount
\* times, a dead letter has used up its receives, and it is out of the source queue
\* for good.
DeadLettersLeave ==
    MaxReceiveCount > 0 =>
        /\ \A h \in known : h[2] <= MaxReceiveCount
        /\ \A m \in dlq \cup lost : receive_count[m] > MaxReceiveCount
        /\ dlq \cap Located = {}

\* An in-flight message whose visibility timeout has run out is re-queued by the
\* worker, and a delayed one is enqueued, unless a client intervenes.
WorkerRequeues ==
    \A m \in Msgs :
        /\ (m \in inflight \ leased) ~> (m \notin inflight \/ m \in leased \/ ~open)
        /\ (m \in delayed) ~> (m \notin delayed \/ ~open)

\* Every ReceiveMessage call returns, also when the queue is deleted under it.
ReceiveReturns == \A c \in Consumers : (pc[c] # "idle") ~> (pc[c] = "idle")

\* What a receive has popped and not counted yet.
Popped == {hand[c] : c \in {d \in Consumers : pc[d] = "popped"}}

\* The abstract queue of these collections: what a receive call holds is being
\* claimed until the receive is counted, and being received afterwards.
Queue == INSTANCE MessageQueue WITH
    sent <- Sent, waiting <- delayed, ready <- visible, claimed <- Popped,
    receiving <- Held \ Popped, unacked <- inflight, acked <- deleted, lease <- leased,
    count <- receive_count, dead <- dlq

\* The queue keeps the contract of MessageQueue: with receives that take no mutex,
\* stale handles, purges under a receive and the worker, every message moves
\* through the stages waiting, ready, claimed, receiving and unacked only as the
\* contract allows, and an acknowledged message is delivered once more at most,
\* by a receive that had already counted it.
Implements == Queue!Spec

(* What the repository says of the code and the code does not keep *)

\* "Removes messages from the queue whose retention period has expired": and no
\* others.
OnlyExpiredDropped == \A m \in dropped : created[m] <= horizon

=============================================================================

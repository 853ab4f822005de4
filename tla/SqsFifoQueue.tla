------------------------------ MODULE SqsFifoQueue ------------------------------
(***************************************************************************)
(* A FIFO SQS queue (services/sqs/models.py, class FifoQueue) with the API *)
(* calls that use it and the update worker.                                *)
(*                                                                         *)
(* Messages of one group are kept in a heap of their own.  A group that    *)
(* may be received is in message_group_queue; a group some of whose        *)
(* messages are being processed is in inflight_groups.  receive takes a    *)
(* group from the queue, looks whether it is empty and marks it in flight  *)
(* without the mutex, pops messages under the mutex, releases it, and      *)
(* registers the messages under the mutex: other calls run at each of      *)
(* these points.  put stamps a message with the time of sending and pushes *)
(* it later, and no lock covers both.                                      *)
(*                                                                         *)
(* Groups in the queue are counted and any of them may be next: no         *)
(* property depends on the order between groups.  Deduplication happens    *)
(* before a message reaches the part modelled here.  `Events` names what   *)
(* the environment does besides sending, receiving and acknowledging.      *)
(***************************************************************************)
EXTENDS Integers, Sequences, FiniteSets, Functions

CONSTANTS
    Msgs, Groups,
    GroupOf,         \* the message group of every message
    Consumers,       \* the ReceiveMessage callers
    NoGroup,         \* "no group": a consumer that holds none
    Delayed,         \* whether DelaySeconds of the queue is positive
    MaxReceiveCount, \* maxReceiveCount of the redrive policy, 0 for no policy
    MaxNum,          \* the largest MaxNumberOfMessages a consumer asks for
    MaxReceives,     \* bound: how many ReceiveMessage calls are made
    Events

ASSUME GroupsAssumption == GroupOf \in [Msgs -> Groups] /\ NoGroup \notin Groups

ASSUME CountsAssumption ==
    /\ MaxReceiveCount \in Nat
    /\ MaxNum \in Nat \ {0}
    /\ MaxReceives \in Nat

ASSUME EventsAssumption ==
    /\ Delayed \in BOOLEAN
    /\ Events \subseteq {"purge", "retention", "expired_delete", "delete_dlq",
                         "change_visibility", "zero_timeout"}

VARIABLES
    \* FifoQueue
    visible,         \* the messages in the heaps of message_groups
    queued,          \* how often a group is in message_group_queue
    inflight_groups,
    inflight,        \* ordered: messages in the order they were put in flight
    delayed,
    receipts,
    open,
    \* SqsMessage, as in SqsStandardQueue
    created, receive_count, receipt_handles, deleted, zeroTimeout, leased, delaying,
    \* clocks, and when put had pushed a message (0 before that)
    clock, horizon, accepted,
    slow,            \* for the properties: messages whose delay was over by then
    \* one ReceiveMessage call per consumer
    pc, num, zeroReq,
    group,           \* the group a consumer took from the queue
    orphan,          \* the heap of that group, once a purge has replaced it
    successful,      \* popped messages, in order
    dead,            \* popped once too often
    results, calls,
    \* the dead letter queue
    dlq, dlqExists,
    \* what the outside world knows or has caused
    known, purged, dropped, lost

queueVars    == <<visible, queued, inflight_groups, inflight, delayed, receipts, open>>
messageVars  == <<created, receive_count, receipt_handles, deleted, zeroTimeout,
                  leased, delaying>>
timeVars     == <<clock, horizon, accepted, slow>>
consumerVars == <<pc, num, zeroReq, group, orphan, successful, dead, results, calls>>
dlqVars      == <<dlq, dlqExists>>
worldVars    == <<known, purged, dropped, lost>>

vars == <<queueVars, messageVars, timeVars, consumerVars, dlqVars, worldVars>>

Handles == Msgs \X Nat

\* encode_receipt_handle: fresh at every receive.
Handle(m) == <<m, receive_count[m]>>

HandlesOf(m) == {h \in receipt_handles : h[1] = m}

\* The elements of S in the order of their keys.
Arranged(S, key) ==
    CHOOSE s \in [1..Cardinality(S) -> S] :
        \A i, j \in 1..Cardinality(S) : i < j => key[s[i]] < key[s[j]]

\* What is left of an ordered set, such as the dict inflight, when only the elements
\* of S stay.
Kept(s, S) == Arranged(S, [m \in S |-> CHOOSE k \in DOMAIN s : s[k] = m])

Without(s, m) == Kept(s, Range(s) \ {m})

Sent == {m \in Msgs : accepted[m] > 0}

\* Messages with a SendMessage call that has stamped them and not pushed them yet.
Sending == {m \in Msgs : created[m] > 0 /\ accepted[m] = 0}

\* The messages of a group: in its heap, and in flight.
Heap(g) == {m \in visible : GroupOf[m] = g}

InflightOf(g) == {m \in Range(inflight) : GroupOf[m] = g}

\* Messages a receive call holds outside the queue's collections.
InHands(c) == Range(successful[c]) \cup dead[c]

Held == UNION {InHands(c) : c \in Consumers}

Init ==
    /\ visible = {} /\ queued = [g \in Groups |-> 0] /\ inflight_groups = {}
    /\ inflight = <<>> /\ delayed = {} /\ receipts = {} /\ open = TRUE
    /\ created = [m \in Msgs |-> 0]
    /\ receive_count = [m \in Msgs |-> 0]
    /\ receipt_handles = {} /\ deleted = {}
    /\ zeroTimeout = {} /\ leased = {} /\ delaying = {}
    /\ clock = 0 /\ horizon = 0
    /\ accepted = [m \in Msgs |-> 0] /\ slow = {}
    /\ pc = [c \in Consumers |-> "idle"]
    /\ num = [c \in Consumers |-> 1]
    /\ zeroReq = {}
    /\ group = [c \in Consumers |-> NoGroup]
    /\ orphan = [c \in Consumers |-> {}]
    /\ successful = [c \in Consumers |-> <<>>]
    /\ dead = [c \in Consumers |-> {}]
    /\ results = [c \in Consumers |-> {}]
    /\ calls = 0
    /\ dlq = {} /\ dlqExists = TRUE
    /\ known = {} /\ purged = {} /\ dropped = {} /\ lost = {}

-----------------------------------------------------------------------------
(* Group visibility *)

\* Mutant of Surfaces: a new message makes a group in flight receivable.
SurfacesAlways(g, fresh) == g \in inflight_groups \/ Heap(g) = {}

\* Whether putting messages of group g back, or adding fresh (never received)
\* ones, makes the group receivable: fresh ones do not when the group is in
\* flight, and a group whose heap was not empty is already in the queue.
Surfaces(g, fresh) == IF g \in inflight_groups THEN ~fresh ELSE Heap(g) = {}

\* Mutant of PutMessages: returns for a group in flight before the push.
PutMessagesReturnFirst(S, fresh) ==
    LET surfacing == {g \in {GroupOf[m] : m \in S} : Surfaces(g, fresh)} IN
    /\ visible' = visible \cup {m \in S : fresh => GroupOf[m] \notin inflight_groups}
    /\ queued' = [g \in Groups |-> IF g \in surfacing THEN queued[g] + 1 ELSE queued[g]]
    /\ inflight_groups' = inflight_groups \ surfacing

\* _put_message, for messages that are all fresh or all received before.
PutMessages(S, fresh) ==
    LET surfacing == {g \in {GroupOf[m] : m \in S} : Surfaces(g, fresh)} IN
    /\ visible' = visible \cup S
    /\ queued' = [g \in Groups |-> IF g \in surfacing THEN queued[g] + 1 ELSE queued[g]]
    /\ inflight_groups' = inflight_groups \ surfacing

\* Mutant of UpdateGroup: the group leaves inflight_groups and is not queued.
UpdateGroupUnqueued(g, left) ==
    /\ inflight_groups' = IF \E m \in left : GroupOf[m] = g
                          THEN inflight_groups ELSE inflight_groups \ {g}
    /\ UNCHANGED queued

\* update_message_group_visibility, when `left` is still in flight.
UpdateGroup(g, left) ==
    IF g \in inflight_groups /\ ~\E m \in left : GroupOf[m] = g
    THEN /\ inflight_groups' = inflight_groups \ {g}
         /\ queued' = IF Heap(g) # {} THEN [queued EXCEPT ![g] = @ + 1] ELSE queued
    ELSE UNCHANGED <<inflight_groups, queued>>

-----------------------------------------------------------------------------
(* SendMessage *)

\* put makes the message: its time, and with it its place in the heap of the group.
\* All messages of the queue have the same delay.
Stamp(m) ==
    /\ open
    /\ created[m] = 0
    /\ clock' = clock + 1
    /\ created' = [created EXCEPT ![m] = clock + 1]
    /\ delaying' = IF Delayed THEN delaying \cup {m} ELSE delaying
    /\ UNCHANGED <<queueVars, receive_count, receipt_handles, deleted, zeroTimeout, leased,
                   horizon, accepted, slow, consumerVars, dlqVars, worldVars>>

\* put, once deduplication has let the message through: is_delayed is asked now, and
\* a call that is slow finds the delay over.
Push(m) ==
    /\ m \in Sending
    /\ accepted' = [accepted EXCEPT ![m] = clock]
    /\ IF m \in delaying
       THEN /\ delayed' = delayed \cup {m}
            /\ UNCHANGED <<visible, queued, inflight_groups, slow>>
       ELSE /\ PutMessages({m}, TRUE)
            /\ slow' = IF Delayed THEN slow \cup {m} ELSE slow
            /\ UNCHANGED delayed
    /\ UNCHANGED <<inflight, receipts, open, messageVars, clock, horizon, consumerVars, dlqVars,
                   worldVars>>

-----------------------------------------------------------------------------
(* ReceiveMessage, step by step *)

ReceiveStart(c, n, zero) ==
    /\ open
    /\ pc[c] = "idle"
    /\ calls < MaxReceives
    /\ zero => "zero_timeout" \in Events
    /\ calls' = calls + 1
    /\ pc' = [pc EXCEPT ![c] = "get"]
    /\ num' = [num EXCEPT ![c] = n]
    /\ zeroReq' = IF zero THEN zeroReq \cup {c} ELSE zeroReq \ {c}
    /\ UNCHANGED <<queueVars, messageVars, timeVars, group, orphan, successful, dead, results,
                   dlqVars, worldVars>>

\* Mutant of InQueue: the queue is not checked for being empty.
InQueueUnchecked(g) == queued[g] >= 0

\* message_group_queue has an entry for the group.
InQueue(g) == queued[g] > 0

\* message_group_queue.get
GetGroup(c, g) ==
    /\ pc[c] = "get"
    /\ open
    /\ InQueue(g)
    /\ queued' = [queued EXCEPT ![g] = @ - 1]
    /\ group' = [group EXCEPT ![c] = g]
    /\ pc' = [pc EXCEPT ![c] = "got"]
    /\ UNCHANGED <<visible, inflight_groups, inflight, delayed, receipts, open, messageVars,
                   timeVars, num, zeroReq, orphan, successful, dead, results, calls, dlqVars,
                   worldVars>>

\* Empty: nothing queued within the wait time, or the queue is shut down.
GetEmpty(c) ==
    /\ pc[c] = "get"
    /\ (\A g \in Groups : ~InQueue(g)) \/ ~open
    /\ pc' = [pc EXCEPT ![c] = "settle"]
    /\ UNCHANGED <<queueVars, messageVars, timeVars, num, zeroReq, group, orphan, successful,
                   dead, results, calls, dlqVars, worldVars>>

\* The heap of the MessageGroup object a consumer holds: the queue's, unless a
\* purge has made the queue forget that object.
HeapOf(c) ==
    IF pc[c] \in {"got_stale", "full_stale", "marked_stale"} THEN orphan[c] ELSE Heap(group[c])

\* An empty group is skipped.  The mutex is not held.
CheckGroup(c) ==
    /\ pc[c] \in {"got", "got_stale"}
    /\ IF HeapOf(c) = {}
       THEN /\ group' = [group EXCEPT ![c] = NoGroup]
            /\ pc' = [pc EXCEPT ![c] = "get"]
       ELSE /\ pc' = [pc EXCEPT ![c] = IF @ = "got" THEN "full" ELSE "full_stale"]
            /\ UNCHANGED group
    /\ UNCHANGED <<queueVars, messageVars, timeVars, num, zeroReq, orphan, successful,
                   dead, results, calls, dlqVars, worldVars>>

\* Any other group is marked as in flight, whatever others did to it in the meantime.
MarkGroup(c) ==
    /\ pc[c] \in {"full", "full_stale"}
    /\ inflight_groups' = inflight_groups \cup {group[c]}
    /\ pc' = [pc EXCEPT ![c] = IF @ = "full" THEN "marked" ELSE "marked_stale"]
    /\ UNCHANGED <<visible, queued, inflight, delayed, receipts, open, messageVars, timeVars,
                   num, zeroReq, group, orphan, successful, dead, results, calls,
                   dlqVars, worldVars>>

Exhausted(m) == MaxReceiveCount > 0 /\ receive_count[m] + 1 > MaxReceiveCount

\* Mutant of Popped: the youngest messages first.
PoppedYoungestFirst(c) ==
    {m \in HeapOf(c) :
        Cardinality({n \in HeapOf(c) : /\ created[n] > created[m]
                                       /\ n \notin deleted
                                       /\ ~Exhausted(n)}) < num[c] - Len(successful[c])}

\* What the loop of group.pop() takes: oldest first, until enough messages that
\* are neither deleted nor exhausted have been found.
Popped(c) ==
    {m \in HeapOf(c) :
        Cardinality({n \in HeapOf(c) : /\ created[n] < created[m]
                                       /\ n \notin deleted
                                       /\ ~Exhausted(n)}) < num[c] - Len(successful[c])}

\* The messages of a set, oldest first.
InOrder(S) == Arranged(S, created)

\* The mutex is held for the whole loop over the group.
PopGroup(c) ==
    LET popped == Popped(c)
        taken  == popped \ deleted
        spent  == {m \in taken : Exhausted(m)}
        found  == successful[c] \o InOrder(taken \ spent)
    IN
    /\ pc[c] \in {"marked", "marked_stale"}
    /\ visible' = IF pc[c] = "marked" THEN visible \ popped ELSE visible
    /\ receive_count' = [m \in Msgs |-> IF m \in taken THEN receive_count[m] + 1
                                                       ELSE receive_count[m]]
    /\ IF c \in zeroReq
       THEN leased' = leased \ taken /\ zeroTimeout' = zeroTimeout \cup taken
       ELSE leased' = leased \cup taken /\ zeroTimeout' = zeroTimeout \ taken
    /\ successful' = [successful EXCEPT ![c] = found]
    /\ dead' = [dead EXCEPT ![c] = @ \cup spent]
    /\ group' = [group EXCEPT ![c] = NoGroup]
    /\ orphan' = [d \in Consumers |-> IF d = c THEN {} ELSE orphan[d] \ popped]
    /\ pc' = [pc EXCEPT ![c] = IF Len(found) = num[c] THEN "settle" ELSE "get"]
    /\ UNCHANGED <<queued, inflight_groups, inflight, delayed, receipts, open, created,
                   receipt_handles, deleted, delaying, timeVars, num, zeroReq, results, calls,
                   dlqVars, worldVars>>

\* The mutex is taken again: receipt handles, then in flight or back to the heap.
Settle(c) ==
    LET ms   == Range(successful[c])
        new  == {Handle(m) : m \in ms}
        back == ms \cap zeroTimeout
    IN
    /\ pc[c] = "settle"
    /\ receipt_handles' = receipt_handles \cup new
    /\ receipts' = receipts \cup new
    /\ results' = [results EXCEPT ![c] = new]
    /\ PutMessages(back, FALSE)
    /\ inflight' = inflight \o Kept(successful[c], ms \ back)
    /\ successful' = [successful EXCEPT ![c] = <<>>]
    /\ pc' = [pc EXCEPT ![c] = "provider"]
    /\ UNCHANGED <<delayed, open, created, receive_count, deleted, zeroTimeout, leased,
                   delaying, timeVars, num, zeroReq, group, orphan, dead, calls, dlqVars,
                   worldVars>>

\* The provider looks the dead letter queue up.
FindDlq(c) ==
    /\ pc[c] = "provider"
    /\ dead[c] # {}
    /\ dlqExists
    /\ pc' = [pc EXCEPT ![c] = "forward"]
    /\ UNCHANGED <<queueVars, messageVars, timeVars, num, zeroReq, group, orphan, successful,
                   dead, results, calls, dlqVars, worldVars>>

\* QueueDoesNotExist ends the call: neither forwarding nor update_message_group_visibility.
DlqMissing(c) ==
    /\ pc[c] = "provider"
    /\ dead[c] # {}
    /\ ~dlqExists
    /\ lost' = lost \cup dead[c]
    /\ dead' = [dead EXCEPT ![c] = {}]
    /\ results' = [results EXCEPT ![c] = {}]
    /\ pc' = [pc EXCEPT ![c] = "idle"]
    /\ UNCHANGED <<queueVars, messageVars, timeVars, num, zeroReq, group, orphan, successful,
                   calls, dlqVars, known, purged, dropped>>

\* dl_queue.put, then the group of the dead letter may become visible.
ForwardDead(c, m) ==
    /\ pc[c] = "forward"
    /\ m \in dead[c]
    /\ dead' = [dead EXCEPT ![c] = @ \ {m}]
    /\ dlq' = dlq \cup {m}
    /\ UpdateGroup(GroupOf[m], Range(inflight))
    /\ UNCHANGED <<visible, inflight, delayed, receipts, open, messageVars, timeVars, pc, num,
                   zeroReq, group, orphan, successful, results, calls, dlqExists, worldVars>>

Respond(c) ==
    /\ pc[c] \in {"provider", "forward"}
    /\ dead[c] = {}
    /\ known' = known \cup results[c]
    /\ results' = [results EXCEPT ![c] = {}]
    /\ pc' = [pc EXCEPT ![c] = "idle"]
    /\ UNCHANGED <<queueVars, messageVars, timeVars, num, zeroReq, group, orphan, successful,
                   dead, calls, dlqVars, purged, dropped, lost>>

Receive(c) ==
    \/ \E g \in Groups : GetGroup(c, g)
    \/ \E m \in Msgs : ForwardDead(c, m)
    \/ GetEmpty(c) \/ CheckGroup(c) \/ MarkGroup(c) \/ PopGroup(c) \/ Settle(c)
    \/ FindDlq(c) \/ DlqMissing(c) \/ Respond(c)

-----------------------------------------------------------------------------
(* DeleteMessage, ChangeMessageVisibility, PurgeQueue, DeleteQueue *)

\* A client acknowledges with a handle it was given; unless "expired_delete" is
\* an event, with the one of the latest receive.
Acknowledges(h) == h \in known /\ ("expired_delete" \in Events \/ h[2] = receive_count[h[1]])

\* _pre_delete_checks: a handle of a message that is visible again is refused.
HandleExpired(m) == m \notin leased

\* remove
Remove(h) ==
    LET m    == h[1]
        left == Range(inflight) \ {m}
    IN
    /\ open
    /\ Acknowledges(h)
    /\ h \in receipts
    /\ ~HandleExpired(m)
    /\ HandlesOf(m) \subseteq receipts
    /\ deleted' = deleted \cup {m}
    /\ receipts' = receipts \ HandlesOf(m)
    /\ receipt_handles' = receipt_handles \ HandlesOf(m)
    /\ inflight' = Without(inflight, m)
    /\ UpdateGroup(GroupOf[m], left)
    /\ UNCHANGED <<visible, delayed, open, created, receive_count, zeroTimeout, leased,
                   delaying, timeVars, consumerVars, dlqVars, worldVars>>

\* remove, when the message remembers a handle a purge has taken out of
\* receipts: a KeyError after any number of handles.
RemoveFails(h) ==
    LET m == h[1] IN
    /\ open
    /\ Acknowledges(h)
    /\ h \in receipts
    /\ ~HandleExpired(m)
    /\ ~(HandlesOf(m) \subseteq receipts)
    /\ deleted' = deleted \cup {m}
    /\ \E done \in SUBSET (HandlesOf(m) \cap receipts) : receipts' = receipts \ done
    /\ UNCHANGED <<visible, queued, inflight_groups, inflight, delayed, open, created,
                   receive_count, receipt_handles, zeroTimeout, leased, delaying, timeVars,
                   consumerVars, dlqVars, worldVars>>

\* Mutant of MayChangeVisibility: any message with a valid handle.
MayChangeVisibilityAny(m) == TRUE

\* Only a message in flight has a visibility timeout to change.
MayChangeVisibility(m) == m \in Range(inflight)

\* update_visibility_timeout of a message in flight, to 0 or to more.
ChangeVisibility(h, zero) ==
    LET m == h[1] IN
    /\ "change_visibility" \in Events
    /\ open
    /\ h \in known
    /\ h \in receipts
    /\ MayChangeVisibility(m)
    /\ IF zero
       THEN /\ leased' = leased \ {m}
            /\ zeroTimeout' = zeroTimeout \cup {m}
            /\ inflight' = Without(inflight, m)
            /\ PutMessages({m}, FALSE)
       ELSE /\ leased' = leased \cup {m}
            /\ zeroTimeout' = zeroTimeout \ {m}
            /\ UNCHANGED <<visible, queued, inflight_groups, inflight>>
    /\ UNCHANGED <<delayed, receipts, open, created, receive_count, receipt_handles, deleted,
                   delaying, timeVars, consumerVars, dlqVars, worldVars>>

\* clear.  A consumer that holds a MessageGroup object keeps it, messages
\* included.
Purge ==
    /\ "purge" \in Events
    /\ open
    /\ visible' = {} /\ inflight' = <<>> /\ delayed' = {} /\ receipts' = {}
    /\ inflight_groups' = {} /\ queued' = [g \in Groups |-> 0]
    /\ purged' = Sent
    /\ orphan' = [c \in Consumers |-> IF pc[c] \in {"got", "full", "marked"}
                                      THEN Heap(group[c])
                                      ELSE orphan[c]]
    /\ pc' = [c \in Consumers |-> CASE pc[c] = "got"    -> "got_stale"
                                    [] pc[c] = "full"   -> "full_stale"
                                    [] pc[c] = "marked" -> "marked_stale"
                                    [] OTHER            -> pc[c]]
    /\ UNCHANGED <<open, messageVars, timeVars, num, zeroReq, group, successful, dead, results,
                   calls, dlqVars, known, dropped, lost>>

DeleteQueue ==
    /\ open
    /\ open' = FALSE
    /\ UNCHANGED <<visible, queued, inflight_groups, inflight, delayed, receipts, messageVars,
                   timeVars, consumerVars, dlqVars, worldVars>>

DeleteDlq ==
    /\ "delete_dlq" \in Events
    /\ dlqExists
    /\ dlqExists' = FALSE
    /\ UNCHANGED <<queueVars, messageVars, timeVars, consumerVars, dlq, worldVars>>

-----------------------------------------------------------------------------
(* The update worker.  Pops of a group need the mutex the worker holds.      *)

\* requeue_inflight_messages: in order, up to the first message that is still
\* invisible.
RequeueInflight ==
    /\ open
    /\ inflight # <<>>
    /\ Head(inflight) \notin leased
    /\ inflight' = Tail(inflight)
    /\ PutMessages({Head(inflight)}, FALSE)
    /\ UNCHANGED <<delayed, receipts, open, messageVars, timeVars, consumerVars, dlqVars,
                   worldVars>>

\* enqueue_delayed_messages
EnqueueDelayed ==
    LET due == delayed \ delaying IN
    /\ open
    /\ due # {}
    /\ delayed' = delayed \ due
    /\ PutMessages(due, TRUE)
    /\ UNCHANGED <<inflight, receipts, open, messageVars, timeVars, consumerVars, dlqVars,
                   worldVars>>

\* remove_expired_messages, of the groups the queue knows.
RemoveExpired ==
    LET expired == {m \in visible : created[m] <= horizon} IN
    /\ "retention" \in Events
    /\ open
    /\ expired # {}
    /\ visible' = visible \ expired
    /\ dropped' = dropped \cup expired
    /\ UNCHANGED <<queued, inflight_groups, inflight, delayed, receipts, open, messageVars,
                   timeVars, consumerVars, dlqVars, known, purged, lost>>

-----------------------------------------------------------------------------
(* Time *)

DeadlinePasses(m) ==
    /\ m \in leased
    /\ leased' = leased \ {m}
    /\ UNCHANGED <<queueVars, created, receive_count, receipt_handles, deleted, zeroTimeout,
                   delaying, timeVars, consumerVars, dlqVars, worldVars>>

\* The delay is the queue's: it passes in the order messages were sent.
DelayPasses(m) ==
    /\ m \in delaying
    /\ \A n \in delaying : created[m] <= created[n]
    /\ delaying' = delaying \ {m}
    /\ UNCHANGED <<queueVars, created, receive_count, receipt_handles, deleted, zeroTimeout,
                   leased, timeVars, consumerVars, dlqVars, worldVars>>

RetentionPasses ==
    /\ "retention" \in Events
    /\ horizon < clock
    /\ horizon' = horizon + 1
    /\ UNCHANGED <<queueVars, messageVars, clock, accepted, slow, consumerVars, dlqVars, worldVars>>

-----------------------------------------------------------------------------

Client ==
    \/ \E m \in Msgs : Stamp(m) \/ Push(m)
    \/ \E c \in Consumers, n \in 1..MaxNum, zero \in BOOLEAN : ReceiveStart(c, n, zero)
    \/ \E h \in known : \/ Remove(h) \/ RemoveFails(h)
                        \/ \E zero \in BOOLEAN : ChangeVisibility(h, zero)
    \/ Purge \/ DeleteQueue \/ DeleteDlq

Worker == RequeueInflight \/ EnqueueDelayed \/ RemoveExpired

Time ==
    \/ \E m \in Msgs : DeadlinePasses(m) \/ DelayPasses(m)
    \/ RetentionPasses

Next == Client \/ (\E c \in Consumers : Receive(c)) \/ Worker \/ Time

Spec == Init /\ [][Next]_vars

-----------------------------------------------------------------------------
(* Properties *)

QueueTypeOK ==
    /\ visible \subseteq Msgs /\ queued \in [Groups -> Nat] /\ inflight_groups \subseteq Groups
    /\ inflight \in Seq(Msgs) /\ delayed \subseteq Msgs
    /\ receipts \subseteq Handles /\ open \in BOOLEAN

MessageTypeOK ==
    /\ created \in [Msgs -> Nat] /\ receive_count \in [Msgs -> Nat]
    /\ receipt_handles \subseteq Handles
    /\ deleted \subseteq Msgs /\ zeroTimeout \subseteq Msgs
    /\ leased \subseteq Msgs /\ delaying \subseteq Msgs

TimeTypeOK ==
    /\ clock \in Nat /\ horizon \in 0..clock
    /\ accepted \in [Msgs -> Nat] /\ slow \subseteq Msgs

ConsumerTypeOK ==
    /\ pc \in [Consumers -> {"idle", "get", "got", "full", "marked", "got_stale", "full_stale",
                             "marked_stale", "settle", "provider", "forward"}]
    /\ num \in [Consumers -> 1..MaxNum] /\ zeroReq \subseteq Consumers
    /\ group \in [Consumers -> Groups \cup {NoGroup}]
    /\ orphan \in [Consumers -> SUBSET Msgs]
    /\ successful \in [Consumers -> Seq(Msgs)] /\ dead \in [Consumers -> SUBSET Msgs]
    /\ results \in [Consumers -> SUBSET Handles] /\ calls \in 0..MaxReceives

DlqTypeOK == dlq \subseteq Msgs /\ dlqExists \in BOOLEAN

WorldTypeOK ==
    /\ known \subseteq Handles
    /\ purged \subseteq Msgs /\ dropped \subseteq Msgs /\ lost \subseteq Msgs

\* The shape of the state, as the class declarations of models.py give it.
TypeOK ==
    /\ QueueTypeOK /\ MessageTypeOK /\ TimeTypeOK /\ ConsumerTypeOK /\ DlqTypeOK /\ WorldTypeOK

Collections == visible \cup Range(inflight) \cup delayed

\* No message is in two places: in a heap, in flight (once), delayed, or with
\* one receive call, however calls and the worker interleave.
OnePlace ==
    /\ visible \cap Range(inflight) = {}
    /\ visible \cap delayed = {}
    /\ Range(inflight) \cap delayed = {}
    /\ Cardinality(Range(inflight)) = Len(inflight)
    /\ \A c \in Consumers : InHands(c) \cap Collections = {}
    /\ \A c, d \in Consumers : c # d => InHands(c) \cap InHands(d) = {}

\* No silent loss: a message that was accepted can still be delivered, or it
\* was deleted, purged, dropped by retention or handled as a dead letter.
NoLoss ==
    Sent \subseteq Collections \cup Held \cup deleted \cup purged \cup dropped \cup dlq \cup lost

\* The SendMessage call of n was over when that of m stamped its message.
SentBefore(n, m) == accepted[n] > 0 /\ accepted[n] < created[m]

\* First in, first out: once a message of a group has been received for the first time, so
\* has every message of the group whose SendMessage call was over before that of the message
\* began, unless it was purged or dropped.  Calls that overlap give no order: the message
\* stamped first may be pushed last.  With a delay, a call must push its message before the
\* delay of the message is over: a slow one passes by the messages that the worker has still
\* to take out of the delayed ones.
FirstInFirstOut ==
    \A m, n \in Sent :
        /\ GroupOf[m] = GroupOf[n]
        /\ SentBefore(n, m)
        /\ m \notin slow
        /\ receive_count[m] > 0
        => receive_count[n] > 0 \/ n \in purged \cup dropped

\* The messages of a group that clients are processing: with a receive call, or
\* in flight with the visibility timeout running, and not acknowledged.
Processing(g) ==
    {m \in (UNION {Range(successful[c]) : c \in Consumers}) \cup (Range(inflight) \cap leased) :
        GroupOf[m] = g /\ m \notin deleted \cup purged}

\* "When you receive a message with a message group ID, no more messages for the
\* same message group ID are returned unless you delete the message, or it
\* becomes visible": when a receive call takes messages of a group, no other
\* call's messages of that group are being processed.  This ends when a dead letter of
\* the group is moved: update_message_group_visibility, which follows, looks at the
\* messages in flight, not at those another receive call has popped.
ExclusiveReceive ==
    [][\A c \in Consumers : \A m \in Range(successful'[c]) \ Range(successful[c]) :
            \/ Processing(GroupOf[m]) \subseteq Range(successful[c])
            \/ \E n \in dlq : GroupOf[n] = GroupOf[m]]_vars

\* A receive call is busy with the group, or has messages of it.
Busy(c, g) == group[c] = g \/ \E m \in InHands(c) : GroupOf[m] = g

\* "Once a message becomes visible in a FIFO queue, its message group also becomes
\* visible": a group with receivable messages is in the queue, unless messages of
\* it are in flight or some receive call is busy with it, or a dead letter of the group
\* was moved.  Then, and when messages are received in batches, a group can be in the queue
\* twice, and a call that has found it full marks it when others have emptied it.
NotStranded ==
    \A g \in Groups : Heap(g) # {} => \/ queued[g] > 0
                                      \/ InflightOf(g) # {}
                                      \/ \E c \in Consumers : Busy(c, g)
                                      \/ \E n \in dlq : GroupOf[n] = g

=============================================================================

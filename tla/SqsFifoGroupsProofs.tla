-------------------------- MODULE SqsFifoGroupsProofs --------------------------
(***************************************************************************)
(* Proofs about the message groups of SqsFifoQueue, for any sets of        *)
(* messages, groups and receive calls that ask for one message: messages   *)
(* are received while no client works on another message of their group,   *)
(* and a group with receivable messages stays receivable.                  *)
(***************************************************************************)
EXTENDS SqsFifoQueueProofs

\* What clients and time may do in these proofs: anything but purging the queue, letting
\* messages expire, deleting the dead letter queue and acknowledging a later delivery with
\* the handle of an earlier one.
Quiet == Events \subseteq {"change_visibility", "zero_timeout"}

\* What does not happen then.
QuietInv ==
    /\ purged = {} /\ dropped = {} /\ lost = {} /\ dlqExists
    /\ receipts = receipt_handles
    /\ \A c \in Consumers : pc[c] \notin {"got_stale", "full_stale", "marked_stale"} /\ orphan[c] = {}

\* The steps that are left.
QuietReceive(c) ==
    \/ \E g \in Groups : GetGroup(c, g)
    \/ \E m \in Msgs : ForwardDead(c, m)
    \/ GetEmpty(c) \/ CheckGroup(c) \/ MarkGroup(c) \/ PopGroup(c) \/ Settle(c) \/ FindDlq(c)
    \/ Respond(c)

QuietNext ==
    \/ \E m \in Msgs : Stamp(m) \/ Push(m) \/ DeadlinePasses(m) \/ DelayPasses(m)
    \/ \E c \in Consumers, n \in 1..MaxNum, zero \in BOOLEAN : ReceiveStart(c, n, zero)
    \/ \E h \in known : Remove(h) \/ \E zero \in BOOLEAN : ChangeVisibility(h, zero)
    \/ DeleteQueue \/ RequeueInflight \/ EnqueueDelayed
    \/ \E c \in Consumers : QuietReceive(c)

\* A message whose visibility timeout runs is in flight or with a receive call.
LeaseInv ==
    /\ leased \subseteq Sent
    /\ leased \cap (visible \cup delayed \cup zeroTimeout) = {}

\* The handles of a message that a receive call holds are of earlier deliveries.
HandleInv ==
    /\ \A h \in known : h[2] <= receive_count[h[1]]
    /\ \A c \in Consumers : \A h \in results[c] : h[2] <= receive_count[h[1]]
    /\ \A c \in Consumers : \A m \in InHands(c) :
          /\ \A h \in known : h[1] = m => h[2] < receive_count[m]
          /\ \A d \in Consumers : \A h \in results[d] : h[1] = m => h[2] < receive_count[m]

\* A deleted message is nowhere, and has no handle.
DeletedInv ==
    /\ deleted \cap Collections = {}
    /\ \A c \in Consumers : deleted \cap InHands(c) = {}
    /\ \A h \in receipts : h[1] \notin deleted
    /\ deleted \subseteq Sent

\* A receive call that looks for messages wants more of them.
RoomInv ==
    \A c \in Consumers :
        /\ pc[c] \in {"get", "got", "full", "marked"} => Len(successful[c]) < num[c]
        /\ pc[c] \in {"idle", "provider", "forward"} => successful[c] = <<>>
        /\ pc[c] \notin {"got", "full", "marked"} => group[c] = NoGroup

MessagesInv == QuietInv /\ LeaseInv /\ HandleInv /\ DeletedInv /\ RoomInv

Got(g) == \E c \in Consumers : pc[c] \in {"got", "full"} /\ group[c] = g

Marked(g) == \E c \in Consumers : pc[c] = "marked" /\ group[c] = g

InSomeHands(g) == \E c \in Consumers : \E m \in InHands(c) : GroupOf[m] = g

\* No dead letter of the group was moved.
Unmoved(g) == \A m \in dlq : GroupOf[m] # g

\* A group with receivable messages is in the queue, or a receive call has just taken it from
\* there, or it is marked as in flight.
SurfacedInv ==
    \A g \in Groups : Heap(g) # {} => queued[g] > 0 \/ g \in inflight_groups \/ Got(g)

\* A group that is marked as in flight has messages in flight or with a receive call, or a
\* receive call is about to pop some.
CoveredInv ==
    \A g \in inflight_groups :
        Unmoved(g) => InflightOf(g) # {} \/ InSomeHands(g) \/ (Heap(g) # {} /\ Marked(g))

GroupsInv == SurfacedInv /\ CoveredInv

\* The messages of a group that clients may be working on.
Working(g) ==
    {m \in Msgs : /\ GroupOf[m] = g
                  /\ m \in Range(inflight) \/ \E c \in Consumers : m \in Range(successful[c])}

\* A group is in one state: queued or just taken from the queue, or else marked as in flight.
StateInv(g) ==
    /\ queued[g] > 0 \/ Got(g) => Heap(g) # {} /\ g \notin inflight_groups
    /\ Marked(g) \/ Working(g) # {} => g \in inflight_groups

\* It is queued once, or one receive call has it, or clients work on one message of it.
TokenInv(g) ==
    /\ queued[g] <= 1
    /\ \A c \in Consumers : group[c] = g => queued[g] = 0 /\ Working(g) = {}
    /\ \A c, d \in Consumers : group[c] = g /\ group[d] = g => c = d
    /\ \A m, n \in Working(g) : m = n

OneUserInv == \A g \in Groups : Unmoved(g) => StateInv(g) /\ TokenInv(g)

-----------------------------------------------------------------------------
(* What the loop of group.pop() takes *)

\* A sequence without repetitions is as long as the set of its elements is large.
LEMMA DistinctLength ==
    ASSUME NEW M, NEW s \in Seq(M), Distinct(s)
    PROVE  Len(s) \in Nat /\ IsFiniteSet(Range(s)) /\ Cardinality(Range(s)) = Len(s)
<1>1. PICK n \in Nat : n = Len(s) /\ DOMAIN s = 1..n /\ s \in [1..n -> M]
  BY LenProperties
<1>2. s \in [1..n -> Range(s)]
  BY <1>1 DEF Range
<1>3. s \in Bijection(1..n, Range(s))
  BY <1>1, <1>2 DEF Range, Distinct, Bijection, Injection, Surjection, IsInjective
<1>4. ExistsBijection(1..n, Range(s))
  BY <1>3 DEF ExistsBijection
<1>5. IsFiniteSet(1..n) /\ Cardinality(1..n) = n
  BY FS_Interval
<1>6. QED
  BY <1>1, <1>4, <1>5, FS_Bijection

\* The messages of a heap that the loop may hand out, and those of them older than m.
Live(c) == {m \in HeapOf(c) : m \notin deleted /\ ~Exhausted(m)}

Older(c, m) == {n \in Live(c) : created[n] < created[m]}

\* How many more messages a receive call wants.
Room(c) == num[c] - Len(successful[c])

LEMMA RoomType ==
    ASSUME TypeInv, NEW c \in Consumers
    PROVE  Room(c) \in Int /\ (Len(successful[c]) < num[c] => 0 < Room(c))
<1>1. num[c] \in Int /\ successful[c] \in Seq(Msgs)
  BY CountsAssumption DEF TypeInv, TypeOK, ConsumerTypeOK
<1>2. Len(successful[c]) \in Nat
  BY <1>1, LenProperties
<1>3. QED
  BY <1>1, <1>2 DEF Room

LEMMA OlderFinite ==
    ASSUME TypeInv, NEW c \in Consumers, NEW m \in HeapOf(c)
    PROVE  /\ IsFiniteSet(Live(c)) /\ IsFiniteSet(Older(c, m))
           /\ Cardinality(Older(c, m)) \in Nat
           /\ Room(c) \in Int
           /\ m \in Popped(c) <=> Cardinality(Older(c, m)) < Room(c)
<1>1. HeapOf(c) \subseteq Sent /\ IsFiniteSet(Sent)
  BY HeapOfType, SentFinite
<1>2. Live(c) \in SUBSET Sent /\ Older(c, m) \in SUBSET Sent
  BY <1>1 DEF Live, Older
<1>3. IsFiniteSet(Live(c)) /\ IsFiniteSet(Older(c, m))
  BY <1>1, <1>2, FS_Subset
<1>4. Room(c) \in Int
  BY RoomType
<1>5. Older(c, m) = {n \in HeapOf(c) : created[n] < created[m] /\ n \notin deleted /\ ~Exhausted(n)}
  BY DEF Older, Live
<1>6. m \in Popped(c) <=> Cardinality(Older(c, m)) < Room(c)
  BY <1>5 DEF Popped, Room
<1>7. QED
  BY <1>3, <1>4, <1>6, FS_CardinalityType

\* A receive call that wants messages takes one from a heap that has some: the oldest.
LEMMA PopsSome ==
    ASSUME TypeInv, NEW c \in Consumers, HeapOf(c) # {}, Len(successful[c]) < num[c]
    PROVE  \E m \in HeapOf(c) : m \in Popped(c)
<1> DEFINE T == {created[m] : m \in HeapOf(c)}
<1>1. HeapOf(c) \subseteq Sent /\ \A m \in Sent : created[m] \in Nat
  BY HeapOfType DEF Sent, TypeInv, TypeOK, MessageTypeOK
<1>2. T \in SUBSET Nat /\ T # {}
  BY <1>1
<1>3. PICK x \in T : \A y \in T : x <= y
  BY <1>2, Least
<1>4. PICK m \in HeapOf(c) : \A n \in HeapOf(c) : created[m] <= created[n]
  BY <1>3
<1>5. Older(c, m) = {}
  BY <1>1, <1>4 DEF Older, Live
<1>6. Cardinality(Older(c, m)) = 0
  BY <1>5, FS_EmptySet
<1>7. 0 < Room(c)
  BY RoomType
<1>8. QED
  BY <1>6, <1>7, OlderFinite

\* The loop takes no more messages to hand out than the call wants: all of them but the
\* youngest are older than it.
LEMMA PopsFew ==
    ASSUME TypeInv, NEW c \in Consumers, Len(successful[c]) < num[c]
    PROVE  LET S == Popped(c) \cap Live(c)
           IN  IsFiniteSet(S) /\ Cardinality(S) <= Room(c)
<1> DEFINE S == Popped(c) \cap Live(c)
           T == {clock - created[m] : m \in S}
<1>0. Room(c) \in Int /\ 0 < Room(c)
  BY RoomType
<1>1. /\ HeapOf(c) \subseteq Sent /\ IsFiniteSet(Sent) /\ clock \in Nat
      /\ \A m \in Sent : created[m] \in Nat /\ created[m] <= clock
      /\ \A m, n \in Sent : created[m] = created[n] => m = n
  BY HeapOfType, SentFinite
     DEF Sent, TypeInv, TypeOK, MessageTypeOK, TimeTypeOK, CreatedInv
<1>2. S \in SUBSET Sent /\ S \subseteq HeapOf(c)
  BY <1>1 DEF Live
<1>3. IsFiniteSet(S)
  BY <1>1, <1>2, FS_Subset
<1>4. CASE S = {}
  BY <1>0, <1>3, <1>4, FS_EmptySet
<1>5. CASE S # {}
  <2>1. T \in SUBSET Nat /\ T # {}
    BY <1>1, <1>2, <1>5
  <2>2. PICK x \in T : \A y \in T : x <= y
    BY <2>1, Least
  <2>3. PICK m \in S : \A n \in S : clock - created[m] <= clock - created[n]
    BY <2>2
  <2>4. \A n \in S : n # m => created[n] < created[m]
    BY <1>1, <1>2, <2>3
  <2>5. S \ {m} \in SUBSET Older(c, m)
    BY <2>4 DEF Older
  <2>6. /\ m \in HeapOf(c) /\ Cardinality(Older(c, m)) < Room(c) /\ IsFiniteSet(Older(c, m))
        /\ Cardinality(Older(c, m)) \in Nat
    BY <1>2, OlderFinite
  <2>7. IsFiniteSet(S \ {m}) /\ Cardinality(S \ {m}) <= Cardinality(Older(c, m))
    BY <2>5, <2>6, FS_Subset
  <2>8. Cardinality(S \ {m}) = Cardinality(S) - 1 /\ Cardinality(S) \in Nat
    BY <1>3, FS_RemoveElement, FS_CardinalityType
  <2>9. QED
    BY <1>0, <1>3, <2>6, <2>7, <2>8
<1>6. QED
  BY <1>4, <1>5

-----------------------------------------------------------------------------
(* Without purges, expiries and deletes by expired handles *)

\* In a quiet queue only the steps of QuietNext happen.
LEMMA QuietStep ==
    ASSUME Quiet, QuietInv, [Next]_vars
    PROVE  [QuietNext]_vars
<1>1. Events \cap {"purge", "retention", "expired_delete", "delete_dlq"} = {}
  BY DEF Quiet
<1>2. ~Purge /\ ~DeleteDlq /\ ~RemoveExpired /\ ~RetentionPasses
  BY <1>1 DEF Purge, DeleteDlq, RemoveExpired, RetentionPasses
<1>3. \A c \in Consumers : ~DlqMissing(c)
  BY DEF QuietInv, DlqMissing
<1>4. \A h \in known : ~RemoveFails(h)
  BY DEF QuietInv, RemoveFails, HandlesOf
<1>5. ASSUME NEW c \in Consumers, Receive(c) PROVE QuietReceive(c)
  BY <1>3, <1>5, Zenon DEF Receive, QuietReceive
<1>6. CASE Client
  BY <1>2, <1>4, <1>6, Zenon DEF Client, QuietNext
<1>7. CASE Worker
  BY <1>2, <1>7, Zenon DEF Worker, QuietNext
<1>8. CASE Time
  BY <1>2, <1>8, Zenon DEF Time, QuietNext
<1>9. CASE \E c \in Consumers : Receive(c)
  BY <1>5, <1>9, Zenon DEF QuietNext
<1>10. QED
  BY <1>6, <1>7, <1>8, <1>9, Zenon DEF Next

LEMMA QuietInvHolds ==
    ASSUME Quiet
    PROVE  Spec => []QuietInv
<1>1. Init => QuietInv
  BY DEF Init, QuietInv
<1>2. TypeInv /\ QuietInv /\ [Next]_vars => QuietInv'
  <2> SUFFICES ASSUME TypeInv, QuietInv, [Next]_vars PROVE QuietInv'
    OBVIOUS
  <2>t. pc \in [Consumers -> {"idle", "get", "got", "full", "marked", "got_stale", "full_stale",
                                 "marked_stale", "settle", "provider", "forward"}]
        /\ orphan \in [Consumers -> SUBSET Msgs]
    BY DEF TypeInv, TypeOK, ConsumerTypeOK
  <2>u. ASSUME UNCHANGED <<purged, dropped, lost, dlqExists, orphan>>,
               UNCHANGED <<receipts, receipt_handles>>,
               \/ UNCHANGED pc
               \/ \E c \in Consumers, p \in {"idle", "get", "got", "full", "settle", "provider", "forward"} :
                     pc' = [pc EXCEPT ![c] = p]
        PROVE  QuietInv'
    BY <2>t, <2>u DEF QuietInv
  <2>1. ASSUME NEW c \in Consumers, MarkGroup(c) PROVE QuietInv'
    <3>1. pc[c] = "full"
      BY <2>1 DEF QuietInv, MarkGroup
    <3>2. pc' = [pc EXCEPT ![c] = "marked"]
      BY <2>1, <3>1, <2>t DEF MarkGroup
    <3>3. UNCHANGED <<purged, dropped, lost, dlqExists, orphan, receipts, receipt_handles>>
      BY <2>1 DEF MarkGroup, messageVars, dlqVars, worldVars
    <3>4. QED
      BY <2>t, <3>2, <3>3 DEF QuietInv
  <2>2. ASSUME NEW c \in Consumers, PopGroup(c) PROVE QuietInv'
    <3>1. orphan' = orphan
      <4>1. orphan' = [d \in Consumers |-> IF d = c THEN {} ELSE orphan[d] \ Popped(c)]
        BY <2>2 DEF PopGroup
      <4>2. QED
        BY <2>t, <4>1 DEF QuietInv
    <3>2. pc' = [pc EXCEPT ![c] = "get"] \/ pc' = [pc EXCEPT ![c] = "settle"]
      BY <2>2 DEF PopGroup
    <3>3. UNCHANGED <<purged, dropped, lost, dlqExists, receipts, receipt_handles>>
      BY <2>2 DEF PopGroup, dlqVars, worldVars
    <3>4. QED
      BY <2>u, <3>1, <3>2, <3>3
  <2>3. ASSUME NEW c \in Consumers, Settle(c) PROVE QuietInv'
    <3>1. /\ receipts' = receipt_handles' /\ pc' = [pc EXCEPT ![c] = "provider"]
          /\ UNCHANGED <<purged, dropped, lost, dlqExists, orphan>>
      BY <2>3 DEF Settle, QuietInv, dlqVars, worldVars
    <3>2. QED
      BY <2>t, <3>1 DEF QuietInv
  <2>4. ASSUME NEW h \in known, Remove(h) PROVE QuietInv'
    <3>1. /\ receipts' = receipt_handles'
          /\ UNCHANGED <<purged, dropped, lost, dlqExists, orphan, pc>>
      BY <2>4 DEF Remove, QuietInv, dlqVars, worldVars, consumerVars
    <3>2. QED
      BY <3>1 DEF QuietInv
  <2>5. ASSUME NEW m \in Msgs, Stamp(m) \/ Push(m) \/ DeadlinePasses(m) \/ DelayPasses(m)
        PROVE  QuietInv'
    BY <2>5, <2>u DEF Stamp, Push, DeadlinePasses, DelayPasses, queueVars, messageVars,
                      consumerVars, dlqVars, worldVars
  <2>6. ASSUME NEW c \in Consumers, NEW n \in 1..MaxNum, NEW zero \in BOOLEAN,
               ReceiveStart(c, n, zero)
        PROVE  QuietInv'
    BY <2>6, <2>u DEF ReceiveStart, queueVars, messageVars, dlqVars, worldVars
  <2>7. ASSUME NEW h \in known, NEW zero \in BOOLEAN, ChangeVisibility(h, zero) PROVE QuietInv'
    BY <2>7, <2>u DEF ChangeVisibility, consumerVars, dlqVars, worldVars
  <2>8. ASSUME DeleteQueue \/ RequeueInflight \/ EnqueueDelayed PROVE QuietInv'
    BY <2>8, <2>u DEF DeleteQueue, RequeueInflight, EnqueueDelayed, messageVars, consumerVars,
                      dlqVars, worldVars
  <2>9. ASSUME NEW c \in Consumers, NEW g \in Groups, GetGroup(c, g) PROVE QuietInv'
    BY <2>9, <2>u DEF GetGroup, messageVars, dlqVars, worldVars
  <2>10. ASSUME NEW c \in Consumers, NEW m \in Msgs, ForwardDead(c, m) PROVE QuietInv'
    BY <2>10, <2>u DEF ForwardDead, messageVars, worldVars
  <2>11. ASSUME NEW c \in Consumers, GetEmpty(c) \/ CheckGroup(c) \/ FindDlq(c) \/ Respond(c)
         PROVE  QuietInv'
    <3>1. /\ UNCHANGED <<purged, dropped, lost, dlqExists, orphan, receipts, receipt_handles>>
          /\ \E p \in {"idle", "get", "full", "settle", "forward"} : pc' = [pc EXCEPT ![c] = p]
      BY <2>11 DEF GetEmpty, CheckGroup, FindDlq, Respond, QuietInv, queueVars, messageVars, dlqVars,
                   worldVars
    <3>2. QED
      BY <2>u, <3>1
  <2>12. CASE UNCHANGED vars
    BY <2>12, <2>u DEF vars, queueVars, messageVars, consumerVars, dlqVars, worldVars
  <2>13. ASSUME NEW c \in Consumers, QuietReceive(c) PROVE QuietInv'
    BY <2>1, <2>2, <2>3, <2>9, <2>10, <2>11, <2>13, Zenon DEF QuietReceive
  <2>14. CASE QuietNext
    BY <2>4, <2>5, <2>6, <2>7, <2>8, <2>13, <2>14, Zenon DEF QuietNext
  <2>15. QED
    BY <2>12, <2>14, QuietStep
<1>3. QED
  BY <1>1, <1>2, TypeInvHolds, PTL DEF Spec

\* The push of a message makes it one that was sent.
LEMMA PushSends ==
    ASSUME TypeInv, NEW m \in Msgs, Push(m)
    PROVE  m \notin Sent /\ Sent \subseteq Sent'
<1>1. m \notin Sent /\ accepted \in [Msgs -> Nat] /\ accepted' = [accepted EXCEPT ![m] = clock]
  BY DEF Push, Sending, Sent, TypeInv, TypeOK, TimeTypeOK
<1>2. QED
  BY <1>1 DEF Sent

\* The visibility timeout of a message starts when it is popped and ends before it is put
\* back: it does not run while the message may be received.
LEMMA LeaseInvHolds ==
    ASSUME Quiet
    PROVE  Spec => []LeaseInv
<1>1. Init => LeaseInv
  BY DEF Init, LeaseInv
<1>2. TypeInv /\ PlaceInv /\ QuietInv /\ LeaseInv /\ [Next]_vars => LeaseInv'
  <2> SUFFICES ASSUME TypeInv, PlaceInv, QuietInv, LeaseInv, [Next]_vars PROVE LeaseInv'
    OBVIOUS
  <2>p. PlacesInv
    BY DEF PlaceInv
  <2>u. ASSUME leased' \subseteq leased, visible' \cup delayed' \subseteq visible \cup delayed,
               UNCHANGED <<accepted, zeroTimeout>>
        PROVE  LeaseInv'
    BY <2>u DEF LeaseInv, Sent
  <2>1. ASSUME NEW m \in Msgs, Push(m) PROVE LeaseInv'
    <3>1. /\ visible' \cup delayed' \subseteq visible \cup delayed \cup {m}
          /\ UNCHANGED <<leased, zeroTimeout>>
      BY <2>1 DEF Push, PutMessages, messageVars
    <3>2. m \notin Sent /\ Sent \subseteq Sent'
      BY <2>1, PushSends
    <3>3. QED
      BY <3>1, <3>2 DEF LeaseInv
  <2>2. ASSUME NEW c \in Consumers, PopGroup(c) PROVE LeaseInv'
    <3> DEFINE taken == Popped(c) \ deleted
    <3>1. /\ visible' = visible \ Popped(c) /\ delayed' = delayed /\ accepted' = accepted
          /\ \/ leased' = leased \ taken /\ zeroTimeout' = zeroTimeout \cup taken
             \/ leased' = leased \cup taken /\ zeroTimeout' = zeroTimeout \ taken
      BY <2>2 DEF PopGroup, QuietInv, timeVars
    <3>2. Popped(c) \subseteq visible /\ Popped(c) \subseteq Sent
      <4>1. HeapOf(c) \subseteq visible
        BY DEF HeapOf, Heap, QuietInv
      <4>2. QED
        BY <4>1, HeapOfType
    <3>3. Popped(c) \cap delayed = {}
      BY <2>p, <3>2 DEF PlacesInv
    <3>4. Sent' = Sent
      BY <3>1 DEF Sent
    <3> HIDE DEF taken
    <3>5. taken \subseteq Popped(c)
      BY DEF taken
    <3>6. QED
      BY <3>1, <3>2, <3>3, <3>4, <3>5 DEF LeaseInv
  <2>3. ASSUME NEW c \in Consumers, Settle(c) PROVE LeaseInv'
    <3>1. /\ visible' \subseteq visible \cup zeroTimeout
          /\ UNCHANGED <<delayed, accepted, leased, zeroTimeout>>
      BY <2>3 DEF Settle, PutMessages, timeVars
    <3>2. QED
      BY <3>1 DEF LeaseInv, Sent
  <2>4. ASSUME NEW h \in known, NEW zero \in BOOLEAN, ChangeVisibility(h, zero) PROVE LeaseInv'
    <3> DEFINE m == h[1]
    <3>1. m \in Range(inflight) /\ UNCHANGED <<delayed, accepted>>
      BY <2>4 DEF ChangeVisibility, MayChangeVisibility, timeVars
    <3>2. \/ /\ leased' = leased \ {m} /\ zeroTimeout' = zeroTimeout \cup {m}
             /\ visible' = visible \cup {m}
          \/ /\ leased' = leased \cup {m} /\ zeroTimeout' = zeroTimeout \ {m}
             /\ visible' = visible
      BY <2>4 DEF ChangeVisibility, PutMessages
    <3>3. m \in Sent /\ m \notin visible \cup delayed /\ Sent' = Sent
      BY <2>p, <3>1 DEF PlacesInv, TypeInv, SentInv, Collections, Sent
    <3>4. QED
      BY <3>1, <3>2, <3>3 DEF LeaseInv
  <2>5. ASSUME RequeueInflight PROVE LeaseInv'
    <3>1. /\ visible' = visible \cup {Head(inflight)} /\ Head(inflight) \notin leased
          /\ UNCHANGED <<delayed, accepted, leased, zeroTimeout>>
      BY <2>5 DEF RequeueInflight, PutMessages, messageVars, timeVars
    <3>2. QED
      BY <3>1 DEF LeaseInv, Sent
  <2>6. ASSUME EnqueueDelayed PROVE LeaseInv'
    BY <2>6, <2>u DEF EnqueueDelayed, PutMessages, messageVars, timeVars
  <2>7. ASSUME NEW m \in Msgs, Stamp(m) \/ DeadlinePasses(m) \/ DelayPasses(m) PROVE LeaseInv'
    BY <2>7, <2>u DEF Stamp, DeadlinePasses, DelayPasses, queueVars, timeVars
  <2>8. ASSUME NEW c \in Consumers,
               \/ \E n \in 1..MaxNum, zero \in BOOLEAN : ReceiveStart(c, n, zero)
               \/ \E g \in Groups : GetGroup(c, g)
               \/ \E m \in Msgs : ForwardDead(c, m)
               \/ GetEmpty(c) \/ CheckGroup(c) \/ MarkGroup(c) \/ FindDlq(c) \/ Respond(c)
        PROVE  LeaseInv'
    BY <2>8, <2>u DEF ReceiveStart, GetGroup, ForwardDead, GetEmpty, CheckGroup, MarkGroup, FindDlq,
                      Respond, queueVars, messageVars, timeVars
  <2>9. ASSUME (\E h \in known : Remove(h)) \/ DeleteQueue \/ UNCHANGED vars PROVE LeaseInv'
    BY <2>9, <2>u DEF Remove, DeleteQueue, vars, queueVars, messageVars, timeVars
  <2>10. ASSUME NEW c \in Consumers, QuietReceive(c) PROVE LeaseInv'
    BY <2>2, <2>3, <2>8, <2>10, Zenon DEF QuietReceive
  <2>11. CASE QuietNext
    BY <2>1, <2>4, <2>5, <2>6, <2>7, <2>8, <2>9, <2>10, <2>11, Zenon DEF QuietNext
  <2>12. QED
    BY <2>9, <2>11, QuietStep
<1>3. Spec => []QuietInv
  BY QuietInvHolds
<1>4. QED
  BY <1>1, <1>2, <1>3, TypeInvHolds, PlaceInvHolds, PTL DEF Spec

\* A receive call counts a message as received before it makes a handle for it, so the
\* handles that clients have of a message it holds are of earlier deliveries.
LEMMA HandleInvHolds ==
    ASSUME Quiet
    PROVE  Spec => []HandleInv
<1>1. Init => HandleInv
  <2>1. Range(<<>>) = {}
    BY DEF Range
  <2>2. QED
    BY <2>1 DEF Init, HandleInv, InHands
<1>2. TypeInv /\ PlaceInv /\ QuietInv /\ HandleInv /\ [Next]_vars => HandleInv'
  <2> SUFFICES ASSUME TypeInv, PlaceInv, QuietInv, HandleInv, [Next]_vars PROVE HandleInv'
    OBVIOUS
  <2>p. PlacesInv
    BY DEF PlaceInv
  <2>t. /\ receive_count \in [Msgs -> Nat] /\ known \subseteq Handles
        /\ results \in [Consumers -> SUBSET Handles] /\ dead \in [Consumers -> SUBSET Msgs]
        /\ successful \in [Consumers -> Seq(Msgs)]
        /\ \A c \in Consumers : InHands(c) \subseteq Msgs
    BY DEF TypeInv, TypeOK, MessageTypeOK, WorldTypeOK, ConsumerTypeOK, SentInv, Sent
  <2>h. \A h \in Handles : h[1] \in Msgs /\ h[2] \in Nat
    BY DEF Handles
  <2>u. ASSUME UNCHANGED <<receive_count, results>>, known' \subseteq known,
               \A c \in Consumers : InHands(c)' \subseteq InHands(c)
        PROVE  HandleInv'
    BY <2>u, <2>t DEF HandleInv
  <2>1. ASSUME NEW c \in Consumers, PopGroup(c) PROVE HandleInv'
    <3> DEFINE taken == Popped(c) \ deleted
    <3>1. /\ receive_count' = [m \in Msgs |-> IF m \in taken THEN receive_count[m] + 1
                                                           ELSE receive_count[m]]
          /\ UNCHANGED <<known, results>>
      BY <2>1 DEF PopGroup, worldVars
    <3>2. \A d \in Consumers : InHands(d)' \subseteq InHands(d) \cup taken
      <4>1. /\ Range(successful'[c]) \subseteq Range(successful[c]) \cup taken
            /\ \A d \in Consumers \ {c} : successful'[d] = successful[d]
        BY <2>1, PopWorks
      <4>2. \A d \in Consumers : dead'[d] \subseteq dead[d] \cup taken
        BY <2>1, <2>t DEF PopGroup
      <4>3. QED
        BY <4>1, <4>2 DEF InHands
    <3> HIDE DEF taken
    <3>3. \A m \in Msgs : /\ receive_count[m] <= receive_count'[m]
                          /\ m \in taken => receive_count[m] < receive_count'[m]
      BY <2>t, <3>1
    <3>4. \A m \in Msgs : receive_count[m] \in Nat /\ receive_count'[m] \in Nat
      BY <2>t, <3>1
    <3>5. ASSUME NEW h \in known \cup UNION {results[d] : d \in Consumers}
          PROVE  /\ h[2] <= receive_count'[h[1]]
                 /\ \A d \in Consumers : \A m \in InHands(d)' : h[1] = m => h[2] < receive_count'[m]
      <4>1. h \in Handles
        BY <2>t, <3>5
      <4>2. h[1] \in Msgs /\ h[2] \in Nat /\ h[2] <= receive_count[h[1]]
        BY <2>h, <4>1, <3>5 DEF HandleInv
      <4>3. \A d \in Consumers : \A m \in InHands(d) : h[1] = m => h[2] < receive_count[m]
        BY <3>5 DEF HandleInv
      <4>4. QED
        BY <3>2, <3>3, <3>4, <4>2, <4>3
    <3>6. QED
      BY <3>1, <3>5 DEF HandleInv
  <2>2. ASSUME NEW c \in Consumers, Settle(c) PROVE HandleInv'
    <3> DEFINE ms == Range(successful[c])
               new == {Handle(m) : m \in ms}
    <3>1. /\ results' = [results EXCEPT ![c] = new] /\ UNCHANGED <<known, receive_count, dead>>
          /\ successful' = [successful EXCEPT ![c] = <<>>]
      BY <2>2 DEF Settle, worldVars
    <3>2. \A h \in new : h[1] \in ms /\ h[2] = receive_count[h[1]]
      BY DEF Handle
    <3>3. ms \subseteq InHands(c) /\ ms \cap dead[c] = {}
      BY <2>p DEF PlacesInv, InHands
    <3>4. Range(<<>>) = {}
      BY DEF Range
    <3>5. Range(successful'[c]) = {} /\ \A d \in Consumers \ {c} : successful'[d] = successful[d]
      BY <2>t, <3>1, <3>4
    <3>6. InHands(c)' = dead[c] /\ \A d \in Consumers \ {c} : InHands(d)' = InHands(d)
      BY <3>1, <3>5 DEF InHands
    <3>7. \A d \in Consumers : InHands(d)' \subseteq InHands(d) /\ InHands(d)' \cap ms = {}
      <4>1. dead[c] \subseteq InHands(c)
        BY DEF InHands
      <4>2. QED
        BY <2>p, <3>3, <3>6, <4>1 DEF PlacesInv
    <3>8. ms \subseteq Msgs
      BY <2>t, <3>3
    <3> HIDE DEF ms, new
    <3>9. results'[c] = new /\ \A d \in Consumers \ {c} : results'[d] = results[d]
      BY <2>t, <3>1
    <3>10. \A d \in Consumers : \A h \in results'[d] : h \in results[d] \/ h \in new
      BY <3>9
    <3>11. \A h \in new : h[2] <= receive_count[h[1]]
      BY <2>t, <3>2, <3>8
    <3>12. QED
      BY <3>1, <3>2, <3>7, <3>10, <3>11 DEF HandleInv
  <2>3. ASSUME NEW c \in Consumers, Respond(c) PROVE HandleInv'
    <3>1. /\ known' = known \cup results[c] /\ results' = [results EXCEPT ![c] = {}]
          /\ UNCHANGED <<receive_count, successful, dead>>
      BY <2>3 DEF Respond, messageVars
    <3>2. \A d \in Consumers : results'[d] \subseteq results[d]
      BY <2>t, <3>1
    <3>3. \A d \in Consumers : InHands(d)' = InHands(d)
      BY <3>1 DEF InHands
    <3>4. QED
      BY <3>1, <3>2, <3>3 DEF HandleInv
  <2>4. ASSUME NEW c \in Consumers, NEW m \in Msgs, ForwardDead(c, m) PROVE HandleInv'
    <3>1. \A d \in Consumers : dead'[d] \subseteq dead[d]
      BY <2>4, <2>t DEF ForwardDead
    <3>2. QED
      BY <2>4, <2>u, <3>1 DEF ForwardDead, InHands, messageVars, worldVars
  <2>5. ASSUME NEW c \in Consumers,
               \/ \E n \in 1..MaxNum, zero \in BOOLEAN : ReceiveStart(c, n, zero)
               \/ \E g \in Groups : GetGroup(c, g)
               \/ GetEmpty(c) \/ CheckGroup(c) \/ MarkGroup(c) \/ FindDlq(c)
        PROVE  HandleInv'
    BY <2>5, <2>u DEF ReceiveStart, GetGroup, GetEmpty, CheckGroup, MarkGroup, FindDlq, InHands,
                      messageVars, worldVars
  <2>6. ASSUME NEW m \in Msgs, Stamp(m) \/ Push(m) \/ DeadlinePasses(m) \/ DelayPasses(m)
        PROVE  HandleInv'
    BY <2>6, <2>u DEF Stamp, Push, DeadlinePasses, DelayPasses, InHands, messageVars, consumerVars,
                      worldVars
  <2>7. ASSUME NEW h \in known, Remove(h) \/ \E zero \in BOOLEAN : ChangeVisibility(h, zero)
        PROVE  HandleInv'
    BY <2>7, <2>u DEF Remove, ChangeVisibility, InHands, consumerVars, worldVars
  <2>8. ASSUME DeleteQueue \/ RequeueInflight \/ EnqueueDelayed \/ UNCHANGED vars PROVE HandleInv'
    BY <2>8, <2>u DEF DeleteQueue, RequeueInflight, EnqueueDelayed, InHands, vars, messageVars,
                      consumerVars, worldVars
  <2>9. ASSUME NEW c \in Consumers, QuietReceive(c) PROVE HandleInv'
    BY <2>1, <2>2, <2>3, <2>4, <2>5, <2>9, Zenon DEF QuietReceive
  <2>10. CASE QuietNext
    BY <2>5, <2>6, <2>7, <2>8, <2>9, <2>10, Zenon DEF QuietNext
  <2>11. QED
    BY <2>8, <2>10, QuietStep
<1>3. Spec => []QuietInv
  BY QuietInvHolds
<1>4. QED
  BY <1>1, <1>2, <1>3, TypeInvHolds, PlaceInvHolds, PTL DEF Spec

\* A client that acknowledges the latest delivery of a message hits a message in flight: it
\* is neither receivable again nor with another receive call.
LEMMA DeletedInvHolds ==
    ASSUME Quiet
    PROVE  Spec => []DeletedInv
<1>1. Init => DeletedInv
  BY DEF Init, DeletedInv
<1>2. TypeInv /\ PlaceInv /\ QuietInv /\ LeaseInv /\ HandleInv /\ DeletedInv /\ [Next]_vars
      => DeletedInv'
  <2> SUFFICES ASSUME TypeInv, PlaceInv, QuietInv, LeaseInv, HandleInv, DeletedInv, [Next]_vars
               PROVE  DeletedInv'
    OBVIOUS
  <2>p. PlacesInv
    BY DEF PlaceInv
  <2>t. /\ dead \in [Consumers -> SUBSET Msgs] /\ successful \in [Consumers -> Seq(Msgs)]
        /\ inflight \in Seq(Msgs)
    BY DEF TypeInv, TypeOK, QueueTypeOK, ConsumerTypeOK
  <2>u. ASSUME UNCHANGED <<accepted, deleted, receipts>>, Collections' \subseteq Collections,
               \A c \in Consumers : InHands(c)' \subseteq InHands(c)
        PROVE  DeletedInv'
    BY <2>u DEF DeletedInv, Sent
  <2>1. ASSUME NEW m \in Msgs, Push(m) PROVE DeletedInv'
    <3>1. /\ Collections' \subseteq Collections \cup {m}
          /\ UNCHANGED <<deleted, receipts, successful, dead>>
      BY <2>1 DEF Push, PutMessages, Collections, messageVars, consumerVars
    <3>2. m \notin Sent /\ Sent \subseteq Sent'
      BY <2>1, PushSends
    <3>3. QED
      BY <3>1, <3>2 DEF DeletedInv, InHands
  <2>2. ASSUME NEW c \in Consumers, PopGroup(c) PROVE DeletedInv'
    <3>1. /\ UNCHANGED <<accepted, deleted, receipts, inflight, delayed>>
          /\ visible' \subseteq visible
      BY <2>2 DEF PopGroup, timeVars
    <3>2. \A d \in Consumers : InHands(d)' \subseteq InHands(d) \cup (Popped(c) \ deleted)
      <4>1. /\ Range(successful'[c]) \subseteq Range(successful[c]) \cup (Popped(c) \ deleted)
            /\ \A d \in Consumers \ {c} : successful'[d] = successful[d]
        BY <2>2, PopWorks
      <4>2. \A d \in Consumers : dead'[d] \subseteq dead[d] \cup (Popped(c) \ deleted)
        BY <2>2, <2>t DEF PopGroup
      <4>3. QED
        BY <4>1, <4>2 DEF InHands
    <3>3. Collections' \subseteq Collections
      BY <3>1 DEF Collections
    <3>4. QED
      BY <3>1, <3>2, <3>3 DEF DeletedInv, Sent
  <2>3. ASSUME NEW c \in Consumers, Settle(c) PROVE DeletedInv'
    <3> DEFINE ms == Range(successful[c])
    <3>1. /\ receipts' = receipts \cup {Handle(m) : m \in ms}
          /\ UNCHANGED <<accepted, deleted, delayed, dead>>
          /\ visible' \subseteq visible \cup ms
          /\ successful' = [successful EXCEPT ![c] = <<>>]
      BY <2>3 DEF Settle, PutMessages, timeVars
    <3>2. Range(inflight') \subseteq Range(inflight) \cup ms
      BY <2>3, SettleWorks
    <3>3. ms \subseteq InHands(c)
      BY DEF InHands
    <3>4. \A d \in Consumers : InHands(d)' \subseteq InHands(d)
      <4>1. Range(<<>>) = {}
        BY DEF Range
      <4>2. \A d \in Consumers : Range(successful'[d]) \subseteq Range(successful[d])
        BY <2>t, <3>1, <4>1
      <4>3. QED
        BY <3>1, <4>2 DEF InHands
    <3>5. \A h \in receipts' : h \in receipts \/ h[1] \in ms
      BY <3>1 DEF Handle
    <3>6. ms \cap deleted = {}
      BY <3>3 DEF DeletedInv
    <3> HIDE DEF ms
    <3>7. Collections' \subseteq Collections \cup ms
      BY <3>1, <3>2 DEF Collections
    <3>8. QED
      BY <3>1, <3>4, <3>5, <3>6, <3>7 DEF DeletedInv, Sent
  <2>4. ASSUME NEW h \in known, Remove(h) PROVE DeletedInv'
    <3> DEFINE m == h[1]
    <3>1. /\ deleted' = deleted \cup {m} /\ receipts' = receipts \ HandlesOf(m)
          /\ inflight' = Without(inflight, m)
          /\ UNCHANGED <<visible, delayed, accepted, successful, dead>>
          /\ m \in leased
      BY <2>4 DEF Remove, HandleExpired, timeVars, consumerVars
    <3>2. h[2] = receive_count[m]
      BY <2>4 DEF Remove, Acknowledges, Quiet
    <3>3. \A c \in Consumers : m \notin InHands(c)
      <4>1. SUFFICES ASSUME NEW c \in Consumers, m \in InHands(c) PROVE FALSE
        OBVIOUS
      <4>2. h[2] < receive_count[m]
        BY <4>1 DEF HandleInv
      <4>3. receive_count[m] \in Nat
        BY <3>1 DEF TypeInv, TypeOK, MessageTypeOK
      <4>4. QED
        BY <3>2, <4>2, <4>3
    <3>4. m \in Sent /\ m \notin visible \cup delayed
      BY <3>1 DEF LeaseInv
    <3>5. Range(inflight') = Range(inflight) \ {m}
      BY <2>t, <3>1, WithoutWorks
    <3>6. Collections' = Collections \ {m}
      BY <3>1, <3>4, <3>5 DEF Collections
    <3>7. \A k \in receipts' : k \in receipts /\ k[1] # m
      BY <3>1 DEF HandlesOf, QuietInv
    <3> HIDE DEF m
    <3>8. QED
      BY <3>1, <3>3, <3>4, <3>6, <3>7 DEF DeletedInv, InHands, Sent
  <2>5. ASSUME NEW h \in known, NEW zero \in BOOLEAN, ChangeVisibility(h, zero) PROVE DeletedInv'
    <3>1. /\ h[1] \in Range(inflight) /\ visible' \subseteq visible \cup {h[1]}
          /\ inflight' = inflight \/ inflight' = Without(inflight, h[1])
          /\ UNCHANGED <<delayed, accepted, deleted, receipts, successful, dead>>
      BY <2>5 DEF ChangeVisibility, MayChangeVisibility, PutMessages, timeVars, consumerVars
    <3>2. Range(inflight') \subseteq Range(inflight)
      BY <2>t, <3>1, WithoutWorks
    <3>3. QED
      BY <2>u, <3>1, <3>2 DEF Collections, InHands
  <2>6. ASSUME RequeueInflight PROVE DeletedInv'
    <3>1. /\ inflight # <<>> /\ inflight' = Tail(inflight)
          /\ visible' = visible \cup {Head(inflight)}
          /\ UNCHANGED <<delayed, accepted, deleted, receipts, successful, dead>>
      BY <2>6 DEF RequeueInflight, PutMessages, messageVars, timeVars, consumerVars
    <3>2. Head(inflight) \in Range(inflight) /\ Range(inflight') \subseteq Range(inflight)
      BY <2>t, <3>1, TailWorks
    <3>3. QED
      BY <2>u, <3>1, <3>2 DEF Collections, InHands
  <2>7. ASSUME EnqueueDelayed PROVE DeletedInv'
    BY <2>7, <2>u DEF EnqueueDelayed, PutMessages, Collections, InHands, messageVars, timeVars,
                      consumerVars
  <2>8. ASSUME NEW c \in Consumers, NEW m \in Msgs, ForwardDead(c, m) PROVE DeletedInv'
    <3>1. \A d \in Consumers : dead'[d] \subseteq dead[d]
      BY <2>8, <2>t DEF ForwardDead
    <3>2. QED
      BY <2>8, <2>u, <3>1 DEF ForwardDead, Collections, InHands, messageVars, timeVars
  <2>9. ASSUME NEW c \in Consumers,
               \/ \E n \in 1..MaxNum, zero \in BOOLEAN : ReceiveStart(c, n, zero)
               \/ \E g \in Groups : GetGroup(c, g)
               \/ GetEmpty(c) \/ CheckGroup(c) \/ MarkGroup(c) \/ FindDlq(c) \/ Respond(c)
        PROVE  DeletedInv'
    BY <2>9, <2>u DEF ReceiveStart, GetGroup, GetEmpty, CheckGroup, MarkGroup, FindDlq, Respond,
                      Collections, InHands, queueVars, messageVars, timeVars
  <2>10. ASSUME NEW m \in Msgs, Stamp(m) \/ DeadlinePasses(m) \/ DelayPasses(m) PROVE DeletedInv'
    BY <2>10, <2>u DEF Stamp, DeadlinePasses, DelayPasses, Collections, InHands, queueVars, timeVars,
                       consumerVars
  <2>11. ASSUME DeleteQueue \/ UNCHANGED vars PROVE DeletedInv'
    BY <2>11, <2>u DEF DeleteQueue, Collections, InHands, vars, queueVars, messageVars, timeVars,
                       consumerVars
  <2>12. ASSUME NEW c \in Consumers, QuietReceive(c) PROVE DeletedInv'
    BY <2>2, <2>3, <2>8, <2>9, <2>12, Zenon DEF QuietReceive
  <2>13. CASE QuietNext
    BY <2>1, <2>4, <2>5, <2>6, <2>7, <2>9, <2>10, <2>11, <2>12, <2>13, Zenon DEF QuietNext
  <2>14. QED
    BY <2>11, <2>13, QuietStep
<1>3. Spec => []QuietInv
  BY QuietInvHolds
<1>4. Spec => []LeaseInv
  BY LeaseInvHolds
<1>5. Spec => []HandleInv
  BY HandleInvHolds
<1>6. QED
  BY <1>1, <1>2, <1>3, <1>4, <1>5, TypeInvHolds, PlaceInvHolds, PTL DEF Spec

\* A receive call that goes on to another group still wants messages: the loop over a group
\* stops when it has found as many as the call wants.
LEMMA RoomInvHolds ==
    ASSUME Quiet
    PROVE  Spec => []RoomInv
<1> USE CountsAssumption
<1>1. Init => RoomInv
  BY DEF Init, RoomInv
<1>2. TypeInv /\ PlaceInv /\ QuietInv /\ RoomInv /\ [Next]_vars => RoomInv'
  <2> SUFFICES ASSUME TypeInv, PlaceInv, QuietInv, RoomInv, [Next]_vars PROVE RoomInv'
    OBVIOUS
  <2>t. /\ pc \in [Consumers -> {"idle", "get", "got", "full", "marked", "got_stale", "full_stale",
                                 "marked_stale", "settle", "provider", "forward"}]
        /\ num \in [Consumers -> 1..MaxNum] /\ group \in [Consumers -> Groups \cup {NoGroup}]
        /\ successful \in [Consumers -> Seq(Msgs)]
    BY DEF TypeInv, TypeOK, ConsumerTypeOK
  <2>u. ASSUME UNCHANGED <<pc, num, group, successful>> PROVE RoomInv'
    BY <2>u DEF RoomInv
  <2>1. ASSUME NEW c \in Consumers, NEW n \in 1..MaxNum, NEW zero \in BOOLEAN,
               ReceiveStart(c, n, zero)
        PROVE  RoomInv'
    <3>1. /\ pc[c] = "idle" /\ pc' = [pc EXCEPT ![c] = "get"] /\ num' = [num EXCEPT ![c] = n]
          /\ UNCHANGED <<group, successful>>
      BY <2>1 DEF ReceiveStart
    <3>2. Len(successful[c]) = 0
      BY <3>1 DEF RoomInv
    <3>3. QED
      BY <2>t, <3>1, <3>2 DEF RoomInv
  <2>2. ASSUME NEW c \in Consumers, NEW g \in Groups, GetGroup(c, g) PROVE RoomInv'
    <3>1. /\ pc[c] = "get" /\ pc' = [pc EXCEPT ![c] = "got"] /\ group' = [group EXCEPT ![c] = g]
          /\ UNCHANGED <<num, successful>>
      BY <2>2 DEF GetGroup
    <3>2. QED
      BY <2>t, <3>1 DEF RoomInv
  <2>3. ASSUME NEW c \in Consumers, CheckGroup(c) \/ MarkGroup(c) PROVE RoomInv'
    <3>1. /\ pc[c] \in {"got", "full"} /\ UNCHANGED <<num, successful>>
          /\ \/ pc' = [pc EXCEPT ![c] = "get"] /\ group' = [group EXCEPT ![c] = NoGroup]
             \/ pc' = [pc EXCEPT ![c] = "full"] /\ group' = group
             \/ pc' = [pc EXCEPT ![c] = "marked"] /\ group' = group
      BY <2>3, <2>t DEF CheckGroup, MarkGroup, QuietInv
    <3>2. QED
      BY <2>t, <3>1 DEF RoomInv
  <2>4. ASSUME NEW c \in Consumers, PopGroup(c) PROVE RoomInv'
    <3> DEFINE taken == Popped(c) \ deleted
               spent == {m \in taken : Exhausted(m)}
               new == InOrder(taken \ spent)
               found == successful[c] \o new
    <3>1. /\ pc[c] = "marked" /\ num' = num /\ group' = [group EXCEPT ![c] = NoGroup]
          /\ successful' = [successful EXCEPT ![c] = found]
          /\ pc' = [pc EXCEPT ![c] = IF Len(found) = num[c] THEN "settle" ELSE "get"]
      BY <2>4 DEF PopGroup, QuietInv
    <3>2. Len(found) <= num[c] /\ Len(found) \in Nat
      <4>1. Len(successful[c]) < num[c]
        BY <3>1 DEF RoomInv
      <4>2. /\ taken \ spent = Popped(c) \cap Live(c)
            /\ taken \ spent \subseteq Sent
        BY HeapOfType DEF Live
      <4>3. /\ new \in Seq(Msgs) /\ Range(new) = taken \ spent /\ Distinct(new)
        BY <4>2, InOrderWorks
      <4>4. Len(new) \in Nat /\ Len(new) = Cardinality(taken \ spent)
        BY <4>3, DistinctLength
      <4>5. Cardinality(Popped(c) \cap Live(c)) <= Room(c)
        BY <4>1, PopsFew
      <4>6. Len(successful[c]) \in Nat /\ num[c] \in Nat
        BY <2>t, LenProperties
      <4>7. Len(found) = Len(successful[c]) + Len(new)
        BY <2>t, <4>3, ConcatProperties
      <4>8. Len(new) <= num[c] - Len(successful[c])
        BY <4>2, <4>4, <4>5 DEF Room
      <4> HIDE DEF found, new
      <4>9. QED
        BY <4>4, <4>6, <4>7, <4>8
    <3> HIDE DEF found
    <3>3. num[c] \in Nat
      BY <2>t
    <3>4. QED
      BY <2>t, <3>1, <3>2, <3>3 DEF RoomInv
  <2>5. ASSUME NEW c \in Consumers, Settle(c) PROVE RoomInv'
    <3>1. /\ pc[c] = "settle" /\ pc' = [pc EXCEPT ![c] = "provider"]
          /\ successful' = [successful EXCEPT ![c] = <<>>] /\ UNCHANGED <<num, group>>
      BY <2>5 DEF Settle
    <3>2. QED
      BY <2>t, <3>1 DEF RoomInv
  <2>6. ASSUME NEW c \in Consumers, GetEmpty(c) PROVE RoomInv'
    <3>1. /\ pc[c] = "get" /\ pc' = [pc EXCEPT ![c] = "settle"] /\ UNCHANGED <<num, group, successful>>
      BY <2>6 DEF GetEmpty
    <3>2. QED
      BY <2>t, <3>1 DEF RoomInv
  <2>7. ASSUME NEW c \in Consumers, FindDlq(c) \/ Respond(c) PROVE RoomInv'
    <3>1. /\ pc[c] \in {"provider", "forward"} /\ UNCHANGED <<num, group, successful>>
          /\ pc' = [pc EXCEPT ![c] = "forward"] \/ pc' = [pc EXCEPT ![c] = "idle"]
      BY <2>7 DEF FindDlq, Respond
    <3>2. QED
      BY <2>t, <3>1 DEF RoomInv
  <2>8. ASSUME NEW c \in Consumers, NEW m \in Msgs, ForwardDead(c, m) PROVE RoomInv'
    BY <2>8, <2>u DEF ForwardDead
  <2>9. ASSUME NEW m \in Msgs, Stamp(m) \/ Push(m) \/ DeadlinePasses(m) \/ DelayPasses(m)
        PROVE  RoomInv'
    BY <2>9, <2>u DEF Stamp, Push, DeadlinePasses, DelayPasses, consumerVars
  <2>10. ASSUME NEW h \in known, Remove(h) \/ \E zero \in BOOLEAN : ChangeVisibility(h, zero)
         PROVE  RoomInv'
    BY <2>10, <2>u DEF Remove, ChangeVisibility, consumerVars
  <2>11. ASSUME DeleteQueue \/ RequeueInflight \/ EnqueueDelayed \/ UNCHANGED vars PROVE RoomInv'
    BY <2>11, <2>u DEF DeleteQueue, RequeueInflight, EnqueueDelayed, vars, consumerVars
  <2>12. ASSUME NEW c \in Consumers, QuietReceive(c) PROVE RoomInv'
    BY <2>2, <2>3, <2>4, <2>5, <2>6, <2>7, <2>8, <2>12, Zenon DEF QuietReceive
  <2>13. CASE QuietNext
    BY <2>1, <2>9, <2>10, <2>11, <2>12, <2>13, Zenon DEF QuietNext
  <2>14. QED
    BY <2>11, <2>13, QuietStep
<1>3. Spec => []QuietInv
  BY QuietInvHolds
<1>4. QED
  BY <1>1, <1>2, <1>3, TypeInvHolds, PlaceInvHolds, PTL DEF Spec

-----------------------------------------------------------------------------
(* One message of a group at a time *)

\* A receive call that has a group has just taken it, or marked it.
LEMMA GroupHeld ==
    ASSUME TypeInv, QuietInv, RoomInv, NEW g \in Groups, NEW c \in Consumers, group[c] = g
    PROVE  Got(g) \/ Marked(g)
<1>1. pc[c] \in {"got", "full", "marked"}
  BY GroupsAssumption DEF RoomInv
<1>2. QED
  BY <1>1 DEF Got, Marked

\* A step that does not concern a group leaves its state alone.
LEMMA SameState ==
    ASSUME NEW g \in Groups, StateInv(g), TokenInv(g), queued'[g] = queued[g],
           g \in inflight_groups' <=> g \in inflight_groups,
           Heap(g) # {} => Heap(g)' # {},
           Working(g)' = Working(g),
           Got(g)' => Got(g), Marked(g)' => Marked(g),
           \A c \in Consumers : group'[c] = g => group[c] = g
    PROVE  StateInv(g)' /\ TokenInv(g)'
<1>1. StateInv(g)'
  BY DEF StateInv
<1>2. TokenInv(g)'
  BY DEF TokenInv
<1>3. QED
  BY <1>1, <1>2

\* Clients are done with the message of a group they worked on: the group becomes
\* receivable, if it has messages.
LEMMA Released ==
    ASSUME TypeInv, QuietInv, RoomInv, NEW g \in Groups, StateInv(g), TokenInv(g),
           NEW m \in Working(g), Working(g)' \subseteq Working(g) \ {m},
           g \notin inflight_groups',
           queued'[g] = IF Heap(g)' # {} THEN queued[g] + 1 ELSE queued[g],
           Got(g)' => Got(g), Marked(g)' => Marked(g),
           \A c \in Consumers : group'[c] = g => group[c] = g
    PROVE  StateInv(g)' /\ TokenInv(g)'
<1>1. g \in inflight_groups
  BY DEF StateInv
<1>2. queued[g] = 0 /\ ~Got(g)
  BY <1>1 DEF StateInv, TypeInv, TypeOK, QueueTypeOK
<1>3. Working(g)' = {}
  BY DEF TokenInv
<1>4. \A c \in Consumers : group[c] # g
  BY DEF TokenInv
<1>5. ~Marked(g)
  BY <1>4 DEF Marked
<1>6. StateInv(g)'
  BY <1>2, <1>3, <1>5 DEF StateInv
<1>7. TokenInv(g)'
  BY <1>2, <1>3, <1>4 DEF TokenInv
<1>8. QED
  BY <1>6, <1>7

\* Fresh messages make a group receivable that was not in use.
LEMMA Freshened ==
    ASSUME TypeInv, QuietInv, RoomInv, NEW g \in Groups, StateInv(g), TokenInv(g),
           NEW S \in SUBSET Msgs, PutMessages(S, TRUE),
           UNCHANGED <<inflight, successful, pc, group>>
    PROVE  StateInv(g)' /\ TokenInv(g)'
<1> DEFINE surfacing == {k \in {GroupOf[m] : m \in S} : Surfaces(k, TRUE)}
<1>1. /\ visible' = visible \cup S /\ inflight_groups' = inflight_groups \ surfacing
      /\ queued' = [k \in Groups |-> IF k \in surfacing THEN queued[k] + 1 ELSE queued[k]]
  BY DEF PutMessages
<1>2. /\ Working(g)' = Working(g) /\ (Got(g)' <=> Got(g)) /\ (Marked(g)' <=> Marked(g))
      /\ Heap(g) \subseteq Heap(g)'
  BY <1>1 DEF Working, Got, Marked, Heap
<1>3. CASE g \notin surfacing
  <2>1. queued'[g] = queued[g] /\ (g \in inflight_groups' <=> g \in inflight_groups)
    BY <1>1, <1>3
  <2>2. QED
    BY <1>2, <2>1, SameState
<1>4. CASE g \in surfacing
  <2>1. Heap(g) = {} /\ g \notin inflight_groups
    BY <1>4 DEF Surfaces
  <2>2. queued[g] = 0 /\ ~Got(g) /\ ~Marked(g) /\ Working(g) = {}
    BY <2>1 DEF StateInv, TypeInv, TypeOK, QueueTypeOK
  <2>3. \A c \in Consumers : group[c] # g
    BY <2>2, GroupHeld
  <2>4. queued'[g] = 1 /\ g \notin inflight_groups'
    <3>1. queued'[g] = queued[g] + 1 /\ g \notin inflight_groups'
      BY <1>1, <1>4
    <3>2. QED
      BY <2>2, <3>1
  <2>5. Heap(g)' # {}
    BY <1>1, <1>4 DEF Heap
  <2>6. StateInv(g)'
    BY <1>2, <2>2, <2>4, <2>5 DEF StateInv
  <2>7. TokenInv(g)'
    BY <1>2, <2>2, <2>3, <2>4 DEF TokenInv
  <2>8. QED
    BY <2>6, <2>7
<1>5. QED
  BY <1>3, <1>4

\* Messages that clients worked on return to their heaps.
LEMMA Returned ==
    ASSUME TypeInv, QuietInv, RoomInv, NEW g \in Groups, StateInv(g), TokenInv(g),
           NEW S \in SUBSET Msgs, PutMessages(S, FALSE),
           \A m \in S : GroupOf[m] = g => m \in Working(g),
           Working(g)' = Working(g) \ S,
           Got(g)' => Got(g), Marked(g)' => Marked(g), UNCHANGED group
    PROVE  StateInv(g)' /\ TokenInv(g)'
<1> DEFINE surfacing == {k \in {GroupOf[m] : m \in S} : Surfaces(k, FALSE)}
<1>1. /\ visible' = visible \cup S /\ inflight_groups' = inflight_groups \ surfacing
      /\ queued' = [k \in Groups |-> IF k \in surfacing THEN queued[k] + 1 ELSE queued[k]]
  BY DEF PutMessages
<1>2. Heap(g) \subseteq Heap(g)'
  BY <1>1 DEF Heap
<1>3. CASE \A m \in S : GroupOf[m] # g
  <2>1. Working(g)' = Working(g)
    BY <1>3 DEF Working
  <2>2. g \notin surfacing
    BY <1>3
  <2>3. queued'[g] = queued[g] /\ (g \in inflight_groups' <=> g \in inflight_groups)
    BY <1>1, <2>2
  <2>4. QED
    BY <1>2, <2>1, <2>3, SameState
<1>4. ASSUME NEW m \in S, GroupOf[m] = g PROVE StateInv(g)' /\ TokenInv(g)'
  <2>1. m \in Working(g) /\ g \in inflight_groups
    BY <1>4 DEF StateInv
  <2>2. g \in surfacing
    BY <1>4, <2>1 DEF Surfaces
  <2>3. queued'[g] = queued[g] + 1 /\ g \notin inflight_groups'
    BY <1>1, <2>2
  <2>4. Heap(g)' # {}
    BY <1>1, <1>4 DEF Heap
  <2>5. Working(g)' \subseteq Working(g) \ {m}
    OBVIOUS
  <2>6. QED
    BY <2>1, <2>3, <2>4, <2>5, Released
<1>5. QED
  BY <1>3, <1>4

\* Dead letters stay dead letters.
LEMMA DlqGrows ==
    ASSUME [QuietNext]_vars
    PROVE  dlq \subseteq dlq'
<1>1. ASSUME NEW m \in Msgs, Stamp(m) \/ Push(m) \/ DeadlinePasses(m) \/ DelayPasses(m)
      PROVE  dlq' = dlq
  BY <1>1 DEF Stamp, Push, DeadlinePasses, DelayPasses, dlqVars
<1>2. ASSUME NEW c \in Consumers,
             \/ \E n \in 1..MaxNum, zero \in BOOLEAN : ReceiveStart(c, n, zero)
             \/ \E g \in Groups : GetGroup(c, g)
             \/ GetEmpty(c) \/ CheckGroup(c) \/ MarkGroup(c) \/ PopGroup(c) \/ Settle(c)
             \/ FindDlq(c) \/ Respond(c)
      PROVE  dlq' = dlq
  BY <1>2 DEF ReceiveStart, GetGroup, GetEmpty, CheckGroup, MarkGroup, PopGroup, Settle, FindDlq,
              Respond, dlqVars
<1>3. ASSUME NEW c \in Consumers, NEW m \in Msgs, ForwardDead(c, m) PROVE dlq \subseteq dlq'
  BY <1>3 DEF ForwardDead
<1>4. ASSUME NEW h \in known, Remove(h) \/ \E zero \in BOOLEAN : ChangeVisibility(h, zero)
      PROVE  dlq' = dlq
  BY <1>4 DEF Remove, ChangeVisibility, dlqVars
<1>5. ASSUME DeleteQueue \/ RequeueInflight \/ EnqueueDelayed \/ UNCHANGED vars PROVE dlq' = dlq
  BY <1>5 DEF DeleteQueue, RequeueInflight, EnqueueDelayed, vars, dlqVars
<1>6. ASSUME NEW c \in Consumers, QuietReceive(c) PROVE dlq \subseteq dlq'
  BY <1>2, <1>3, <1>6, Zenon DEF QuietReceive
<1>7. CASE QuietNext
  BY <1>1, <1>2, <1>4, <1>5, <1>6, <1>7, Zenon DEF QuietNext
<1>8. QED
  BY <1>5, <1>7

\* What one receive call has is passed on as a whole: a group is queued, then taken by one
\* call, then one message of it is in use, and only when that is over it is queued again.
LEMMA OneUserInvHolds ==
    ASSUME Quiet, MaxNum = 1
    PROVE  Spec => []OneUserInv
<1> USE GroupsAssumption
<1>1. Init => OneUserInv
  <2> SUFFICES ASSUME Init, NEW g \in Groups PROVE StateInv(g) /\ TokenInv(g)
    BY DEF OneUserInv
  <2>1. Range(<<>>) = {}
    BY DEF Range
  <2>2. Working(g) = {} /\ ~Got(g) /\ ~Marked(g)
    BY <2>1 DEF Init, Working, Got, Marked
  <2>3. queued[g] = 0 /\ \A c \in Consumers : group[c] # g
    BY DEF Init
  <2>4. QED
    BY <2>2, <2>3 DEF StateInv, TokenInv
<1>2. /\ TypeInv /\ PlaceInv /\ QuietInv /\ LeaseInv /\ HandleInv /\ DeletedInv /\ RoomInv
      /\ OneUserInv /\ [Next]_vars
      => OneUserInv'
  <2> SUFFICES ASSUME TypeInv, PlaceInv, QuietInv, LeaseInv, HandleInv, DeletedInv, RoomInv,
                      OneUserInv, [Next]_vars, NEW g \in Groups, Unmoved(g)'
               PROVE  StateInv(g)' /\ TokenInv(g)'
    BY DEF OneUserInv
  <2>q. [QuietNext]_vars
    BY QuietStep
  <2>m. Unmoved(g)
    BY <2>q, DlqGrows DEF Unmoved
  <2>i. StateInv(g) /\ TokenInv(g)
    BY <2>m DEF OneUserInv
  <2>p. PlacesInv
    BY DEF PlaceInv
  <2>d. Distinct(inflight)
    BY DEF PlaceInv, SequencesInv
  <2>t. /\ pc \in [Consumers -> {"idle", "get", "got", "full", "marked", "got_stale", "full_stale",
                                 "marked_stale", "settle", "provider", "forward"}]
        /\ group \in [Consumers -> Groups \cup {NoGroup}] /\ dead \in [Consumers -> SUBSET Msgs]
        /\ successful \in [Consumers -> Seq(Msgs)] /\ inflight \in Seq(Msgs)
        /\ queued \in [Groups -> Nat] /\ inflight_groups \subseteq Groups /\ visible \subseteq Msgs
        /\ known \subseteq Handles
    BY DEF TypeInv, TypeOK, QueueTypeOK, ConsumerTypeOK, WorldTypeOK
  <2>g. \A c \in Consumers : pc[c] \in {"got", "full", "marked"} => group[c] \in Groups
    BY DEF TypeInv, GroupInv
  <2>r. Range(inflight) \subseteq Msgs /\ \A c \in Consumers : Range(successful[c]) \subseteq Msgs
    BY <2>t, RangeType
  <2>u. ASSUME UNCHANGED <<visible, queued, inflight_groups, inflight, successful, group>>,
               Got(g)' => Got(g), Marked(g)' => Marked(g)
        PROVE  StateInv(g)' /\ TokenInv(g)'
    <3>1. Heap(g)' = Heap(g) /\ Working(g)' = Working(g)
      BY <2>u DEF Heap, Working
    <3>2. QED
      BY <2>i, <2>u, <3>1, SameState
  <2>1. ASSUME NEW m \in Msgs, Push(m) PROVE StateInv(g)' /\ TokenInv(g)'
    <3>1. CASE m \in delaying
      BY <2>1, <3>1, <2>u DEF Push, consumerVars, Got, Marked
    <3>2. CASE m \notin delaying
      BY <2>1, <2>i, <3>2, Freshened DEF Push, consumerVars
    <3>3. QED
      BY <3>1, <3>2
  <2>2. ASSUME EnqueueDelayed PROVE StateInv(g)' /\ TokenInv(g)'
    <3>1. delayed \ delaying \in SUBSET Msgs
      BY DEF TypeInv, TypeOK, QueueTypeOK
    <3>2. QED
      BY <2>2, <2>i, <3>1, Freshened DEF EnqueueDelayed, consumerVars
  \* A message in flight returns to its heap.
  <2>3. ASSUME NEW m \in Msgs, m \in Range(inflight), Range(inflight') = Range(inflight) \ {m},
               PutMessages({m}, FALSE), UNCHANGED <<successful, pc, group>>
        PROVE  StateInv(g)' /\ TokenInv(g)'
    <3>1. \A c \in Consumers : m \notin Range(successful[c])
      BY <2>p, <2>3 DEF PlacesInv, InHands, Collections
    <3>2. Working(g)' = Working(g) \ {m}
      BY <2>3, <3>1 DEF Working
    <3>3. GroupOf[m] = g => m \in Working(g)
      BY <2>3 DEF Working
    <3>4. (Got(g)' => Got(g)) /\ (Marked(g)' => Marked(g))
      BY <2>3 DEF Got, Marked
    <3>5. QED
      BY <2>3, <2>i, <3>2, <3>3, <3>4, Returned
  <2>4. ASSUME RequeueInflight PROVE StateInv(g)' /\ TokenInv(g)'
    <3>1. /\ inflight # <<>> /\ inflight' = Tail(inflight) /\ PutMessages({Head(inflight)}, FALSE)
          /\ UNCHANGED <<successful, pc, group>>
      BY <2>4 DEF RequeueInflight, consumerVars
    <3>2. /\ Head(inflight) \in Msgs /\ Head(inflight) \in Range(inflight)
          /\ Range(inflight') = Range(inflight) \ {Head(inflight)}
      BY <2>t, <2>d, <3>1, TailWorks
    <3>3. QED
      BY <2>3, <3>1, <3>2
  <2>5. ASSUME NEW h \in known, NEW zero \in BOOLEAN, ChangeVisibility(h, zero)
        PROVE  StateInv(g)' /\ TokenInv(g)'
    <3>1. CASE zero
      <4>1. /\ PutMessages({h[1]}, FALSE) /\ inflight' = Without(inflight, h[1])
            /\ h[1] \in Range(inflight) /\ UNCHANGED <<successful, pc, group>>
        BY <2>5, <3>1 DEF ChangeVisibility, MayChangeVisibility, consumerVars
      <4>2. Range(inflight') = Range(inflight) \ {h[1]} /\ h[1] \in Msgs
        BY <2>t, <2>r, <4>1, WithoutWorks
      <4>3. QED
        BY <2>3, <4>1, <4>2
    <3>2. CASE ~zero
      BY <2>5, <3>2, <2>u DEF ChangeVisibility, consumerVars, Got, Marked
    <3>3. QED
      BY <3>1, <3>2
  <2>6. ASSUME NEW h \in known, Remove(h) PROVE StateInv(g)' /\ TokenInv(g)'
    <3>1. PICK m \in Msgs : m = h[1]
      BY <2>t DEF Handles
    <3>2. /\ UpdateGroup(GroupOf[m], Range(inflight) \ {m}) /\ inflight' = Without(inflight, m)
          /\ m \in leased /\ h \in receipts /\ h[2] = receive_count[m]
          /\ UNCHANGED <<visible, successful, pc, group>>
      BY <2>6, <3>1 DEF Remove, HandleExpired, Acknowledges, Quiet, consumerVars
    <3>3. Range(inflight') = Range(inflight) \ {m}
      BY <2>t, <3>2, WithoutWorks
    <3>4. Heap(g)' = Heap(g) /\ (Got(g)' => Got(g)) /\ (Marked(g)' => Marked(g))
      BY <3>2 DEF Heap, Got, Marked
    <3>5. CASE GroupOf[m] # g
      <4>1. queued'[g] = queued[g] /\ (g \in inflight_groups' <=> g \in inflight_groups)
        BY <2>t, <3>2, <3>5 DEF UpdateGroup
      <4>2. Working(g)' = Working(g)
        BY <3>2, <3>3, <3>5 DEF Working
      <4>3. QED
        BY <2>i, <3>2, <3>4, <4>1, <4>2, SameState
    <3>6. CASE GroupOf[m] = g
      <4>1. \A c \in Consumers : m \notin InHands(c)
        <5>1. receive_count[m] \in Nat
          BY DEF TypeInv, TypeOK, MessageTypeOK
        <5>2. \A c \in Consumers : m \in InHands(c) => h[2] < receive_count[m]
          BY <3>1 DEF HandleInv
        <5>3. QED
          BY <3>2, <5>1, <5>2
      <4>2. m \in Range(inflight)
        <5>1. m \in Sent /\ m \notin visible \cup delayed
          BY <3>2 DEF LeaseInv
        <5>2. m \notin deleted
          BY <3>1, <3>2 DEF DeletedInv
        <5>3. m \notin dlq
          BY <2>m, <3>6 DEF Unmoved
        <5>4. m \in Collections
          BY <4>1, <5>1, <5>2, <5>3 DEF PlaceInv, AccountedInv, QuietInv
        <5>5. QED
          BY <5>1, <5>4 DEF Collections
      <4>3. m \in Working(g)
        BY <3>6, <4>2 DEF Working
      <4>4. Working(g)' = Working(g) \ {m}
        BY <3>2, <3>3, <4>1 DEF Working, InHands
      <4>5. g \in inflight_groups /\ ~\E n \in Range(inflight) \ {m} : GroupOf[n] = g
        <5>1. g \in inflight_groups
          BY <2>i, <4>3 DEF StateInv
        <5>2. ASSUME NEW n \in Range(inflight), GroupOf[n] = g PROVE n = m
          <6>1. n \in Working(g)
            BY <2>r, <5>2 DEF Working
          <6>2. QED
            BY <2>i, <4>3, <6>1 DEF TokenInv
        <5>3. QED
          BY <5>1, <5>2
      <4>6. /\ g \notin inflight_groups'
            /\ queued'[g] = IF Heap(g)' # {} THEN queued[g] + 1 ELSE queued[g]
        BY <2>t, <3>2, <3>4, <3>6, <4>5 DEF UpdateGroup
      <4>7. QED
        BY <2>i, <3>2, <3>4, <4>3, <4>4, <4>6, Released
    <3>7. QED
      BY <3>5, <3>6
  <2>7. ASSUME NEW c \in Consumers, NEW m \in Msgs, ForwardDead(c, m)
        PROVE  StateInv(g)' /\ TokenInv(g)'
    <3>1. /\ UpdateGroup(GroupOf[m], Range(inflight)) /\ dlq' = dlq \cup {m}
          /\ UNCHANGED <<visible, inflight, successful, pc, group>>
      BY <2>7 DEF ForwardDead
    <3>2. GroupOf[m] # g
      BY <3>1 DEF Unmoved
    <3>3. queued'[g] = queued[g] /\ (g \in inflight_groups' <=> g \in inflight_groups)
      BY <2>t, <3>1, <3>2 DEF UpdateGroup
    <3>4. /\ Heap(g)' = Heap(g) /\ (Got(g)' => Got(g)) /\ (Marked(g)' => Marked(g))
          /\ Working(g)' = Working(g)
      BY <3>1 DEF Heap, Got, Marked, Working
    <3>5. QED
      BY <2>i, <3>1, <3>3, <3>4, SameState
  <2>8. ASSUME NEW c \in Consumers, NEW k \in Groups, GetGroup(c, k)
        PROVE  StateInv(g)' /\ TokenInv(g)'
    <3>1. /\ pc[c] = "get" /\ queued[k] > 0 /\ queued' = [queued EXCEPT ![k] = @ - 1]
          /\ group' = [group EXCEPT ![c] = k] /\ pc' = [pc EXCEPT ![c] = "got"]
          /\ UNCHANGED <<visible, inflight_groups, inflight, successful>>
      BY <2>8 DEF GetGroup, InQueue
    <3>2. /\ pc'[c] = "got" /\ group'[c] = k
          /\ \A d \in Consumers \ {c} : pc'[d] = pc[d] /\ group'[d] = group[d]
      BY <2>t, <3>1
    <3>3. /\ Heap(g)' = Heap(g) /\ Working(g)' = Working(g)
      BY <3>1 DEF Heap, Working
    <3>4. Marked(g)' => Marked(g)
      BY <3>1, <3>2 DEF Marked
    <3>5. CASE k # g
      <4>1. queued'[g] = queued[g]
        BY <2>t, <3>1, <3>5
      <4>2. (Got(g)' => Got(g)) /\ \A d \in Consumers : group'[d] = g => group[d] = g
        BY <3>2, <3>5 DEF Got
      <4>3. QED
        BY <2>i, <3>1, <3>3, <3>4, <4>1, <4>2, SameState
    <3>6. CASE k = g
      <4>1. queued[g] = 1 /\ queued'[g] = 0
        BY <2>i, <2>t, <3>1, <3>6 DEF TokenInv
      <4>2. Heap(g) # {} /\ g \notin inflight_groups /\ Working(g) = {} /\ ~Marked(g)
        BY <2>i, <4>1 DEF StateInv
      <4>3. \A d \in Consumers : group[d] # g
        BY <2>i, <4>1 DEF TokenInv
      <4>4. StateInv(g)'
        BY <3>1, <3>3, <3>4, <4>2 DEF StateInv
      <4>5. TokenInv(g)'
        BY <3>2, <3>3, <4>1, <4>2, <4>3 DEF TokenInv
      <4>6. QED
        BY <4>4, <4>5
    <3>7. QED
      BY <3>5, <3>6
  <2>9. ASSUME NEW c \in Consumers, MarkGroup(c) PROVE StateInv(g)' /\ TokenInv(g)'
    <3>1. PICK k \in Groups : k = group[c] /\ pc[c] = "full"
      BY <2>9, <2>g DEF MarkGroup, QuietInv
    <3>2. /\ UNCHANGED <<visible, queued, inflight, successful, group>>
          /\ inflight_groups' = inflight_groups \cup {k} /\ pc' = [pc EXCEPT ![c] = "marked"]
      BY <2>9, <3>1 DEF MarkGroup
    <3>3. Heap(g)' = Heap(g) /\ Working(g)' = Working(g)
      BY <3>2 DEF Heap, Working
    <3>4. pc'[c] = "marked" /\ \A d \in Consumers \ {c} : pc'[d] = pc[d]
      BY <2>t, <3>2
    <3>5. Got(g)' => Got(g)
      BY <3>2, <3>4 DEF Got
    <3>6. CASE k # g
      <4>1. Marked(g)' => Marked(g)
        BY <3>1, <3>2, <3>4, <3>6 DEF Marked
      <4>2. g \in inflight_groups' <=> g \in inflight_groups
        BY <3>2, <3>6
      <4>3. QED
        BY <2>i, <3>2, <3>3, <3>5, <4>1, <4>2, SameState
    <3>7. CASE k = g
      <4>1. queued[g] = 0 /\ \A d \in Consumers : group[d] = g => d = c
        BY <2>i, <3>1, <3>7 DEF TokenInv
      <4>2. ~Got(g)'
        BY <3>2, <3>4, <4>1 DEF Got
      <4>3. StateInv(g)'
        BY <3>2, <3>7, <4>1, <4>2 DEF StateInv
      <4>4. TokenInv(g)'
        BY <2>i, <3>2, <3>3 DEF TokenInv
      <4>5. QED
        BY <4>3, <4>4
    <3>8. QED
      BY <3>6, <3>7
  <2>17. ASSUME NEW c \in Consumers, CheckGroup(c) PROVE StateInv(g)' /\ TokenInv(g)'
    <3>1. /\ UNCHANGED <<visible, queued, inflight_groups, inflight, successful>>
          /\ pc[c] = "got"
          /\ \/ group' = [group EXCEPT ![c] = NoGroup] /\ pc' = [pc EXCEPT ![c] = "get"]
             \/ group' = group /\ pc' = [pc EXCEPT ![c] = "full"]
      BY <2>17 DEF CheckGroup, QuietInv, queueVars
    <3>2. /\ \A d \in Consumers \ {c} : pc'[d] = pc[d] /\ group'[d] = group[d]
          /\ \A d \in Consumers : group'[d] = g => group[d] = g
          /\ pc'[c] \in {"get", "full"}
      BY <2>t, <3>1
    <3>3. (Got(g)' => Got(g)) /\ (Marked(g)' => Marked(g))
      BY <3>1, <3>2 DEF Got, Marked
    <3>4. Heap(g)' = Heap(g) /\ Working(g)' = Working(g)
      BY <3>1 DEF Heap, Working
    <3>5. QED
      BY <2>i, <3>1, <3>2, <3>3, <3>4, SameState
  <2>10. ASSUME NEW c \in Consumers, PopGroup(c) PROVE StateInv(g)' /\ TokenInv(g)'
    <3> DEFINE taken == Popped(c) \ deleted
               spent == {m \in taken : Exhausted(m)}
               found == taken \ spent
    <3>1. PICK k \in Groups : k = group[c] /\ pc[c] = "marked" /\ HeapOf(c) = Heap(k)
      BY <2>10, <2>g DEF PopGroup, QuietInv, HeapOf
    <3>2. /\ visible' = visible \ Popped(c) /\ group' = [group EXCEPT ![c] = NoGroup]
          /\ \E p \in {"settle", "get"} : pc' = [pc EXCEPT ![c] = p]
          /\ UNCHANGED <<queued, inflight_groups, inflight>>
      BY <2>10, <3>1 DEF PopGroup
    <3>3. /\ pc'[c] \in {"settle", "get"} /\ group'[c] = NoGroup
          /\ \A d \in Consumers \ {c} : pc'[d] = pc[d] /\ group'[d] = group[d]
      BY <2>t, <3>2
    <3>4. (Got(g)' => Got(g)) /\ (Marked(g)' => Marked(g))
      BY <3>3 DEF Got, Marked
    <3>5. /\ Range(successful'[c]) = Range(successful[c]) \cup found
          /\ \A d \in Consumers \ {c} : successful'[d] = successful[d]
      BY <2>10, PopWorks
    <3>6. Popped(c) \subseteq Heap(k) /\ found \subseteq Heap(k) /\ found = Popped(c) \cap Live(c)
      BY <3>1 DEF Popped, Live
    <3> HIDE DEF taken, spent, found
    <3>7. \A m \in Heap(k) : GroupOf[m] = k
      BY DEF Heap
    <3>8. Working(g)' = Working(g) \cup {m \in found : GroupOf[m] = g}
      <4>1. found \subseteq Msgs
        BY <2>t, <3>6 DEF Heap
      <4>2. \A m \in Msgs : (\E d \in Consumers : m \in Range(successful'[d]))
                            <=> (m \in found \/ \E d \in Consumers : m \in Range(successful[d]))
        BY <3>5
      <4>3. QED
        BY <3>2, <4>1, <4>2 DEF Working
    <3>9. CASE k # g
      <4>1. Heap(g)' = Heap(g)
        BY <3>2, <3>6, <3>7, <3>9 DEF Heap
      <4>2. Working(g)' = Working(g)
        BY <3>6, <3>7, <3>8, <3>9
      <4>3. \A d \in Consumers : group'[d] = g => group[d] = g
        BY <3>3
      <4>4. QED
        BY <2>i, <3>2, <3>4, <4>1, <4>2, <4>3, SameState
    <3>10. CASE k = g
      <4>1. Marked(g) /\ g \in inflight_groups /\ ~Got(g)
        BY <2>i, <3>1, <3>10 DEF Marked, StateInv
      <4>2. /\ queued[g] = 0 /\ Working(g) = {} /\ \A d \in Consumers : group[d] = g => d = c
        BY <2>i, <3>1, <3>10 DEF TokenInv
      <4>3. \A d \in Consumers : group'[d] # g
        BY <3>3, <4>2
      <4>4. \A m, n \in found : m = n
        <5>1. num[c] = 1 /\ Len(successful[c]) \in Nat /\ Len(successful[c]) < num[c]
          <6>1. num[c] \in 1..1 /\ successful[c] \in Seq(Msgs)
            BY DEF TypeInv, TypeOK, ConsumerTypeOK
          <6>2. QED
            BY <3>1, <6>1, LenProperties DEF RoomInv
        <5>2. Room(c) = 1
          BY <5>1 DEF Room
        <5>3. IsFiniteSet(found) /\ Cardinality(found) <= 1
          BY <3>6, <5>1, <5>2, PopsFew
        <5>4. SUFFICES ASSUME NEW m \in found, NEW n \in found, m # n PROVE FALSE
          OBVIOUS
        <5>5. IsFiniteSet(found \ {m}) /\ Cardinality(found \ {m}) = Cardinality(found) - 1
          BY <5>3, FS_RemoveElement
        <5>6. Cardinality(found \ {m}) \in Nat /\ Cardinality(found) \in Nat
          BY <5>3, <5>5, FS_CardinalityType
        <5>7. Cardinality(found \ {m}) = 0
          BY <5>3, <5>5, <5>6
        <5>8. found \ {m} = {}
          BY <5>5, <5>7, FS_EmptySet
        <5>9. QED
          BY <5>4, <5>8
      <4>5. StateInv(g)'
        BY <3>2, <3>4, <4>1, <4>2 DEF StateInv
      <4>6. TokenInv(g)'
        BY <3>2, <3>8, <4>2, <4>3, <4>4 DEF TokenInv
      <4>7. QED
        BY <4>5, <4>6
    <3>11. QED
      BY <3>9, <3>10
  <2>11. ASSUME NEW c \in Consumers, Settle(c) PROVE StateInv(g)' /\ TokenInv(g)'
    <3> DEFINE ms == Range(successful[c])
    <3>1. /\ pc[c] = "settle" /\ pc' = [pc EXCEPT ![c] = "provider"]
          /\ successful' = [successful EXCEPT ![c] = <<>>] /\ group' = group
          /\ PutMessages(ms \cap zeroTimeout, FALSE)
      BY <2>11 DEF Settle
    <3>2. Range(inflight') = Range(inflight) \cup (ms \ zeroTimeout) /\ ms \subseteq Msgs
      BY <2>11, SettleWorks
    <3>3. /\ pc'[c] = "provider" /\ \A d \in Consumers \ {c} : pc'[d] = pc[d]
          /\ successful'[c] = <<>> /\ \A d \in Consumers \ {c} : successful'[d] = successful[d]
      BY <2>t, <3>1
    <3>4. (Got(g)' => Got(g)) /\ (Marked(g)' => Marked(g))
      BY <3>1, <3>3 DEF Got, Marked
    <3>5. \A m \in ms \cap zeroTimeout : GroupOf[m] = g => m \in Working(g)
      BY <3>2 DEF Working
    <3>6. ms \cap Range(inflight) = {} /\ \A d \in Consumers \ {c} : ms \cap Range(successful[d]) = {}
      <4>1. ms \subseteq InHands(c) /\ \A d \in Consumers : Range(successful[d]) \subseteq InHands(d)
        BY DEF InHands
      <4>2. QED
        BY <2>p, <4>1 DEF PlacesInv, Collections
    <3>7. Range(<<>>) = {}
      BY DEF Range
    <3>8. \A m : m \in Range(successful'[c]) <=> FALSE
      BY <3>3, <3>7
    <3>9. \A m \in Msgs : (m \in Range(inflight') \/ \E d \in Consumers : m \in Range(successful'[d]))
                    <=> /\ m \in Range(inflight) \/ \E d \in Consumers : m \in Range(successful[d])
                        /\ m \notin ms \cap zeroTimeout
      <4>1. \A m \in Msgs : (\E d \in Consumers : m \in Range(successful'[d]))
                            <=> \E d \in Consumers \ {c} : m \in Range(successful[d])
        BY <3>3, <3>8
      <4>2. \A m \in Msgs : (\E d \in Consumers : m \in Range(successful[d]))
                            <=> m \in ms \/ \E d \in Consumers \ {c} : m \in Range(successful[d])
        OBVIOUS
      <4> HIDE DEF ms
      <4>3. QED
        BY <3>2, <3>6, <4>1, <4>2
    <3>10. Working(g)' = Working(g) \ (ms \cap zeroTimeout)
      BY <3>9 DEF Working
    <3> HIDE DEF ms
    <3>11. QED
      BY <2>i, <3>1, <3>2, <3>4, <3>5, <3>10, Returned
  <2>12. ASSUME NEW c \in Consumers,
                \/ \E n \in 1..MaxNum, zero \in BOOLEAN : ReceiveStart(c, n, zero)
                \/ GetEmpty(c) \/ FindDlq(c) \/ Respond(c)
         PROVE  StateInv(g)' /\ TokenInv(g)'
    <3>1. /\ UNCHANGED <<visible, queued, inflight_groups, inflight, successful, group>>
          /\ \E p \in {"get", "settle", "forward", "idle"} : pc' = [pc EXCEPT ![c] = p]
      BY <2>12 DEF ReceiveStart, GetEmpty, FindDlq, Respond, queueVars
    <3>2. pc'[c] \notin {"got", "full", "marked"} /\ \A d \in Consumers \ {c} : pc'[d] = pc[d]
      BY <2>t, <3>1
    <3>3. (Got(g)' => Got(g)) /\ (Marked(g)' => Marked(g))
      BY <3>1, <3>2 DEF Got, Marked
    <3>4. QED
      BY <2>u, <3>1, <3>3
  <2>13. ASSUME \/ \E m \in Msgs : Stamp(m) \/ DeadlinePasses(m) \/ DelayPasses(m)
                \/ DeleteQueue \/ UNCHANGED vars
         PROVE  StateInv(g)' /\ TokenInv(g)'
    BY <2>13, <2>u DEF Stamp, DeadlinePasses, DelayPasses, DeleteQueue, vars, queueVars, consumerVars, Got,
                       Marked
  <2>14. ASSUME NEW c \in Consumers, QuietReceive(c) PROVE StateInv(g)' /\ TokenInv(g)'
    BY <2>7, <2>8, <2>9, <2>10, <2>11, <2>12, <2>14, <2>17, Zenon DEF QuietReceive
  <2>15. CASE QuietNext
    BY <2>1, <2>2, <2>4, <2>5, <2>6, <2>12, <2>13, <2>14, <2>15, Zenon DEF QuietNext
  <2>16. QED
    BY <2>q, <2>13, <2>15
<1>3. Spec => []QuietInv
  BY QuietInvHolds
<1>4. Spec => []LeaseInv
  BY LeaseInvHolds
<1>5. Spec => []HandleInv
  BY HandleInvHolds
<1>6. Spec => []DeletedInv
  BY DeletedInvHolds
<1>7. Spec => []RoomInv
  BY RoomInvHolds
<1>8. QED
  BY <1>1, <1>2, <1>3, <1>4, <1>5, <1>6, <1>7, TypeInvHolds, PlaceInvHolds, PTL DEF Spec

\* Messages received one by one: while a message of a group is with a receive call, or in
\* flight with its visibility timeout running, no receive call takes another message of the
\* group, until a dead letter of the group is moved.  For any number of groups, messages and
\* receive calls, with or without a delay and a redrive policy.
THEOREM ReceivesExclusive ==
    ASSUME Quiet, MaxNum = 1
    PROVE  Spec => ExclusiveReceive
<1> DEFINE Exclusive ==
               \A c \in Consumers : \A m \in Range(successful'[c]) \ Range(successful[c]) :
                   \/ Processing(GroupOf[m]) \subseteq Range(successful[c])
                   \/ \E n \in dlq : GroupOf[n] = GroupOf[m]
<1>1. TypeInv /\ QuietInv /\ OneUserInv /\ [Next]_vars => [Exclusive]_vars
  <2> SUFFICES ASSUME TypeInv, QuietInv, OneUserInv, [QuietNext]_vars, NEW c \in Consumers,
                      NEW m \in Range(successful'[c]) \ Range(successful[c]),
                      \A n \in dlq : GroupOf[n] # GroupOf[m]
               PROVE  Processing(GroupOf[m]) \subseteq Range(successful[c])
    BY QuietStep
  <2>t. successful \in [Consumers -> Seq(Msgs)] /\ inflight \in Seq(Msgs)
    BY DEF TypeInv, TypeOK, QueueTypeOK, ConsumerTypeOK
  <2>1. PopGroup(c)
    <3>1. ASSUME NEW d \in Consumers, Settle(d) PROVE FALSE
      <4>1. Range(<<>>) = {} /\ successful' = [successful EXCEPT ![d] = <<>>]
        BY <3>1 DEF Settle, Range
      <4>2. QED
        BY <2>t, <4>1
    <3>2. ASSUME NEW d \in Consumers, PopGroup(d) PROVE d = c
      BY <3>2, PopWorks
    <3>3. ASSUME UNCHANGED successful PROVE FALSE
      BY <3>3
    <3>4. ASSUME NEW d \in Consumers,
                 \/ \E n \in 1..MaxNum, zero \in BOOLEAN : ReceiveStart(d, n, zero)
                 \/ \E g \in Groups : GetGroup(d, g)
                 \/ \E n \in Msgs : ForwardDead(d, n)
                 \/ GetEmpty(d) \/ CheckGroup(d) \/ MarkGroup(d) \/ FindDlq(d) \/ Respond(d)
          PROVE  FALSE
      BY <3>3, <3>4 DEF ReceiveStart, GetGroup, ForwardDead, GetEmpty, CheckGroup, MarkGroup, FindDlq,
                        Respond
    <3>5. ASSUME \/ \E n \in Msgs : Stamp(n) \/ Push(n) \/ DeadlinePasses(n) \/ DelayPasses(n)
                 \/ \E h \in known : Remove(h) \/ \E zero \in BOOLEAN : ChangeVisibility(h, zero)
                 \/ DeleteQueue \/ RequeueInflight \/ EnqueueDelayed \/ UNCHANGED vars
          PROVE  FALSE
      BY <3>3, <3>5 DEF Stamp, Push, DeadlinePasses, DelayPasses, Remove, ChangeVisibility, DeleteQueue,
                        RequeueInflight, EnqueueDelayed, vars, consumerVars
    <3>6. ASSUME NEW d \in Consumers, QuietReceive(d) PROVE PopGroup(c)
      BY <3>1, <3>2, <3>4, <3>6, Zenon DEF QuietReceive
    <3>7. CASE QuietNext
      BY <3>4, <3>5, <3>6, <3>7, Zenon DEF QuietNext
    <3>8. QED
      BY <3>5, <3>7
  <2>2. PICK g \in Groups : g = group[c] /\ HeapOf(c) = Heap(g)
    BY <2>1 DEF PopGroup, QuietInv, HeapOf, TypeInv, GroupInv
  <2>3. GroupOf[m] = g
    <3>1. m \in Popped(c)
      BY <2>1, PopWorks
    <3>2. QED
      BY <2>2, <3>1 DEF Popped, Heap
  <2>4. Working(g) = {}
    BY <2>2, <2>3 DEF OneUserInv, Unmoved, TokenInv
  <2>5. Range(inflight) \subseteq Msgs /\ \A d \in Consumers : Range(successful[d]) \subseteq Msgs
    BY <2>t, RangeType
  <2>6. Processing(g) \subseteq Working(g)
    BY <2>5 DEF Processing, Working
  <2>7. QED
    BY <2>3, <2>4, <2>6
<1>2. Spec => []QuietInv
  BY QuietInvHolds
<1>3. Spec => []OneUserInv
  BY OneUserInvHolds
<1>4. ExclusiveReceive <=> [][Exclusive]_vars
  BY DEF ExclusiveReceive
<1>5. QED
  BY <1>1, <1>2, <1>3, <1>4, TypeInvHolds, PTL DEF Spec

-----------------------------------------------------------------------------
(* Groups stay receivable *)

\* Putting messages into their heaps makes their groups receivable, except for fresh
\* messages of a group in flight.
LEMMA PutSurfaces ==
    ASSUME TypeInv, SurfacedInv, NEW S \in SUBSET Msgs, NEW fresh \in BOOLEAN,
           PutMessages(S, fresh), \A g \in Groups : Got(g) => Got(g)'
    PROVE  /\ SurfacedInv'
           /\ \A g \in Groups : Heap(g) # {} => Heap(g)' # {}
           /\ inflight_groups' \subseteq inflight_groups
           /\ ~fresh => \A m \in S : GroupOf[m] \notin inflight_groups'
<1> USE GroupsAssumption
<1> DEFINE surfacing == {g \in {GroupOf[m] : m \in S} : Surfaces(g, fresh)}
<1>1. /\ visible' = visible \cup S /\ inflight_groups' = inflight_groups \ surfacing
      /\ queued' = [g \in Groups |-> IF g \in surfacing THEN queued[g] + 1 ELSE queued[g]]
  BY DEF PutMessages
<1>2. queued \in [Groups -> Nat] /\ \A m \in S : GroupOf[m] \in Groups
  BY DEF TypeInv, TypeOK, QueueTypeOK
<1>3. \A g \in Groups : Heap(g) \subseteq Heap(g)'
  BY <1>1 DEF Heap
<1>4. ASSUME NEW g \in Groups, Heap(g)' # {}
      PROVE  queued'[g] > 0 \/ g \in inflight_groups' \/ Got(g)'
  <2>1. CASE g \in surfacing
    BY <1>1, <1>2, <2>1
  <2>2. CASE g \notin surfacing
    <3>1. Heap(g) # {} \/ g \in inflight_groups
      <4>1. CASE \E m \in S : GroupOf[m] = g
        BY <2>2, <4>1 DEF Surfaces
      <4>2. CASE \A m \in S : GroupOf[m] # g
        BY <1>1, <1>4, <4>2 DEF Heap
      <4>3. QED
        BY <4>1, <4>2
    <3>2. queued'[g] = queued[g] /\ (g \in inflight_groups => g \in inflight_groups')
      BY <1>1, <2>2
    <3>3. QED
      BY <3>1, <3>2 DEF SurfacedInv
  <2>3. QED
    BY <2>1, <2>2
<1>5. ASSUME ~fresh, NEW m \in S PROVE GroupOf[m] \notin inflight_groups'
  BY <1>1, <1>5 DEF Surfaces
<1>6. SurfacedInv'
  BY <1>4 DEF SurfacedInv
<1>7. QED
  BY <1>1, <1>3, <1>5, <1>6

\* When nothing of a group is left in flight, the group becomes receivable.
LEMMA UpdateSurfaces ==
    ASSUME TypeInv, SurfacedInv, NEW h \in Groups, NEW left, UpdateGroup(h, left),
           UNCHANGED <<visible, pc, group>>
    PROVE  /\ SurfacedInv'
           /\ inflight_groups' \subseteq inflight_groups
           /\ h \in inflight_groups' => \E m \in left : GroupOf[m] = h
<1>1. queued \in [Groups -> Nat]
  BY DEF TypeInv, TypeOK, QueueTypeOK
<1>2. \A g \in Groups : Heap(g)' = Heap(g) /\ (Got(g)' <=> Got(g))
  BY DEF Heap, Got
<1>3. CASE h \in inflight_groups /\ ~\E m \in left : GroupOf[m] = h
  <2>1. /\ inflight_groups' = inflight_groups \ {h}
        /\ queued' = IF Heap(h) # {} THEN [queued EXCEPT ![h] = @ + 1] ELSE queued
    BY <1>3 DEF UpdateGroup
  <2>2. ASSUME NEW g \in Groups, Heap(g) # {}
        PROVE  queued'[g] > 0 \/ g \in inflight_groups' \/ Got(g)
    <3>1. queued[g] > 0 \/ g \in inflight_groups \/ Got(g)
      BY <2>2 DEF SurfacedInv
    <3>2. CASE g = h
      BY <1>1, <2>1, <2>2, <3>2
    <3>3. CASE g # h
      BY <1>1, <2>1, <3>1, <3>3
    <3>4. QED
      BY <3>2, <3>3
  <2>3. QED
    BY <1>2, <2>1, <2>2 DEF SurfacedInv
<1>4. CASE ~(h \in inflight_groups /\ ~\E m \in left : GroupOf[m] = h)
  <2>1. UNCHANGED <<inflight_groups, queued>>
    BY <1>4 DEF UpdateGroup
  <2>2. QED
    BY <1>2, <1>4, <2>1 DEF SurfacedInv
<1>5. QED
  BY <1>3, <1>4

\* A group with receivable messages is queued, taken or in flight, and a group in flight has
\* somebody who will end that.
LEMMA GroupsInvHolds ==
    ASSUME Quiet, MaxNum = 1
    PROVE  Spec => []GroupsInv
<1> USE GroupsAssumption, CountsAssumption
<1>1. Init => GroupsInv
  BY DEF Init, GroupsInv, SurfacedInv, CoveredInv, Heap
<1>2. /\ TypeInv /\ PlaceInv /\ QuietInv /\ DeletedInv /\ RoomInv /\ OneUserInv /\ GroupsInv
      /\ [Next]_vars
      => GroupsInv'
  <2> SUFFICES ASSUME TypeInv, PlaceInv, QuietInv, DeletedInv, RoomInv, OneUserInv, GroupsInv,
                      [Next]_vars
               PROVE  GroupsInv'
    OBVIOUS
  <2>q. [QuietNext]_vars
    BY QuietStep
  <2>v. \A k \in Groups : Unmoved(k)' => Unmoved(k)
    BY <2>q, DlqGrows DEF Unmoved
  <2>s. SurfacedInv
    BY DEF GroupsInv
  <2>c. CoveredInv
    BY DEF GroupsInv
  <2>p. PlacesInv
    BY DEF PlaceInv
  <2>d. Distinct(inflight)
    BY DEF PlaceInv, SequencesInv
  <2>t. /\ pc \in [Consumers -> {"idle", "get", "got", "full", "marked", "got_stale", "full_stale",
                                 "marked_stale", "settle", "provider", "forward"}]
        /\ group \in [Consumers -> Groups \cup {NoGroup}] /\ dead \in [Consumers -> SUBSET Msgs]
        /\ successful \in [Consumers -> Seq(Msgs)] /\ inflight \in Seq(Msgs)
        /\ queued \in [Groups -> Nat] /\ inflight_groups \subseteq Groups /\ visible \subseteq Msgs
    BY DEF TypeInv, TypeOK, QueueTypeOK, ConsumerTypeOK
  <2>h. \A c \in Consumers : InHands(c) \subseteq Msgs
    BY DEF TypeInv, SentInv, Sent
  <2>g. \A c \in Consumers : pc[c] \in {"got", "full", "marked"} => group[c] \in Groups
    BY DEF TypeInv, GroupInv
  <2>u. ASSUME UNCHANGED <<visible, queued, inflight_groups, inflight, successful, dead>>,
               \A g \in Groups : (Got(g) => Got(g)') /\ (Marked(g) => Marked(g)')
        PROVE  GroupsInv'
    <3>1. \A g \in Groups : Heap(g)' = Heap(g) /\ InflightOf(g)' = InflightOf(g)
                            /\ (InSomeHands(g) => InSomeHands(g)')
      BY <2>u DEF Heap, InflightOf, InSomeHands, InHands
    <3>2. SurfacedInv'
      BY <2>s, <2>u, <3>1 DEF SurfacedInv
    <3>3. CoveredInv'
      BY <2>v, <2>c, <2>t, <2>u, <3>1 DEF CoveredInv
    <3>4. QED
      BY <3>2, <3>3 DEF GroupsInv
  \* Fresh messages reach their heaps.
  <2>1. ASSUME NEW S \in SUBSET Msgs, PutMessages(S, TRUE),
               UNCHANGED <<inflight, successful, dead, pc, group>>
        PROVE  GroupsInv'
    <3>1. \A g \in Groups : /\ (Got(g) => Got(g)') /\ (Marked(g) => Marked(g)')
                            /\ InflightOf(g)' = InflightOf(g)
                            /\ (InSomeHands(g) => InSomeHands(g)')
      BY <2>1 DEF Got, Marked, InflightOf, InSomeHands, InHands
    <3>2. /\ SurfacedInv' /\ inflight_groups' \subseteq inflight_groups
          /\ \A g \in Groups : Heap(g) # {} => Heap(g)' # {}
      BY <2>1, <2>s, <3>1, PutSurfaces
    <3>3. CoveredInv'
      BY <2>v, <2>c, <2>t, <3>1, <3>2 DEF CoveredInv
    <3>4. QED
      BY <3>2, <3>3 DEF GroupsInv
  \* A message leaves the ones in flight and returns to its heap.
  <2>2. ASSUME NEW m \in Msgs, PutMessages({m}, FALSE),
               Range(inflight') = Range(inflight) \ {m},
               UNCHANGED <<successful, dead, pc, group>>
        PROVE  GroupsInv'
    <3>1. \A g \in Groups : /\ (Got(g) => Got(g)') /\ (Marked(g) => Marked(g)')
                            /\ (InSomeHands(g) => InSomeHands(g)')
      BY <2>2 DEF Got, Marked, InSomeHands, InHands
    <3>2. /\ SurfacedInv' /\ inflight_groups' \subseteq inflight_groups
          /\ \A g \in Groups : Heap(g) # {} => Heap(g)' # {}
          /\ GroupOf[m] \notin inflight_groups'
      BY <2>2, <2>s, <3>1, PutSurfaces
    <3>3. \A g \in Groups : g # GroupOf[m] => InflightOf(g)' = InflightOf(g)
      BY <2>2 DEF InflightOf
    <3>4. CoveredInv'
      BY <2>v, <2>c, <2>t, <3>1, <3>2, <3>3 DEF CoveredInv
    <3>5. QED
      BY <3>2, <3>4 DEF GroupsInv
  \* A message leaves the ones in flight, or a dead letter the call that popped it, and its
  \* group is looked at.
  <2>3. ASSUME NEW m \in Msgs, UpdateGroup(GroupOf[m], Range(inflight')),
               Range(inflight) \ {m} \subseteq Range(inflight'),
               \A c \in Consumers : InHands(c) \ {m} \subseteq InHands(c)',
               UNCHANGED <<visible, pc, group>>
        PROVE  GroupsInv'
    <3>1. GroupOf[m] \in Groups
      OBVIOUS
    <3>2. /\ SurfacedInv' /\ inflight_groups' \subseteq inflight_groups
          /\ GroupOf[m] \in inflight_groups' => \E n \in Range(inflight') : GroupOf[n] = GroupOf[m]
      BY <2>3, <2>s, <3>1, UpdateSurfaces
    <3>3. \A g \in Groups : /\ Heap(g)' = Heap(g) /\ (Marked(g) => Marked(g)')
      BY <2>3 DEF Heap, Marked
    <3>4. \A g \in Groups : g # GroupOf[m] => /\ (InflightOf(g) # {} => InflightOf(g)' # {})
                                              /\ (InSomeHands(g) => InSomeHands(g)')
      BY <2>3 DEF InflightOf, InSomeHands
    <3>5. GroupOf[m] \in inflight_groups' => InflightOf(GroupOf[m])' # {}
      BY <3>2 DEF InflightOf
    <3>6. CoveredInv'
      BY <2>v, <2>c, <2>t, <3>2, <3>3, <3>4, <3>5 DEF CoveredInv
    <3>7. QED
      BY <3>2, <3>6 DEF GroupsInv
  <2>4. ASSUME NEW m \in Msgs, Push(m) PROVE GroupsInv'
    <3>1. CASE m \in delaying
      BY <2>4, <3>1, <2>u DEF Push, consumerVars, Got, Marked
    <3>2. CASE m \notin delaying
      BY <2>4, <3>2, <2>1 DEF Push, consumerVars
    <3>3. QED
      BY <3>1, <3>2
  <2>5. ASSUME EnqueueDelayed PROVE GroupsInv'
    <3>1. delayed \ delaying \in SUBSET Msgs
      BY DEF TypeInv, TypeOK, QueueTypeOK
    <3>2. QED
      BY <2>5, <2>1, <3>1 DEF EnqueueDelayed, consumerVars
  <2>6. ASSUME RequeueInflight PROVE GroupsInv'
    <3>1. /\ inflight # <<>> /\ inflight' = Tail(inflight) /\ PutMessages({Head(inflight)}, FALSE)
          /\ UNCHANGED <<successful, dead, pc, group>>
      BY <2>6 DEF RequeueInflight, consumerVars
    <3>2. Head(inflight) \in Msgs /\ Range(inflight') = Range(inflight) \ {Head(inflight)}
      BY <2>t, <2>d, <3>1, TailWorks
    <3>3. QED
      BY <2>2, <3>1, <3>2
  <2>7. ASSUME NEW h \in known, NEW zero \in BOOLEAN, ChangeVisibility(h, zero) PROVE GroupsInv'
    <3>1. h[1] \in Msgs
      BY DEF TypeInv, TypeOK, WorldTypeOK, Handles
    <3>2. CASE zero
      <4>1. /\ PutMessages({h[1]}, FALSE) /\ inflight' = Without(inflight, h[1])
            /\ UNCHANGED <<successful, dead, pc, group>>
        BY <2>7, <3>2 DEF ChangeVisibility, consumerVars
      <4>2. Range(inflight') = Range(inflight) \ {h[1]}
        BY <2>t, <4>1, WithoutWorks
      <4>3. QED
        BY <2>2, <3>1, <4>1, <4>2
    <3>3. CASE ~zero
      BY <2>7, <3>3, <2>u DEF ChangeVisibility, consumerVars, Got, Marked
    <3>4. QED
      BY <3>2, <3>3
  <2>8. ASSUME NEW h \in known, Remove(h) PROVE GroupsInv'
    <3>1. /\ UpdateGroup(GroupOf[h[1]], Range(inflight) \ {h[1]})
          /\ inflight' = Without(inflight, h[1])
          /\ UNCHANGED <<visible, pc, group, successful, dead>>
      BY <2>8 DEF Remove, consumerVars
    <3>2. h[1] \in Msgs
      BY DEF TypeInv, TypeOK, WorldTypeOK, Handles
    <3>3. Range(inflight') = Range(inflight) \ {h[1]}
      BY <2>t, <3>1, WithoutWorks
    <3>4. \A c \in Consumers : InHands(c)' = InHands(c)
      BY <3>1 DEF InHands
    <3>5. QED
      BY <2>3, <3>1, <3>2, <3>3, <3>4
  <2>9. ASSUME NEW c \in Consumers, NEW m \in Msgs, ForwardDead(c, m) PROVE GroupsInv'
    <3>1. /\ dead' = [dead EXCEPT ![c] = @ \ {m}] /\ UpdateGroup(GroupOf[m], Range(inflight))
          /\ UNCHANGED <<visible, inflight, pc, group, successful>>
      BY <2>9 DEF ForwardDead
    <3>2. \A d \in Consumers : dead[d] \ {m} \subseteq dead'[d]
      BY <2>t, <3>1
    <3>3. \A d \in Consumers : InHands(d) \ {m} \subseteq InHands(d)'
      BY <3>1, <3>2 DEF InHands
    <3>4. QED
      BY <2>3, <3>1, <3>3
  <2>10. ASSUME NEW c \in Consumers, NEW g \in Groups, GetGroup(c, g) PROVE GroupsInv'
    <3>1. /\ pc[c] = "get" /\ queued' = [queued EXCEPT ![g] = @ - 1]
          /\ group' = [group EXCEPT ![c] = g] /\ pc' = [pc EXCEPT ![c] = "got"]
          /\ UNCHANGED <<visible, inflight_groups, inflight, successful, dead>>
      BY <2>10 DEF GetGroup
    <3>2. pc'[c] = "got" /\ group'[c] = g /\ \A d \in Consumers \ {c} : pc'[d] = pc[d] /\ group'[d] = group[d]
      BY <2>t, <3>1
    <3>3. \A k \in Groups : (Got(k) => Got(k)') /\ (Marked(k) => Marked(k)')
      BY <3>1, <3>2 DEF Got, Marked
    <3>4. \A k \in Groups : Heap(k)' = Heap(k) /\ InflightOf(k)' = InflightOf(k)
                            /\ (InSomeHands(k) => InSomeHands(k)')
      BY <3>1 DEF Heap, InflightOf, InSomeHands, InHands
    <3>5. Got(g)' /\ \A k \in Groups \ {g} : queued'[k] = queued[k]
      BY <2>t, <3>1, <3>2 DEF Got
    <3>6. SurfacedInv'
      BY <2>s, <3>1, <3>3, <3>4, <3>5 DEF SurfacedInv
    <3>7. CoveredInv'
      BY <2>v, <2>c, <2>t, <3>1, <3>3, <3>4 DEF CoveredInv
    <3>8. QED
      BY <3>6, <3>7 DEF GroupsInv
  <2>11. ASSUME NEW c \in Consumers, CheckGroup(c) PROVE GroupsInv'
    <3>1. PICK g \in Groups : g = group[c] /\ pc[c] = "got" /\ HeapOf(c) = Heap(g)
      BY <2>11, <2>g DEF CheckGroup, QuietInv, HeapOf
    <3>2. UNCHANGED <<visible, queued, inflight_groups, inflight, successful, dead>>
      BY <2>11 DEF CheckGroup, queueVars
    <3>3. \A k \in Groups : Heap(k)' = Heap(k) /\ InflightOf(k)' = InflightOf(k)
                            /\ (InSomeHands(k) => InSomeHands(k)')
      BY <3>2 DEF Heap, InflightOf, InSomeHands, InHands
    <3>4. CASE Heap(g) = {}
      <4>1. group' = [group EXCEPT ![c] = NoGroup] /\ pc' = [pc EXCEPT ![c] = "get"]
        BY <2>11, <3>1, <3>4 DEF CheckGroup
      <4>2. \A d \in Consumers \ {c} : pc'[d] = pc[d] /\ group'[d] = group[d]
        BY <2>t, <4>1
      <4>3. \A k \in Groups : (Got(k) => Got(k)' \/ k = g) /\ (Marked(k) => Marked(k)')
        BY <3>1, <4>2 DEF Got, Marked
      <4>4. SurfacedInv'
        BY <2>s, <3>2, <3>3, <3>4, <4>3 DEF SurfacedInv
      <4>5. CoveredInv'
        BY <2>v, <2>c, <2>t, <3>2, <3>3, <4>3 DEF CoveredInv
      <4>6. QED
        BY <4>4, <4>5 DEF GroupsInv
    <3>5. CASE Heap(g) # {}
      <4>1. group' = group /\ pc' = [pc EXCEPT ![c] = "full"]
        BY <2>11, <3>1, <3>5 DEF CheckGroup
      <4>2. pc'[c] = "full" /\ \A d \in Consumers \ {c} : pc'[d] = pc[d]
        BY <2>t, <4>1
      <4>3. \A k \in Groups : (Got(k) => Got(k)') /\ (Marked(k) => Marked(k)')
        BY <3>1, <4>1, <4>2 DEF Got, Marked
      <4>4. QED
        BY <2>u, <3>2, <4>3
    <3>6. QED
      BY <3>4, <3>5
  \* The group that was found full has still messages: nobody else had it.
  <2>19. ASSUME NEW c \in Consumers, MarkGroup(c) PROVE GroupsInv'
    <3>1. PICK g \in Groups : g = group[c] /\ pc[c] = "full"
      BY <2>19, <2>g DEF MarkGroup, QuietInv
    <3>2. /\ UNCHANGED <<visible, queued, inflight, successful, dead>>
          /\ inflight_groups' = inflight_groups \cup {g} /\ group' = group
          /\ pc' = [pc EXCEPT ![c] = "marked"]
      BY <2>19, <3>1 DEF MarkGroup
    <3>3. \A k \in Groups : Heap(k)' = Heap(k) /\ InflightOf(k)' = InflightOf(k)
                            /\ (InSomeHands(k) => InSomeHands(k)')
      BY <3>2 DEF Heap, InflightOf, InSomeHands, InHands
    <3>4. pc'[c] = "marked" /\ \A d \in Consumers \ {c} : pc'[d] = pc[d]
      BY <2>t, <3>2
    <3>5. \A k \in Groups : (Got(k) => Got(k)' \/ k = g) /\ (Marked(k) => Marked(k)')
      BY <3>1, <3>2, <3>4 DEF Got, Marked
    <3>6. Marked(g)'
      BY <3>1, <3>2, <3>4 DEF Marked
    <3>7. Unmoved(g) => Heap(g) # {}
      BY <3>1 DEF OneUserInv, StateInv, Got
    <3>8. SurfacedInv'
      BY <2>s, <3>2, <3>3, <3>5 DEF SurfacedInv
    <3>9. CoveredInv'
      BY <2>v, <2>c, <2>t, <3>2, <3>3, <3>5, <3>6, <3>7 DEF CoveredInv
    <3>10. QED
      BY <3>8, <3>9 DEF GroupsInv
  <2>12. ASSUME NEW c \in Consumers, PopGroup(c) PROVE GroupsInv'
    <3> DEFINE taken == Popped(c) \ deleted
               spent == {m \in taken : Exhausted(m)}
    <3>1. PICK g \in Groups : g = group[c] /\ pc[c] = "marked" /\ HeapOf(c) = Heap(g)
      BY <2>12, <2>g DEF PopGroup, QuietInv, HeapOf
    <3>2. /\ visible' = visible \ Popped(c) /\ dead' = [dead EXCEPT ![c] = @ \cup spent]
          /\ group' = [group EXCEPT ![c] = NoGroup]
          /\ UNCHANGED <<queued, inflight_groups, inflight>>
      BY <2>12, <3>1 DEF PopGroup
    <3>3. \E p \in {"settle", "get"} : pc' = [pc EXCEPT ![c] = p]
      BY <2>12 DEF PopGroup
    <3>4. \A d \in Consumers \ {c} : pc'[d] = pc[d] /\ group'[d] = group[d]
      BY <2>t, <3>2, <3>3
    <3>5. \A k \in Groups : (Got(k) => Got(k)') /\ (Marked(k) => Marked(k)' \/ k = g)
      BY <3>1, <3>4 DEF Got, Marked
    <3>6. InHands(c)' = InHands(c) \cup taken /\ \A d \in Consumers \ {c} : InHands(d)' = InHands(d)
      <4>1. /\ Range(successful'[c]) = Range(successful[c]) \cup (taken \ spent)
            /\ \A d \in Consumers \ {c} : successful'[d] = successful[d]
        BY <2>12, PopWorks
      <4>2. dead'[c] = dead[c] \cup spent /\ \A d \in Consumers \ {c} : dead'[d] = dead[d]
        BY <2>t, <3>2
      <4>3. QED
        BY <4>1, <4>2 DEF InHands
    <3>7. taken = Popped(c) /\ Popped(c) \subseteq Heap(g)
      BY <3>1 DEF DeletedInv, Collections, Popped, Heap
    <3>8. Heap(g) # {} => \E m \in Heap(g) : m \in Popped(c)
      BY <3>1, PopsSome DEF RoomInv
    <3> HIDE DEF taken, spent
    <3>9. \A k \in Groups : /\ InflightOf(k)' = InflightOf(k) /\ (InSomeHands(k) => InSomeHands(k)')
                            /\ Heap(k)' \subseteq Heap(k)
                            /\ k # g => Heap(k)' = Heap(k)
      <4>1. \A k \in Groups : /\ InflightOf(k)' = InflightOf(k) /\ Heap(k)' \subseteq Heap(k)
        BY <3>2 DEF InflightOf, Heap
      <4>2. \A k \in Groups : InSomeHands(k) => InSomeHands(k)'
        BY <3>6 DEF InSomeHands
      <4>3. \A k \in Groups : k # g => Heap(k)' = Heap(k)
        BY <3>2, <3>7 DEF Heap
      <4>4. QED
        BY <4>1, <4>2, <4>3
    <3>10. ASSUME Heap(g) # {} PROVE InSomeHands(g)'
      <4>1. PICK m \in Heap(g) : m \in Popped(c)
        BY <3>8, <3>10
      <4>2. GroupOf[m] = g /\ m \in InHands(c)'
        BY <3>6, <3>7, <4>1 DEF Heap
      <4>3. QED
        BY <4>2 DEF InSomeHands
    <3>11. SurfacedInv'
      BY <2>s, <3>2, <3>5, <3>9 DEF SurfacedInv
    <3>12. CoveredInv'
      <4> SUFFICES ASSUME NEW k \in inflight_groups', Unmoved(k)'
                   PROVE  InflightOf(k)' # {} \/ InSomeHands(k)' \/ (Heap(k)' # {} /\ Marked(k)')
        BY DEF CoveredInv
      <4>1. k \in Groups /\ (InflightOf(k) # {} \/ InSomeHands(k) \/ (Heap(k) # {} /\ Marked(k)))
        BY <2>v, <2>c, <2>t, <3>2 DEF CoveredInv
      <4>2. CASE k = g
        BY <3>9, <3>10, <4>1, <4>2
      <4>3. CASE k # g
        BY <3>5, <3>9, <4>1, <4>3
      <4>4. QED
        BY <4>2, <4>3
    <3>13. QED
      BY <3>11, <3>12 DEF GroupsInv
  <2>13. ASSUME NEW c \in Consumers, Settle(c) PROVE GroupsInv'
    <3> DEFINE ms == Range(successful[c])
    <3>1. /\ pc[c] = "settle" /\ pc' = [pc EXCEPT ![c] = "provider"]
          /\ successful' = [successful EXCEPT ![c] = <<>>] /\ UNCHANGED <<dead, group>>
          /\ PutMessages(ms \cap zeroTimeout, FALSE)
      BY <2>13 DEF Settle
    <3>2. Range(inflight') = Range(inflight) \cup (ms \ zeroTimeout) /\ ms \subseteq Msgs
      BY <2>13, SettleWorks
    <3>3. \A d \in Consumers \ {c} : pc'[d] = pc[d]
      BY <2>t, <3>1
    <3>4. \A k \in Groups : (Got(k) => Got(k)') /\ (Marked(k) => Marked(k)')
      BY <3>1, <3>3 DEF Got, Marked
    <3>5. /\ SurfacedInv' /\ inflight_groups' \subseteq inflight_groups
          /\ \A k \in Groups : Heap(k) # {} => Heap(k)' # {}
          /\ \A m \in ms \cap zeroTimeout : GroupOf[m] \notin inflight_groups'
      BY <2>s, <3>1, <3>2, <3>4, PutSurfaces
    <3>6. \A d \in Consumers : \A m \in InHands(d) : m \in InHands(d)' \/ m \in ms
      BY <2>t, <3>1 DEF InHands
    <3>7. \A k \in Groups : InflightOf(k) # {} => InflightOf(k)' # {}
      BY <3>2 DEF InflightOf
    <3>8. \A k \in inflight_groups' : InSomeHands(k) => InSomeHands(k)' \/ InflightOf(k)' # {}
      BY <3>2, <3>5, <3>6 DEF InSomeHands, InflightOf
    <3> HIDE DEF ms
    <3>9. CoveredInv'
      BY <2>v, <2>c, <2>t, <3>4, <3>5, <3>7, <3>8 DEF CoveredInv
    <3>10. QED
      BY <3>5, <3>9 DEF GroupsInv
  <2>14. ASSUME NEW c \in Consumers,
                \/ \E n \in 1..MaxNum, zero \in BOOLEAN : ReceiveStart(c, n, zero)
                \/ GetEmpty(c) \/ FindDlq(c) \/ Respond(c)
         PROVE  GroupsInv'
    <3>1. /\ UNCHANGED <<visible, queued, inflight_groups, inflight, successful, dead, group>>
          /\ pc[c] \notin {"got", "full", "marked"}
          /\ \E p \in {"get", "settle", "forward", "idle"} : pc' = [pc EXCEPT ![c] = p]
      BY <2>14 DEF ReceiveStart, GetEmpty, FindDlq, Respond, queueVars
    <3>2. \A d \in Consumers \ {c} : pc'[d] = pc[d]
      BY <2>t, <3>1
    <3>3. \A k \in Groups : (Got(k) => Got(k)') /\ (Marked(k) => Marked(k)')
      BY <3>1, <3>2 DEF Got, Marked
    <3>4. QED
      BY <2>u, <3>1, <3>3
  <2>15. ASSUME \/ \E m \in Msgs : Stamp(m) \/ DeadlinePasses(m) \/ DelayPasses(m)
                \/ DeleteQueue \/ UNCHANGED vars
         PROVE  GroupsInv'
    BY <2>15, <2>u DEF Stamp, DeadlinePasses, DelayPasses, DeleteQueue, vars, queueVars, consumerVars, Got,
                       Marked
  <2>16. ASSUME NEW c \in Consumers, QuietReceive(c) PROVE GroupsInv'
    BY <2>9, <2>10, <2>11, <2>12, <2>13, <2>14, <2>16, <2>19, Zenon DEF QuietReceive
  <2>17. CASE QuietNext
    BY <2>4, <2>5, <2>6, <2>7, <2>8, <2>14, <2>15, <2>16, <2>17, Zenon DEF QuietNext
  <2>18. QED
    BY <2>q, <2>15, <2>17
<1>3. Spec => []QuietInv
  BY QuietInvHolds
<1>4. Spec => []DeletedInv
  BY DeletedInvHolds
<1>5. Spec => []RoomInv
  BY RoomInvHolds
<1>6. Spec => []OneUserInv
  BY OneUserInvHolds
<1>7. QED
  BY <1>1, <1>2, <1>3, <1>4, <1>5, <1>6, TypeInvHolds, PlaceInvHolds, PTL DEF Spec

\* A group with receivable messages never falls out of the queue while messages are received
\* one by one: it is queued, or messages of it are in flight, or a receive call is busy with
\* it, or a dead letter of it was moved.  receive looks whether the group is empty and marks
\* it without a lock, and nobody can empty it in between.  For any number of groups, messages
\* and receive calls, with or without a delay and a redrive policy, as long as nothing is
\* purged or expires, the dead letter queue exists and clients acknowledge with the latest
\* handle.
THEOREM GroupsNotStranded ==
    ASSUME Quiet, MaxNum = 1
    PROVE  Spec => []NotStranded
<1>1. TypeInv /\ GroupsInv => NotStranded
  <2>1. ASSUME TypeInv, GroupsInv, NEW g \in Groups, Heap(g) # {}
        PROVE  \/ queued[g] > 0
               \/ InflightOf(g) # {}
               \/ \E c \in Consumers : Busy(c, g)
               \/ \E n \in dlq : GroupOf[n] = g
    <3>1. Got(g) \/ Marked(g) \/ InSomeHands(g) => \E c \in Consumers : Busy(c, g)
      BY DEF Got, Marked, InSomeHands, Busy
    <3>2. Unmoved(g) \/ \E n \in dlq : GroupOf[n] = g
      BY DEF Unmoved
    <3>3. QED
      BY <2>1, <3>1, <3>2 DEF GroupsInv, SurfacedInv, CoveredInv
  <2>2. QED
    BY <2>1, Zenon DEF NotStranded
<1>2. Spec => []GroupsInv
  BY GroupsInvHolds
<1>3. QED
  BY <1>1, <1>2, TypeInvHolds, PTL
=============================================================================

------------------------- MODULE SqsStandardQueueProofs -------------------------
(***************************************************************************)
(* Proofs about SqsStandardQueue, for any number of messages, consumers    *)
(* and receives.  The inductive invariant is IInv: it adds to the          *)
(* properties what a receive call holds at each of its steps.  From it,    *)
(* and from three facts about receipt handles and dead letters (RefInv),   *)
(* follows that the queue implements MessageQueue.                         *)
(***************************************************************************)
EXTENDS SqsStandardQueue, TLAPS

\* A consumer works on a message exactly between popping it and settling it.
HandMatchesPc ==
    \A c \in Consumers : hand[c] # NoMsg <=> pc[c] \in {"popped", "handled", "receipted"}

\* The three places a call keeps messages in are disjoint.
HandsOwn ==
    \A c \in Consumers : /\ hand[c] \notin successful[c] \cup dead[c]
                         /\ successful[c] \cap dead[c] = {}

\* What has not been sent is nowhere, so a Send cannot create a second copy.
OnlySent ==
    /\ visible \cup inflight \cup delayed \cup dlq \cup leased \subseteq Sent
    /\ \A c \in Consumers : InHands(c) \subseteq Sent

\* A visibility timeout of 0 is never running, and neither is a delayed
\* message's.
NotLeased == leased \cap (visible \cup delayed \cup zeroTimeout) = {}

\* A handle is in receipts before its message is put in flight.
ReceiptedHasReceipt ==
    \A c \in Consumers :
        pc[c] = "receipted" => Handle(hand[c]) \in receipts \/ hand[c] \in deleted \cup purged

\* Messages on their way to a client were received at most maxReceiveCount
\* times, and so were those whose handles were created; dead letters more often.
WithinLimit ==
    MaxReceiveCount > 0 =>
        /\ \A c \in Consumers :
              /\ \A m \in successful[c] : receive_count[m] <= MaxReceiveCount
              /\ pc[c] \in {"handled", "receipted"} => receive_count[hand[c]] <= MaxReceiveCount
              /\ \A h \in results[c] : h[2] <= MaxReceiveCount
              /\ \A m \in dead[c] : receive_count[m] > MaxReceiveCount
        /\ \A h \in known : h[2] <= MaxReceiveCount
        /\ \A m \in dlq \cup lost : receive_count[m] > MaxReceiveCount

DeadLettersOut == dlq \cap Located = {}

TypeInv == TypeOK /\ HandMatchesPc

PlaceInv == TypeInv /\ HandsOwn /\ OnlySent /\ OnePlace

DeliveryInv == /\ NoLoss
               /\ NotLeased
               /\ InflightHasReceipt /\ ReceiptedHasReceipt
               /\ WithinLimit /\ DeadLettersOut

IInv == PlaceInv /\ DeliveryInv

-----------------------------------------------------------------------------

\* The state keeps the types models.py declares, whatever the number of messages
\* and of concurrent ReceiveMessage calls.  A call that has popped a message has
\* it in hand, so what it counts, registers and settles is a message.
THEOREM TypeCorrect == Spec => []TypeInv
<1> USE NoMsgAssumption, MaxReceiveCountAssumption, BoundsAssumption
<1>1. Init => TypeInv
  BY DEF Init, TypeInv, TypeOK, HandMatchesPc, Handles
<1>2. TypeInv /\ [Next]_vars => TypeInv'
  <2> SUFFICES ASSUME TypeInv, [Next]_vars PROVE TypeInv'
    OBVIOUS
  <2> USE DEF TypeInv, TypeOK, HandMatchesPc, queueVars, messageVars, timeVars,
              consumerVars, dlqVars, worldVars
  <2>1. ASSUME NEW m \in Msgs, Send(m) PROVE TypeInv'
    BY <2>1 DEF Send
  <2>2. ASSUME NEW c \in Consumers, NEW n \in 0..MaxNum + 1, NEW zero \in BOOLEAN, ReceiveStart(c, n, zero)
         PROVE TypeInv'
    BY <2>2 DEF ReceiveStart, ValidNum, Requested
  <2>3. ASSUME NEW c \in Consumers, NEW m \in Msgs, Get(c, m) PROVE TypeInv'
    BY <2>3 DEF Get, Oldest
  <2>4. ASSUME NEW c \in Consumers, GetEmpty(c) PROVE TypeInv'
    BY <2>4 DEF GetEmpty
  <2>5. ASSUME NEW c \in Consumers, SkipDeleted(c) PROVE TypeInv'
    BY <2>5 DEF SkipDeleted
  <2>6. ASSUME NEW c \in Consumers, Take(c) PROVE TypeInv'
    BY <2>6 DEF Take
  <2>7. ASSUME NEW c \in Consumers, NEW m \in Msgs, AddHandle(c, m) PROVE TypeInv'
    BY <2>7 DEF AddHandle, Handle, Handles
  <2>8. ASSUME NEW c \in Consumers, AddReceipt(c) PROVE TypeInv'
    BY <2>8 DEF AddReceipt, Handle, Handles
  <2>9. ASSUME NEW c \in Consumers, Settle(c) PROVE TypeInv'
    BY <2>9 DEF Settle
  <2>10. ASSUME NEW c \in Consumers, FindDlq(c) PROVE TypeInv'
    BY <2>10 DEF FindDlq
  <2>11. ASSUME NEW c \in Consumers, DlqMissing(c) PROVE TypeInv'
    BY <2>11 DEF DlqMissing
  <2>12. ASSUME NEW c \in Consumers, NEW m \in Msgs, ForwardDead(c, m) PROVE TypeInv'
    BY <2>12 DEF ForwardDead
  <2>13. ASSUME NEW c \in Consumers, Respond(c) PROVE TypeInv'
    BY <2>13 DEF Respond
  <2>14. ASSUME NEW h \in known, Remove(h) PROVE TypeInv'
    BY <2>14 DEF Remove, RemoveFromQueue, MarkDeleted, Handles
  <2>15. ASSUME NEW h \in known, RemoveFails(h) PROVE TypeInv'
    BY <2>15 DEF RemoveFails, MarkDeleted, Handles
  <2>16. ASSUME NEW h \in known, NEW zero \in BOOLEAN, ChangeVisibility(h, zero) PROVE TypeInv'
    BY <2>16 DEF ChangeVisibility, Requeue, MayChangeVisibility, Handles
  <2>17. CASE Purge
    BY <2>17 DEF Purge, Sent
  <2>18. CASE DeleteQueue
    BY <2>18 DEF DeleteQueue
  <2>19. CASE DeleteDlq
    BY <2>19 DEF DeleteDlq
  <2>20. ASSUME NEW m \in Msgs, RequeueInflight(m) PROVE TypeInv'
    BY <2>20 DEF RequeueInflight, Requeue, VisibilityExpired
  <2>21. ASSUME NEW m \in Msgs, EnqueueDelayed(m) PROVE TypeInv'
    BY <2>21 DEF EnqueueDelayed
  <2>22. ASSUME NEW m \in Msgs, PeekExpired(m) PROVE TypeInv'
    BY <2>22 DEF PeekExpired, Oldest
  <2>23. CASE PopExpired
    BY <2>23 DEF PopExpired, Oldest
  <2>24. ASSUME NEW m \in Msgs, DeadlinePasses(m) PROVE TypeInv'
    BY <2>24 DEF DeadlinePasses
  <2>25. ASSUME NEW m \in Msgs, DelayPasses(m) PROVE TypeInv'
    BY <2>25 DEF DelayPasses
  <2>26. CASE RetentionPasses
    BY <2>26 DEF RetentionPasses
  <2>27. CASE UNCHANGED vars
    BY <2>27 DEF vars
  <2> HIDE DEF TypeInv
  <2>28. QED
    BY <2>1, <2>2, <2>3, <2>4, <2>5, <2>6, <2>7, <2>8, <2>9, <2>10, <2>11, <2>12, <2>13, <2>14,
       <2>15, <2>16, <2>17, <2>18, <2>19, <2>20, <2>21, <2>22, <2>23, <2>24, <2>25, <2>26, <2>27,
       Zenon DEF Next, Client, Receive, Worker, Time
<1>3. QED
  BY <1>1, <1>2, PTL DEF Spec

\* The state of the queue, of its messages and of the receive calls has the shape
\* the classes of models.py give it.
THEOREM TypesHold == Spec => []TypeOK
BY TypeCorrect, PTL DEF TypeInv

\* Where messages are: PlaceInv is inductive.  A Send needs OnlySent, a Settle
\* needs HandsOwn, and both need what a call has in hand at each step.
LEMMA PlaceInvHolds == Spec => []PlaceInv
<1> USE NoMsgAssumption
<1>1. Init => HandsOwn /\ OnlySent /\ OnePlace
  BY DEF Init, HandsOwn, OnlySent, OnePlace, PlacesDisjoint, HandsDisjoint, InHands, Sent
<1>2. PlaceInv /\ TypeInv' /\ [Next]_vars => (HandsOwn /\ OnlySent /\ OnePlace)'
  <2> DEFINE Goal == HandsOwn /\ OnlySent /\ OnePlace
  <2> SUFFICES ASSUME PlaceInv, TypeInv', [Next]_vars PROVE Goal'
    BY DEF Goal
  <2> USE DEF PlaceInv, TypeInv, TypeOK, HandMatchesPc, HandsOwn, OnlySent, OnePlace,
              PlacesDisjoint, HandsDisjoint, InHands, Sent,
              queueVars, messageVars, timeVars, consumerVars, dlqVars, worldVars
  <2>1. ASSUME NEW m \in Msgs, Send(m) PROVE Goal'
    BY <2>1 DEF Send
  <2>2. ASSUME NEW c \in Consumers, NEW n \in 0..MaxNum + 1, NEW zero \in BOOLEAN, ReceiveStart(c, n, zero)
         PROVE Goal'
    BY <2>2 DEF ReceiveStart, ValidNum, Requested
  <2>3. ASSUME NEW c \in Consumers, NEW m \in Msgs, Get(c, m) PROVE Goal'
    BY <2>3 DEF Get, Oldest
  <2>4. ASSUME NEW c \in Consumers, GetEmpty(c) PROVE Goal'
    BY <2>4 DEF GetEmpty
  <2>5. ASSUME NEW c \in Consumers, SkipDeleted(c) PROVE Goal'
    BY <2>5 DEF SkipDeleted
  <2>6. ASSUME NEW c \in Consumers, Take(c) PROVE Goal'
    BY <2>6 DEF Take
  <2>7. ASSUME NEW c \in Consumers, NEW m \in Msgs, AddHandle(c, m) PROVE Goal'
    BY <2>7 DEF AddHandle, Handle, Handles
  <2>8. ASSUME NEW c \in Consumers, AddReceipt(c) PROVE Goal'
    BY <2>8 DEF AddReceipt, Handle, Handles
  <2>9. ASSUME NEW c \in Consumers, Settle(c) PROVE Goal'
    BY <2>9 DEF Settle
  <2>10. ASSUME NEW c \in Consumers, FindDlq(c) PROVE Goal'
    BY <2>10 DEF FindDlq
  <2>11. ASSUME NEW c \in Consumers, DlqMissing(c) PROVE Goal'
    BY <2>11 DEF DlqMissing
  <2>12. ASSUME NEW c \in Consumers, NEW m \in Msgs, ForwardDead(c, m) PROVE Goal'
    BY <2>12 DEF ForwardDead
  <2>13. ASSUME NEW c \in Consumers, Respond(c) PROVE Goal'
    BY <2>13 DEF Respond
  <2>14. ASSUME NEW h \in known, Remove(h) PROVE Goal'
    BY <2>14 DEF Remove, RemoveFromQueue, MarkDeleted, Handles
  <2>15. ASSUME NEW h \in known, RemoveFails(h) PROVE Goal'
    BY <2>15 DEF RemoveFails, MarkDeleted, Handles
  <2>16. ASSUME NEW h \in known, NEW zero \in BOOLEAN, ChangeVisibility(h, zero) PROVE Goal'
    BY <2>16 DEF ChangeVisibility, Requeue, MayChangeVisibility, Handles
  <2>17. CASE Purge
    BY <2>17 DEF Purge, Sent
  <2>18. CASE DeleteQueue
    BY <2>18 DEF DeleteQueue
  <2>19. CASE DeleteDlq
    BY <2>19 DEF DeleteDlq
  <2>20. ASSUME NEW m \in Msgs, RequeueInflight(m) PROVE Goal'
    BY <2>20 DEF RequeueInflight, Requeue, VisibilityExpired
  <2>21. ASSUME NEW m \in Msgs, EnqueueDelayed(m) PROVE Goal'
    BY <2>21 DEF EnqueueDelayed
  <2>22. ASSUME NEW m \in Msgs, PeekExpired(m) PROVE Goal'
    BY <2>22 DEF PeekExpired, Oldest
  <2>23. CASE PopExpired
    BY <2>23 DEF PopExpired, Oldest
  <2>24. ASSUME NEW m \in Msgs, DeadlinePasses(m) PROVE Goal'
    BY <2>24 DEF DeadlinePasses
  <2>25. ASSUME NEW m \in Msgs, DelayPasses(m) PROVE Goal'
    BY <2>25 DEF DelayPasses
  <2>26. CASE RetentionPasses
    BY <2>26 DEF RetentionPasses
  <2>27. CASE UNCHANGED vars
    BY <2>27 DEF vars
  <2> HIDE DEF Goal, PlaceInv, TypeInv
  <2>28. QED
    BY <2>1, <2>2, <2>3, <2>4, <2>5, <2>6, <2>7, <2>8, <2>9, <2>10, <2>11, <2>12, <2>13, <2>14,
       <2>15, <2>16, <2>17, <2>18, <2>19, <2>20, <2>21, <2>22, <2>23, <2>24, <2>25, <2>26, <2>27,
       Zenon DEF Next, Client, Receive, Worker, Time
<1>3. QED
  BY <1>1, <1>2, TypeCorrect, PTL DEF Spec, PlaceInv

\* No message is in two places, for any number of messages and receive calls.
THEOREM OnePlaceHolds == Spec => []OnePlace
BY PlaceInvHolds, PTL DEF PlaceInv

\* IInv is inductive: what each step of a receive call holds, next to the
\* properties themselves.
LEMMA IInvHolds == Spec => []IInv
<1> USE NoMsgAssumption, MaxReceiveCountAssumption
<1>1. Init => DeliveryInv
  BY DEF Init, DeliveryInv, NoLoss, NotLeased, InflightHasReceipt, ReceiptedHasReceipt, WithinLimit,
         DeadLettersOut, Sent, Located, Held, InHands
<1>2. IInv /\ PlaceInv' /\ [Next]_vars => DeliveryInv'
  <2> SUFFICES ASSUME IInv, PlaceInv', [Next]_vars PROVE DeliveryInv'
    OBVIOUS
  <2> USE DEF IInv, DeliveryInv, PlaceInv, TypeInv, TypeOK, HandMatchesPc, HandsOwn, OnlySent,
     OnePlace,
              PlacesDisjoint, HandsDisjoint, InHands, Sent, Located, Held, Handle,
              NoLoss, NotLeased, InflightHasReceipt, ReceiptedHasReceipt, WithinLimit,
              DeadLettersOut,
              queueVars, messageVars, timeVars, consumerVars, dlqVars, worldVars
  <2>1. ASSUME NEW m \in Msgs, Send(m) PROVE DeliveryInv'
    BY <2>1 DEF Send
  <2>2. ASSUME NEW c \in Consumers, NEW n \in 0..MaxNum + 1, NEW zero \in BOOLEAN, ReceiveStart(c, n, zero)
         PROVE DeliveryInv'
    BY <2>2 DEF ReceiveStart, ValidNum, Requested
  <2>3. ASSUME NEW c \in Consumers, NEW m \in Msgs, Get(c, m) PROVE DeliveryInv'
    BY <2>3 DEF Get, Oldest
  <2>4. ASSUME NEW c \in Consumers, GetEmpty(c) PROVE DeliveryInv'
    BY <2>4 DEF GetEmpty
  <2>5. ASSUME NEW c \in Consumers, SkipDeleted(c) PROVE DeliveryInv'
    BY <2>5 DEF SkipDeleted
  <2>6. ASSUME NEW c \in Consumers, Take(c) PROVE DeliveryInv'
    <3>1. NoLoss'
      BY <2>6 DEF Take, Exhausted
    <3>2. NotLeased'
      BY <2>6 DEF Take, Exhausted
    <3>3. InflightHasReceipt'
      BY <2>6 DEF Take, Exhausted
    <3>4. ReceiptedHasReceipt'
      BY <2>6 DEF Take, Exhausted
    <3>5. WithinLimit'
      BY <2>6 DEF Take, Exhausted
    <3>6. DeadLettersOut'
      BY <2>6 DEF Take, Exhausted
    <3> QED
      BY <3>1, <3>2, <3>3, <3>4, <3>5, <3>6
  <2>7. ASSUME NEW c \in Consumers, NEW m \in Msgs, AddHandle(c, m) PROVE DeliveryInv'
    <3>1. NoLoss'
      BY <2>7 DEF AddHandle, Handles
    <3>2. NotLeased'
      BY <2>7 DEF AddHandle, Handles
    <3>3. InflightHasReceipt'
      BY <2>7 DEF AddHandle, Handles
    <3>4. ReceiptedHasReceipt'
      BY <2>7 DEF AddHandle, Handles
    <3>5. WithinLimit'
      BY <2>7 DEF AddHandle, Handles
    <3>6. DeadLettersOut'
      BY <2>7 DEF AddHandle, Handles
    <3> QED
      BY <3>1, <3>2, <3>3, <3>4, <3>5, <3>6
  <2>8. ASSUME NEW c \in Consumers, AddReceipt(c) PROVE DeliveryInv'
    <3>1. NoLoss'
      BY <2>8 DEF AddReceipt, Handles
    <3>2. NotLeased'
      BY <2>8 DEF AddReceipt, Handles
    <3>3. InflightHasReceipt'
      BY <2>8 DEF AddReceipt, Handles
    <3>4. ReceiptedHasReceipt'
      BY <2>8 DEF AddReceipt, Handles
    <3>5. WithinLimit'
      BY <2>8 DEF AddReceipt, Handles
    <3>6. DeadLettersOut'
      BY <2>8 DEF AddReceipt, Handles
    <3> QED
      BY <3>1, <3>2, <3>3, <3>4, <3>5, <3>6
  <2>9. ASSUME NEW c \in Consumers, Settle(c) PROVE DeliveryInv'
    <3>1. NoLoss'
      BY <2>9 DEF Settle
    <3>2. NotLeased'
      BY <2>9 DEF Settle
    <3>3. InflightHasReceipt'
      BY <2>9 DEF Settle
    <3>4. ReceiptedHasReceipt'
      BY <2>9 DEF Settle
    <3>5. WithinLimit'
      BY <2>9 DEF Settle
    <3>6. DeadLettersOut'
      BY <2>9 DEF Settle
    <3> QED
      BY <3>1, <3>2, <3>3, <3>4, <3>5, <3>6
  <2>10. ASSUME NEW c \in Consumers, FindDlq(c) PROVE DeliveryInv'
    BY <2>10 DEF FindDlq
  <2>11. ASSUME NEW c \in Consumers, DlqMissing(c) PROVE DeliveryInv'
    BY <2>11 DEF DlqMissing
  <2>12. ASSUME NEW c \in Consumers, NEW m \in Msgs, ForwardDead(c, m) PROVE DeliveryInv'
    BY <2>12 DEF ForwardDead
  <2>13. ASSUME NEW c \in Consumers, Respond(c) PROVE DeliveryInv'
    BY <2>13 DEF Respond
  <2>14. ASSUME NEW h \in known, Remove(h) PROVE DeliveryInv'
    <3>1. NoLoss'
      BY <2>14 DEF Remove, RemoveFromQueue, MarkDeleted, Handles, HandlesOf
    <3>2. NotLeased'
      BY <2>14 DEF Remove, RemoveFromQueue, MarkDeleted, Handles, HandlesOf
    <3>3. InflightHasReceipt'
      BY <2>14 DEF Remove, RemoveFromQueue, MarkDeleted, Handles, HandlesOf
    <3>4. ReceiptedHasReceipt'
      BY <2>14 DEF Remove, RemoveFromQueue, MarkDeleted, Handles, HandlesOf
    <3>5. WithinLimit'
      BY <2>14 DEF Remove, RemoveFromQueue, MarkDeleted, Handles, HandlesOf
    <3>6. DeadLettersOut'
      BY <2>14 DEF Remove, RemoveFromQueue, MarkDeleted, Handles, HandlesOf
    <3> QED
      BY <3>1, <3>2, <3>3, <3>4, <3>5, <3>6
  <2>15. ASSUME NEW h \in known, RemoveFails(h) PROVE DeliveryInv'
    <3>1. NoLoss'
      BY <2>15 DEF RemoveFails, MarkDeleted, Handles, HandlesOf
    <3>2. NotLeased'
      BY <2>15 DEF RemoveFails, MarkDeleted, Handles, HandlesOf
    <3>3. InflightHasReceipt'
      BY <2>15 DEF RemoveFails, MarkDeleted, Handles, HandlesOf
    <3>4. ReceiptedHasReceipt'
      BY <2>15 DEF RemoveFails, MarkDeleted, Handles, HandlesOf
    <3>5. WithinLimit'
      BY <2>15 DEF RemoveFails, MarkDeleted, Handles, HandlesOf
    <3>6. DeadLettersOut'
      BY <2>15 DEF RemoveFails, MarkDeleted, Handles, HandlesOf
    <3> QED
      BY <3>1, <3>2, <3>3, <3>4, <3>5, <3>6
  <2>16. ASSUME NEW h \in known, NEW zero \in BOOLEAN, ChangeVisibility(h, zero)
         PROVE DeliveryInv'
    <3>1. NoLoss'
      BY <2>16 DEF ChangeVisibility, Requeue, MayChangeVisibility, Handles
    <3>2. NotLeased'
      BY <2>16 DEF ChangeVisibility, Requeue, MayChangeVisibility, Handles
    <3>3. InflightHasReceipt'
      BY <2>16 DEF ChangeVisibility, Requeue, MayChangeVisibility, Handles
    <3>4. ReceiptedHasReceipt'
      BY <2>16 DEF ChangeVisibility, Requeue, MayChangeVisibility, Handles
    <3>5. WithinLimit'
      BY <2>16 DEF ChangeVisibility, Requeue, MayChangeVisibility, Handles
    <3>6. DeadLettersOut'
      BY <2>16 DEF ChangeVisibility, Requeue, MayChangeVisibility, Handles
    <3> QED
      BY <3>1, <3>2, <3>3, <3>4, <3>5, <3>6
  <2>17. CASE Purge
    BY <2>17 DEF Purge, Sent
  <2>18. CASE DeleteQueue
    BY <2>18 DEF DeleteQueue
  <2>19. CASE DeleteDlq
    BY <2>19 DEF DeleteDlq
  <2>20. ASSUME NEW m \in Msgs, RequeueInflight(m) PROVE DeliveryInv'
    BY <2>20 DEF RequeueInflight, Requeue, VisibilityExpired
  <2>21. ASSUME NEW m \in Msgs, EnqueueDelayed(m) PROVE DeliveryInv'
    BY <2>21 DEF EnqueueDelayed
  <2>22. ASSUME NEW m \in Msgs, PeekExpired(m) PROVE DeliveryInv'
    BY <2>22 DEF PeekExpired, Oldest
  <2>23. CASE PopExpired
    BY <2>23 DEF PopExpired, Oldest
  <2>24. ASSUME NEW m \in Msgs, DeadlinePasses(m) PROVE DeliveryInv'
    BY <2>24 DEF DeadlinePasses
  <2>25. ASSUME NEW m \in Msgs, DelayPasses(m) PROVE DeliveryInv'
    BY <2>25 DEF DelayPasses
  <2>26. CASE RetentionPasses
    BY <2>26 DEF RetentionPasses
  <2>27. CASE UNCHANGED vars
    BY <2>27 DEF vars
  <2> HIDE DEF IInv, DeliveryInv, PlaceInv
  <2>28. QED
    BY <2>1, <2>2, <2>3, <2>4, <2>5, <2>6, <2>7, <2>8, <2>9, <2>10, <2>11, <2>12, <2>13, <2>14,
       <2>15, <2>16, <2>17, <2>18, <2>19, <2>20, <2>21, <2>22, <2>23, <2>24, <2>25, <2>26, <2>27,
       Zenon DEF Next, Client, Receive, Worker, Time
<1>3. QED
  BY <1>1, <1>2, PlaceInvHolds, PTL DEF Spec, IInv

\* No message is silently lost: one that was sent can still be delivered, or it
\* was deleted, purged, dropped by the retention job or forwarded as a dead letter.
THEOREM NoLossHolds == Spec => []NoLoss
BY IInvHolds, PTL DEF IInv, DeliveryInv

\* A message whose visibility timeout is running cannot be received.
THEOREM ExclusiveDelivery == Spec => []VisibleNotLeased
<1>1. IInv => VisibleNotLeased
  BY DEF IInv, DeliveryInv, NotLeased, VisibleNotLeased
<1>2. QED
  BY <1>1, IInvHolds, PTL

\* A message in flight can be acknowledged with the handle of its latest receive.
THEOREM InflightAcknowledgeable == Spec => []InflightHasReceipt
BY IInvHolds, PTL DEF IInv, DeliveryInv

\* With a redrive policy a message is given to clients at most maxReceiveCount
\* times and becomes a dead letter only after that, and a dead letter never comes back to the
\* source queue.
THEOREM RedrivePolicyHolds == Spec => []DeadLettersLeave
<1>1. IInv => DeadLettersLeave
  BY DEF IInv, DeliveryInv, WithinLimit, DeadLettersOut, DeadLettersLeave
<1>2. QED
  BY <1>1, IInvHolds, PTL

-----------------------------------------------------------------------------
(* The queue implements MessageQueue: a queue whose receives take no mutex  *)
(* keeps the contract of at-least-once delivery.                            *)

\* Whoever has a handle has it from a receive that was counted.
HandlesCounted ==
    /\ \A h \in known \cup receipt_handles : receive_count[h[1]] > 0 /\ h[1] \in Sent
    /\ \A c \in Consumers :
          /\ \A h \in results[c] : receive_count[h[1]] > 0 /\ h[1] \in Sent
          /\ \A m \in successful[c] : receive_count[m] > 0
          /\ pc[c] \in {"handled", "receipted"} => receive_count[hand[c]] > 0

\* A message that remembers a handle the queue does not accept was purged or
\* deleted, or a receive is about to register that handle.
RememberedRegistered ==
    \A h \in receipt_handles \ receipts :
        \/ h[1] \in purged \cup deleted
        \/ \E c \in Consumers : pc[c] = "handled" /\ h = Handle(hand[c])

\* Only what was received once too often is on its way to the dead letter queue.
DeadExhausted ==
    \A c \in Consumers : \A m \in dead[c] :
        MaxReceiveCount > 0 /\ receive_count[m] > MaxReceiveCount

RefInv == HandlesCounted /\ RememberedRegistered /\ DeadExhausted

-----------------------------------------------------------------------------

\* RefInv is an invariant: a handle is counted before it is made, and made before
\* it is registered.
LEMMA RefInvHolds == Spec => []RefInv
<1> USE NoMsgAssumption, MaxReceiveCountAssumption
<1>1. Init => RefInv
  BY DEF Init, RefInv, HandlesCounted, RememberedRegistered, DeadExhausted
<1>2. IInv /\ IInv' /\ RefInv /\ [Next]_vars => RefInv'
  <2> SUFFICES ASSUME IInv, IInv', RefInv, [Next]_vars PROVE RefInv'
    OBVIOUS
  <2> USE DEF RefInv, HandlesCounted, RememberedRegistered, DeadExhausted,
              IInv, PlaceInv, TypeInv, TypeOK, HandMatchesPc, HandsOwn, OnlySent, OnePlace,
              HandsDisjoint, InHands, Sent, Handle, Handles,
              queueVars, messageVars, timeVars, consumerVars, dlqVars, worldVars
  <2>1. ASSUME NEW m \in Msgs, Send(m) PROVE RefInv'
    BY <2>1 DEF Send
  <2>2. ASSUME NEW c \in Consumers, NEW n \in 0..MaxNum + 1, NEW zero \in BOOLEAN, ReceiveStart(c, n, zero)
        PROVE RefInv'
    BY <2>2 DEF ReceiveStart
  <2>3. ASSUME NEW c \in Consumers, NEW m \in Msgs, Get(c, m) PROVE RefInv'
    BY <2>3 DEF Get, Oldest
  <2>4. ASSUME NEW c \in Consumers, GetEmpty(c) PROVE RefInv'
    BY <2>4 DEF GetEmpty
  <2>5. ASSUME NEW c \in Consumers, SkipDeleted(c) PROVE RefInv'
    BY <2>5 DEF SkipDeleted
  <2>6. ASSUME NEW c \in Consumers, Take(c) PROVE RefInv'
    <3>1. HandlesCounted'
      BY <2>6 DEF Take, Exhausted
    <3>2. RememberedRegistered'
      BY <2>6 DEF Take, Exhausted
    <3>3. DeadExhausted'
      BY <2>6 DEF Take, Exhausted
    <3> QED
      BY <3>1, <3>2, <3>3
  <2>7. ASSUME NEW c \in Consumers, NEW m \in Msgs, AddHandle(c, m) PROVE RefInv'
    BY <2>7 DEF AddHandle
  <2>8. ASSUME NEW c \in Consumers, AddReceipt(c) PROVE RefInv'
    BY <2>8 DEF AddReceipt
  <2>9. ASSUME NEW c \in Consumers, Settle(c) PROVE RefInv'
    BY <2>9 DEF Settle
  <2>10. ASSUME NEW c \in Consumers, FindDlq(c) PROVE RefInv'
    BY <2>10 DEF FindDlq
  <2>11. ASSUME NEW c \in Consumers, DlqMissing(c) PROVE RefInv'
    BY <2>11 DEF DlqMissing
  <2>12. ASSUME NEW c \in Consumers, NEW m \in Msgs, ForwardDead(c, m) PROVE RefInv'
    BY <2>12 DEF ForwardDead
  <2>13. ASSUME NEW c \in Consumers, Respond(c) PROVE RefInv'
    <3>1. HandlesCounted'
      BY <2>13 DEF Respond
    <3>2. RememberedRegistered'
      BY <2>13 DEF Respond
    <3>3. DeadExhausted'
      BY <2>13 DEF Respond
    <3> QED
      BY <3>1, <3>2, <3>3
  <2>14. ASSUME NEW h \in known, Remove(h) PROVE RefInv'
    BY <2>14 DEF Remove, RemoveFromQueue, MarkDeleted, HandlesOf
  <2>15. ASSUME NEW h \in known, RemoveFails(h) PROVE RefInv'
    BY <2>15 DEF RemoveFails, MarkDeleted, HandlesOf
  <2>16. ASSUME NEW h \in known, NEW zero \in BOOLEAN, ChangeVisibility(h, zero) PROVE RefInv'
    BY <2>16 DEF ChangeVisibility, Requeue, MayChangeVisibility
  <2>17. CASE Purge
    BY <2>17 DEF Purge
  <2>18. CASE DeleteQueue
    BY <2>18 DEF DeleteQueue
  <2>19. CASE DeleteDlq
    BY <2>19 DEF DeleteDlq
  <2>20. ASSUME NEW m \in Msgs, RequeueInflight(m) PROVE RefInv'
    BY <2>20 DEF RequeueInflight, Requeue, VisibilityExpired
  <2>21. ASSUME NEW m \in Msgs, EnqueueDelayed(m) PROVE RefInv'
    BY <2>21 DEF EnqueueDelayed
  <2>22. ASSUME NEW m \in Msgs, PeekExpired(m) PROVE RefInv'
    BY <2>22 DEF PeekExpired, Oldest
  <2>23. CASE PopExpired
    BY <2>23 DEF PopExpired, Oldest
  <2>24. ASSUME NEW m \in Msgs, DeadlinePasses(m) PROVE RefInv'
    BY <2>24 DEF DeadlinePasses
  <2>25. ASSUME NEW m \in Msgs, DelayPasses(m) PROVE RefInv'
    BY <2>25 DEF DelayPasses
  <2>26. CASE RetentionPasses
    BY <2>26 DEF RetentionPasses
  <2>27. CASE UNCHANGED vars
    BY <2>27 DEF vars
  <2> QED
    BY <2>1, <2>2, <2>3, <2>4, <2>5, <2>6, <2>7, <2>8, <2>9, <2>10, <2>11, <2>12, <2>13, <2>14,
       <2>15, <2>16, <2>17, <2>18, <2>19, <2>20, <2>21, <2>22, <2>23, <2>24, <2>25, <2>26, <2>27
       DEF Next, Client, Receive, Worker, Time
<1>3. QED
  BY <1>1, <1>2, IInvHolds, PTL DEF Spec

\* The queue implements the contract: the initial state is the contract's, and every
\* step is a step of the contract or changes nothing it speaks of.
THEOREM Refinement == Spec => Implements
<1> USE NoMsgAssumption, MaxReceiveCountAssumption
<1>1. Init => Queue!Init
  BY DEF Init, Queue!Init, Sent, Popped, Held, InHands
<1>2. IInv /\ RefInv /\ [Next]_vars => [Queue!Next]_(Queue!vars)
  <2> SUFFICES ASSUME IInv, RefInv, [Next]_vars PROVE [Queue!Next]_(Queue!vars)
    OBVIOUS
  <2> USE DEF RefInv, HandlesCounted, RememberedRegistered, DeadExhausted,
              IInv, PlaceInv, TypeInv, TypeOK, HandMatchesPc, HandsOwn, OnlySent, OnePlace,
              PlacesDisjoint, HandsDisjoint, DeliveryInv, NotLeased, WithinLimit,
              InHands, Held, Popped, Sent, Handle, Handles,
              queueVars, messageVars, timeVars, consumerVars, dlqVars, worldVars
  <2>1. ASSUME NEW m \in Msgs, Send(m) PROVE [Queue!Next]_(Queue!vars)
    <3>1. Queue!Send(m)
      BY <2>1 DEF Send, Queue!Send
    <3> QED
      BY <3>1 DEF Queue!Next
  <2>2. ASSUME NEW c \in Consumers, NEW n \in 0..MaxNum + 1, NEW zero \in BOOLEAN, ReceiveStart(c, n, zero)
        PROVE [Queue!Next]_(Queue!vars)
    <3>1. UNCHANGED Queue!vars
      BY <2>2 DEF ReceiveStart, Queue!vars
    <3> QED
      BY <3>1
  <2>3. ASSUME NEW c \in Consumers, NEW m \in Msgs, Get(c, m) PROVE [Queue!Next]_(Queue!vars)
    <3>1. Queue!Claim(m)
      BY <2>3 DEF Get, Oldest, Queue!Claim
    <3> QED
      BY <3>1 DEF Queue!Next
  <2>4. ASSUME NEW c \in Consumers, GetEmpty(c) PROVE [Queue!Next]_(Queue!vars)
    <3>1. UNCHANGED Queue!vars
      BY <2>4 DEF GetEmpty, Queue!vars
    <3> QED
      BY <3>1
  <2>5. ASSUME NEW c \in Consumers, SkipDeleted(c) PROVE [Queue!Next]_(Queue!vars)
    <3>1. PICK m \in Msgs : m = hand[c]
      BY <2>5 DEF SkipDeleted
    <3>2. Queue!Discard(m)
      BY <2>5, <3>1 DEF SkipDeleted, Queue!Discard
    <3> QED
      BY <3>2 DEF Queue!Next
  <2>6. ASSUME NEW c \in Consumers, Take(c) PROVE [Queue!Next]_(Queue!vars)
    <3>1. PICK m \in Msgs : m = hand[c] /\ m \in Popped
      BY <2>6 DEF Take
    <3>2. \A d \in Consumers : pc'[d] = "popped" <=> d # c /\ pc[d] = "popped"
      BY <2>6 DEF Take
    <3>3. \A d \in Consumers : d # c => hand'[d] = hand[d] /\ (pc[d] = "popped" => hand[d] # m)
      BY <2>6, <3>1 DEF Take
    <3>4. Popped' = Popped \ {m}
      BY <3>1, <3>2, <3>3 DEF Popped
    <3>5. \A d \in Consumers : InHands(d)' = InHands(d)
      BY <2>6 DEF Take
    <3>6. (Held \ Popped)' = (Held \ Popped) \cup {m}
      BY <2>6, <3>1, <3>4, <3>5 DEF Take
    <3>7. Queue!Count(m)
      BY <2>6, <3>1, <3>4, <3>6 DEF Take, Queue!Count
    <3> QED
      BY <3>7 DEF Queue!Next
  <2>7. ASSUME NEW c \in Consumers, NEW m \in Msgs, AddHandle(c, m) PROVE [Queue!Next]_(Queue!vars)
    <3>1. UNCHANGED Queue!vars
      BY <2>7 DEF AddHandle, Queue!vars
    <3> QED
      BY <3>1
  <2>8. ASSUME NEW c \in Consumers, AddReceipt(c) PROVE [Queue!Next]_(Queue!vars)
    <3>1. UNCHANGED Queue!vars
      BY <2>8 DEF AddReceipt, Queue!vars
    <3> QED
      BY <3>1
  <2>9. ASSUME NEW c \in Consumers, Settle(c) PROVE [Queue!Next]_(Queue!vars)
    <3>1. PICK m \in Msgs : m = hand[c]
      BY <2>9 DEF Settle
    <3>2. Queue!Deliver(m)
      BY <2>9, <3>1 DEF Settle, Queue!Deliver, Queue!Limit
    <3> QED
      BY <3>2 DEF Queue!Next
  <2>10. ASSUME NEW c \in Consumers, FindDlq(c) PROVE [Queue!Next]_(Queue!vars)
    <3>1. UNCHANGED Queue!vars
      BY <2>10 DEF FindDlq, Queue!vars
    <3> QED
      BY <3>1
  <2>11. ASSUME NEW c \in Consumers, DlqMissing(c) PROVE [Queue!Next]_(Queue!vars)
    <3>1. dead[c] \in SUBSET (Held \ Popped) /\ \A m \in dead[c] : ~Queue!Limit(m)
      BY <2>11 DEF DlqMissing, Queue!Limit
    <3>2. (Held \ Popped)' = (Held \ Popped) \ dead[c]
      BY <2>11 DEF DlqMissing
    <3>3. Popped' = Popped
      BY <2>11 DEF DlqMissing
    <3>4. \E S \in SUBSET (Held \ Popped) : (\A m \in S : ~Queue!Limit(m)) /\ (Held \ Popped)' = (Held \ Popped) \ S
      BY <3>1, <3>2
    <3>5. Queue!Lose
      BY <2>11, <3>3, <3>4 DEF DlqMissing, Queue!Lose
    <3> QED
      BY <3>5 DEF Queue!Next
  <2>12. ASSUME NEW c \in Consumers, NEW m \in Msgs, ForwardDead(c, m)
         PROVE [Queue!Next]_(Queue!vars)
    <3>1. Queue!DeadLetter(m)
      BY <2>12 DEF ForwardDead, Queue!DeadLetter, Queue!Limit
    <3> QED
      BY <3>1 DEF Queue!Next
  <2>13. ASSUME NEW c \in Consumers, Respond(c) PROVE [Queue!Next]_(Queue!vars)
    <3>1. UNCHANGED Queue!vars
      BY <2>13 DEF Respond, Queue!vars
    <3> QED
      BY <3>1
  <2>14. ASSUME NEW h \in known, Remove(h) PROVE [Queue!Next]_(Queue!vars)
    <3>1. Queue!Acknowledge(h[1])
      BY <2>14 DEF Remove, RemoveFromQueue, MarkDeleted, HandlesOf, Queue!Acknowledge
    <3> QED
      BY <3>1 DEF Queue!Next
  <2>15. ASSUME NEW h \in known, RemoveFails(h) PROVE [Queue!Next]_(Queue!vars)
    <3>1. Queue!Acknowledge(h[1]) \/ UNCHANGED Queue!vars
      BY <2>15 DEF RemoveFails, MarkDeleted, HandlesOf, Queue!Acknowledge, Queue!vars
    <3> QED
      BY <3>1 DEF Queue!Next
  <2>16. ASSUME NEW h \in known, NEW zero \in BOOLEAN, ChangeVisibility(h, zero)
         PROVE [Queue!Next]_(Queue!vars)
    <3>1. Queue!Release(h[1])
      BY <2>16 DEF ChangeVisibility, Requeue, MayChangeVisibility, Queue!Release
    <3> QED
      BY <3>1 DEF Queue!Next
  <2>17. CASE Purge
    <3>1. Queue!Purge
      BY <2>17 DEF Purge, Queue!Purge
    <3> QED
      BY <3>1 DEF Queue!Next
  <2>18. CASE DeleteQueue
    <3>1. Queue!Close
      BY <2>18 DEF DeleteQueue, Queue!Close
    <3> QED
      BY <3>1 DEF Queue!Next
  <2>19. CASE DeleteDlq
    <3>1. UNCHANGED Queue!vars
      BY <2>19 DEF DeleteDlq, Queue!vars
    <3> QED
      BY <3>1
  <2>20. ASSUME NEW m \in Msgs, RequeueInflight(m) PROVE [Queue!Next]_(Queue!vars)
    <3>1. Queue!Return(m)
      BY <2>20 DEF RequeueInflight, Requeue, VisibilityExpired, Queue!Return
    <3> QED
      BY <3>1 DEF Queue!Next
  <2>21. ASSUME NEW m \in Msgs, EnqueueDelayed(m) PROVE [Queue!Next]_(Queue!vars)
    <3>1. Queue!Ripen(m)
      BY <2>21 DEF EnqueueDelayed, Queue!Ripen
    <3> QED
      BY <3>1 DEF Queue!Next
  <2>22. ASSUME NEW m \in Msgs, PeekExpired(m) PROVE [Queue!Next]_(Queue!vars)
    <3>1. UNCHANGED Queue!vars
      BY <2>22 DEF PeekExpired, Oldest, Queue!vars
    <3> QED
      BY <3>1
  <2>23. CASE PopExpired
    <3>1. (\E m \in Msgs : Queue!Evict(m)) \/ UNCHANGED Queue!vars
      BY <2>23 DEF PopExpired, Oldest, Queue!Evict, Queue!vars
    <3> QED
      BY <3>1 DEF Queue!Next
  <2>24. ASSUME NEW m \in Msgs, DeadlinePasses(m) PROVE [Queue!Next]_(Queue!vars)
    <3>1. Queue!LeaseEnds(m)
      BY <2>24 DEF DeadlinePasses, Queue!LeaseEnds
    <3> QED
      BY <3>1 DEF Queue!Next
  <2>25. ASSUME NEW m \in Msgs, DelayPasses(m) PROVE [Queue!Next]_(Queue!vars)
    <3>1. UNCHANGED Queue!vars
      BY <2>25 DEF DelayPasses, Queue!vars
    <3> QED
      BY <3>1
  <2>26. CASE RetentionPasses
    <3>1. UNCHANGED Queue!vars
      BY <2>26 DEF RetentionPasses, Queue!vars
    <3> QED
      BY <3>1
  <2>27. CASE UNCHANGED vars
    <3>1. UNCHANGED Queue!vars
      BY <2>27 DEF vars, Queue!vars
    <3> QED
      BY <3>1
  <2> QED
    BY <2>1, <2>2, <2>3, <2>4, <2>5, <2>6, <2>7, <2>8, <2>9, <2>10, <2>11, <2>12, <2>13, <2>14,
       <2>15, <2>16, <2>17, <2>18, <2>19, <2>20, <2>21, <2>22, <2>23, <2>24, <2>25, <2>26, <2>27
       DEF Next, Client, Receive, Worker, Time
<1>3. QED
  BY <1>1, <1>2, IInvHolds, RefInvHolds, PTL DEF Spec, Implements, Queue!Spec

=============================================================================

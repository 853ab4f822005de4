--------------------------- MODULE LambdaEventsProofs ---------------------------
(***************************************************************************)
(* Proofs about LambdaEvents, for any number of events, messages,          *)
(* revisions, deliveries and leases that end too early, and any limit of   *)
(* retries.                                                                *)
(*                                                                         *)
(* The argument is a ledger.  What may still lead to a result of an event  *)
(* is an item: a message in the queue together with the delivery that has  *)
(* its lease, or a delivery whose lease ended too early.  A retry replaces *)
(* an item by another, a result ends one, and only such a lease adds one:  *)
(* results and items together are never more than those leases plus one.   *)
(* The same holds of the errors with k retries and the items that have not *)
(* failed with k retries yet.                                              *)
(***************************************************************************)
EXTENDS LambdaEvents, FiniteSetTheorems, TLAPS

\* While the service works on an update or a delete it knows the old revision.
OldKnown == update # "idle" => old \in Revs

\* The queue has only what was sent, and has delivered what it waits for.
QueueTypes ==
    /\ sent \subseteq Msgs /\ acked \subseteq sent /\ purged = {} /\ open \in BOOLEAN
    /\ waiting \cup ready \cup claimed \cup receiving \cup unacked \subseteq sent
    /\ count \in [Msgs -> 0..MaxReceives]
    /\ \A m \in claimed : count[m] < MaxReceives
    /\ \A m \in receiving : count[m] > 0
    /\ \A d \in receipts : d[1] \in sent

TypeInv == TypeOK /\ OldKnown /\ QueueTypes

\* A message is in one stage of the queue at most; a receive gives it a lease.
StagesDisjoint ==
    /\ waiting \cap (ready \cup claimed \cup receiving \cup unacked) = {}
    /\ ready \cap (claimed \cup receiving \cup unacked) = {}
    /\ claimed \cap (receiving \cup unacked) = {}
    /\ receiving \cap unacked = {}
    /\ receiving \subseteq lease

\* Messages belong to accepted events.
OnlyAccepted == \A m \in sent : event[m] \in accepted

\* A poller or a thread has the delivery.
Held(d) == handler[d] # "none" \/ \E r \in Revs : d \in batch[r]

\* One poller has a delivery, or one thread.
OneHolder ==
    /\ \A r \in Revs : \A d \in batch[r] : handler[d] = "none"
    /\ \A r, q \in Revs : r # q => batch[r] \cap batch[q] = {}

\* A delivery in hand, or late, was made by an earlier receive than the one under way.
Numbered(d) ==
    Held(d) \/ d \in late => /\ d[1] \in sent /\ d[2] <= count[d[1]]
                             /\ d[1] \in receiving => d[2] < count[d[1]]

\* A delivery in hand is the latest one and has the lease, unless its lease ended too
\* early or another thread has deleted the message.
LatestLeased(d) ==
    Held(d) /\ d \notin late =>
        d[2] = count[d[1]] /\ (d[1] \in acked \/ d[1] \in unacked \cap lease)

\* A receipt handle is gone only when the message is deleted.
Handles(d) ==
    /\ Held(d) => d \in receipts \/ d[1] \in acked
    /\ handler[d] \in {"succeeded", "failed"} => d[1] \in acked

DeliveryInv(d) == Numbered(d) /\ LatestLeased(d) /\ Handles(d)

QueueInv ==
    StagesDisjoint /\ OnlyAccepted /\ OneHolder /\ \A d \in Deliveries : DeliveryInv(d)

-----------------------------------------------------------------------------

Working == {"queued", "exception", "success", "error", "succeeded", "failed"}

\* The delivery is on its way to a result.
InWork(d) == handler[d] \in Working \/ \E r \in Revs : d \in batch[r]

\* So is a message, with the delivery that has its lease or in the queue.
Token(m) ==
    \/ m \in receiving
    \/ \E d \in Deliveries \ late : d[1] = m /\ InWork(d)
    \/ /\ m \notin acked
       /\ m \in claimed \/ (open /\ m \in waiting \cup ready \cup unacked)
       /\ \A d \in Deliveries \ late : d[1] = m => handler[d] # "delete"

Items == Msgs \X (0..MaxReceives)

\* The item <<m, 0>> is the message m, <<m, n>> its delivery n after the lease ended.
Carries(x) == IF x[2] = 0 THEN Token(x[1]) ELSE x \in late /\ InWork(x)

\* Its invocation has failed, and the event is not sent again yet.
Failing(d) == handler[d] \in {"error", "failed"}

Erred(x) ==
    IF x[2] = 0 THEN \E d \in Deliveries \ late : d[1] = x[1] /\ Failing(d) ELSE Failing(x)

Level(x) == retries[x[1]] + (IF Erred(x) THEN 1 ELSE 0)

\* Items of event e that have not failed with k retries yet.
Todo(e, k) == {x \in Items : Carries(x) /\ event[x[1]] = e /\ Level(x) <= k}

\* Failures of event e with k retries; beyond the last retry, results.
Done(e, k) == IF k > MaxRetries THEN results[e] ELSE errors[e][k]

Levels == 0..(MaxRetries + 1)

Ledger ==
    \A e \in Events : \A k \in Levels :
        Done(e, k) + Cardinality(Todo(e, k)) <= 1 + Cardinality(LateOf(e))

\* Nothing has happened to an event that was not accepted.
NotAccepted ==
    \A e \in Events \ accepted : results[e] = 0 /\ \A k \in 0..MaxRetries : errors[e][k] = 0

LedgerInv == Ledger /\ NotAccepted


-----------------------------------------------------------------------------

\* A delivery is a pair.
LEMMA Pairs ==
    ASSUME NEW d \in Deliveries
    PROVE  d[1] \in Msgs /\ d[2] \in 1..MaxReceives /\ d = <<d[1], d[2]>>
BY DEF Deliveries

\* Its two parts tell a delivery from every other.
LEMMA SamePair ==
    ASSUME NEW d \in Deliveries, NEW c \in Deliveries, d[1] = c[1], d[2] = c[2]
    PROVE  d = c
BY Pairs

\* Finish counts one result.
LEMMA FinishCounts ==
    ASSUME NEW m, results \in [Events -> Nat], Finish(event[m])
    PROVE  /\ results' \in [Events -> Nat]
           /\ \A e \in Events : results'[e] = IF e = event[m] THEN results[e] + 1 ELSE results[e]
<1>1. PICK x : x = event[m]
  OBVIOUS
<1>2. results' = [results EXCEPT ![x] = results[x] + 1]
  BY <1>1 DEF Finish
<1>3. results' = [e \in Events |-> IF e = x THEN results[e] + 1 ELSE results[e]]
  BY <1>2
<1>4. QED
  BY <1>1, <1>3

\* An invocation counts one error at most.
LEMMA InvokeCounts ==
    ASSUME TypeInv, NEW d \in Deliveries, Invoke(d)
    PROVE  /\ errors' \in [Events -> [0..MaxRetries -> Nat]]
           /\ handler'[d] # "error" => errors' = errors
           /\ handler'[d] = "error" =>
                 \A e \in Events : \A k \in 0..MaxRetries :
                     errors'[e][k] = IF e = event[d[1]] /\ k = retries[d[1]] THEN errors[e][k] + 1
                                                                             ELSE errors[e][k]
<1> DEFINE x == event[d[1]]
           n == retries[d[1]]
           one == [errors[x] EXCEPT ![n] = errors[x][n] + 1]
<1>1. n \in 0..MaxRetries /\ errors \in [Events -> [0..MaxRetries -> Nat]]
  BY Pairs DEF TypeInv, TypeOK
<1>2. \/ errors' = errors /\ handler'[d] # "error"
      \/ errors' = [errors EXCEPT ![x] = one] /\ handler'[d] = "error"
  BY DEF Invoke, Handle, TypeInv, TypeOK
<1> HIDE DEF x, n
<1>3. CASE errors' = errors /\ handler'[d] # "error"
  BY <1>1, <1>3
<1>4. CASE errors' = [errors EXCEPT ![x] = one] /\ handler'[d] = "error"
  <2>1. x \in Events => one \in [0..MaxRetries -> Nat]
    BY <1>1, BoundsAssumption
  <2>2. errors' \in [Events -> [0..MaxRetries -> Nat]]
    <3> HIDE DEF one
    <3>1. QED
      BY <1>1, <1>4, <2>1
  <2>3. \A e \in Events : \A k \in 0..MaxRetries :
           errors'[e][k] = IF e = x /\ k = n THEN errors[e][k] + 1 ELSE errors[e][k]
    BY <1>1, <1>4
  <2>4. QED
    BY <1>4, <2>2, <2>3 DEF x, n
<1>5. QED
  BY <1>2, <1>3, <1>4

\* What send_message does: a message that was not sent before is in the queue.
Sends(n, e, k) ==
    /\ open /\ n \notin sent /\ sent' = sent \cup {n}
    /\ \/ waiting' = waiting \cup {n} /\ ready' = ready
       \/ ready' = ready \cup {n} /\ waiting' = waiting
    /\ UNCHANGED <<claimed, receiving, unacked, acked, lease, count, purged, open>>
    /\ event' = [event EXCEPT ![n] = e] /\ retries' = [retries EXCEPT ![n] = k]

\* It sends such a message.
LEMMA SendMessageSends ==
    ASSUME NEW e, NEW k, SendMessage(e, k)
    PROVE  \E n \in Msgs : Sends(n, e, k)
<1> DEFINE n == Cardinality(sent) + 1
<1>1. /\ n \in Msgs /\ Queue!Send(n)
      /\ event' = [event EXCEPT ![n] = e] /\ retries' = [retries EXCEPT ![n] = k]
  BY Zenon DEF SendMessage
<1> HIDE DEF n
<1>2. QED
  BY <1>1 DEF Queue!Send, Sends

\* What delete_message does.
LEMMA DeleteMessageDeletes ==
    ASSUME TypeInv, NEW d \in Deliveries, DeleteMessage(d)
    PROVE  \/ /\ d \in receipts /\ d[1] \in sent
              /\ acked' = acked \cup {d[1]}
              /\ ready' = ready \ {d[1]} /\ unacked' = unacked \ {d[1]}
              /\ receipts' = {c \in receipts : c[1] # d[1]}
              /\ UNCHANGED <<sent, waiting, claimed, receiving, lease, count, purged, open>>
           \/ /\ d \notin receipts
              /\ UNCHANGED <<sent, waiting, ready, claimed, receiving, unacked, acked, lease,
                             count, purged, open, receipts>>
BY DEF TypeInv, QueueTypes, DeleteMessage, Acknowledged, Queue!Acknowledge, queueVars

\* Deleting a message keeps the shape of the queue ...
LEMMA DeleteMessageTypes ==
    ASSUME TypeInv, NEW d \in Deliveries, DeleteMessage(d)
    PROVE  QueueTypes' /\ receipts' \subseteq Deliveries
<1>1. receipts \subseteq Deliveries /\ QueueTypes
  BY DEF TypeInv, TypeOK
<1>2. CASE d \in receipts
  <2>1. receipts' \subseteq receipts /\ sent' = sent /\ ready' \subseteq ready /\ unacked' \subseteq unacked
    BY <1>2, DeleteMessageDeletes
  <2>2. QED
    BY <1>1, <1>2, <2>1, DeleteMessageDeletes DEF QueueTypes
<1>3. CASE d \notin receipts
  BY <1>1, <1>3, DeleteMessageDeletes DEF QueueTypes
<1>4. QED
  BY <1>2, <1>3

\* ... and so does sending one.
LEMMA SendMessageTypes ==
    ASSUME TypeInv, NEW e \in Events \cup {None}, NEW k \in 0..MaxRetries, SendMessage(e, k)
    PROVE  /\ event' \in [Msgs -> Events \cup {None}] /\ retries' \in [Msgs -> 0..MaxRetries]
           /\ receipts' = receipts => QueueTypes'
<1>1. PICK n \in Msgs : Sends(n, e, k)
  BY SendMessageSends
<1>2. QED
  BY <1>1 DEF Sends, TypeInv, TypeOK, QueueTypes

\* The shape of the state is kept: an event is sent again only with retries left.
LEMMA TypeInvHolds == Spec => []TypeInv
<1> USE BoundsAssumption DEF Revs
<1>1. Init => TypeInv
  BY DEF Init, Queue!Init, TypeInv, TypeOK, OldKnown, QueueTypes
<1>2. TypeInv /\ [Next]_vars => TypeInv'
  <2> SUFFICES ASSUME TypeInv, [Next]_vars PROVE TypeInv'
    OBVIOUS
  <2> USE DEF TypeInv, TypeOK, OldKnown, QueueTypes, queueVars, bodyVars, serviceVars,
              pollerVars, handlerVars, eventVars
  <2>1. ASSUME NEW e \in Events, EnqueueEvent(e) PROVE TypeInv'
    <3>1. /\ event' \in [Msgs -> Events \cup {None}] /\ retries' \in [Msgs -> 0..MaxRetries]
          /\ receipts' = receipts => QueueTypes'
      <4>1. 0 \in 0..MaxRetries
        OBVIOUS
      <4>2. QED
        BY <2>1, <4>1, SendMessageTypes DEF EnqueueEvent
    <3>2. QED
      BY <2>1, <3>1 DEF EnqueueEvent
  <2>2. CASE Rollover
    BY <2>2 DEF Rollover
  <2>3. CASE DeleteFunction
    BY <2>3 DEF DeleteFunction
  <2>4. ASSUME NEW m \in Msgs, QueueStep(m) PROVE TypeInv'
    <3>1. CASE LeaseEnds(m)
      <4>1. late' \subseteq Deliveries
        BY <3>1 DEF LeaseEnds, InHand
      <4>2. QED
        BY <2>4, <3>1, <4>1 DEF QueueStep, LeaseEnds, Queue!LeaseEnds
    <3>2. CASE ~LeaseEnds(m)
      BY <2>4, <3>2 DEF QueueStep, Queue!Ripen, Queue!Return
    <3>3. QED
      BY <3>1, <3>2
  <2>5. ASSUME NEW d \in Deliveries, Invoke(d) PROVE TypeInv'
    <3>1. errors' \in [Events -> [0..MaxRetries -> Nat]]
      BY <2>5, InvokeCounts
    <3>2. QED
      BY <2>5, <3>1 DEF Invoke, Handle
  <2>6. ASSUME NEW d \in Deliveries, ExceptionRetry(d) PROVE TypeInv'
    <3>1. event[d[1]] \in Events \cup {None} /\ retries[d[1]] \in 0..MaxRetries
      BY Pairs
    <3>2. /\ event' \in [Msgs -> Events \cup {None}] /\ retries' \in [Msgs -> 0..MaxRetries]
          /\ receipts' = receipts => QueueTypes'
      BY <2>6, <3>1, SendMessageTypes DEF ExceptionRetry, ReturnToQueue
    <3>3. QED
      BY <2>6, <3>2 DEF ExceptionRetry, Handle
  <2>7. ASSUME NEW d \in Deliveries, ExceptionGiveUp(d) PROVE TypeInv'
    <3>1. results' \in [Events -> Nat]
      BY <2>7, FinishCounts DEF ExceptionGiveUp
    <3>2. QED
      BY <2>7, <3>1, Pairs DEF ExceptionGiveUp, Handle
  <2>8. ASSUME NEW d \in Deliveries, Delete(d) PROVE TypeInv'
    <3>1. DeleteMessage(d)
      BY <2>8 DEF Delete
    <3>2. QueueTypes' /\ receipts' \subseteq Deliveries
      BY <3>1, DeleteMessageTypes
    <3>3. QED
      BY <2>8, <3>2 DEF Delete, Handle
  <2>9. ASSUME NEW d \in Deliveries, Succeed(d) PROVE TypeInv'
    <3>1. results' \in [Events -> Nat]
      BY <2>9, FinishCounts DEF Succeed
    <3>2. QED
      BY <2>9, <3>1, Pairs DEF Succeed, Handle
  <2>10. ASSUME NEW d \in Deliveries, ErrorGiveUp(d) PROVE TypeInv'
    <3>1. results' \in [Events -> Nat]
      BY <2>10, FinishCounts DEF ErrorGiveUp
    <3>2. QED
      BY <2>10, <3>1, Pairs DEF ErrorGiveUp, Handle
  <2>11. ASSUME NEW d \in Deliveries, ErrorRetry(d) PROVE TypeInv'
    <3>1. event[d[1]] \in Events \cup {None} /\ NextRetry(d[1]) \in 0..MaxRetries
      BY <2>11, Pairs DEF ErrorRetry, RetriesExhausted, NextRetry
    <3>2. /\ event' \in [Msgs -> Events \cup {None}] /\ retries' \in [Msgs -> 0..MaxRetries]
          /\ receipts' = receipts => QueueTypes'
      BY <2>11, <3>1, SendMessageTypes DEF ErrorRetry
    <3>3. QED
      BY <2>11, <3>2 DEF ErrorRetry, Handle
  <2>12. ASSUME NEW d \in Deliveries, QueueGone(d) PROVE TypeInv'
    BY <2>12 DEF QueueGone, Handle
  <2>13. ASSUME NEW r \in Revs, NEW m \in Msgs, ReceiveClaim(r, m) PROVE TypeInv'
    BY <2>13 DEF ReceiveClaim, Queue!Claim
  <2>14. ASSUME NEW r \in Revs, NEW d \in Deliveries, Submit(r, d) PROVE TypeInv'
    BY <2>14 DEF Submit
  <2>15. ASSUME NEW r \in Revs, ReceiveDiscard(r) PROVE TypeInv'
    BY <2>15 DEF ReceiveDiscard, Queue!Discard
  <2>16. ASSUME NEW r \in Revs, ReceiveCount(r) PROVE TypeInv'
    <3>1. QueueTypes'
      BY <2>16 DEF ReceiveCount, Queue!Count
    <3>2. QED
      BY <2>16, <3>1 DEF ReceiveCount
  <2>17. ASSUME NEW r \in Revs, ReceiveDeliver(r) PROVE TypeInv'
    <3>1. Latest(fetching[r]) \in Deliveries
      BY <2>17 DEF ReceiveDeliver, Latest, Deliveries
    <3>2. QueueTypes'
      BY <2>17 DEF ReceiveDeliver, Queue!Deliver, Latest
    <3> HIDE DEF Deliveries
    <3>3. QED
      BY <2>17, <3>1, <3>2 DEF ReceiveDeliver
  <2>18. ASSUME NEW r \in Revs, Received(r) PROVE TypeInv'
    BY <2>18 DEF Received
  <2>19. ASSUME NEW r \in Revs, PollLoop(r) PROVE TypeInv'
    BY <2>19 DEF PollLoop
  <2>20. ASSUME NEW r \in Revs, SubmitRefused(r) PROVE TypeInv'
    BY <2>20 DEF SubmitRefused
  <2>21. CASE StartManager
    BY <2>21 DEF StartManager, StartPoller
  <2>22. CASE StopForUpdate
    BY <2>22 DEF StopForUpdate, StopPoller
  <2>23. CASE StopOldVersion
    BY <2>23 DEF StopOldVersion
  <2>24. CASE UpdateDone
    BY <2>24 DEF UpdateDone
  <2>25. CASE StopManager
    BY <2>25 DEF StopManager, StopPoller
  <2>26. CASE DeleteQueue
    BY <2>26 DEF DeleteQueue, Queue!Close
  <2>27. CASE UNCHANGED vars
    BY <2>27 DEF vars
  <2>28. QED
    BY <2>1, <2>2, <2>3, <2>4, <2>5, <2>6, <2>7, <2>8, <2>9, <2>10, <2>11, <2>12, <2>13, <2>14,
       <2>15, <2>16, <2>17, <2>18, <2>19, <2>20, <2>21, <2>22, <2>23, <2>24, <2>25, <2>26,
       <2>27
       DEF Next, HandleMessage, Poll, Service
<1>3. QED
  BY <1>1, <1>2, PTL DEF Spec

\* A new message is in one stage of the queue.
LEMMA SendKeepsStages ==
    ASSUME TypeInv, StagesDisjoint, NEW n, NEW e, NEW k, Sends(n, e, k)
    PROVE  StagesDisjoint'
<1>1. /\ n \notin sent /\ UNCHANGED <<claimed, receiving, unacked, lease>>
      /\ \/ waiting' = waiting \cup {n} /\ ready' = ready
         \/ ready' = ready \cup {n} /\ waiting' = waiting
  BY DEF Sends
<1>2. waiting \cup ready \cup claimed \cup receiving \cup unacked \subseteq sent
  BY DEF TypeInv, QueueTypes
<1>3. QED
  BY <1>1, <1>2 DEF StagesDisjoint

\* Where deliveries are: the lease belongs to the latest one, and a delivery that is in hand
\* without the lease has lost it too early or its message is deleted.
LEMMA QueueInvHolds == Spec => []QueueInv
<1>1. Init => QueueInv
  BY DEF Init, Queue!Init, QueueInv, StagesDisjoint, OnlyAccepted, Held, OneHolder,
         DeliveryInv, Numbered, LatestLeased, Handles
<1>2. TypeInv /\ TypeInv' /\ QueueInv /\ [Next]_vars => QueueInv'
  <2> SUFFICES ASSUME TypeInv, TypeInv', QueueInv, [Next]_vars PROVE QueueInv'
    OBVIOUS
  <2> USE DEF TypeInv, TypeOK, QueueTypes, QueueInv, queueVars, bodyVars, serviceVars,
              pollerVars, handlerVars, eventVars
  <2>1. ASSUME NEW e \in Events, EnqueueEvent(e) PROVE QueueInv'
    <3>1. PICK n \in Msgs : Sends(n, e, 0)
      BY <2>1, SendMessageSends DEF EnqueueEvent
    <3>2. StagesDisjoint' /\ OnlyAccepted'
      BY <2>1, <3>1 DEF StagesDisjoint, OnlyAccepted, Sends, EnqueueEvent
    <3>3. OneHolder'
      BY <2>1, <3>1 DEF OneHolder, Sends, EnqueueEvent
    <3>4. ASSUME NEW c \in Deliveries PROVE DeliveryInv(c)'
      <4>1. DeliveryInv(c) /\ c[1] \in Msgs /\ c[2] \in 1..MaxReceives
        BY Pairs
      <4>2. /\ Held(c)' => Held(c)
            /\ handler'[c] \in {"succeeded", "failed"} => handler[c] \in {"succeeded", "failed"}
        BY <2>1, <3>1 DEF OneHolder, Held, Sends, EnqueueEvent
      <4>3. QED
        BY <2>1, <3>1, <4>1, <4>2 DEF StagesDisjoint, DeliveryInv, Numbered, LatestLeased,
           Handles, Sends, EnqueueEvent
    <3>5. QED
      BY <3>2, <3>3, <3>4
  <2>2. CASE Rollover
    <3>1. StagesDisjoint' /\ OnlyAccepted'
      BY <2>2 DEF StagesDisjoint, OnlyAccepted, Rollover
    <3>2. OneHolder'
      BY <2>2 DEF OneHolder, Rollover
    <3>3. ASSUME NEW c \in Deliveries PROVE DeliveryInv(c)'
      <4>1. DeliveryInv(c) /\ c[1] \in Msgs /\ c[2] \in 1..MaxReceives
        BY Pairs
      <4>2. /\ Held(c)' => Held(c)
            /\ handler'[c] \in {"succeeded", "failed"} => handler[c] \in {"succeeded", "failed"}
        BY <2>2 DEF OneHolder, Held, Rollover
      <4>3. QED
        BY <2>2, <4>1, <4>2 DEF StagesDisjoint, DeliveryInv, Numbered, LatestLeased, Handles,
           Rollover
    <3>4. QED
      BY <3>1, <3>2, <3>3
  <2>3. CASE DeleteFunction
    <3>1. StagesDisjoint' /\ OnlyAccepted'
      BY <2>3 DEF StagesDisjoint, OnlyAccepted, DeleteFunction
    <3>2. OneHolder'
      BY <2>3 DEF OneHolder, DeleteFunction
    <3>3. ASSUME NEW c \in Deliveries PROVE DeliveryInv(c)'
      <4>1. DeliveryInv(c) /\ c[1] \in Msgs /\ c[2] \in 1..MaxReceives
        BY Pairs
      <4>2. /\ Held(c)' => Held(c)
            /\ handler'[c] \in {"succeeded", "failed"} => handler[c] \in {"succeeded", "failed"}
        BY <2>3 DEF OneHolder, Held, DeleteFunction
      <4>3. QED
        BY <2>3, <4>1, <4>2 DEF StagesDisjoint, DeliveryInv, Numbered, LatestLeased, Handles,
           DeleteFunction
    <3>4. QED
      BY <3>1, <3>2, <3>3
  <2>4. ASSUME NEW m \in Msgs, QueueStep(m) PROVE QueueInv'
    <3>1. StagesDisjoint' /\ OnlyAccepted'
      BY <2>4 DEF StagesDisjoint, OnlyAccepted, QueueStep, LeaseEnds, Queue!Ripen, Queue!Return,
         Queue!LeaseEnds, InHand, Latest
    <3>2. OneHolder'
      BY <2>4 DEF OneHolder, QueueStep, LeaseEnds, Queue!Ripen, Queue!Return, Queue!LeaseEnds,
         InHand, Latest
    <3>3. ASSUME NEW c \in Deliveries PROVE DeliveryInv(c)'
      <4>1. DeliveryInv(c) /\ c[1] \in Msgs /\ c[2] \in 1..MaxReceives
        BY Pairs
      <4>2. /\ Held(c)' => Held(c)
            /\ handler'[c] \in {"succeeded", "failed"} => handler[c] \in {"succeeded", "failed"}
        BY <2>4 DEF OneHolder, Held, QueueStep, LeaseEnds, Queue!Ripen, Queue!Return,
           Queue!LeaseEnds, InHand, Latest
      <4>3. CASE LeaseEnds(m)
        <5>1. Held(c) /\ c[1] = m /\ c[2] = count[m] => c \in late'
          <6>1. c = <<c[1], c[2]>>
            BY Pairs
          <6>2. QED
            BY <4>3, <6>1 DEF Held, LeaseEnds, InHand, Latest
        <5>2. c \in late' => c \in late \/ Held(c)
          BY <4>3 DEF Held, LeaseEnds, InHand
        <5>3. QED
          BY <2>4, <4>1, <4>2, <4>3, <5>1, <5>2 DEF DeliveryInv, Numbered, LatestLeased, Handles,
             QueueStep, LeaseEnds, Queue!LeaseEnds
      <4>4. CASE ~LeaseEnds(m)
        BY <2>4, <4>1, <4>2, <4>4 DEF DeliveryInv, Numbered, LatestLeased, Handles, QueueStep,
           Queue!Ripen, Queue!Return
      <4>5. QED
        BY <4>3, <4>4
    <3>4. QED
      BY <3>1, <3>2, <3>3
  <2>5. ASSUME NEW d \in Deliveries, Invoke(d) PROVE QueueInv'
    <3>1. StagesDisjoint' /\ OnlyAccepted'
      BY <2>5 DEF StagesDisjoint, OnlyAccepted, Invoke, Handle
    <3>2. OneHolder'
      BY <2>5 DEF OneHolder, Invoke, Handle
    <3>3. ASSUME NEW c \in Deliveries PROVE DeliveryInv(c)'
      <4>1. DeliveryInv(c) /\ c[1] \in Msgs /\ c[2] \in 1..MaxReceives
        BY Pairs
      <4>2. /\ Held(c)' => Held(c)
            /\ handler'[c] \in {"succeeded", "failed"} => handler[c] \in {"succeeded", "failed"}
        BY <2>5 DEF OneHolder, Held, Invoke, Handle
      <4>3. QED
        BY <2>5, <4>1, <4>2 DEF StagesDisjoint, DeliveryInv, Numbered, LatestLeased, Handles,
           Invoke, Handle
    <3>4. QED
      BY <3>1, <3>2, <3>3
  <2>6. ASSUME NEW d \in Deliveries, ExceptionRetry(d) PROVE QueueInv'
    <3>1. PICK n \in Msgs : Sends(n, event[d[1]], retries[d[1]])
      BY <2>6, SendMessageSends DEF ExceptionRetry, ReturnToQueue
    <3>2. event[d[1]] \in accepted
      <4>1. DeliveryInv(d) /\ Held(d)
        BY <2>6 DEF Held, ExceptionRetry
      <4>2. QED
        BY <4>1 DEF OnlyAccepted, DeliveryInv, Numbered
    <3>3. StagesDisjoint' /\ OnlyAccepted'
      <4>1. StagesDisjoint'
        BY <3>1, SendKeepsStages
      <4>2. accepted' = accepted
        BY <2>6 DEF ExceptionRetry
      <4>3. OnlyAccepted'
        BY <3>1, <3>2, <4>2 DEF OnlyAccepted, Sends, TypeInv, TypeOK, QueueTypes
      <4>4. QED
        BY <4>1, <4>3
    <3>4. OneHolder'
      BY <2>6, <3>1, <3>2 DEF OneHolder, Sends, ExceptionRetry, Handle
    <3>5. ASSUME NEW c \in Deliveries PROVE DeliveryInv(c)'
      <4>1. DeliveryInv(c) /\ c[1] \in Msgs /\ c[2] \in 1..MaxReceives
        BY Pairs
      <4>2. /\ Held(c)' => Held(c)
            /\ handler'[c] \in {"succeeded", "failed"} => handler[c] \in {"succeeded", "failed"}
        BY <2>6, <3>1, <3>2 DEF OneHolder, Held, Sends, ExceptionRetry, Handle
      <4>3. QED
        BY <2>6, <3>1, <3>2, <4>1, <4>2 DEF StagesDisjoint, DeliveryInv, Numbered, LatestLeased,
           Handles, Sends, ExceptionRetry, Handle
    <3>6. QED
      BY <3>3, <3>4, <3>5
  <2>7. ASSUME NEW d \in Deliveries, ExceptionGiveUp(d) PROVE QueueInv'
    <3>1. StagesDisjoint' /\ OnlyAccepted'
      BY <2>7 DEF StagesDisjoint, OnlyAccepted, ExceptionGiveUp, Finish, Handle
    <3>2. OneHolder'
      BY <2>7 DEF OneHolder, ExceptionGiveUp, Finish, Handle
    <3>3. ASSUME NEW c \in Deliveries PROVE DeliveryInv(c)'
      <4>1. DeliveryInv(c) /\ c[1] \in Msgs /\ c[2] \in 1..MaxReceives
        BY Pairs
      <4>2. /\ Held(c)' => Held(c)
            /\ handler'[c] \in {"succeeded", "failed"} => handler[c] \in {"succeeded", "failed"}
        BY <2>7 DEF OneHolder, Held, ExceptionGiveUp, Finish, Handle
      <4>3. QED
        BY <2>7, <4>1, <4>2 DEF StagesDisjoint, DeliveryInv, Numbered, LatestLeased, Handles,
           ExceptionGiveUp, Finish, Handle
    <3>4. QED
      BY <3>1, <3>2, <3>3
  <2>8. ASSUME NEW d \in Deliveries, Delete(d) PROVE QueueInv'
    <3>1. DeleteMessage(d)
      BY <2>8 DEF Delete
    <3>2. /\ acked \subseteq acked' /\ d[1] \in acked'
          /\ \A c \in receipts : c \in receipts' \/ c[1] \in acked'
          /\ \A m \in unacked : m \in unacked' \/ m \in acked'
          /\ UNCHANGED <<sent, receiving, lease, count>>
      <4>1. DeliveryInv(d) /\ Held(d)
        BY <2>8 DEF Held, Delete
      <4>2. QED
        BY <3>1, <4>1, DeleteMessageDeletes DEF DeliveryInv, Handles
    <3>3. StagesDisjoint' /\ OnlyAccepted'
      <4>1. /\ ready' \subseteq ready /\ unacked' \subseteq unacked
            /\ UNCHANGED <<sent, waiting, claimed, receiving, lease>>
        BY <3>1, DeleteMessageDeletes
      <4>2. UNCHANGED <<event, accepted>>
        BY <2>8 DEF Delete
      <4>3. QED
        BY <4>1, <4>2 DEF StagesDisjoint, OnlyAccepted
    <3>4. OneHolder'
      BY <2>8, <3>1, DeleteMessageDeletes DEF OneHolder, Delete, Handle
    <3>5. ASSUME NEW c \in Deliveries PROVE DeliveryInv(c)'
      <4>1. DeliveryInv(c) /\ c[1] \in Msgs /\ c[2] \in 1..MaxReceives
        BY Pairs
      <4>2. (Held(c)' => Held(c)) /\ (c # d => handler'[c] = handler[c]) /\ late' = late
        BY <2>8, <3>1, DeleteMessageDeletes DEF OneHolder, Held, Delete, Handle
      <4>3. QED
        BY <3>2, <4>1, <4>2 DEF DeliveryInv, Numbered, LatestLeased, Handles
    <3>6. QED
      BY <3>3, <3>4, <3>5
  <2>9. ASSUME NEW d \in Deliveries, Succeed(d) PROVE QueueInv'
    <3>1. StagesDisjoint' /\ OnlyAccepted'
      BY <2>9 DEF StagesDisjoint, OnlyAccepted, Succeed, Finish, Handle
    <3>2. OneHolder'
      BY <2>9 DEF OneHolder, Succeed, Finish, Handle
    <3>3. ASSUME NEW c \in Deliveries PROVE DeliveryInv(c)'
      <4>1. DeliveryInv(c) /\ c[1] \in Msgs /\ c[2] \in 1..MaxReceives
        BY Pairs
      <4>2. /\ Held(c)' => Held(c)
            /\ handler'[c] \in {"succeeded", "failed"} => handler[c] \in {"succeeded", "failed"}
        BY <2>9 DEF OneHolder, Held, Succeed, Finish, Handle
      <4>3. QED
        BY <2>9, <4>1, <4>2 DEF StagesDisjoint, DeliveryInv, Numbered, LatestLeased, Handles,
           Succeed, Finish, Handle
    <3>4. QED
      BY <3>1, <3>2, <3>3
  <2>10. ASSUME NEW d \in Deliveries, ErrorGiveUp(d) PROVE QueueInv'
    <3>1. StagesDisjoint' /\ OnlyAccepted'
      BY <2>10 DEF StagesDisjoint, OnlyAccepted, ErrorGiveUp, Finish, Handle
    <3>2. OneHolder'
      BY <2>10 DEF OneHolder, ErrorGiveUp, Finish, Handle
    <3>3. ASSUME NEW c \in Deliveries PROVE DeliveryInv(c)'
      <4>1. DeliveryInv(c) /\ c[1] \in Msgs /\ c[2] \in 1..MaxReceives
        BY Pairs
      <4>2. /\ Held(c)' => Held(c)
            /\ handler'[c] \in {"succeeded", "failed"} => handler[c] \in {"succeeded", "failed"}
        BY <2>10 DEF OneHolder, Held, ErrorGiveUp, Finish, Handle
      <4>3. QED
        BY <2>10, <4>1, <4>2 DEF StagesDisjoint, DeliveryInv, Numbered, LatestLeased, Handles,
           ErrorGiveUp, Finish, Handle
    <3>4. QED
      BY <3>1, <3>2, <3>3
  <2>11. ASSUME NEW d \in Deliveries, ErrorRetry(d) PROVE QueueInv'
    <3>1. PICK n \in Msgs : Sends(n, event[d[1]], NextRetry(d[1]))
      BY <2>11, SendMessageSends DEF ErrorRetry
    <3>2. event[d[1]] \in accepted
      <4>1. DeliveryInv(d) /\ Held(d)
        BY <2>11 DEF Held, ErrorRetry
      <4>2. QED
        BY <4>1 DEF OnlyAccepted, DeliveryInv, Numbered
    <3>3. StagesDisjoint' /\ OnlyAccepted'
      <4>1. StagesDisjoint'
        BY <3>1, SendKeepsStages
      <4>2. accepted' = accepted
        BY <2>11 DEF ErrorRetry
      <4>3. OnlyAccepted'
        BY <3>1, <3>2, <4>2 DEF OnlyAccepted, Sends, TypeInv, TypeOK, QueueTypes
      <4>4. QED
        BY <4>1, <4>3
    <3>4. OneHolder'
      BY <2>11, <3>1, <3>2 DEF OneHolder, Sends, ErrorRetry, Handle
    <3>5. ASSUME NEW c \in Deliveries PROVE DeliveryInv(c)'
      <4>1. DeliveryInv(c) /\ c[1] \in Msgs /\ c[2] \in 1..MaxReceives
        BY Pairs
      <4>2. /\ Held(c)' => Held(c)
            /\ handler'[c] \in {"succeeded", "failed"} => handler[c] \in {"succeeded", "failed"}
        BY <2>11, <3>1, <3>2 DEF OneHolder, Held, Sends, ErrorRetry, Handle
      <4>3. QED
        BY <2>11, <3>1, <3>2, <4>1, <4>2 DEF StagesDisjoint, DeliveryInv, Numbered,
           LatestLeased, Handles, Sends, ErrorRetry, Handle
    <3>6. QED
      BY <3>3, <3>4, <3>5
  <2>12. ASSUME NEW d \in Deliveries, QueueGone(d) PROVE QueueInv'
    <3>1. StagesDisjoint' /\ OnlyAccepted'
      BY <2>12 DEF StagesDisjoint, OnlyAccepted, QueueGone, Handle
    <3>2. OneHolder'
      BY <2>12 DEF OneHolder, QueueGone, Handle
    <3>3. ASSUME NEW c \in Deliveries PROVE DeliveryInv(c)'
      <4>1. DeliveryInv(c) /\ c[1] \in Msgs /\ c[2] \in 1..MaxReceives
        BY Pairs
      <4>2. /\ Held(c)' => Held(c)
            /\ handler'[c] \in {"succeeded", "failed"} => handler[c] \in {"succeeded", "failed"}
        BY <2>12 DEF OneHolder, Held, QueueGone, Handle
      <4>3. QED
        BY <2>12, <4>1, <4>2 DEF StagesDisjoint, DeliveryInv, Numbered, LatestLeased, Handles,
           QueueGone, Handle
    <3>4. QED
      BY <3>1, <3>2, <3>3
  <2>13. ASSUME NEW r \in Revs, NEW m \in Msgs, ReceiveClaim(r, m) PROVE QueueInv'
    <3>1. StagesDisjoint' /\ OnlyAccepted'
      BY <2>13 DEF StagesDisjoint, OnlyAccepted, ReceiveClaim, Queue!Claim
    <3>2. OneHolder'
      BY <2>13 DEF OneHolder, ReceiveClaim, Queue!Claim
    <3>3. ASSUME NEW c \in Deliveries PROVE DeliveryInv(c)'
      <4>1. DeliveryInv(c) /\ c[1] \in Msgs /\ c[2] \in 1..MaxReceives
        BY Pairs
      <4>2. /\ Held(c)' => Held(c)
            /\ handler'[c] \in {"succeeded", "failed"} => handler[c] \in {"succeeded", "failed"}
        BY <2>13 DEF OneHolder, Held, ReceiveClaim, Queue!Claim
      <4>3. QED
        BY <2>13, <4>1, <4>2 DEF StagesDisjoint, DeliveryInv, Numbered, LatestLeased, Handles,
           ReceiveClaim, Queue!Claim
    <3>4. QED
      BY <3>1, <3>2, <3>3
  <2>14. ASSUME NEW r \in Revs, NEW d \in Deliveries, Submit(r, d) PROVE QueueInv'
    <3>1. StagesDisjoint' /\ OnlyAccepted'
      BY <2>14 DEF StagesDisjoint, OnlyAccepted, Submit
    <3>2. OneHolder'
      BY <2>14 DEF OneHolder, Submit
    <3>3. ASSUME NEW c \in Deliveries PROVE DeliveryInv(c)'
      <4>1. DeliveryInv(c) /\ c[1] \in Msgs /\ c[2] \in 1..MaxReceives
        BY Pairs
      <4>2. /\ Held(c)' => Held(c)
            /\ handler'[c] \in {"succeeded", "failed"} => handler[c] \in {"succeeded", "failed"}
        BY <2>14 DEF OneHolder, Held, Submit
      <4>3. QED
        BY <2>14, <4>1, <4>2 DEF StagesDisjoint, DeliveryInv, Numbered, LatestLeased, Handles,
           Submit
    <3>4. QED
      BY <3>1, <3>2, <3>3
  <2>15. ASSUME NEW r \in Revs, ReceiveDiscard(r) PROVE QueueInv'
    <3>1. StagesDisjoint' /\ OnlyAccepted'
      BY <2>15 DEF StagesDisjoint, OnlyAccepted, ReceiveDiscard, Queue!Discard
    <3>2. OneHolder'
      BY <2>15 DEF OneHolder, ReceiveDiscard, Queue!Discard
    <3>3. ASSUME NEW c \in Deliveries PROVE DeliveryInv(c)'
      <4>1. DeliveryInv(c) /\ c[1] \in Msgs /\ c[2] \in 1..MaxReceives
        BY Pairs
      <4>2. /\ Held(c)' => Held(c)
            /\ handler'[c] \in {"succeeded", "failed"} => handler[c] \in {"succeeded", "failed"}
        BY <2>15 DEF OneHolder, Held, ReceiveDiscard, Queue!Discard
      <4>3. QED
        BY <2>15, <4>1, <4>2 DEF StagesDisjoint, DeliveryInv, Numbered, LatestLeased, Handles,
           ReceiveDiscard, Queue!Discard
    <3>4. QED
      BY <3>1, <3>2, <3>3
  <2>16. ASSUME NEW r \in Revs, ReceiveCount(r) PROVE QueueInv'
    <3>1. StagesDisjoint' /\ OnlyAccepted'
      BY <2>16 DEF StagesDisjoint, OnlyAccepted, ReceiveCount, Queue!Count
    <3>2. OneHolder'
      BY <2>16 DEF OneHolder, ReceiveCount, Queue!Count
    <3>3. ASSUME NEW c \in Deliveries PROVE DeliveryInv(c)'
      <4>1. DeliveryInv(c) /\ c[1] \in Msgs /\ c[2] \in 1..MaxReceives
        BY Pairs
      <4>2. /\ Held(c)' => Held(c)
            /\ handler'[c] \in {"succeeded", "failed"} => handler[c] \in {"succeeded", "failed"}
        BY <2>16 DEF OneHolder, Held, ReceiveCount, Queue!Count
      <4>3. QED
        BY <2>16, <4>1, <4>2 DEF StagesDisjoint, DeliveryInv, Numbered, LatestLeased, Handles,
           ReceiveCount, Queue!Count
    <3>4. QED
      BY <3>1, <3>2, <3>3
  <2>17. ASSUME NEW r \in Revs, ReceiveDeliver(r) PROVE QueueInv'
    <3> DEFINE l == Latest(fetching[r])
    <3>1. /\ fetching[r] \in receiving
          /\ l \in Deliveries /\ l[1] = fetching[r] /\ l[2] = count[fetching[r]]
      BY <2>17 DEF ReceiveDeliver, Latest, Deliveries
    <3>2. ~Held(l) /\ l \notin late
      BY <3>1 DEF DeliveryInv, Numbered
    <3>3. /\ batch' = [batch EXCEPT ![r] = batch[r] \cup {l}] /\ receipts' = receipts \cup {l}
          /\ receiving' = receiving \ {l[1]} /\ unacked' = unacked \cup {l[1]}
          /\ UNCHANGED <<sent, waiting, ready, claimed, acked, lease, count, late, handler, event,
                         accepted>>
      BY <2>17, <3>1 DEF ReceiveDeliver, Queue!Deliver, StagesDisjoint
    <3> HIDE DEF l
    <3>4. StagesDisjoint' /\ OnlyAccepted'
      <4>1. PICK m : m = l[1]
        OBVIOUS
      <4>2. m \in receiving /\ receiving' = receiving \ {m} /\ unacked' = unacked \cup {m}
        BY <3>1, <3>3, <4>1
      <4>3. QED
        <5>1. OnlyAccepted'
          BY <3>3 DEF OnlyAccepted
        <5>2. StagesDisjoint'
          BY <3>3, <4>2 DEF StagesDisjoint
        <5>3. QED
          BY <5>1, <5>2
    <3>5. OneHolder'
      BY <3>1, <3>2, <3>3 DEF OneHolder, Held
    <3>6. ASSUME NEW c \in Deliveries PROVE DeliveryInv(c)'
      <4>1. DeliveryInv(c) /\ c[1] \in Msgs /\ c[2] \in 1..MaxReceives
        BY Pairs
      <4>2. Held(c)' => Held(c) \/ c = l
        BY <3>1, <3>2, <3>3 DEF Held
      <4>3. QED
        BY <3>1, <3>2, <3>3, <4>1, <4>2 DEF StagesDisjoint, DeliveryInv, Numbered, LatestLeased,
           Handles
    <3>7. QED
      BY <3>4, <3>5, <3>6
  <2>18. ASSUME NEW r \in Revs, Received(r) PROVE QueueInv'
    <3>1. StagesDisjoint' /\ OnlyAccepted'
      BY <2>18 DEF StagesDisjoint, OnlyAccepted, Received
    <3>2. OneHolder'
      <4>1. handler' = handler /\ \A q \in Revs : batch'[q] \subseteq batch[q]
        <5>1. handler' = handler /\ (batch' = batch \/ batch' = [batch EXCEPT ![r] = {}])
          BY <2>18 DEF Received
        <5>2. batch \in [Revs -> SUBSET Deliveries]
          OBVIOUS
        <5>3. QED
          BY <5>1, <5>2
      <4>2. QED
        BY <4>1 DEF OneHolder
    <3>3. ASSUME NEW c \in Deliveries PROVE DeliveryInv(c)'
      <4>1. DeliveryInv(c) /\ c[1] \in Msgs /\ c[2] \in 1..MaxReceives
        BY Pairs
      <4>2. /\ Held(c)' => Held(c)
            /\ handler'[c] \in {"succeeded", "failed"} => handler[c] \in {"succeeded", "failed"}
        BY <2>18 DEF OneHolder, Held, Received
      <4>3. QED
        BY <2>18, <4>1, <4>2 DEF StagesDisjoint, DeliveryInv, Numbered, LatestLeased, Handles,
           Received
    <3>4. QED
      BY <3>1, <3>2, <3>3
  <2>19. ASSUME NEW r \in Revs, PollLoop(r) PROVE QueueInv'
    <3>1. StagesDisjoint' /\ OnlyAccepted'
      BY <2>19 DEF StagesDisjoint, OnlyAccepted, PollLoop
    <3>2. OneHolder'
      BY <2>19 DEF OneHolder, PollLoop
    <3>3. ASSUME NEW c \in Deliveries PROVE DeliveryInv(c)'
      <4>1. DeliveryInv(c) /\ c[1] \in Msgs /\ c[2] \in 1..MaxReceives
        BY Pairs
      <4>2. /\ Held(c)' => Held(c)
            /\ handler'[c] \in {"succeeded", "failed"} => handler[c] \in {"succeeded", "failed"}
        BY <2>19 DEF OneHolder, Held, PollLoop
      <4>3. QED
        BY <2>19, <4>1, <4>2 DEF StagesDisjoint, DeliveryInv, Numbered, LatestLeased, Handles,
           PollLoop
    <3>4. QED
      BY <3>1, <3>2, <3>3
  <2>20. ASSUME NEW r \in Revs, SubmitRefused(r) PROVE QueueInv'
    <3>1. StagesDisjoint' /\ OnlyAccepted'
      BY <2>20 DEF StagesDisjoint, OnlyAccepted, SubmitRefused
    <3>2. OneHolder'
      BY <2>20 DEF OneHolder, SubmitRefused
    <3>3. ASSUME NEW c \in Deliveries PROVE DeliveryInv(c)'
      <4>1. DeliveryInv(c) /\ c[1] \in Msgs /\ c[2] \in 1..MaxReceives
        BY Pairs
      <4>2. /\ Held(c)' => Held(c)
            /\ handler'[c] \in {"succeeded", "failed"} => handler[c] \in {"succeeded", "failed"}
        BY <2>20 DEF OneHolder, Held, SubmitRefused
      <4>3. QED
        BY <2>20, <4>1, <4>2 DEF StagesDisjoint, DeliveryInv, Numbered, LatestLeased, Handles,
           SubmitRefused
    <3>4. QED
      BY <3>1, <3>2, <3>3
  <2>21. CASE StartManager
    <3>1. StagesDisjoint' /\ OnlyAccepted'
      BY <2>21 DEF StagesDisjoint, OnlyAccepted, StartManager, StartPoller
    <3>2. OneHolder'
      BY <2>21 DEF OneHolder, StartManager, StartPoller
    <3>3. ASSUME NEW c \in Deliveries PROVE DeliveryInv(c)'
      <4>1. DeliveryInv(c) /\ c[1] \in Msgs /\ c[2] \in 1..MaxReceives
        BY Pairs
      <4>2. /\ Held(c)' => Held(c)
            /\ handler'[c] \in {"succeeded", "failed"} => handler[c] \in {"succeeded", "failed"}
        BY <2>21 DEF OneHolder, Held, StartManager, StartPoller
      <4>3. QED
        BY <2>21, <4>1, <4>2 DEF StagesDisjoint, DeliveryInv, Numbered, LatestLeased, Handles,
           StartManager, StartPoller
    <3>4. QED
      BY <3>1, <3>2, <3>3
  <2>22. CASE StopForUpdate
    <3>1. StagesDisjoint' /\ OnlyAccepted'
      BY <2>22 DEF StagesDisjoint, OnlyAccepted, StopForUpdate, StopPoller
    <3>2. OneHolder'
      BY <2>22 DEF OneHolder, StopForUpdate, StopPoller
    <3>3. ASSUME NEW c \in Deliveries PROVE DeliveryInv(c)'
      <4>1. DeliveryInv(c) /\ c[1] \in Msgs /\ c[2] \in 1..MaxReceives
        BY Pairs
      <4>2. /\ Held(c)' => Held(c)
            /\ handler'[c] \in {"succeeded", "failed"} => handler[c] \in {"succeeded", "failed"}
        BY <2>22 DEF OneHolder, Held, StopForUpdate, StopPoller
      <4>3. QED
        BY <2>22, <4>1, <4>2 DEF StagesDisjoint, DeliveryInv, Numbered, LatestLeased, Handles,
           StopForUpdate, StopPoller
    <3>4. QED
      BY <3>1, <3>2, <3>3
  <2>23. CASE StopOldVersion
    <3>1. StagesDisjoint' /\ OnlyAccepted'
      BY <2>23 DEF StagesDisjoint, OnlyAccepted, StopOldVersion
    <3>2. OneHolder'
      BY <2>23 DEF OneHolder, StopOldVersion
    <3>3. ASSUME NEW c \in Deliveries PROVE DeliveryInv(c)'
      <4>1. DeliveryInv(c) /\ c[1] \in Msgs /\ c[2] \in 1..MaxReceives
        BY Pairs
      <4>2. /\ Held(c)' => Held(c)
            /\ handler'[c] \in {"succeeded", "failed"} => handler[c] \in {"succeeded", "failed"}
        BY <2>23 DEF OneHolder, Held, StopOldVersion
      <4>3. QED
        BY <2>23, <4>1, <4>2 DEF StagesDisjoint, DeliveryInv, Numbered, LatestLeased, Handles,
           StopOldVersion
    <3>4. QED
      BY <3>1, <3>2, <3>3
  <2>24. CASE UpdateDone
    <3>1. StagesDisjoint' /\ OnlyAccepted'
      BY <2>24 DEF StagesDisjoint, OnlyAccepted, UpdateDone
    <3>2. OneHolder'
      BY <2>24 DEF OneHolder, UpdateDone
    <3>3. ASSUME NEW c \in Deliveries PROVE DeliveryInv(c)'
      <4>1. DeliveryInv(c) /\ c[1] \in Msgs /\ c[2] \in 1..MaxReceives
        BY Pairs
      <4>2. /\ Held(c)' => Held(c)
            /\ handler'[c] \in {"succeeded", "failed"} => handler[c] \in {"succeeded", "failed"}
        BY <2>24 DEF OneHolder, Held, UpdateDone
      <4>3. QED
        BY <2>24, <4>1, <4>2 DEF StagesDisjoint, DeliveryInv, Numbered, LatestLeased, Handles,
           UpdateDone
    <3>4. QED
      BY <3>1, <3>2, <3>3
  <2>25. CASE StopManager
    <3>1. StagesDisjoint' /\ OnlyAccepted'
      BY <2>25 DEF StagesDisjoint, OnlyAccepted, StopManager, StopPoller
    <3>2. OneHolder'
      BY <2>25 DEF OneHolder, StopManager, StopPoller
    <3>3. ASSUME NEW c \in Deliveries PROVE DeliveryInv(c)'
      <4>1. DeliveryInv(c) /\ c[1] \in Msgs /\ c[2] \in 1..MaxReceives
        BY Pairs
      <4>2. /\ Held(c)' => Held(c)
            /\ handler'[c] \in {"succeeded", "failed"} => handler[c] \in {"succeeded", "failed"}
        BY <2>25 DEF OneHolder, Held, StopManager, StopPoller
      <4>3. QED
        BY <2>25, <4>1, <4>2 DEF StagesDisjoint, DeliveryInv, Numbered, LatestLeased, Handles,
           StopManager, StopPoller
    <3>4. QED
      BY <3>1, <3>2, <3>3
  <2>26. CASE DeleteQueue
    <3>1. StagesDisjoint' /\ OnlyAccepted'
      BY <2>26 DEF StagesDisjoint, OnlyAccepted, DeleteQueue, Queue!Close
    <3>2. OneHolder'
      BY <2>26 DEF OneHolder, DeleteQueue, Queue!Close
    <3>3. ASSUME NEW c \in Deliveries PROVE DeliveryInv(c)'
      <4>1. DeliveryInv(c) /\ c[1] \in Msgs /\ c[2] \in 1..MaxReceives
        BY Pairs
      <4>2. /\ Held(c)' => Held(c)
            /\ handler'[c] \in {"succeeded", "failed"} => handler[c] \in {"succeeded", "failed"}
        BY <2>26 DEF OneHolder, Held, DeleteQueue, Queue!Close
      <4>3. QED
        BY <2>26, <4>1, <4>2 DEF StagesDisjoint, DeliveryInv, Numbered, LatestLeased, Handles,
           DeleteQueue, Queue!Close
    <3>4. QED
      BY <3>1, <3>2, <3>3
  <2>27. CASE UNCHANGED vars
    <3>1. StagesDisjoint' /\ OnlyAccepted'
      BY <2>27 DEF StagesDisjoint, OnlyAccepted, vars
    <3>2. OneHolder'
      BY <2>27 DEF OneHolder, vars
    <3>3. ASSUME NEW c \in Deliveries PROVE DeliveryInv(c)'
      <4>1. DeliveryInv(c) /\ c[1] \in Msgs /\ c[2] \in 1..MaxReceives
        BY Pairs
      <4>2. /\ Held(c)' => Held(c)
            /\ handler'[c] \in {"succeeded", "failed"} => handler[c] \in {"succeeded", "failed"}
        BY <2>27 DEF OneHolder, Held, vars
      <4>3. QED
        BY <2>27, <4>1, <4>2 DEF StagesDisjoint, DeliveryInv, Numbered, LatestLeased, Handles,
           vars
    <3>4. QED
      BY <3>1, <3>2, <3>3
  <2>28. QED
    BY <2>1, <2>2, <2>3, <2>4, <2>5, <2>6, <2>7, <2>8, <2>9, <2>10, <2>11, <2>12, <2>13, <2>14,
       <2>15, <2>16, <2>17, <2>18, <2>19, <2>20, <2>21, <2>22, <2>23, <2>24, <2>25, <2>26,
       <2>27
       DEF Next, HandleMessage, Poll, Service
<1>3. QED
  BY <1>1, <1>2, TypeInvHolds, PTL DEF Spec

-----------------------------------------------------------------------------

\* What EventKept asks of a message.
Kept(m) ==
    \/ InQueue(m) /\ m \notin acked /\ ~Handled(m, {"delete"})
    \/ Handled(m, {"succeeded", "failed"})

\* EventKept with its disjunction named.
LEMMA KeptIs ==
    EventKept <=> (open => \A e \in accepted : results[e] > 0 \/ \E m \in Msgs : event[m] = e /\ Kept(m))
BY DEF EventKept, Kept

\* The step leaves every message to the queue or the thread that keeps it.
KeptFollows ==
    /\ UNCHANGED <<event, accepted, results>> /\ (open' => open)
    /\ open' => \A m \in Msgs : Kept(m) => Kept(m)'

\* Such a step loses no event.
LEMMA FollowingKeeps == ASSUME EventKept, KeptFollows PROVE EventKept'
<1>1. EventKept' <=> (open' => \A e \in accepted' : results'[e] > 0 \/ \E m \in Msgs :
          event'[m] = e /\ Kept(m)')
  BY DEF EventKept, Kept
<1>2. QED
  BY <1>1, KeptIs DEF KeptFollows

\* A thread has done something about its event: it has a result, or another message.
LEMMA PassedKeeps ==
    ASSUME EventKept, NEW d \in Deliveries, accepted' = accepted /\ open' = open,
           \A e \in accepted : e # event[d[1]] /\ results[e] > 0 => results'[e] > 0,
           \/ results'[event[d[1]]] > 0
           \/ \E n \in Msgs : event'[n] = event[d[1]] /\ Kept(n)',
           \A m \in Msgs : event[m] # event[d[1]] /\ Kept(m) /\ open => event'[m] = event[m] /\ Kept(m)'
    PROVE  EventKept'
<1>1. EventKept' <=> (open' => \A e \in accepted' : results'[e] > 0 \/ \E m \in Msgs :
          event'[m] = e /\ Kept(m)')
  BY DEF EventKept, Kept
<1>2. QED
  BY <1>1, KeptIs

\* No event is lost.
LEMMA EventKeptHolds == Spec => []EventKept
<1>1. Init => EventKept
  BY DEF Init, EventKept
<1>2. TypeInv /\ TypeInv' /\ QueueInv /\ EventKept /\ [Next]_vars => EventKept'
  <2> SUFFICES ASSUME TypeInv, TypeInv', QueueInv, EventKept, [Next]_vars PROVE EventKept'
    OBVIOUS
  <2> USE DEF queueVars, bodyVars, serviceVars, pollerVars, handlerVars, eventVars
  <2>1. ASSUME NEW e \in Events, EnqueueEvent(e) PROVE EventKept'
    <3>1. PICK n \in Msgs : Sends(n, e, 0)
      BY <2>1, SendMessageSends DEF EnqueueEvent
    <3>2. handler' = handler /\ \A c \in Deliveries : c[1] = n => handler[c] = "none"
      BY <2>1, <3>1 DEF EnqueueEvent, Sends, QueueInv, DeliveryInv, Numbered, Held
    <3>3. event'[n] = e /\ Kept(n)'
      <4>1. event'[n] = e /\ InQueue(n)' /\ n \notin acked'
        BY <3>1 DEF Sends, InQueue, TypeInv, TypeOK, QueueTypes
      <4>2. QED
        BY <3>2, <4>1 DEF Kept, Handled
    <3>4. \A m \in Msgs : Kept(m) => event'[m] = event[m] /\ Kept(m)'
      <4>1. SUFFICES ASSUME NEW m \in Msgs, Kept(m) PROVE event'[m] = event[m] /\ Kept(m)'
        OBVIOUS
      <4>2. m # n
        BY <3>1, <3>2, <4>1 DEF Kept, InQueue, Handled, Sends, TypeInv, QueueTypes
      <4>3. QED
        BY <3>1, <3>2, <4>1, <4>2 DEF Kept, InQueue, Handled, Sends, TypeInv, TypeOK
    <3>5. accepted' = accepted \cup {e} /\ open' = open /\ results' = results
      BY <2>1, <3>1 DEF EnqueueEvent, Sends
    <3>6. EventKept' <=> (open' => \A x \in accepted' :
                            results'[x] > 0 \/ \E m \in Msgs : event'[m] = x /\ Kept(m)')
      BY DEF EventKept, Kept
    <3>7. QED
      BY <3>3, <3>4, <3>5, <3>6, KeptIs
  <2>2. CASE Rollover
    <3>1. KeptFollows
      BY <2>2 DEF KeptFollows, Kept, InQueue, Handled, TypeInv, TypeOK, Rollover
    <3>2. QED
      BY <3>1, FollowingKeeps
  <2>3. CASE DeleteFunction
    <3>1. KeptFollows
      BY <2>3 DEF KeptFollows, Kept, InQueue, Handled, TypeInv, TypeOK, DeleteFunction
    <3>2. QED
      BY <3>1, FollowingKeeps
  <2>4. ASSUME NEW m \in Msgs, QueueStep(m) PROVE EventKept'
    <3>1. KeptFollows
      BY <2>4 DEF KeptFollows, Kept, InQueue, Handled, TypeInv, TypeOK, QueueStep, LeaseEnds,
         Queue!Ripen, Queue!Return, Queue!LeaseEnds
    <3>2. QED
      BY <3>1, FollowingKeeps
  <2>5. ASSUME NEW d \in Deliveries, Invoke(d) PROVE EventKept'
    <3>1. KeptFollows
      BY <2>5 DEF KeptFollows, Kept, InQueue, Handled, TypeInv, TypeOK, Invoke, Handle
    <3>2. QED
      BY <3>1, FollowingKeeps
  <2>6. ASSUME NEW d \in Deliveries, ExceptionRetry(d) PROVE EventKept'
    <3>1. PICK n \in Msgs : Sends(n, event[d[1]], retries[d[1]])
      BY <2>6, SendMessageSends DEF ExceptionRetry, ReturnToQueue
    <3>2. \A c \in Deliveries : c[1] = n => handler[c] = "none"
      BY <3>1 DEF Sends, QueueInv, DeliveryInv, Numbered, Held
    <3>3. event'[n] = event[d[1]] /\ Kept(n)'
      <4>1. handler[d] # "none" /\ \A c \in Deliveries : c # d => handler'[c] = handler[c]
        BY <2>6 DEF ExceptionRetry, Handle, TypeInv, TypeOK
      <4>2. \A c \in Deliveries : c[1] = n => handler'[c] = "none"
        BY <3>2, <4>1
      <4>3. event'[n] = event[d[1]] /\ InQueue(n)' /\ n \notin acked'
        BY <3>1 DEF Sends, InQueue, TypeInv, TypeOK, QueueTypes
      <4>4. QED
        BY <4>2, <4>3 DEF Kept, Handled
    <3>4. \A m \in Msgs : event[m] # event[d[1]] /\ Kept(m) => event'[m] = event[m] /\ Kept(m)'
      <4>1. SUFFICES ASSUME NEW m \in Msgs, event[m] # event[d[1]], Kept(m)
                     PROVE  event'[m] = event[m] /\ Kept(m)'
        OBVIOUS
      <4>2. m # n
        BY <3>1, <3>2, <4>1 DEF Kept, InQueue, Handled, Sends, TypeInv, QueueTypes
      <4>3. \A c \in Deliveries : c[1] = m => handler'[c] = handler[c]
        BY <2>6, <4>1 DEF ExceptionRetry, Handle, TypeInv, TypeOK
      <4>4. QED
        BY <3>1, <4>1, <4>2, <4>3 DEF Kept, InQueue, Handled, Sends, TypeInv, TypeOK
    <3>5. UNCHANGED <<accepted, open, results>>
      BY <2>6, <3>1 DEF ExceptionRetry, Sends
    <3>6. QED
      BY <3>3, <3>4, <3>5, PassedKeeps
  <2>7. ASSUME NEW d \in Deliveries, ExceptionGiveUp(d) PROVE EventKept'
    <3>1. event[d[1]] \in Events
      <4>1. DeliveryInv(d) /\ Held(d)
        BY <2>7 DEF Held, QueueInv, ExceptionGiveUp
      <4>2. QED
        BY <4>1 DEF QueueInv, OnlyAccepted, DeliveryInv, Numbered, TypeInv, TypeOK
    <3>2. /\ results'[event[d[1]]] > 0
          /\ \A e \in accepted : e # event[d[1]] => results'[e] = results[e]
      <4>1. Finish(event[d[1]]) /\ results \in [Events -> Nat] /\ accepted \subseteq Events
        BY <2>7 DEF ExceptionGiveUp, TypeInv, TypeOK
      <4>2. QED
        BY <3>1, <4>1, FinishCounts
    <3>3. \A m \in Msgs : event[m] # event[d[1]] /\ Kept(m) => Kept(m)'
      BY <2>7 DEF Kept, InQueue, Handled, TypeInv, TypeOK, ExceptionGiveUp, Handle
    <3>4. UNCHANGED <<accepted, open, event>>
      BY <2>7 DEF ExceptionGiveUp
    <3>5. QED
      BY <3>2, <3>3, <3>4, PassedKeeps
  <2>8. ASSUME NEW d \in Deliveries, Delete(d) PROVE EventKept'
    <3>1. DeleteMessage(d) /\ UNCHANGED <<event, accepted, results>>
      BY <2>8 DEF Delete
    <3>2. open' = open /\ \A m \in Msgs \ {d[1]} : InQueue(m) /\
              m \notin acked => InQueue(m)' /\ m \notin acked'
      BY <3>1, DeleteMessageDeletes DEF InQueue
    <3>3. /\ \A c \in Deliveries \ {d} : handler'[c] = handler[c]
          /\ \/ handler[d] = "delete" /\ handler'[d] = "none"
             \/ handler'[d] \in {"succeeded", "failed"}
          /\ handler[d] \notin {"succeeded", "failed"}
      BY <2>8 DEF Delete, Handle, TypeInv, TypeOK
    <3>4. \A m \in Msgs \ {d[1]} : Kept(m) => Kept(m)'
      BY <3>2, <3>3 DEF Kept, Handled
    <3>5. Kept(d[1]) => Kept(d[1])'
      BY <3>3 DEF Kept, Handled
    <3>6. KeptFollows
      BY <3>1, <3>2, <3>4, <3>5 DEF KeptFollows
    <3>7. QED
      BY <3>6, FollowingKeeps
  <2>9. ASSUME NEW d \in Deliveries, Succeed(d) PROVE EventKept'
    <3>1. event[d[1]] \in Events
      <4>1. DeliveryInv(d) /\ Held(d)
        BY <2>9 DEF Held, QueueInv, Succeed
      <4>2. QED
        BY <4>1 DEF QueueInv, OnlyAccepted, DeliveryInv, Numbered, TypeInv, TypeOK
    <3>2. /\ results'[event[d[1]]] > 0
          /\ \A e \in accepted : e # event[d[1]] => results'[e] = results[e]
      <4>1. Finish(event[d[1]]) /\ results \in [Events -> Nat] /\ accepted \subseteq Events
        BY <2>9 DEF Succeed, TypeInv, TypeOK
      <4>2. QED
        BY <3>1, <4>1, FinishCounts
    <3>3. \A m \in Msgs : event[m] # event[d[1]] /\ Kept(m) => Kept(m)'
      BY <2>9 DEF Kept, InQueue, Handled, TypeInv, TypeOK, Succeed, Handle
    <3>4. UNCHANGED <<accepted, open, event>>
      BY <2>9 DEF Succeed
    <3>5. QED
      BY <3>2, <3>3, <3>4, PassedKeeps
  <2>10. ASSUME NEW d \in Deliveries, ErrorGiveUp(d) PROVE EventKept'
    <3>1. event[d[1]] \in Events
      <4>1. DeliveryInv(d) /\ Held(d)
        BY <2>10 DEF Held, QueueInv, ErrorGiveUp
      <4>2. QED
        BY <4>1 DEF QueueInv, OnlyAccepted, DeliveryInv, Numbered, TypeInv, TypeOK
    <3>2. /\ results'[event[d[1]]] > 0
          /\ \A e \in accepted : e # event[d[1]] => results'[e] = results[e]
      <4>1. Finish(event[d[1]]) /\ results \in [Events -> Nat] /\ accepted \subseteq Events
        BY <2>10 DEF ErrorGiveUp, TypeInv, TypeOK
      <4>2. QED
        BY <3>1, <4>1, FinishCounts
    <3>3. \A m \in Msgs : event[m] # event[d[1]] /\ Kept(m) => Kept(m)'
      BY <2>10 DEF Kept, InQueue, Handled, TypeInv, TypeOK, ErrorGiveUp, Handle
    <3>4. UNCHANGED <<accepted, open, event>>
      BY <2>10 DEF ErrorGiveUp
    <3>5. QED
      BY <3>2, <3>3, <3>4, PassedKeeps
  <2>11. ASSUME NEW d \in Deliveries, ErrorRetry(d) PROVE EventKept'
    <3>1. PICK n \in Msgs : Sends(n, event[d[1]], NextRetry(d[1]))
      BY <2>11, SendMessageSends DEF ErrorRetry
    <3>2. \A c \in Deliveries : c[1] = n => handler[c] = "none"
      BY <3>1 DEF Sends, QueueInv, DeliveryInv, Numbered, Held
    <3>3. event'[n] = event[d[1]] /\ Kept(n)'
      <4>1. handler[d] # "none" /\ \A c \in Deliveries : c # d => handler'[c] = handler[c]
        BY <2>11 DEF ErrorRetry, Handle, TypeInv, TypeOK
      <4>2. \A c \in Deliveries : c[1] = n => handler'[c] = "none"
        BY <3>2, <4>1
      <4>3. event'[n] = event[d[1]] /\ InQueue(n)' /\ n \notin acked'
        BY <3>1 DEF Sends, InQueue, TypeInv, TypeOK, QueueTypes
      <4>4. QED
        BY <4>2, <4>3 DEF Kept, Handled
    <3>4. \A m \in Msgs : event[m] # event[d[1]] /\ Kept(m) => event'[m] = event[m] /\ Kept(m)'
      <4>1. SUFFICES ASSUME NEW m \in Msgs, event[m] # event[d[1]], Kept(m)
                     PROVE  event'[m] = event[m] /\ Kept(m)'
        OBVIOUS
      <4>2. m # n
        BY <3>1, <3>2, <4>1 DEF Kept, InQueue, Handled, Sends, TypeInv, QueueTypes
      <4>3. \A c \in Deliveries : c[1] = m => handler'[c] = handler[c]
        BY <2>11, <4>1 DEF ErrorRetry, Handle, TypeInv, TypeOK
      <4>4. QED
        BY <3>1, <4>1, <4>2, <4>3 DEF Kept, InQueue, Handled, Sends, TypeInv, TypeOK
    <3>5. UNCHANGED <<accepted, open, results>>
      BY <2>11, <3>1 DEF ErrorRetry, Sends
    <3>6. QED
      BY <3>3, <3>4, <3>5, PassedKeeps
  <2>12. ASSUME NEW d \in Deliveries, QueueGone(d) PROVE EventKept'
    <3>1. KeptFollows
      BY <2>12 DEF KeptFollows, Kept, InQueue, Handled, TypeInv, TypeOK, QueueGone, Handle
    <3>2. QED
      BY <3>1, FollowingKeeps
  <2>13. ASSUME NEW r \in Revs, NEW m \in Msgs, ReceiveClaim(r, m) PROVE EventKept'
    <3>1. KeptFollows
      BY <2>13 DEF KeptFollows, Kept, InQueue, Handled, TypeInv, TypeOK, ReceiveClaim, Queue!Claim
    <3>2. QED
      BY <3>1, FollowingKeeps
  <2>14. ASSUME NEW r \in Revs, NEW d \in Deliveries, Submit(r, d) PROVE EventKept'
    <3>1. KeptFollows
      BY <2>14 DEF QueueInv, OneHolder, KeptFollows, Kept, InQueue, Handled, TypeInv, TypeOK,
         Submit
    <3>2. QED
      BY <3>1, FollowingKeeps
  <2>15. ASSUME NEW r \in Revs, ReceiveDiscard(r) PROVE EventKept'
    <3>1. KeptFollows
      BY <2>15 DEF KeptFollows, Kept, InQueue, Handled, TypeInv, TypeOK, ReceiveDiscard,
         Queue!Discard
    <3>2. QED
      BY <3>1, FollowingKeeps
  <2>16. ASSUME NEW r \in Revs, ReceiveCount(r) PROVE EventKept'
    <3>1. KeptFollows
      BY <2>16 DEF KeptFollows, Kept, InQueue, Handled, TypeInv, TypeOK, ReceiveCount, Queue!Count
    <3>2. QED
      BY <3>1, FollowingKeeps
  <2>17. ASSUME NEW r \in Revs, ReceiveDeliver(r) PROVE EventKept'
    <3>1. KeptFollows
      BY <2>17 DEF KeptFollows, Kept, InQueue, Handled, TypeInv, TypeOK, ReceiveDeliver,
         Queue!Deliver, Latest
    <3>2. QED
      BY <3>1, FollowingKeeps
  <2>18. ASSUME NEW r \in Revs, Received(r) PROVE EventKept'
    <3>1. KeptFollows
      BY <2>18 DEF KeptFollows, Kept, InQueue, Handled, TypeInv, TypeOK, Received
    <3>2. QED
      BY <3>1, FollowingKeeps
  <2>19. ASSUME NEW r \in Revs, PollLoop(r) PROVE EventKept'
    <3>1. KeptFollows
      BY <2>19 DEF KeptFollows, Kept, InQueue, Handled, TypeInv, TypeOK, PollLoop
    <3>2. QED
      BY <3>1, FollowingKeeps
  <2>20. ASSUME NEW r \in Revs, SubmitRefused(r) PROVE EventKept'
    <3>1. KeptFollows
      BY <2>20 DEF KeptFollows, Kept, InQueue, Handled, TypeInv, TypeOK, SubmitRefused
    <3>2. QED
      BY <3>1, FollowingKeeps
  <2>21. CASE StartManager
    <3>1. KeptFollows
      BY <2>21 DEF KeptFollows, Kept, InQueue, Handled, TypeInv, TypeOK, StartManager, StartPoller
    <3>2. QED
      BY <3>1, FollowingKeeps
  <2>22. CASE StopForUpdate
    <3>1. KeptFollows
      BY <2>22 DEF KeptFollows, Kept, InQueue, Handled, TypeInv, TypeOK, StopForUpdate, StopPoller
    <3>2. QED
      BY <3>1, FollowingKeeps
  <2>23. CASE StopOldVersion
    <3>1. KeptFollows
      BY <2>23 DEF KeptFollows, Kept, InQueue, Handled, TypeInv, TypeOK, StopOldVersion
    <3>2. QED
      BY <3>1, FollowingKeeps
  <2>24. CASE UpdateDone
    <3>1. KeptFollows
      BY <2>24 DEF KeptFollows, Kept, InQueue, Handled, TypeInv, TypeOK, UpdateDone
    <3>2. QED
      BY <3>1, FollowingKeeps
  <2>25. CASE StopManager
    <3>1. KeptFollows
      BY <2>25 DEF KeptFollows, Kept, InQueue, Handled, TypeInv, TypeOK, StopManager, StopPoller
    <3>2. QED
      BY <3>1, FollowingKeeps
  <2>26. CASE DeleteQueue
    <3>1. KeptFollows
      BY <2>26 DEF KeptFollows, Kept, InQueue, Handled, TypeInv, TypeOK, DeleteQueue, Queue!Close
    <3>2. QED
      BY <3>1, FollowingKeeps
  <2>27. CASE UNCHANGED vars
    <3>1. KeptFollows
      BY <2>27 DEF KeptFollows, Kept, InQueue, Handled, TypeInv, TypeOK, vars
    <3>2. QED
      BY <3>1, FollowingKeeps
  <2>28. QED
    BY <2>1, <2>2, <2>3, <2>4, <2>5, <2>6, <2>7, <2>8, <2>9, <2>10, <2>11, <2>12, <2>13, <2>14,
       <2>15, <2>16, <2>17, <2>18, <2>19, <2>20, <2>21, <2>22, <2>23, <2>24, <2>25, <2>26,
       <2>27
       DEF Next, HandleMessage, Poll, Service
<1>3. QED
  BY <1>1, <1>2, TypeInvHolds, QueueInvHolds, PTL DEF Spec

-----------------------------------------------------------------------------

\* Counting items.
LEMMA CountItems ==
    ASSUME NEW S \in SUBSET Items
    PROVE  IsFiniteSet(S) /\ Cardinality(S) \in Nat
<1>1. IsFiniteSet(Msgs) /\ IsFiniteSet(0..MaxReceives)
  BY FS_Interval, BoundsAssumption DEF Msgs
<1>2. IsFiniteSet(Items)
  BY <1>1, FS_Product DEF Items
<1>3. QED
  BY <1>2, FS_Subset, FS_CardinalityType

\* Fewer items ...
LEMMA CountLess ==
    ASSUME NEW S \in SUBSET Items, NEW R \in SUBSET S
    PROVE  Cardinality(R) <= Cardinality(S)
BY CountItems, FS_Subset

\* ... one item more ...
LEMMA CountMore ==
    ASSUME NEW S \in SUBSET Items, NEW y \in Items, NEW R \in SUBSET (S \cup {y})
    PROVE  Cardinality(R) <= Cardinality(S) + 1
<1>1. IsFiniteSet(S) /\ Cardinality(S) \in Nat
  BY CountItems
<1>2. IsFiniteSet(S \cup {y}) /\ Cardinality(S \cup {y}) <= Cardinality(S) + 1
  <2>1. /\ IsFiniteSet(S \cup {y})
        /\ Cardinality(S \cup {y}) = IF y \in S THEN Cardinality(S) ELSE Cardinality(S) + 1
    BY <1>1, FS_AddElement
  <2>2. QED
    BY <1>1, <2>1
<1>3. Cardinality(R) <= Cardinality(S \cup {y}) /\ Cardinality(R) \in Nat /\ Cardinality(S \cup {y}) \in Nat
  BY <1>2, FS_Subset, FS_CardinalityType
<1>4. QED
  BY <1>1, <1>2, <1>3

\* ... one less ...
LEMMA CountRemoved ==
    ASSUME NEW S \in SUBSET Items, NEW x \in S, NEW R \in SUBSET (S \ {x})
    PROVE  Cardinality(R) + 1 <= Cardinality(S)
<1>1. IsFiniteSet(S) /\ Cardinality(S) \in Nat
  BY CountItems
<1>2. IsFiniteSet(S \ {x}) /\ Cardinality(S \ {x}) = Cardinality(S) - 1
  BY <1>1, FS_RemoveElement
<1>3. Cardinality(R) <= Cardinality(S \ {x}) /\ Cardinality(R) \in Nat
  BY <1>2, FS_Subset, FS_CardinalityType
<1>4. QED
  BY <1>1, <1>2, <1>3

\* ... or one for another.
LEMMA CountReplaced ==
    ASSUME NEW S \in SUBSET Items, NEW x \in S, NEW y \in Items,
           NEW R \in SUBSET ((S \ {x}) \cup {y})
    PROVE  Cardinality(R) <= Cardinality(S)
<1>1. S \ {x} \in SUBSET Items /\ Cardinality(S) \in Nat /\ Cardinality(S \ {x}) \in Nat /\
          Cardinality(R) \in Nat
  BY CountItems
<1>2. Cardinality(S \ {x}) + 1 <= Cardinality(S)
  BY CountRemoved
<1>3. Cardinality(R) <= Cardinality(S \ {x}) + 1
  BY <1>1, CountMore
<1>4. QED
  BY <1>1, <1>2, <1>3

\* What a ledger entry adds up.
LEMMA LedgerTypes ==
    ASSUME TypeInv, NEW e \in Events, NEW k \in Levels
    PROVE  /\ Todo(e, k) \in SUBSET Items /\ LateOf(e) \in SUBSET Items
           /\ Done(e, k) \in Nat /\ Cardinality(Todo(e, k)) \in Nat /\ Cardinality(LateOf(e)) \in Nat
<1>1. Todo(e, k) \in SUBSET Items
  BY DEF Todo
<1>2. LateOf(e) \in SUBSET Items
  BY BoundsAssumption DEF LateOf, TypeInv, TypeOK, Deliveries, Items
<1>3. Done(e, k) \in Nat
  BY BoundsAssumption DEF Done, Levels, TypeInv, TypeOK
<1>4. QED
  BY <1>1, <1>2, <1>3, CountItems

\* No new item, and none that has forgotten a failure.
ItemsFollow ==
    /\ UNCHANGED <<event, retries, accepted, errors, results, late>>
    /\ \A m \in Msgs : Token(m)' => /\ Token(m)
                                    /\ \A d \in Deliveries \ late :
                                          d[1] = m /\ Failing(d) =>
                                              \E c \in Deliveries \ late : c[1] = m /\ Failing(c)'
    /\ \A d \in late : InWork(d)' => InWork(d) /\ (Failing(d) => Failing(d)')

\* Such a step keeps the ledger.
LEMMA FollowingBalances ==
    ASSUME TypeInv, TypeInv', LedgerInv, ItemsFollow
    PROVE  LedgerInv'
<1>1. \A x \in Items : Carries(x)' => Carries(x) /\ (Erred(x) => Erred(x)')
  BY DEF ItemsFollow, Carries, Erred, Items
<1>2. ASSUME NEW e \in Events, NEW k \in Levels
      PROVE  (Done(e, k) + Cardinality(Todo(e, k)) <= 1 + Cardinality(LateOf(e)))'
  <2>1. \A x \in Items : Carries(x)' /\ Level(x)' <= k => Carries(x) /\ Level(x) <= k
    <3> SUFFICES ASSUME NEW x \in Items, Carries(x)', Level(x)' <= k
                 PROVE  Carries(x) /\ Level(x) <= k
      OBVIOUS
    <3>1. x[1] \in Msgs /\ retries[x[1]] \in Nat /\ k \in Nat /\ retries' = retries
      BY BoundsAssumption DEF Items, TypeInv, TypeOK, Levels, ItemsFollow
    <3>2. QED
      BY <1>1, <3>1 DEF Level
  <2>2. Todo(e, k)' \subseteq Todo(e, k)
    BY <2>1 DEF Todo, ItemsFollow
  <2>3. Cardinality(Todo(e, k)') <= Cardinality(Todo(e, k)) /\ Cardinality(Todo(e, k)') \in Nat
    BY <2>2, LedgerTypes, CountLess, CountItems
  <2>4. Done(e, k)' = Done(e, k) /\ LateOf(e)' = LateOf(e)
    BY DEF ItemsFollow, Done, LateOf
  <2>5. QED
    BY <2>3, <2>4, LedgerTypes DEF LedgerInv, Ledger
<1>3. NotAccepted'
  BY DEF LedgerInv, NotAccepted, ItemsFollow
<1>4. QED
  BY <1>2, <1>3 DEF LedgerInv, Ledger

\* The item that a delivery in hand belongs to.
ItemOf(d) == IF d \in late THEN d ELSE <<d[1], 0>>

\* It is an item of the same message.
LEMMA ItemIs ==
    ASSUME NEW d \in Deliveries
    PROVE  /\ ItemOf(d) \in Items /\ ItemOf(d)[1] = d[1]
           /\ d \notin late => ItemOf(d)[2] = 0
           /\ d[2] # 0 /\ d \in Items
<1>1. d[1] \in Msgs /\ d[2] \in 1..MaxReceives /\ d = <<d[1], d[2]>>
  BY Pairs
<1>2. d \in Items /\ <<d[1], 0>> \in Items /\ d[2] # 0
  BY <1>1, BoundsAssumption DEF Items
<1>3. QED
  BY <1>1, <1>2 DEF ItemOf

\* Two deliveries of a message are not in hand with the lease.
LEMMA OneLeased ==
    ASSUME TypeInv, QueueInv, NEW c \in Deliveries, NEW d \in Deliveries, c \notin late,
           d \notin late, Held(c), Held(d), c[1] = d[1]
    PROVE  c = d
<1>1. c[2] = count[c[1]] /\ d[2] = count[d[1]]
  BY DEF QueueInv, DeliveryInv, LatestLeased
<1>2. QED
  BY <1>1, SamePair

\* Items are of messages that were sent, and fail MaxRetries + 1 times at most.
LEMMA ItemTypes ==
    ASSUME TypeInv, QueueInv, NEW x \in Items
    PROVE  /\ x[1] \in Msgs /\ retries[x[1]] \in 0..MaxRetries
           /\ Level(x) \in Levels
           /\ Carries(x) => x[1] \in sent /\ event[x[1]] \in accepted
<1>1. x[1] \in Msgs /\ retries[x[1]] \in 0..MaxRetries
  BY DEF Items, TypeInv, TypeOK
<1>2. Level(x) \in Levels
  BY <1>1, BoundsAssumption DEF Level, Levels
<1>3. ASSUME NEW d \in Deliveries, InWork(d) PROVE d[1] \in sent
  <2>1. Held(d) /\ DeliveryInv(d)
    BY <1>3 DEF InWork, Working, Held, QueueInv
  <2>2. QED
    BY <2>1 DEF DeliveryInv, Numbered
<1>4. Carries(x) => x[1] \in sent
  <2>1. CASE x[2] = 0
    BY <1>3, <2>1 DEF Carries, Token, TypeInv, QueueTypes
  <2>2. CASE x[2] # 0
    BY <1>3, <2>2 DEF Carries, TypeInv, TypeOK
  <2>3. QED
    BY <2>1, <2>2
<1>5. QED
  BY <1>1, <1>2, <1>4 DEF QueueInv, OnlyAccepted

\* The other items are as before.
OthersFollow(X) ==
    \A z \in Items \ X : Carries(z)' => Carries(z) /\ (Erred(z) => Erred(z)')
                                        /\ event'[z[1]] = event[z[1]] /\ retries'[z[1]] = retries[z[1]]

\* An item of another entry is not in this one.
LEMMA OthersCount ==
    ASSUME TypeInv, TypeInv', QueueInv, NEW X, OthersFollow(X), NEW e \in Events, NEW k \in Levels
    PROVE  Todo(e, k)' \subseteq Todo(e, k) \cup X
<1> SUFFICES ASSUME NEW z \in Items \ X, Carries(z)', event'[z[1]] = e, Level(z)' <= k
             PROVE  z \in Todo(e, k)
  BY DEF Todo
<1>1. retries[z[1]] \in Nat /\ k \in Nat
  BY ItemTypes, BoundsAssumption DEF Levels
<1>2. Carries(z) /\ (Erred(z) => Erred(z)') /\ event[z[1]] = e /\ retries'[z[1]] = retries[z[1]]
  BY DEF OthersFollow
<1>3. Level(z) <= k
  BY <1>1, <1>2 DEF Level
<1>4. QED
  BY <1>2, <1>3 DEF Todo

\* The result of an event ends an item.
LEMMA ResultBalances ==
    ASSUME TypeInv, TypeInv', QueueInv, LedgerInv, NEW x \in Items, Carries(x), ~Carries(x)',
           OthersFollow({x}), UNCHANGED <<event, accepted, errors, late>>,
           \A e \in Events : results'[e] = IF e = event[x[1]] THEN results[e] + 1 ELSE results[e]
    PROVE  LedgerInv'
<1>1. ASSUME NEW e \in Events, NEW k \in Levels
      PROVE  (Done(e, k) + Cardinality(Todo(e, k)) <= 1 + Cardinality(LateOf(e)))'
  <2>1. Todo(e, k)' \subseteq Todo(e, k) \ {x}
    BY OthersCount DEF Todo
  <2>2. LateOf(e)' = LateOf(e) /\ Done(e, k) + Cardinality(Todo(e, k)) <= 1 + Cardinality(LateOf(e))
    BY DEF LateOf, LedgerInv, Ledger
  <2>3. /\ Todo(e, k) \in SUBSET Items /\ Done(e, k) \in Nat /\ Cardinality(Todo(e, k)) \in Nat
        /\ Cardinality(LateOf(e)) \in Nat
    BY LedgerTypes
  <2>4. Todo(e, k)' \in SUBSET Items /\ Todo(e, k)' \subseteq Todo(e, k)
    BY <2>1, <2>3
  <2>5. Cardinality(Todo(e, k)') \in Nat
    BY <2>4, CountItems
  <2>6. CASE k > MaxRetries /\ e = event[x[1]]
    <3>1. x \in Todo(e, k)
      BY <2>6, ItemTypes, BoundsAssumption DEF Todo, Levels
    <3>2. Cardinality(Todo(e, k)') + 1 <= Cardinality(Todo(e, k))
      BY <2>1, <2>3, <3>1, CountRemoved
    <3>3. Done(e, k)' = Done(e, k) + 1
      BY <2>6 DEF Done
    <3>4. QED
      BY <2>2, <2>3, <2>5, <3>2, <3>3
  <2>7. CASE ~(k > MaxRetries /\ e = event[x[1]])
    <3>1. Done(e, k)' = Done(e, k)
      BY <2>7 DEF Done
    <3>2. Cardinality(Todo(e, k)') <= Cardinality(Todo(e, k))
      BY <2>3, <2>4, CountLess
    <3>3. QED
      BY <2>2, <2>3, <2>5, <3>1, <3>2
  <2>8. QED
    BY <2>6, <2>7
<1>2. NotAccepted'
  BY ItemTypes DEF LedgerInv, NotAccepted
<1>3. QED
  BY <1>1, <1>2 DEF LedgerInv, Ledger

\* So does an error, for the number of retries that the item has.
LEMMA ErrorBalances ==
    ASSUME TypeInv, TypeInv', QueueInv, LedgerInv, NEW x \in Items, Carries(x), ~Erred(x),
           Erred(x)', OthersFollow({x}), UNCHANGED <<event, retries, accepted, results, late>>,
           \A e \in Events : \A k \in 0..MaxRetries :
               errors'[e][k] = IF e = event[x[1]] /\ k = retries[x[1]] THEN errors[e][k] + 1
                                                                       ELSE errors[e][k]
    PROVE  LedgerInv'
<1> DEFINE n == retries[x[1]]
<1>1. n \in 0..MaxRetries /\ Level(x) = n /\ Level(x)' = n + 1
  BY ItemTypes, BoundsAssumption DEF Level
<1> HIDE DEF n
<1>2. ASSUME NEW e \in Events, NEW k \in Levels
      PROVE  (Done(e, k) + Cardinality(Todo(e, k)) <= 1 + Cardinality(LateOf(e)))'
  <2>1. Todo(e, k)' \subseteq Todo(e, k)
    <3>1. x \in Todo(e, k)' => x \in Todo(e, k)
      BY <1>1, BoundsAssumption DEF Todo, Levels
    <3>2. QED
      BY <3>1, OthersCount
  <2>2. LateOf(e)' = LateOf(e) /\ Done(e, k) + Cardinality(Todo(e, k)) <= 1 + Cardinality(LateOf(e))
    BY DEF LateOf, LedgerInv, Ledger
  <2>3. /\ Todo(e, k) \in SUBSET Items /\ Done(e, k) \in Nat /\ Cardinality(Todo(e, k)) \in Nat
        /\ Cardinality(LateOf(e)) \in Nat
    BY LedgerTypes
  <2>4. Todo(e, k)' \in SUBSET Items /\ Cardinality(Todo(e, k)') \in Nat
    BY <2>1, <2>3, CountItems
  <2>5. CASE k = n /\ e = event[x[1]]
    <3>1. x \in Todo(e, k) /\ x \notin Todo(e, k)'
      BY <1>1, <2>5, BoundsAssumption DEF Todo
    <3>2. Cardinality(Todo(e, k)') + 1 <= Cardinality(Todo(e, k))
      BY <2>1, <2>3, <3>1, CountRemoved
    <3>3. Done(e, k)' = Done(e, k) + 1
      BY <1>1, <2>5, BoundsAssumption DEF Done, n
    <3>4. QED
      BY <2>2, <2>3, <2>4, <3>2, <3>3
  <2>6. CASE ~(k = n /\ e = event[x[1]])
    <3>1. Done(e, k)' = Done(e, k)
      BY <2>6, BoundsAssumption DEF Done, Levels, n
    <3>2. Cardinality(Todo(e, k)') <= Cardinality(Todo(e, k))
      BY <2>1, <2>3, CountLess
    <3>3. QED
      BY <2>2, <2>3, <2>4, <3>1, <3>2
  <2>7. QED
    BY <2>5, <2>6
<1>3. NotAccepted'
  BY ItemTypes DEF LedgerInv, NotAccepted
<1>4. QED
  BY <1>2, <1>3 DEF LedgerInv, Ledger

\* A retry replaces an item.
LEMMA RetryBalances ==
    ASSUME TypeInv, TypeInv', QueueInv, LedgerInv, NEW x \in Items, Carries(x), ~Carries(x)',
           NEW n \in Msgs, n \notin sent, event'[n] = event[x[1]], Level(x) <= retries'[n],
           ~Erred(<<n, 0>>)', OthersFollow({x, <<n, 0>>}),
           \A m \in sent : event'[m] = event[m],
           UNCHANGED <<accepted, errors, results, late>>
    PROVE  LedgerInv'
<1> DEFINE y == <<n, 0>>
<1>1. y \in Items /\ y[1] = n /\ y[2] = 0
  BY BoundsAssumption DEF Items
<1> HIDE DEF y
<1>2. ASSUME NEW e \in Events, NEW k \in Levels
      PROVE  (Done(e, k) + Cardinality(Todo(e, k)) <= 1 + Cardinality(LateOf(e)))'
  <2>1. Todo(e, k)' \subseteq (Todo(e, k) \ {x}) \cup {y}
    BY OthersCount DEF Todo, y
  <2>2. y \in Todo(e, k)' => x \in Todo(e, k)
    <3> SUFFICES ASSUME y \in Todo(e, k)' PROVE x \in Todo(e, k)
      OBVIOUS
    <3>1. event[x[1]] = e /\ Level(y)' <= k
      BY <1>1 DEF Todo
    <3>2. Level(y)' = retries'[n] /\ retries'[n] \in Nat
      BY <1>1, BoundsAssumption DEF Level, TypeInv, TypeOK, y
    <3>3. Level(x) \in Nat /\ k \in Nat
      BY ItemTypes, BoundsAssumption DEF Levels
    <3>4. QED
      BY <3>1, <3>2, <3>3 DEF Todo
  <2>3. /\ Todo(e, k) \in SUBSET Items /\ Done(e, k) \in Nat /\ Cardinality(Todo(e, k)) \in Nat
        /\ Cardinality(LateOf(e)) \in Nat
    BY LedgerTypes
  <2>4. Todo(e, k)' \in SUBSET Items /\ Cardinality(Todo(e, k)') \in Nat
    BY <1>1, <2>1, <2>3, CountItems
  <2>5. Cardinality(Todo(e, k)') <= Cardinality(Todo(e, k))
    <3>1. CASE x \in Todo(e, k)
      BY <1>1, <2>1, <2>3, <3>1, CountReplaced
    <3>2. CASE x \notin Todo(e, k)
      <4>1. Todo(e, k)' \subseteq Todo(e, k)
        BY <2>1, <2>2, <3>2
      <4>2. QED
        BY <2>3, <4>1, CountLess
    <3>3. QED
      BY <3>1, <3>2
  <2>6. Done(e, k)' = Done(e, k) /\ Done(e, k) + Cardinality(Todo(e, k)) <= 1 + Cardinality(LateOf(e))
    BY DEF Done, LedgerInv, Ledger
  <2>7. LateOf(e)' = LateOf(e)
    <3>1. \A d \in late : d[1] \in sent
      BY DEF QueueInv, DeliveryInv, Numbered, TypeInv, TypeOK
    <3>2. QED
      BY <3>1 DEF LateOf
  <2>8. QED
    BY <2>3, <2>4, <2>5, <2>6, <2>7
<1>3. NotAccepted'
  BY DEF LedgerInv, NotAccepted
<1>4. QED
  BY <1>2, <1>3 DEF LedgerInv, Ledger

\* A lease that ends too early adds an item: the message comes back while the delivery is
\* still in hand.
LEMMA LateBalances ==
    ASSUME TypeInv, TypeInv', QueueInv, LedgerInv, NEW m \in Msgs, NEW d \in Deliveries, d[1] = m,
           d \notin late, late' = late \cup {d}, OthersFollow({<<m, 0>>, d}),
           UNCHANGED <<event, retries, accepted, errors, results>>,
           Carries(d)' => Carries(<<m, 0>>) /\ (Erred(<<m, 0>>) => Erred(d)')
    PROVE  LedgerInv'
<1> DEFINE x == <<m, 0>>
<1>1. x \in Items /\ x[1] = m /\ d \in Items
  BY ItemIs, BoundsAssumption DEF Items
<1> HIDE DEF x
<1>2. ASSUME NEW e \in Events, NEW k \in Levels
      PROVE  (Done(e, k) + Cardinality(Todo(e, k)) <= 1 + Cardinality(LateOf(e)))'
  <2>1. Todo(e, k)' \subseteq Todo(e, k) \cup {x, d}
    BY OthersCount DEF x
  <2>2. d \in Todo(e, k)' => x \in Todo(e, k)
    <3> SUFFICES ASSUME d \in Todo(e, k)' PROVE x \in Todo(e, k)
      OBVIOUS
    <3>1. Carries(d)' /\ event[m] = e /\ Level(d)' <= k
      BY DEF Todo
    <3>2. retries[m] \in Nat /\ k \in Nat
      BY BoundsAssumption DEF TypeInv, TypeOK, Levels
    <3>3. Level(x) <= k
      BY <1>1, <3>1, <3>2 DEF Level, x
    <3>4. QED
      BY <1>1, <3>1, <3>3 DEF Todo, x
  <2>3. /\ Todo(e, k) \in SUBSET Items /\ Done(e, k) \in Nat /\ Cardinality(Todo(e, k)) \in Nat
        /\ LateOf(e) \in SUBSET Items /\ Cardinality(LateOf(e)) \in Nat
    BY LedgerTypes
  <2>4. Done(e, k)' = Done(e, k) /\ Done(e, k) + Cardinality(Todo(e, k)) <= 1 + Cardinality(LateOf(e))
    BY DEF Done, LedgerInv, Ledger
  <2>5. Todo(e, k)' \in SUBSET Items /\ Cardinality(Todo(e, k)') \in Nat
    BY <1>1, <2>1, <2>3, CountItems
  <2>6. CASE e = event[m]
    <3>1. LateOf(e)' = LateOf(e) \cup {d} /\ d \notin LateOf(e)
      BY <2>6 DEF LateOf
    <3>2. Cardinality(LateOf(e)') = Cardinality(LateOf(e)) + 1
      BY <2>3, <3>1, CountItems, FS_AddElement
    <3>3. Cardinality(Todo(e, k)') <= Cardinality(Todo(e, k)) + 1
      <4>1. CASE x \in Todo(e, k)
        <5>1. Todo(e, k)' \in SUBSET (Todo(e, k) \cup {d})
          BY <2>1, <4>1
        <5>2. QED
          BY <1>1, <2>3, <5>1, CountMore
      <4>2. CASE x \notin Todo(e, k)
        <5>1. Todo(e, k)' \in SUBSET (Todo(e, k) \cup {x})
          BY <2>1, <2>2, <4>2
        <5>2. QED
          BY <1>1, <2>3, <5>1, CountMore
      <4>3. QED
        BY <4>1, <4>2
    <3>4. QED
      BY <2>3, <2>4, <2>5, <3>2, <3>3
  <2>7. CASE e # event[m]
    <3>1. LateOf(e)' = LateOf(e)
      BY <2>7 DEF LateOf
    <3>2. Todo(e, k)' \subseteq Todo(e, k)
      BY <1>1, <2>1, <2>7 DEF Todo
    <3>3. Cardinality(Todo(e, k)') <= Cardinality(Todo(e, k))
      BY <2>3, <3>2, CountLess
    <3>4. QED
      BY <2>3, <2>4, <2>5, <3>1, <3>3
  <2>8. QED
    BY <2>6, <2>7
<1>3. NotAccepted'
  BY DEF LedgerInv, NotAccepted
<1>4. QED
  BY <1>2, <1>3 DEF LedgerInv, Ledger


\* Threads D go on and messages N are sent: only their items, in X, are touched.
LEMMA OthersUntouched ==
    ASSUME TypeInv, TypeInv', NEW D \in SUBSET Deliveries, NEW N \in SUBSET Msgs, NEW X,
           \A d \in D : ItemOf(d) \in X, \A m \in N : <<m, 0>> \in X,
           UNCHANGED <<claimed, receiving, unacked, acked, open, batch, late>>,
           waiting' \subseteq waiting \cup N, ready' \subseteq ready \cup N,
           \A m \in Msgs \ N : event'[m] = event[m] /\ retries'[m] = retries[m],
           \A c \in Deliveries \ D : handler'[c] = handler[c],
           \A c \in late : c[1] \notin N
    PROVE  OthersFollow(X)
<1> SUFFICES ASSUME NEW z \in Items \ X, Carries(z)'
             PROVE  /\ Carries(z) /\ (Erred(z) => Erred(z)')
                    /\ event'[z[1]] = event[z[1]] /\ retries'[z[1]] = retries[z[1]]
  BY DEF OthersFollow
<1>1. z[1] \in Msgs /\ z = <<z[1], z[2]>>
  BY DEF Items
<1>2. CASE z[2] = 0
  <2>1. z[1] \notin N
    BY <1>1, <1>2
  <2>2. \A c \in Deliveries \ late : c[1] = z[1] => handler'[c] = handler[c]
    <3> SUFFICES ASSUME NEW c \in Deliveries \ late, c[1] = z[1] PROVE c \notin D
      OBVIOUS
    <3>1. ItemOf(c) = z
      BY <1>1, <1>2 DEF ItemOf
    <3>2. QED
      BY <3>1
  <2>3. Token(z[1])'
    BY <1>2 DEF Carries
  <2>4. Token(z[1])
    BY <1>1, <2>1, <2>2, <2>3 DEF Token, InWork
  <2>5. Erred(z) => Erred(z)'
    BY <1>2, <2>2 DEF Erred, Failing
  <2>6. QED
    BY <1>1, <1>2, <2>1, <2>4, <2>5 DEF Carries
<1>3. CASE z[2] # 0
  <2>1. z \in late /\ z \in Deliveries /\ z[1] \notin N
    BY <1>3 DEF Carries, TypeInv, TypeOK
  <2>2. z \notin D
    BY <2>1 DEF ItemOf
  <2>3. handler'[z] = handler[z]
    BY <2>1, <2>2
  <2>4. QED
    BY <1>1, <1>3, <2>1, <2>3 DEF Carries, Erred, Failing, InWork
<1>4. QED
  BY <1>2, <1>3

\* A thread that works on a delivery carries its item, and has failed when the item has.
LEMMA WorkCarries ==
    ASSUME TypeInv, QueueInv, NEW d \in Deliveries, handler[d] \in Working
    PROVE  Carries(ItemOf(d)) /\ (Erred(ItemOf(d)) <=> Failing(d))
<1>1. InWork(d) /\ Held(d)
  BY DEF InWork, Held, Working
<1>2. CASE d \in late
  BY <1>1, <1>2, ItemIs DEF ItemOf, Carries, Erred
<1>3. CASE d \notin late
  <2>1. ItemOf(d)[1] = d[1] /\ ItemOf(d)[2] = 0
    BY <1>3, ItemIs
  <2>2. Token(d[1])
    BY <1>1, <1>3 DEF Token
  <2>3. \A c \in Deliveries \ late : c[1] = d[1] /\ Failing(c) => c = d
    <3> SUFFICES ASSUME NEW c \in Deliveries \ late, c[1] = d[1], Failing(c) PROVE c = d
      OBVIOUS
    <3>1. Held(c)
      BY DEF Failing, Held
    <3>2. QED
      BY <1>1, <1>3, <3>1, OneLeased
  <2>4. QED
    BY <1>3, <2>1, <2>2, <2>3 DEF Carries, Erred
<1>4. QED
  BY <1>2, <1>3

\* A thread that is through, but for the delete, carries no item any more.
LEMMA ThroughCarriesNot ==
    ASSUME TypeInv, TypeInv', QueueInv, NEW d \in Deliveries, handler[d] \in Working,
           NEW x, x = ItemOf(d),
           handler'[d] = "delete" \/ (handler'[d] = "none" /\ d[1] \in acked),
           UNCHANGED <<receiving, acked, batch, late>>,
           \A c \in Deliveries \ {d} : handler'[c] = handler[c]
    PROVE  ~Carries(x)'
<1>1. Held(d) /\ handler[d] # "none"
  BY DEF Held, Working
<1>2. ~InWork(d)'
  <2>1. \A r \in Revs : d \notin batch[r]
    BY <1>1 DEF QueueInv, OneHolder
  <2>2. QED
    BY <2>1 DEF InWork, Working
<1>3. CASE d \in late
  <2>1. x = d /\ d[2] # 0
    BY <1>3, ItemIs DEF ItemOf
  <2>2. QED
    BY <1>2, <2>1 DEF Carries
<1>4. CASE d \notin late
  <2>1. x[1] = d[1] /\ x[2] = 0
    BY <1>4 DEF ItemOf
  <2>2. d[1] \notin receiving
    <3>1. d[2] = count[d[1]] /\ count[d[1]] \in Nat /\ (d[1] \in receiving => d[2] < count[d[1]])
      BY <1>1, <1>4, Pairs DEF QueueInv, DeliveryInv, Numbered, LatestLeased, TypeInv, QueueTypes
    <3>2. QED
      BY <3>1
  <2>3. \A c \in Deliveries \ late : c[1] = d[1] => ~InWork(c)'
    <3> SUFFICES ASSUME NEW c \in Deliveries \ late, c[1] = d[1], InWork(c)' PROVE FALSE
      OBVIOUS
    <3>1. c # d
      BY <1>2
    <3>2. Held(c)
      BY <3>1 DEF InWork, Held, Working
    <3>3. QED
      BY <1>1, <1>4, <3>1, <3>2, OneLeased
  <2>4. ~Token(d[1])'
    BY <1>4, <2>2, <2>3 DEF Token
  <2>5. QED
    BY <2>1, <2>4 DEF Carries
<1>5. QED
  BY <1>3, <1>4

\* A thread ends with a result.
LEMMA ResultEnds ==
    ASSUME TypeInv, TypeInv', QueueInv, LedgerInv, NEW d \in Deliveries, handler[d] \in Working,
           handler'[d] = "delete" \/ (handler'[d] = "none" /\ d[1] \in acked),
           \A c \in Deliveries \ {d} : handler'[c] = handler[c],
           UNCHANGED <<waiting, ready, claimed, receiving, unacked, acked, open, batch, late,
                       event, retries, accepted, errors>>,
           Finish(event[d[1]])
    PROVE  LedgerInv'
<1>1. PICK x \in Items : x = ItemOf(d) /\ x[1] = d[1]
  BY ItemIs
<1>2. Carries(x)
  BY <1>1, WorkCarries
<1>3. ~Carries(x)'
  BY <1>1, ThroughCarriesNot
<1>4. OthersFollow({x})
  <2>1. \A c \in {d} : ItemOf(c) \in {x}
    BY <1>1
  <2>2. QED
    BY <2>1, OthersUntouched, {} \in SUBSET Msgs, {d} \in SUBSET Deliveries
<1>5. \A e \in Events : results'[e] = IF e = event[x[1]] THEN results[e] + 1 ELSE results[e]
  <2>1. results \in [Events -> Nat]
    BY DEF TypeInv, TypeOK
  <2>2. QED
    BY <1>1, <2>1, FinishCounts
<1>6. QED
  BY <1>1, <1>2, <1>3, <1>4, <1>5, ResultBalances

\* A thread ends with a retry.
LEMMA RetryEnds ==
    ASSUME TypeInv, TypeInv', QueueInv, LedgerInv, NEW d \in Deliveries, handler[d] \in Working,
           handler'[d] = "delete" \/ (handler'[d] = "none" /\ d[1] \in acked),
           \A c \in Deliveries \ {d} : handler'[c] = handler[c],
           NEW n \in Msgs, NEW k \in Nat, Sends(n, event[d[1]], k),
           retries[d[1]] + (IF Failing(d) THEN 1 ELSE 0) <= k,
           UNCHANGED <<batch, late, accepted, errors, results>>
    PROVE  LedgerInv'
<1>1. PICK x \in Items : x = ItemOf(d) /\ x[1] = d[1]
  BY ItemIs
<1>2. Carries(x) /\ (Erred(x) <=> Failing(d))
  BY <1>1, WorkCarries
<1>3. /\ UNCHANGED <<claimed, receiving, unacked, acked, open>> /\ n \notin sent
      /\ waiting' \subseteq waiting \cup {n} /\ ready' \subseteq ready \cup {n}
      /\ \A m \in Msgs \ {n} : event'[m] = event[m] /\ retries'[m] = retries[m]
      /\ event'[n] = event[d[1]] /\ retries'[n] = k
  BY DEF Sends, TypeInv, TypeOK
<1>4. \A c \in Deliveries : c \in late \/ Held(c) => c[1] \in sent
  BY DEF QueueInv, DeliveryInv, Numbered
<1>5. ~Carries(x)'
  BY <1>1, <1>3, ThroughCarriesNot
<1>6. \A c \in late : c[1] \notin {n}
  BY <1>3, <1>4 DEF TypeInv, TypeOK
<1>7. OthersFollow({x, <<n, 0>>})
  <2>1. \A c \in {d} : ItemOf(c) \in {x, <<n, 0>>}
    BY <1>1
  <2>2. {n} \in SUBSET Msgs /\ {d} \in SUBSET Deliveries /\ \A m \in {n} : <<m, 0>> \in {x, <<n, 0>>}
    OBVIOUS
  <2>3. QED
    BY <1>3, <1>6, <2>1, <2>2, OthersUntouched
<1>8. ~Erred(<<n, 0>>)'
  <2>1. d[1] # n
    BY <1>3, <1>4 DEF Held, Working
  <2>2. \A c \in Deliveries : c[1] = n => ~Failing(c)'
    BY <1>3, <1>4, <2>1 DEF Held, Failing
  <2>3. QED
    BY <2>2 DEF Erred
<1>9. Level(x) <= retries'[n]
  BY <1>1, <1>2, <1>3 DEF Level
<1>10. \A m \in sent : event'[m] = event[m]
  BY <1>3 DEF TypeInv, QueueTypes
<1>11. event'[n] = event[x[1]]
  BY <1>1, <1>3
<1>12. QED
  BY <1>1, <1>2, <1>3, <1>5, <1>7, <1>8, <1>9, <1>10, <1>11, RetryBalances

\* The ledger balances.
LEMMA LedgerInvHolds == Spec => []LedgerInv
<1>1. Init => LedgerInv
  <2> SUFFICES ASSUME Init PROVE LedgerInv
    OBVIOUS
  <2>1. TypeInv
    BY BoundsAssumption DEF Init, Queue!Init, TypeInv, TypeOK, OldKnown, QueueTypes, Revs
  <2>2. \A x \in Items : ~Carries(x)
    BY DEF Init, Queue!Init, Items, Carries, Token, InWork, Working
  <2>3. ASSUME NEW e \in Events, NEW k \in Levels
        PROVE  Done(e, k) + Cardinality(Todo(e, k)) <= 1 + Cardinality(LateOf(e))
    <3>1. Todo(e, k) = {}
      BY <2>2 DEF Todo
    <3>2. Done(e, k) = 0
      BY BoundsAssumption DEF Init, Done, Levels
    <3>3. QED
      BY <2>1, <3>1, <3>2, LedgerTypes, FS_EmptySet
  <2>4. QED
    BY <2>3 DEF LedgerInv, Ledger, NotAccepted, Init
<1>2. TypeInv /\ TypeInv' /\ QueueInv /\ LedgerInv /\ [Next]_vars => LedgerInv'
  <2> SUFFICES ASSUME TypeInv, TypeInv', QueueInv, LedgerInv, [Next]_vars PROVE LedgerInv'
    OBVIOUS
  <2> USE DEF queueVars, bodyVars, serviceVars, pollerVars, handlerVars, eventVars
  <2>1. ASSUME NEW e \in Events, EnqueueEvent(e) PROVE LedgerInv'
    <3>1. PICK n \in Msgs : Sends(n, e, 0)
      BY <2>1, SendMessageSends DEF EnqueueEvent
    <3>2. /\ UNCHANGED <<claimed, receiving, unacked, acked, open, batch, late, handler, errors,
                         results>>
          /\ n \notin sent /\ waiting' \subseteq waiting \cup {n} /\ ready' \subseteq ready \cup {n}
          /\ \A m \in Msgs \ {n} : event'[m] = event[m] /\ retries'[m] = retries[m]
          /\ event'[n] = e /\ e \notin accepted /\ accepted' = accepted \cup {e}
      BY <2>1, <3>1 DEF Sends, EnqueueEvent, TypeInv, TypeOK
    <3>3. \A c \in late : c[1] \in Msgs /\ c[1] # n
      BY <3>2, Pairs DEF QueueInv, DeliveryInv, Numbered, TypeInv, TypeOK
    <3>4. OthersFollow({<<n, 0>>})
      <4>1. {n} \in SUBSET Msgs /\ {} \in SUBSET Deliveries /\ \A m \in {n} : <<m, 0>> \in {<<n, 0>>}
        OBVIOUS
      <4>2. QED
        BY <3>2, <3>3, <4>1, OthersUntouched
    <3>5. ASSUME NEW f \in Events, NEW k \in Levels
          PROVE  (Done(f, k) + Cardinality(Todo(f, k)) <= 1 + Cardinality(LateOf(f)))'
      <4>1. Todo(f, k)' \subseteq Todo(f, k) \cup {<<n, 0>>}
        BY <3>4, OthersCount
      <4>2. LateOf(f)' = LateOf(f) /\ Done(f, k)' = Done(f, k)
        BY <3>2, <3>3 DEF LateOf, Done
      <4>3. /\ Todo(f, k) \in SUBSET Items /\ Cardinality(Todo(f, k)) \in Nat
            /\ Done(f, k) \in Nat /\ Cardinality(LateOf(f)) \in Nat /\ <<n, 0>> \in Items
        BY LedgerTypes, BoundsAssumption DEF Items
      <4>4. CASE f = e
        <5>1. Todo(f, k) = {}
          BY <3>2, <4>4, ItemTypes DEF Todo
        <5>2. Done(f, k) = 0
          BY <3>2, <4>4, BoundsAssumption DEF LedgerInv, NotAccepted, Done, Levels
        <5>3. Todo(f, k)' \in SUBSET Items /\ Cardinality(Todo(f, k)') \in Nat
          BY <4>1, <4>3, CountItems
        <5>4. Cardinality({}) = 0
          BY FS_EmptySet
        <5>5. Cardinality(Todo(f, k)') <= Cardinality({}) + 1
          BY <4>1, <4>3, <5>1, CountMore
        <5>6. QED
          BY <4>2, <4>3, <5>2, <5>3, <5>4, <5>5
      <4>5. CASE f # e
        <5>1. Todo(f, k)' \subseteq Todo(f, k)
          BY <3>2, <4>1, <4>5 DEF Todo
        <5>2. Cardinality(Todo(f, k)') <= Cardinality(Todo(f, k)) /\ Cardinality(Todo(f, k)') \in Nat
          BY <4>3, <5>1, CountLess, CountItems
        <5>3. QED
          BY <4>2, <4>3, <5>2 DEF LedgerInv, Ledger
      <4>6. QED
        BY <4>4, <4>5
    <3>6. NotAccepted'
      BY <3>2 DEF LedgerInv, NotAccepted
    <3>7. QED
      BY <3>5, <3>6 DEF LedgerInv, Ledger
  <2>2. CASE Rollover
    <3>1. ItemsFollow
      BY <2>2 DEF ItemsFollow, Token, InWork, Failing, TypeInv, TypeOK, Rollover
    <3>2. QED
      BY <3>1, FollowingBalances
  <2>3. CASE DeleteFunction
    <3>1. ItemsFollow
      BY <2>3 DEF ItemsFollow, Token, InWork, Failing, TypeInv, TypeOK, DeleteFunction
    <3>2. QED
      BY <3>1, FollowingBalances
  <2>4. ASSUME NEW m \in Msgs, QueueStep(m) PROVE LedgerInv'
    <3>1. CASE late' = late
      <4>1. ItemsFollow
        BY <2>4, <3>1 DEF ItemsFollow, Token, InWork, QueueStep, LeaseEnds, Queue!Ripen,
           Queue!Return, Queue!LeaseEnds, Failing
      <4>2. QED
        BY <4>1, FollowingBalances
    <3>2. CASE late' # late
      <4>0. PICK d : d = Latest(m)
        OBVIOUS
      <4>1. /\ late' = late \cup {d} /\ d \notin late /\ InHand(m) /\ m \in unacked
            /\ UNCHANGED <<waiting, ready, claimed, receiving, unacked, acked, open, batch,
                           handler, event, retries, accepted, errors, results>>
        BY <2>4, <3>2, <4>0 DEF QueueStep, LeaseEnds, Queue!LeaseEnds, Queue!Ripen, Queue!Return
      <4>2. d \in Deliveries /\ d[1] = m /\ Held(d)
        BY <4>0, <4>1 DEF InHand, Held, Latest, TypeInv, TypeOK
      <4>3. d[2] # 0 /\ d \in Items
        BY <4>2, ItemIs
      <4>4. OthersFollow({<<m, 0>>, d})
        <5> SUFFICES ASSUME NEW z \in Items \ {<<m, 0>>, d}, Carries(z)'
                     PROVE  Carries(z) /\ (Erred(z) => Erred(z)')
          BY <4>1 DEF OthersFollow
        <5>1. z = <<z[1], z[2]>> /\ (z[2] = 0 => z[1] # m)
          BY DEF Items
        <5>2. CASE z[2] = 0
          <6>1. \A c \in Deliveries : c[1] = z[1] => (c \in late' <=> c \in late)
            BY <4>1, <4>2, <5>1, <5>2
          <6>2. Token(z[1])'
            BY <5>2 DEF Carries
          <6>3. Token(z[1])
            BY <4>1, <6>1, <6>2 DEF Token, InWork
          <6>4. Erred(z) => Erred(z)'
            BY <4>1, <5>2, <6>1 DEF Erred, Failing
          <6>5. QED
            BY <5>2, <6>3, <6>4 DEF Carries
        <5>3. CASE z[2] # 0
          BY <4>1, <5>3 DEF Carries, Erred, Failing, InWork
        <5>4. QED
          BY <5>2, <5>3
      <4>5. ASSUME Carries(d)' PROVE Carries(<<m, 0>>) /\ (Erred(<<m, 0>>) => Erred(d)')
        <5>1. InWork(d)
          BY <4>1, <4>3, <4>5 DEF Carries, InWork
        <5>2. Token(m)
          BY <4>1, <4>2, <5>1 DEF Token
        <5>3. ASSUME NEW c \in Deliveries \ late, c[1] = m, Failing(c) PROVE Failing(d)'
          <6>1. Held(c)
            BY <5>3 DEF Failing, Held
          <6>2. c = d
            BY <4>1, <4>2, <5>3, <6>1, OneLeased
          <6>3. QED
            BY <4>1, <5>3, <6>2 DEF Failing
        <5>4. QED
          BY <4>3, <5>2, <5>3 DEF Carries, Erred
      <4>6. QED
        BY <4>1, <4>2, <4>4, <4>5, LateBalances
    <3>3. QED
      BY <3>1, <3>2
  <2>5. ASSUME NEW d \in Deliveries, Invoke(d) PROVE LedgerInv'
    <3>1. /\ handler[d] = "queued" /\ handler'[d] \in {"exception", "success", "error"}
          /\ \A c \in Deliveries \ {d} : handler'[c] = handler[c]
          /\ UNCHANGED <<waiting, ready, claimed, receiving, unacked, acked, open, batch, late,
                         event, retries, accepted, results>>
      BY <2>5 DEF Invoke, Handle, TypeInv, TypeOK
    <3>2. CASE handler'[d] # "error"
      <4>1. errors' = errors
        BY <2>5, <3>2, InvokeCounts
      <4>2. \A c \in Deliveries : /\ InWork(c)' <=> InWork(c)
                                  /\ Failing(c)' <=> Failing(c)
                                  /\ handler'[c] = "delete" <=> handler[c] = "delete"
        <5>1. InWork(d)' /\ InWork(d) /\ ~Failing(d)' /\ ~Failing(d)
          BY <3>1, <3>2 DEF InWork, Failing, Working
        <5>2. QED
          BY <3>1, <5>1 DEF InWork, Failing
      <4>3. ItemsFollow
        <5>1. \A m \in Msgs : Token(m)' => Token(m)
          BY <3>1, <4>2 DEF Token
        <5>2. late \subseteq Deliveries
          BY DEF TypeInv, TypeOK
        <5>3. QED
          BY <3>1, <4>1, <4>2, <5>1, <5>2 DEF ItemsFollow
      <4>4. QED
        BY <4>3, FollowingBalances
    <3>3. CASE handler'[d] = "error"
      <4>1. PICK x \in Items : x = ItemOf(d) /\ x[1] = d[1]
        BY ItemIs
      <4>2. Carries(x) /\ ~Erred(x)
        BY <3>1, <4>1, WorkCarries DEF Working, Failing
      <4>3. Erred(x)'
        <5>1. Failing(d)'
          BY <3>3 DEF Failing
        <5>2. CASE d \in late
          BY <3>1, <4>1, <5>1, <5>2, ItemIs DEF ItemOf, Erred
        <5>3. CASE d \notin late
          BY <3>1, <4>1, <5>1, <5>3, ItemIs DEF ItemOf, Erred
        <5>4. QED
          BY <5>2, <5>3
      <4>4. OthersFollow({x})
        <5>1. \A c \in {d} : ItemOf(c) \in {x}
          BY <4>1
        <5>2. QED
          BY <3>1, <5>1, OthersUntouched, {} \in SUBSET Msgs, {d} \in SUBSET Deliveries
      <4>5. \A e \in Events : \A k \in 0..MaxRetries :
               errors'[e][k] = IF e = event[x[1]] /\ k = retries[x[1]] THEN errors[e][k] + 1
                                                                       ELSE errors[e][k]
        BY <2>5, <3>3, <4>1, InvokeCounts
      <4>6. QED
        BY <3>1, <4>1, <4>2, <4>3, <4>4, <4>5, ErrorBalances
    <3>4. QED
      BY <3>2, <3>3
  <2>6. ASSUME NEW d \in Deliveries, ExceptionRetry(d) PROVE LedgerInv'
    <3>1. PICK n \in Msgs : Sends(n, event[d[1]], retries[d[1]])
      BY <2>6, SendMessageSends DEF ExceptionRetry, ReturnToQueue
    <3>2. /\ handler[d] \in Working /\ handler'[d] = "delete"
          /\ \A c \in Deliveries \ {d} : handler'[c] = handler[c]
          /\ UNCHANGED <<batch, late, accepted, errors, results>>
      BY <2>6 DEF ExceptionRetry, Handle, Working, TypeInv, TypeOK
    <3>3. retries[d[1]] \in Nat /\ retries[d[1]] + (IF Failing(d) THEN 1 ELSE 0) <= retries[d[1]]
      BY <2>6, Pairs, BoundsAssumption DEF Failing, ExceptionRetry, TypeInv, TypeOK
    <3>4. QED
      BY <3>1, <3>2, <3>3, RetryEnds
  <2>7. ASSUME NEW d \in Deliveries, ExceptionGiveUp(d) PROVE LedgerInv'
    <3>1. /\ handler[d] \in Working /\ handler'[d] = "delete"
          /\ \A c \in Deliveries \ {d} : handler'[c] = handler[c]
      BY <2>7 DEF ExceptionGiveUp, Handle, Working, TypeInv, TypeOK
    <3>2. Finish(event[d[1]]) /\ UNCHANGED <<waiting, ready, claimed, receiving, unacked, acked,
                                             open, batch, late, event, retries, accepted, errors>>
      BY <2>7 DEF ExceptionGiveUp
    <3>3. QED
      BY <3>1, <3>2, ResultEnds
  <2>8. ASSUME NEW d \in Deliveries, Delete(d) PROVE LedgerInv'
    <3>1. /\ d[1] \in acked' /\ \A m \in Msgs \ {d[1]} : m \in acked' <=> m \in acked
          /\ ready' \subseteq ready /\ unacked' \subseteq unacked
          /\ UNCHANGED <<waiting, claimed, receiving, open>>
      <4>1. DeleteMessage(d) /\ Held(d)
        BY <2>8 DEF Delete, Held
      <4>2. d \in receipts \/ d[1] \in acked
        BY <4>1 DEF QueueInv, DeliveryInv, Handles
      <4>3. QED
        BY <4>1, <4>2, DeleteMessageDeletes
    <3>2. /\ \A c \in Deliveries : InWork(c)' => InWork(c) /\ (Failing(c) => Failing(c)')
          /\ \A c \in Deliveries : Failing(c) => Failing(c)'
          /\ \A c \in Deliveries \ {d} : handler'[c] = handler[c]
          /\ UNCHANGED <<event, retries, accepted, errors, results, late>>
      <4>1. /\ \/ handler[d] = "delete" /\ handler'[d] = "none"
               \/ handler[d] = "success" /\ handler'[d] = "succeeded"
               \/ handler[d] = "error" /\ handler'[d] = "failed"
            /\ \A c \in Deliveries \ {d} : handler'[c] = handler[c]
            /\ UNCHANGED <<batch, event, retries, accepted, errors, results, late>>
        BY <2>8 DEF Delete, Handle, TypeInv, TypeOK
      <4>2. QED
        BY <4>1 DEF InWork, Failing, Working
    <3>3. \A m \in Msgs : Token(m)' => Token(m)
      <4> SUFFICES ASSUME NEW m \in Msgs, Token(m)' PROVE Token(m)
        OBVIOUS
      <4>1. CASE m = d[1]
        BY <3>1, <3>2, <4>1 DEF Token
      <4>2. CASE m # d[1]
        BY <3>1, <3>2, <4>2 DEF Token
      <4>3. QED
        BY <4>1, <4>2
    <3>4. ItemsFollow
      <4>1. late \subseteq Deliveries
        BY DEF TypeInv, TypeOK
      <4>2. QED
        BY <3>2, <3>3, <4>1 DEF ItemsFollow
    <3>5. QED
      BY <3>4, FollowingBalances
  <2>9. ASSUME NEW d \in Deliveries, Succeed(d) PROVE LedgerInv'
    <3>1. /\ handler[d] \in Working /\ handler'[d] = "none" /\ d[1] \in acked
          /\ \A c \in Deliveries \ {d} : handler'[c] = handler[c]
      BY <2>9 DEF Succeed, Handle, Working, TypeInv, TypeOK, QueueInv, DeliveryInv, Handles
    <3>2. Finish(event[d[1]]) /\ UNCHANGED <<waiting, ready, claimed, receiving, unacked, acked,
                                             open, batch, late, event, retries, accepted, errors>>
      BY <2>9 DEF Succeed
    <3>3. QED
      BY <3>1, <3>2, ResultEnds
  <2>10. ASSUME NEW d \in Deliveries, ErrorGiveUp(d) PROVE LedgerInv'
    <3>1. /\ handler[d] \in Working /\ handler'[d] = "none" /\ d[1] \in acked
          /\ \A c \in Deliveries \ {d} : handler'[c] = handler[c]
      BY <2>10 DEF ErrorGiveUp, Handle, Working, TypeInv, TypeOK, QueueInv, DeliveryInv, Handles
    <3>2. Finish(event[d[1]]) /\ UNCHANGED <<waiting, ready, claimed, receiving, unacked, acked,
                                             open, batch, late, event, retries, accepted, errors>>
      BY <2>10 DEF ErrorGiveUp
    <3>3. QED
      BY <3>1, <3>2, ResultEnds
  <2>11. ASSUME NEW d \in Deliveries, ErrorRetry(d) PROVE LedgerInv'
    <3>1. PICK n \in Msgs : Sends(n, event[d[1]], retries[d[1]] + 1)
      BY <2>11, SendMessageSends DEF ErrorRetry, NextRetry
    <3>2. /\ handler[d] \in Working /\ handler'[d] = "none" /\ d[1] \in acked
          /\ \A c \in Deliveries \ {d} : handler'[c] = handler[c]
          /\ UNCHANGED <<batch, late, accepted, errors, results>>
      BY <2>11 DEF ErrorRetry, Handle, Working, TypeInv, TypeOK, QueueInv, DeliveryInv, Handles
    <3>3. retries[d[1]] + 1 \in Nat /\ retries[d[1]] + (IF Failing(d) THEN 1 ELSE 0) <= retries[d[1]] + 1
      BY <2>11, Pairs, BoundsAssumption DEF Failing, ErrorRetry, TypeInv, TypeOK
    <3>4. QED
      BY <3>1, <3>2, <3>3, RetryEnds
  <2>12. ASSUME NEW d \in Deliveries, QueueGone(d) PROVE LedgerInv'
    <3>1. /\ \A c \in Deliveries \ {d} : handler'[c] = handler[c]
          /\ handler[d] # "none" /\ handler'[d] = "none" /\ ~open
          /\ UNCHANGED <<waiting, ready, claimed, receiving, unacked, acked, open, batch, event,
                         retries, accepted, errors, results, late>>
      BY <2>12 DEF QueueGone, Handle, TypeInv, TypeOK
    <3>2. d \notin late => d[1] \in acked \/ d[1] \notin claimed
      BY <3>1 DEF Held, QueueInv, DeliveryInv, LatestLeased, StagesDisjoint
    <3>3. ItemsFollow
      <4>1. \A c \in Deliveries : InWork(c)' => InWork(c) /\ (c # d)
        <5>1. \A r \in Revs : d \notin batch[r]
          BY <3>1 DEF QueueInv, OneHolder
        <5>2. QED
          BY <3>1, <5>1 DEF InWork, Working
      <4>2. \A m \in Msgs : Token(m)' => Token(m) /\ (m = d[1] /\ d \notin late => ~Failing(d))
        <5> SUFFICES ASSUME NEW m \in Msgs, Token(m)'
                     PROVE  Token(m) /\ (m = d[1] /\ d \notin late => ~Failing(d))
          OBVIOUS
        <5>1. CASE m = d[1] /\ d \notin late
          <6>1. m \notin receiving
            <7>1. d[2] = count[d[1]] /\ count[d[1]] \in Nat /\ (d[1] \in receiving => d[2] < count[d[1]])
              BY <3>1, <5>1, Pairs DEF Held, QueueInv, DeliveryInv, Numbered, LatestLeased,
                 TypeInv, QueueTypes
            <7>2. QED
              BY <5>1, <7>1
          <6>2. ASSUME NEW c \in Deliveries \ late, c[1] = m, InWork(c)' PROVE FALSE
            <7>1. InWork(c) /\ c # d
              BY <4>1, <6>2
            <7>2. Held(c) /\ Held(d)
              BY <3>1, <7>1 DEF InWork, Held, Working
            <7>3. QED
              BY <5>1, <6>2, <7>1, <7>2, OneLeased
          <6>3. QED
            BY <3>1, <3>2, <5>1, <6>1, <6>2 DEF Token
        <5>2. CASE m # d[1] \/ d \in late
          <6>1. \A c \in Deliveries \ late : c[1] = m => handler'[c] = handler[c]
            BY <3>1, <5>2
          <6>2. QED
            BY <3>1, <4>1, <5>2, <6>1 DEF Token
        <5>3. QED
          BY <5>1, <5>2
      <4>3. \A c \in Deliveries \ {d} : Failing(c)' <=> Failing(c)
        BY <3>1 DEF Failing
      <4>4. late \subseteq Deliveries
        BY DEF TypeInv, TypeOK
      <4>5. QED
        BY <3>1, <4>1, <4>2, <4>3, <4>4 DEF ItemsFollow
    <3>4. QED
      BY <3>3, FollowingBalances
  <2>13. ASSUME NEW r \in Revs, NEW m \in Msgs, ReceiveClaim(r, m) PROVE LedgerInv'
    <3>1. ItemsFollow
      BY <2>13 DEF ItemsFollow, Token, InWork, Failing, TypeInv, TypeOK, ReceiveClaim, Queue!Claim
    <3>2. QED
      BY <3>1, FollowingBalances
  <2>14. ASSUME NEW r \in Revs, NEW d \in Deliveries, Submit(r, d) PROVE LedgerInv'
    <3>1. /\ \A c \in Deliveries \ {d} : handler'[c] = handler[c]
          /\ handler[d] = "none" /\ handler'[d] = "queued" /\ d \in batch[r]
          /\ \A q \in Revs : \A c \in Deliveries \ {d} : c \in batch'[q] <=> c \in batch[q]
          /\ UNCHANGED <<waiting, ready, claimed, receiving, unacked, acked, open, event, retries,
                         accepted, errors, results, late>>
      BY <2>14 DEF Submit, TypeInv, TypeOK, QueueInv, OneHolder
    <3>2. /\ \A c \in Deliveries : InWork(c)' <=> InWork(c)
          /\ \A c \in Deliveries : Failing(c)' <=> Failing(c)
          /\ \A c \in Deliveries : handler'[c] = "delete" <=> handler[c] = "delete"
      BY <3>1 DEF InWork, Failing, Working
    <3>3. ItemsFollow
      <4>1. \A m \in Msgs : Token(m)' => Token(m)
        BY <3>1, <3>2 DEF Token
      <4>2. late \subseteq Deliveries
        BY DEF TypeInv, TypeOK
      <4>3. QED
        BY <3>1, <3>2, <4>1, <4>2 DEF ItemsFollow
    <3>4. QED
      BY <3>3, FollowingBalances
  <2>15. ASSUME NEW r \in Revs, ReceiveDiscard(r) PROVE LedgerInv'
    <3>1. ItemsFollow
      BY <2>15 DEF ItemsFollow, Token, InWork, Failing, TypeInv, TypeOK, ReceiveDiscard,
         Queue!Discard
    <3>2. QED
      BY <3>1, FollowingBalances
  <2>16. ASSUME NEW r \in Revs, ReceiveCount(r) PROVE LedgerInv'
    <3>1. PICK m \in Msgs :
            /\ m \in claimed /\ m \notin acked /\ receiving' = receiving \cup {m} /\
                claimed' = claimed \ {m}
            /\ UNCHANGED <<waiting, ready, unacked, acked, open, batch, handler, event, retries,
                           accepted, errors, results, late>>
      BY <2>16 DEF ReceiveCount, Queue!Count, TypeInv, TypeOK, QueueTypes
    <3>2. \A c \in Deliveries \ late : c[1] = m => handler[c] = "none"
      BY <3>1 DEF Held, QueueInv, DeliveryInv, LatestLeased, StagesDisjoint
    <3>3. ItemsFollow
      BY <3>1, <3>2 DEF ItemsFollow, Token, InWork, Failing
    <3>4. QED
      BY <3>3, FollowingBalances
  <2>17. ASSUME NEW r \in Revs, ReceiveDeliver(r) PROVE LedgerInv'
    <3>1. PICK m \in Msgs :
            /\ m \in receiving /\ receiving' = receiving \ {m} /\ unacked' = unacked \cup {m}
            /\ ready' = ready
            /\ \A c \in Deliveries \ {Latest(m)} : \A q \in Revs : c \in batch'[q] => c \in batch[q]
            /\ UNCHANGED <<waiting, claimed, acked, open, handler, event, retries, accepted,
                           errors, results, late>>
      <4> DEFINE m == fetching[r]
      <4>1. m \in Msgs /\ m \in receiving
        BY <2>17 DEF ReceiveDeliver, TypeInv, QueueTypes
      <4>2. m \notin unacked /\ m \notin ready /\ m \in lease
        BY <4>1 DEF QueueInv, StagesDisjoint
      <4>3. /\ receiving' = receiving \ {m} /\ unacked' = unacked \cup {m} /\ ready' = ready
            /\ \A c \in Deliveries \ {Latest(m)} : \A q \in Revs : c \in batch'[q] => c \in batch[q]
            /\ UNCHANGED <<waiting, claimed, acked, open, handler, event, retries, accepted,
                           errors, results, late>>
        BY <2>17, <4>1, <4>2 DEF ReceiveDeliver, Queue!Deliver, TypeInv, TypeOK
      <4>4. QED
        BY <4>1, <4>3
    <3>2. Latest(m) \notin late
      <4>1. Latest(m)[1] = m /\ Latest(m)[2] = count[m] /\ count[m] \in Nat
        BY DEF Latest, TypeInv, QueueTypes
      <4>2. QED
        BY <3>1, <4>1 DEF QueueInv, DeliveryInv, Numbered, TypeInv, TypeOK
    <3>3. ItemsFollow
      <4>1. \A c \in Deliveries : c[1] # m \/ c \in late => c # Latest(m)
        BY <3>2 DEF Latest
      <4>2. \A c \in Deliveries : c[1] # m \/ c \in late => (InWork(c)' => InWork(c))
        BY <3>1, <4>1 DEF InWork
      <4>3. \A n \in Msgs : Token(n)' => Token(n)
        <5> SUFFICES ASSUME NEW n \in Msgs \ {m}, Token(n)' PROVE Token(n)
          BY <3>1 DEF Token
        <5>1. QED
          BY <3>1, <4>2 DEF Token
      <4>4. late \subseteq Deliveries /\ \A c \in Deliveries : Failing(c)' <=> Failing(c)
        BY <3>1 DEF TypeInv, TypeOK, Failing
      <4>5. QED
        BY <3>1, <4>2, <4>3, <4>4 DEF ItemsFollow
    <3>4. QED
      BY <3>3, FollowingBalances
  <2>18. ASSUME NEW r \in Revs, Received(r) PROVE LedgerInv'
    <3>1. /\ \A q \in Revs : \A c \in Deliveries : c \in batch'[q] => c \in batch[q]
          /\ UNCHANGED <<waiting, ready, claimed, receiving, unacked, acked, open, handler,
                         event, retries, accepted, errors, results, late>>
      BY <2>18 DEF Received, TypeInv, TypeOK
    <3>2. ItemsFollow
      BY <3>1 DEF ItemsFollow, Token, InWork, Failing, TypeInv, TypeOK
    <3>3. QED
      BY <3>2, FollowingBalances
  <2>19. ASSUME NEW r \in Revs, PollLoop(r) PROVE LedgerInv'
    <3>1. ItemsFollow
      BY <2>19 DEF ItemsFollow, Token, InWork, Failing, TypeInv, TypeOK, PollLoop
    <3>2. QED
      BY <3>1, FollowingBalances
  <2>20. ASSUME NEW r \in Revs, SubmitRefused(r) PROVE LedgerInv'
    <3>1. ItemsFollow
      BY <2>20 DEF ItemsFollow, Token, InWork, Failing, TypeInv, TypeOK, SubmitRefused
    <3>2. QED
      BY <3>1, FollowingBalances
  <2>21. CASE StartManager
    <3>1. ItemsFollow
      BY <2>21 DEF ItemsFollow, Token, InWork, Failing, TypeInv, TypeOK, StartManager, StartPoller
    <3>2. QED
      BY <3>1, FollowingBalances
  <2>22. CASE StopForUpdate
    <3>1. /\ \A c \in Deliveries : handler'[c] = handler[c] \/ (handler[c] = "queued" /\
              handler'[c] = "none")
          /\ UNCHANGED <<waiting, ready, claimed, receiving, unacked, acked, open, batch, event,
                         retries, accepted, errors, results, late>>
      BY <2>22 DEF StopForUpdate, StopPoller, TypeInv, TypeOK
    <3>2. \A c \in Deliveries : /\ InWork(c)' => InWork(c)
                                /\ Failing(c)' <=> Failing(c)
                                /\ handler'[c] = "delete" <=> handler[c] = "delete"
      BY <3>1 DEF InWork, Failing, Working
    <3>3. ItemsFollow
      <4>1. \A m \in Msgs : Token(m)' => Token(m)
        BY <3>1, <3>2 DEF Token
      <4>2. late \subseteq Deliveries
        BY DEF TypeInv, TypeOK
      <4>3. QED
        BY <3>1, <3>2, <4>1, <4>2 DEF ItemsFollow
    <3>4. QED
      BY <3>3, FollowingBalances
  <2>23. CASE StopOldVersion
    <3>1. ItemsFollow
      BY <2>23 DEF ItemsFollow, Token, InWork, Failing, TypeInv, TypeOK, StopOldVersion
    <3>2. QED
      BY <3>1, FollowingBalances
  <2>24. CASE UpdateDone
    <3>1. ItemsFollow
      BY <2>24 DEF ItemsFollow, Token, InWork, Failing, TypeInv, TypeOK, UpdateDone
    <3>2. QED
      BY <3>1, FollowingBalances
  <2>25. CASE StopManager
    <3>1. /\ \A c \in Deliveries : handler'[c] = handler[c] \/ (handler[c] = "queued" /\
              handler'[c] = "none")
          /\ UNCHANGED <<waiting, ready, claimed, receiving, unacked, acked, open, batch, event,
                         retries, accepted, errors, results, late>>
      BY <2>25 DEF StopManager, StopPoller, TypeInv, TypeOK
    <3>2. \A c \in Deliveries : /\ InWork(c)' => InWork(c)
                                /\ Failing(c)' <=> Failing(c)
                                /\ handler'[c] = "delete" <=> handler[c] = "delete"
      BY <3>1 DEF InWork, Failing, Working
    <3>3. ItemsFollow
      <4>1. \A m \in Msgs : Token(m)' => Token(m)
        BY <3>1, <3>2 DEF Token
      <4>2. late \subseteq Deliveries
        BY DEF TypeInv, TypeOK
      <4>3. QED
        BY <3>1, <3>2, <4>1, <4>2 DEF ItemsFollow
    <3>4. QED
      BY <3>3, FollowingBalances
  <2>26. CASE DeleteQueue
    <3>1. ItemsFollow
      BY <2>26 DEF ItemsFollow, Token, InWork, Failing, TypeInv, TypeOK, DeleteQueue, Queue!Close
    <3>2. QED
      BY <3>1, FollowingBalances
  <2>27. CASE UNCHANGED vars
    <3>1. ItemsFollow
      BY <2>27 DEF ItemsFollow, Token, InWork, Failing, TypeInv, TypeOK, vars
    <3>2. QED
      BY <3>1, FollowingBalances
  <2>28. QED
    BY <2>1, <2>2, <2>3, <2>4, <2>5, <2>6, <2>7, <2>8, <2>9, <2>10, <2>11, <2>12, <2>13, <2>14,
       <2>15, <2>16, <2>17, <2>18, <2>19, <2>20, <2>21, <2>22, <2>23, <2>24, <2>25, <2>26,
       <2>27
       DEF Next, HandleMessage, Poll, Service
<1>3. QED
  BY <1>1, <1>2, TypeInvHolds, QueueInvHolds, PTL DEF Spec

-----------------------------------------------------------------------------

\* The state keeps its shape, and no event is sent again beyond its retries: the guard of
\* every retry is checked before the message is sent.
THEOREM TypesHold == Spec => []TypeOK
<1>1. TypeInv => TypeOK
  BY DEF TypeInv
<1>2. QED
  BY <1>1, TypeInvHolds, PTL

\* Until the function is deleted an accepted event has its result, a message that nobody is
\* about to delete or a thread that works on it, whatever updates, stopped pollers and
\* double executions come together.
THEOREM EventsKept == Spec => []EventKept
BY EventKeptHolds

\* An event has one result, and one more at most for every lease that ended before its
\* message was deleted.
THEOREM ResultOnce == Spec => []OneResult
<1>1. TypeInv /\ LedgerInv => OneResult
  <2> SUFFICES ASSUME TypeInv, LedgerInv, NEW e \in Events
               PROVE  results[e] <= 1 + Cardinality(LateOf(e))
    BY DEF OneResult
  <2>1. MaxRetries + 1 \in Levels /\ Done(e, MaxRetries + 1) = results[e]
    BY BoundsAssumption DEF Levels, Done
  <2>2. QED
    BY <2>1, LedgerTypes DEF LedgerInv, Ledger
<1>2. QED
  BY <1>1, TypeInvHolds, LedgerInvHolds, PTL

\* The function fails for an event once with every number of retries, and once more at most
\* for every lease that ended too early.
THEOREM ErrorsBounded == Spec => []RetriesBounded
<1>1. TypeInv /\ LedgerInv => RetriesBounded
  <2> SUFFICES ASSUME TypeInv, LedgerInv, NEW e \in Events, NEW k \in 0..MaxRetries
               PROVE  errors[e][k] <= 1 + Cardinality(LateOf(e))
    BY DEF RetriesBounded
  <2>1. k \in Levels /\ Done(e, k) = errors[e][k]
    BY BoundsAssumption DEF Levels, Done
  <2>2. QED
    BY <2>1, LedgerTypes DEF LedgerInv, Ledger
<1>2. QED
  BY <1>1, TypeInvHolds, LedgerInvHolds, PTL

=============================================================================

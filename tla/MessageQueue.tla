------------------------------ MODULE MessageQueue ------------------------------
(***************************************************************************)
(* What a standard queue of SQS promises its clients, whatever threads and *)
(* locks it is made of: at-least-once delivery of leased messages.         *)
(*                                                                         *)
(* A message moves through disjoint stages,                                *)
(*                                                                         *)
(*    waiting -> ready -> claimed -> receiving -> unacked -> ready ...     *)
(*                                                                         *)
(* and leaves them by being acknowledged, dead-lettered, evicted or purged.*)
(* SqsStandardQueue implements this specification (its property Implements) *)
(* and LambdaEvents is built on it.                                        *)
(***************************************************************************)
EXTENDS Integers

CONSTANTS
    Msgs,            \* the messages clients may send
    MaxReceiveCount  \* deliveries a message may have, 0 for no limit

VARIABLES
    sent,       \* messages sent so far
    waiting,    \* not yet deliverable
    ready,      \* deliverable
    claimed,    \* picked by a receive that has not counted the delivery yet
    receiving,  \* being delivered by a receive
    unacked,    \* delivered, neither acknowledged nor deliverable
    acked,      \* acknowledged by a client
    lease,      \* no other client may get these now
    count,      \* deliveries per message
    dead,       \* moved to the dead letter queue
    purged,     \* sent before the latest purge
    open

vars == <<sent, waiting, ready, claimed, receiving, unacked, acked, lease, count, dead,
          purged, open>>

Init ==
    /\ sent = {} /\ waiting = {} /\ ready = {} /\ claimed = {} /\ receiving = {}
    /\ unacked = {} /\ acked = {} /\ lease = {} /\ dead = {} /\ purged = {}
    /\ count = [m \in Msgs |-> 0]
    /\ open = TRUE

Limit(m) == MaxReceiveCount > 0 => count[m] <= MaxReceiveCount

Send(m) ==
    /\ open /\ m \notin sent
    /\ sent' = sent \cup {m}
    /\ \/ waiting' = waiting \cup {m} /\ UNCHANGED ready
       \/ ready' = ready \cup {m} /\ UNCHANGED waiting
    /\ UNCHANGED <<claimed, receiving, unacked, acked, lease, count, dead, purged, open>>

Ripen(m) ==
    /\ m \in waiting
    /\ waiting' = waiting \ {m}
    /\ ready' = ready \cup {m}
    /\ UNCHANGED <<sent, claimed, receiving, unacked, acked, lease, count, dead, purged, open>>

Claim(m) ==
    /\ open /\ m \in ready
    /\ ready' = ready \ {m}
    /\ claimed' = claimed \cup {m}
    /\ UNCHANGED <<sent, waiting, receiving, unacked, acked, lease, count, dead, purged, open>>

\* What was acknowledged before the delivery is counted is not delivered.
Discard(m) ==
    /\ m \in claimed \cap acked
    /\ claimed' = claimed \ {m}
    /\ UNCHANGED <<sent, waiting, ready, receiving, unacked, acked, lease, count, dead, purged,
                   open>>

Count(m) ==
    /\ m \in claimed \ acked
    /\ claimed' = claimed \ {m}
    /\ receiving' = receiving \cup {m}
    /\ count' = [count EXCEPT ![m] = @ + 1]
    /\ \E l \in {lease \cup {m}, lease \ {m}} : lease' = l
    /\ UNCHANGED <<sent, waiting, ready, unacked, acked, dead, purged, open>>

\* A delivered message is deliverable again only without a lease.
Deliver(m) ==
    /\ m \in receiving /\ Limit(m)
    /\ receiving' = receiving \ {m}
    /\ \/ unacked' = unacked \cup {m} /\ UNCHANGED ready
       \/ m \notin lease /\ ready' = ready \cup {m} /\ UNCHANGED unacked
    /\ UNCHANGED <<sent, waiting, claimed, acked, lease, count, dead, purged, open>>

DeadLetter(m) ==
    /\ m \in receiving /\ ~Limit(m)
    /\ receiving' = receiving \ {m}
    /\ dead' = dead \cup {m}
    /\ UNCHANGED <<sent, waiting, ready, claimed, unacked, acked, lease, count, purged, open>>

\* Dead letters without a queue to go to are lost, all that one receive has.
Lose ==
    /\ \E S \in SUBSET receiving : (\A m \in S : ~Limit(m)) /\ receiving' = receiving \ S
    /\ UNCHANGED <<sent, waiting, ready, claimed, unacked, acked, lease, count, dead, purged,
                   open>>

LeaseEnds(m) ==
    /\ m \in lease
    /\ lease' = lease \ {m}
    /\ UNCHANGED <<sent, waiting, ready, claimed, receiving, unacked, acked, count, dead,
                   purged, open>>

Return(m) ==
    /\ m \in unacked \ lease
    /\ unacked' = unacked \ {m}
    /\ ready' = ready \cup {m}
    /\ UNCHANGED <<sent, waiting, claimed, receiving, acked, lease, count, dead, purged, open>>

\* The client gives the lease back, or asks for a new one.
Release(m) ==
    /\ m \in unacked
    /\ \/ /\ lease' = lease \ {m}
          /\ unacked' = unacked \ {m}
          /\ ready' = ready \cup {m}
       \/ lease' = lease \cup {m} /\ UNCHANGED <<unacked, ready>>
    /\ UNCHANGED <<sent, waiting, claimed, receiving, acked, count, dead, purged, open>>

\* An acknowledged message is out of the queue; after a purge the call may fail
\* with the message only marked.
Acknowledge(m) ==
    /\ open
    /\ count[m] > 0
    /\ acked' = acked \cup {m}
    /\ \/ ready' = ready \ {m} /\ unacked' = unacked \ {m}
       \/ m \in purged /\ UNCHANGED <<ready, unacked>>
    /\ UNCHANGED <<sent, waiting, claimed, receiving, lease, count, dead, purged, open>>

\* The retention period of the queue.
Evict(m) ==
    /\ m \in ready
    /\ ready' = ready \ {m}
    /\ UNCHANGED <<sent, waiting, claimed, receiving, unacked, acked, lease, count, dead, purged,
                   open>>

Purge ==
    /\ open
    /\ waiting' = {} /\ ready' = {} /\ unacked' = {}
    /\ purged' = sent
    /\ UNCHANGED <<sent, claimed, receiving, acked, lease, count, dead, open>>

Close ==
    /\ open
    /\ open' = FALSE
    /\ UNCHANGED <<sent, waiting, ready, claimed, receiving, unacked, acked, lease, count, dead,
                   purged>>

Next ==
    \/ \E m \in Msgs : \/ Send(m) \/ Ripen(m) \/ Claim(m) \/ Discard(m) \/ Count(m)
                       \/ Deliver(m) \/ DeadLetter(m) \/ LeaseEnds(m) \/ Return(m)
                       \/ Release(m) \/ Acknowledge(m) \/ Evict(m)
    \/ Lose \/ Purge \/ Close

Spec == Init /\ [][Next]_vars
=============================================================================

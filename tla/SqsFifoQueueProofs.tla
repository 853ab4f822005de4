-------------------------- MODULE SqsFifoQueueProofs --------------------------
(***************************************************************************)
(* Proofs about SqsFifoQueue, for any sets of messages, groups and         *)
(* receive calls and any batch size: no message is in two places, none is  *)
(* lost silently, and the messages of a group are received in the order    *)
(* of sending.                                                             *)
(***************************************************************************)
EXTENDS SqsFifoQueue, FiniteSetTheorems, SequenceTheorems, WellFoundedInduction, TLAPS

\* No element comes twice.
Distinct(s) == \A i, j \in DOMAIN s : s[i] = s[j] => i = j

\* Messages are numbered in the order of stamping, and pushed later.
CreatedInv ==
    /\ \A m \in Msgs : created[m] <= clock
    /\ \A m, n \in Msgs : created[m] = created[n] => m = n \/ created[m] = 0
    /\ \A m \in Sent : created[m] # 0 /\ created[m] <= accepted[m]

\* A receive call that works on a group has one.
GroupInv ==
    \A c \in Consumers :
        pc[c] \in {"got", "got_stale", "full", "full_stale", "marked", "marked_stale"}
        => group[c] \in Groups

\* A message that was not sent is nowhere.
SentInv ==
    /\ Collections \subseteq Sent
    /\ \A c \in Consumers : InHands(c) \subseteq Sent /\ orphan[c] \subseteq Sent

TypeInv == TypeOK /\ CreatedInv /\ GroupInv /\ SentInv

\* The sequences hold a message once.
SequencesInv == Distinct(inflight) /\ \A c \in Consumers : Distinct(successful[c])

\* The heaps of forgotten groups are places, too, although several receive calls may hold
\* the same one.
PlacesInv ==
    /\ visible \cap Range(inflight) = {}
    /\ visible \cap delayed = {}
    /\ Range(inflight) \cap delayed = {}
    /\ \A c \in Consumers :
          /\ Range(successful[c]) \cap dead[c] = {}
          /\ InHands(c) \cap Collections = {}
          /\ orphan[c] \cap Collections = {}
    /\ \A c, d \in Consumers : InHands(c) \cap orphan[d] = {}
    /\ \A c, d \in Consumers : c # d => InHands(c) \cap InHands(d) = {}

\* NoLoss, message by message.
AccountedInv ==
    \A m \in Sent : \/ m \in Collections
                    \/ \E c \in Consumers : m \in InHands(c)
                    \/ m \in deleted \cup purged \cup dropped \cup dlq \cup lost

PlaceInv == SequencesInv /\ PlacesInv /\ AccountedInv

\* A message that was never received is still to come, purged or dropped.
UnreceivedInv ==
    \A m \in Sent : receive_count[m] = 0 => m \in visible \cup delayed \cup purged \cup dropped

\* What receive calls hold and what clients know or have deleted was received; what was
\* not sent was not.
ReceivedInv ==
    /\ \A m \in Msgs \ Sent : receive_count[m] = 0
    /\ \A m \in deleted : receive_count[m] > 0
    /\ \A h \in known : receive_count[h[1]] > 0
    /\ \A c \in Consumers : \A m \in Range(successful[c]) : receive_count[m] > 0
    /\ \A c \in Consumers : \A h \in results[c] : receive_count[h[1]] > 0

\* Delays end in the order of stamping, and so messages leave the delayed ones, but for
\* those that were never there.
DelayInv ==
    /\ ~Delayed => delayed = {} /\ delaying = {}
    /\ \A n \in delaying, m \in Msgs : created[n] < created[m] => m \in delaying
    /\ \A n \in delayed, m \in Sent : SentBefore(n, m) => m \in delayed \cup slow

\* A purge takes everything there is, the heaps that receive calls hold included.
PurgedInv ==
    /\ purged \subseteq Sent
    /\ \A m \in purged, n \in Sent : SentBefore(n, m) => n \in purged
    /\ \A c \in Consumers : orphan[c] \subseteq purged

FifoInv == UnreceivedInv /\ ReceivedInv /\ DelayInv /\ PurgedInv /\ FirstInFirstOut

-----------------------------------------------------------------------------
(* Sequences *)

\* Every set of numbers has a least one: induction, stated for a set.
LEMMA Least ==
    ASSUME NEW T \in SUBSET Nat, T # {}
    PROVE  \E x \in T : \A y \in T : x <= y
<1> DEFINE R == OpToRel(<, Nat)
<1>1. IsWellFoundedOn(R, Nat)
  BY NatLessThanWellFounded
<1>2. \A y, x \in Nat : y < x => <<y, x>> \in R
  BY DEF OpToRel
<1> HIDE DEF R
<1>3. PICK x \in T : \A y \in T : ~(<<y, x>> \in R)
  BY <1>1, WFMin
<1>4. T \subseteq Nat
  OBVIOUS
<1>5. \A y \in T : y \in Nat /\ x \in Nat /\ ~(y < x)
  BY <1>2, <1>3, <1>4, Zenon
<1>6. \A y \in T : x <= y
  BY <1>5
<1>7. QED
  BY <1>6

\* A set whose elements have different, bounded keys can be arranged, and the
\* arrangement has every element once.
LEMMA ArrangedWorks ==
    ASSUME NEW S, NEW key, NEW n \in Nat,
           \A x \in S : key[x] \in 0..n,
           \A x, y \in S : key[x] = key[y] => x = y
    PROVE  /\ Arranged(S, key) \in Seq(S)
           /\ Range(Arranged(S, key)) = S
           /\ Distinct(Arranged(S, key))
<1> DEFINE Below(k) == {x \in S : key[x] < k}
           Listing(s, l, k) ==
               /\ s \in [1..l -> Below(k)]
               /\ \A x \in Below(k) : \E i \in 1..l : s[i] = x
               /\ \A i, j \in 1..l : i < j => key[s[i]] < key[s[j]]
           Listed(k) == \E l \in Nat : \E s : Listing(s, l, k)
           Bad == {k \in Nat : ~Listed(k)}
<1>1. Listed(0)
  <2>1. Below(0) = {}
    OBVIOUS
  <2>2. Listing([i \in 1..0 |-> i], 0, 0)
    BY <2>1
  <2>3. QED
    BY <2>2
<1>2. ASSUME NEW k \in Nat, Listed(k) PROVE Listed(k + 1)
  <2>0. PICK l \in Nat : \E s : Listing(s, l, k)
    BY <1>2
  <2>1. PICK s : Listing(s, l, k)
    BY <2>0
  <2>2. CASE \E x \in S : key[x] = k
    <3>1. PICK x \in S : key[x] = k
      BY <2>2
    <3>2. Below(k + 1) = Below(k) \cup {x}
      BY <3>1
    <3> DEFINE t == [i \in 1..l + 1 |-> IF i = l + 1 THEN x ELSE s[i]]
    <3>3. l + 1 \in Nat /\ \A i \in 1..l + 1 : i = l + 1 \/ i \in 1..l
      OBVIOUS
    <3>4. /\ t[l + 1] = x
          /\ \A i \in 1..l : t[i] = s[i] /\ i # l + 1 /\ i \in 1..l + 1 /\ s[i] \in Below(k)
      BY <2>1
    <3>5. t \in [1..l + 1 -> Below(k + 1)]
      BY <2>1, <3>2, <3>3
    <3>6. \A y \in Below(k + 1) : \E i \in 1..l + 1 : t[i] = y
      BY <2>1, <3>2, <3>3, <3>4
    <3>7. \A i, j \in 1..l + 1 : i < j => key[t[i]] < key[t[j]]
      <4> SUFFICES ASSUME NEW i \in 1..l + 1, NEW j \in 1..l + 1, i < j PROVE key[t[i]] < key[t[j]]
        OBVIOUS
      <4>0. i \in 1..l
        <5> HIDE DEF t
        <5>1. QED
          OBVIOUS
      <4>1. t[i] = s[i] /\ key[s[i]] < k
        BY <3>4, <4>0
      <4>2. CASE j = l + 1
        BY <3>1, <3>4, <4>0, <4>1, <4>2
      <4>3. CASE j \in 1..l
        BY <2>1, <3>4, <4>0, <4>1, <4>3
      <4>4. QED
        BY <3>3, <4>2, <4>3
    <3>8. Listing(t, l + 1, k + 1)
      BY <3>5, <3>6, <3>7
    <3>9. QED
      BY <3>3, <3>8
  <2>3. CASE ~\E x \in S : key[x] = k
    <3>1. Below(k + 1) = Below(k)
      BY <2>3
    <3>2. Listing(s, l, k + 1)
      BY <2>1, <3>1
    <3>3. QED
      BY <3>2
  <2>4. QED
    BY <2>2, <2>3
<1> HIDE DEF Listed
<1>3. \A k \in Nat : Listed(k)
  <2> SUFFICES ASSUME Bad # {} PROVE FALSE
    OBVIOUS
  <2>1. PICK k \in Bad : \A j \in Bad : k <= j
    BY Least
  <2>2. k \in Nat /\ k # 0
    BY <1>1
  <2>3. k - 1 \in Nat /\ k - 1 \notin Bad /\ (k - 1) + 1 = k
    BY <2>1, <2>2
  <2>4. Listed(k - 1)
    BY <2>3
  <2>5. Listed(k)
    BY <1>2, <2>3, <2>4
  <2>6. QED
    BY <2>5
<1>a. PICK l \in Nat : \E s : Listing(s, l, n + 1)
  <2>1. Listed(n + 1)
    BY <1>3
  <2>2. QED
    BY <2>1 DEF Listed
<1>4. PICK s : Listing(s, l, n + 1)
  BY <1>a
<1>5. Below(n + 1) = S
  OBVIOUS
<1> DEFINE c == Cardinality(S)
           Increasing(t) == \A i, j \in 1..c : i < j => key[t[i]] < key[t[j]]
<1>6. IsFiniteSet(S) /\ c = l
  <2>1. \A i, j \in 1..l : s[i] = s[j] => i = j
    <3> SUFFICES ASSUME NEW i \in 1..l, NEW j \in 1..l, s[i] = s[j], i # j PROVE FALSE
      OBVIOUS
    <3>1. key[s[i]] \in Nat /\ key[s[j]] \in Nat
      BY <1>4
    <3>2. i < j \/ j < i
      OBVIOUS
    <3>3. QED
      BY <1>4, <3>1, <3>2
  <2>2. s \in Bijection(1..l, S)
    BY <1>4, <1>5, <2>1 DEF Bijection, Injection, Surjection, IsInjective
  <2>3. IsFiniteSet(1..l) /\ Cardinality(1..l) = l
    BY FS_Interval
  <2>4. ExistsBijection(1..l, S)
    BY <2>2 DEF ExistsBijection
  <2>5. QED
    BY <2>3, <2>4, FS_Bijection
<1>7. Arranged(S, key) \in [1..c -> S] /\ Increasing(Arranged(S, key))
  <2>1. s \in [1..c -> S] /\ Increasing(s)
    BY <1>4, <1>5, <1>6
  <2>2. QED
    BY <2>1 DEF Arranged
<1> DEFINE a == Arranged(S, key)
<1> HIDE DEF a
<1>8. c \in Nat /\ a \in [1..c -> S] /\ Increasing(a)
  BY <1>6, <1>7 DEF a
<1>9. \A i, j \in 1..c : a[i] = a[j] => i = j
  <2> SUFFICES ASSUME NEW i \in 1..c, NEW j \in 1..c, a[i] = a[j], i # j PROVE FALSE
    OBVIOUS
  <2> HIDE DEF c
  <2>1. key[a[i]] \in Nat /\ key[a[j]] \in Nat
    BY <1>8
  <2>2. i < j \/ j < i
    BY <1>8
  <2>3. QED
    BY <1>8, <2>1, <2>2
<1>10. a \in Surjection(1..c, S)
  <2>1. a \in Injection(1..c, S)
    BY <1>8, <1>9 DEF Injection, IsInjective
  <2>2. Cardinality(1..c) = c
    BY <1>8, FS_Interval
  <2>3. QED
    BY <1>6, <2>1, <2>2, FS_Injection
<1>11. /\ a \in Seq(S)
       /\ Range(a) = S
       /\ Distinct(a)
  <2> HIDE DEF c
  <2>1. DOMAIN a = 1..c
    BY <1>8
  <2>2. a \in Seq(S)
    BY <1>8
  <2>3. Range(a) = S
    BY <1>8, <1>10, <2>1 DEF Range, Surjection
  <2>4. Distinct(a)
    BY <1>9, <2>1 DEF Distinct
  <2>5. QED
    BY <2>2, <2>3, <2>4
<1>12. QED
  BY <1>11 DEF a

\* The part of a sequence that is kept has what is kept, once.
LEMMA KeptWorks ==
    ASSUME NEW M, NEW s \in Seq(M), NEW S \in SUBSET Range(s)
    PROVE  Kept(s, S) \in Seq(M) /\ Range(Kept(s, S)) = S /\ Distinct(Kept(s, S))
<1> DEFINE key == [m \in S |-> CHOOSE k \in DOMAIN s : s[k] = m]
<1>1. Len(s) \in Nat /\ DOMAIN s = 1..Len(s) /\ \A k \in DOMAIN s : s[k] \in M
  BY LenProperties, ElementOfSeq
<1>2. \A m \in S : key[m] \in DOMAIN s /\ s[key[m]] = m
  BY DEF Range
<1>3. S \subseteq M
  BY <1>1 DEF Range
<1> HIDE DEF key
<1>4. /\ Arranged(S, key) \in Seq(S) /\ Range(Arranged(S, key)) = S
      /\ Distinct(Arranged(S, key))
  <2>1. \A x \in S : key[x] \in 0..Len(s)
    BY <1>1, <1>2
  <2>2. \A x, y \in S : key[x] = key[y] => x = y
    BY <1>2
  <2>3. QED
    BY <1>1, <2>1, <2>2, ArrangedWorks
<1>5. Arranged(S, key) \in Seq(M)
  BY <1>3, <1>4
<1>6. QED
  BY <1>4, <1>5 DEF Kept, key

LEMMA ConcatWorks ==
    ASSUME NEW M, NEW s \in Seq(M), NEW t \in Seq(M)
    PROVE  /\ s \o t \in Seq(M) /\ Range(s \o t) = Range(s) \cup Range(t)
           /\ Distinct(s) /\ Distinct(t) /\ Range(s) \cap Range(t) = {} => Distinct(s \o t)
<1> DEFINE u == s \o t
<1>1. Len(s) \in Nat /\ Len(t) \in Nat /\ DOMAIN s = 1..Len(s) /\ DOMAIN t = 1..Len(t)
  BY LenProperties
<1>2. /\ u \in Seq(M) /\ Len(u) = Len(s) + Len(t)
      /\ \A i \in 1..Len(s) + Len(t) : u[i] = IF i <= Len(s) THEN s[i] ELSE t[i - Len(s)]
  BY ConcatProperties
<1>3. DOMAIN u = 1..Len(s) + Len(t)
  BY <1>2, LenProperties
<1> HIDE DEF u
<1>4. \A i \in DOMAIN u : \/ i \in DOMAIN s /\ u[i] = s[i]
                          \/ i - Len(s) \in DOMAIN t /\ i \notin DOMAIN s /\ u[i] = t[i - Len(s)]
  BY <1>1, <1>2, <1>3
<1>5. \A i \in DOMAIN s : i \in DOMAIN u /\ u[i] = s[i]
  BY <1>1, <1>2, <1>3
<1>6. \A i \in DOMAIN t : i + Len(s) \in DOMAIN u /\ u[i + Len(s)] = t[i]
  <2> SUFFICES ASSUME NEW i \in 1..Len(t) PROVE i + Len(s) \in DOMAIN u /\ u[i + Len(s)] = t[i]
    BY <1>1
  <2>1. /\ i + Len(s) \in 1..Len(s) + Len(t) /\ ~(i + Len(s) <= Len(s))
        /\ (i + Len(s)) - Len(s) = i
    BY <1>1
  <2>2. QED
    BY <1>2, <1>3, <2>1
<1>7. Range(u) = Range(s) \cup Range(t)
  <2>1. Range(u) \subseteq Range(s) \cup Range(t)
    BY <1>4 DEF Range
  <2>2. Range(s) \subseteq Range(u)
    BY <1>5 DEF Range
  <2>3. Range(t) \subseteq Range(u)
    BY <1>6 DEF Range
  <2>4. QED
    BY <2>1, <2>2, <2>3
<1>8. ASSUME Distinct(s), Distinct(t), Range(s) \cap Range(t) = {} PROVE Distinct(u)
  <2> SUFFICES ASSUME NEW i \in DOMAIN u, NEW j \in DOMAIN u, u[i] = u[j] PROVE i = j
    BY DEF Distinct
  <2>1. CASE i \in DOMAIN s /\ j \in DOMAIN s
    BY <1>5, <1>8, <2>1 DEF Distinct
  <2>2. CASE i \notin DOMAIN s /\ j \notin DOMAIN s
    <3>1. i - Len(s) = j - Len(s)
      BY <1>4, <1>8, <2>2 DEF Distinct
    <3>2. i \in Nat /\ j \in Nat
      BY <1>1, <1>3
    <3>3. QED
      BY <1>1, <3>1, <3>2
  <2>3. CASE i \in DOMAIN s /\ j \notin DOMAIN s
    BY <1>4, <1>8, <2>3 DEF Range
  <2>4. CASE i \notin DOMAIN s /\ j \in DOMAIN s
    BY <1>4, <1>8, <2>4 DEF Range
  <2>5. QED
    BY <2>1, <2>2, <2>3, <2>4
<1>9. QED
  BY <1>2, <1>7, <1>8 DEF u

LEMMA TailWorks ==
    ASSUME NEW M, NEW s \in Seq(M), s # <<>>
    PROVE  /\ Head(s) \in M /\ Tail(s) \in Seq(M) /\ Head(s) \in Range(s)
           /\ Range(Tail(s)) \subseteq Range(s)
           /\ Distinct(s) => Range(Tail(s)) = Range(s) \ {Head(s)} /\ Distinct(Tail(s))
<1> DEFINE t == Tail(s)
<1>1. Len(s) \in Nat /\ DOMAIN s = 1..Len(s) /\ Len(s) # 0
  BY LenProperties, EmptySeq
<1>2. /\ Head(s) \in M /\ t \in Seq(M) /\ Len(t) = Len(s) - 1
      /\ \A i \in 1..Len(t) : t[i] = s[i + 1]
  BY HeadTailProperties
<1>3. Head(s) = s[1] /\ 1 \in DOMAIN s
  BY <1>1
<1>4. DOMAIN t = 1..Len(s) - 1
  BY <1>2, LenProperties
<1> HIDE DEF t
<1>5. \A i \in DOMAIN t : i + 1 \in DOMAIN s /\ i + 1 # 1 /\ t[i] = s[i + 1]
  BY <1>1, <1>2, <1>4
<1>6. \A i \in DOMAIN s : i = 1 \/ (i - 1 \in DOMAIN t /\ t[i - 1] = s[i])
  BY <1>1, <1>2, <1>4
<1>7. ASSUME Distinct(s) PROVE Range(t) = Range(s) \ {Head(s)} /\ Distinct(t)
  <2>1. Range(t) \subseteq Range(s) \ {Head(s)}
    BY <1>3, <1>5, <1>7 DEF Range, Distinct
  <2>2. Range(s) \ {Head(s)} \subseteq Range(t)
    BY <1>3, <1>6 DEF Range
  <2>3. Distinct(t)
    <3> SUFFICES ASSUME NEW i \in DOMAIN t, NEW j \in DOMAIN t, t[i] = t[j] PROVE i = j
      BY DEF Distinct
    <3>1. i + 1 = j + 1
      BY <1>5, <1>7 DEF Distinct
    <3>2. QED
      BY <1>4, <3>1
  <2>4. QED
    BY <2>1, <2>2, <2>3
<1>8. Range(t) \subseteq Range(s)
  BY <1>5 DEF Range
<1>9. QED
  BY <1>2, <1>3, <1>7, <1>8 DEF Range, t

-----------------------------------------------------------------------------
(* Types *)

\* What a sequence holds are elements of its type.
LEMMA RangeType ==
    ASSUME NEW M, NEW s \in Seq(M)
    PROVE  Range(s) \subseteq M
<1>1. Len(s) \in Nat /\ DOMAIN s = 1..Len(s) /\ \A i \in 1..Len(s) : s[i] \in M
  BY ElementOfSeq, LenProperties
<1>2. QED
  <2>1. \A i \in DOMAIN s : s[i] \in M
    BY <1>1
  <2>2. QED
    BY <2>1 DEF Range

LEMMA PutMessagesType ==
    ASSUME QueueTypeOK, NEW S \in SUBSET Msgs, NEW fresh \in BOOLEAN, PutMessages(S, fresh)
    PROVE  visible' \subseteq Msgs /\ queued' \in [Groups -> Nat] /\ inflight_groups' \subseteq Groups
<1>1. \A g \in Groups : queued[g] \in Nat /\ queued[g] + 1 \in Nat
  BY DEF QueueTypeOK
<1>2. queued' \in [Groups -> Nat]
  <2> DEFINE surfacing == {g \in {GroupOf[m] : m \in S} : Surfaces(g, fresh)}
  <2>1. queued' = [g \in Groups |-> IF g \in surfacing THEN queued[g] + 1 ELSE queued[g]]
    BY DEF PutMessages
  <2> HIDE DEF surfacing
  <2>2. QED
    BY <1>1, <2>1
<1>3. visible' \subseteq Msgs /\ inflight_groups' \subseteq Groups
  BY DEF PutMessages, QueueTypeOK
<1>4. QED
  BY <1>2, <1>3

LEMMA UpdateGroupType ==
    ASSUME QueueTypeOK, NEW g \in Groups, NEW left, UpdateGroup(g, left)
    PROVE  queued' \in [Groups -> Nat] /\ inflight_groups' \subseteq Groups
<1>1. queued[g] + 1 \in Nat
  BY DEF QueueTypeOK
<1>2. QED
  BY <1>1 DEF UpdateGroup, QueueTypeOK

\* What a receive call finds in the heap it holds.
LEMMA HeapOfType ==
    ASSUME TypeInv, NEW c \in Consumers
    PROVE  HeapOf(c) \subseteq Sent /\ Popped(c) \subseteq HeapOf(c)
<1>1. visible \subseteq Sent /\ orphan[c] \subseteq Sent
  BY DEF TypeInv, SentInv, Collections
<1>2. QED
  BY <1>1 DEF HeapOf, Heap, Popped

\* Messages that were sent can be put in order.
LEMMA InOrderWorks ==
    ASSUME TypeInv, NEW S \in SUBSET Sent
    PROVE  InOrder(S) \in Seq(Msgs) /\ Range(InOrder(S)) = S /\ Distinct(InOrder(S))
<1>1. clock \in Nat /\ \A x \in S : created[x] \in 0..clock
  BY DEF TypeInv, TypeOK, TimeTypeOK, MessageTypeOK, CreatedInv, Sent
<1>2. \A x, y \in S : created[x] = created[y] => x = y
  BY DEF TypeInv, CreatedInv, Sent
<1>3. S \subseteq Msgs
  BY DEF Sent
<1>4. Arranged(S, created) \in Seq(S)
      /\ Range(Arranged(S, created)) = S /\ Distinct(Arranged(S, created))
  BY <1>1, <1>2, ArrangedWorks
<1>5. QED
  BY <1>3, <1>4 DEF InOrder

\* What a receive call holds after it has popped messages.
LEMMA PopWorks ==
    ASSUME TypeInv, NEW c \in Consumers, PopGroup(c)
    PROVE  LET taken == Popped(c) \ deleted
               spent == {m \in taken : Exhausted(m)}
           IN  /\ successful' = [successful EXCEPT ![c] = @ \o InOrder(taken \ spent)]
               /\ successful[c] \in Seq(Msgs) /\ InOrder(taken \ spent) \in Seq(Msgs)
               /\ successful[c] \o InOrder(taken \ spent) \in Seq(Msgs)
               /\ Range(successful'[c]) = Range(successful[c]) \cup (taken \ spent)
               /\ \A d \in Consumers \ {c} : successful'[d] = successful[d]
               /\ Range(InOrder(taken \ spent)) = taken \ spent
               /\ Distinct(InOrder(taken \ spent))
<1> DEFINE taken == Popped(c) \ deleted
           spent == {m \in taken : Exhausted(m)}
           new == InOrder(taken \ spent)
<1>1. taken \ spent \in SUBSET Sent
  BY HeapOfType
<1>2. new \in Seq(Msgs) /\ Range(new) = taken \ spent /\ Distinct(new)
  BY <1>1, InOrderWorks
<1>3. successful' = [successful EXCEPT ![c] = @ \o new]
  BY DEF PopGroup
<1>4. successful \in [Consumers -> Seq(Msgs)]
  BY DEF TypeInv, TypeOK, ConsumerTypeOK
<1>5. successful[c] \in Seq(Msgs)
  BY <1>4
<1>6. /\ successful[c] \o new \in Seq(Msgs)
      /\ Range(successful[c] \o new) = Range(successful[c]) \cup Range(new)
  <2> HIDE DEF new, spent, taken
  <2>1. QED
    BY <1>2, <1>5, ConcatWorks
<1>7. successful'[c] = successful[c] \o new /\ \A d \in Consumers \ {c} : successful'[d] = successful[d]
  <2> HIDE DEF new
  <2>1. QED
    BY <1>3, <1>4
<1>8. QED
  BY <1>2, <1>3, <1>5, <1>6, <1>7

\* What is in flight after a receive call has registered its messages.
LEMMA SettleWorks ==
    ASSUME TypeInv, NEW c \in Consumers, Settle(c)
    PROVE  LET ms == Range(successful[c])
               gone == Kept(successful[c], ms \ (ms \cap zeroTimeout))
           IN  /\ inflight' = inflight \o gone
               /\ inflight \in Seq(Msgs) /\ gone \in Seq(Msgs) /\ inflight' \in Seq(Msgs)
               /\ Range(gone) = ms \ zeroTimeout /\ Distinct(gone)
               /\ Range(inflight') = Range(inflight) \cup (ms \ zeroTimeout)
               /\ ms \subseteq Msgs
<1> DEFINE ms == Range(successful[c])
           gone == Kept(successful[c], ms \ (ms \cap zeroTimeout))
<1>1. successful[c] \in Seq(Msgs) /\ inflight \in Seq(Msgs)
  BY DEF TypeInv, TypeOK, ConsumerTypeOK, QueueTypeOK
<1>2. /\ gone \in Seq(Msgs) /\ Range(gone) = ms \ (ms \cap zeroTimeout)
      /\ Distinct(gone)
  BY <1>1, KeptWorks
<1>3. inflight' = inflight \o gone
  BY DEF Settle
<1>4. ms \subseteq Msgs
  BY <1>1, RangeType
<1>5. inflight \o gone \in Seq(Msgs) /\ Range(inflight \o gone) = Range(inflight) \cup Range(gone)
  <2> HIDE DEF gone, ms
  <2>1. QED
    BY <1>1, <1>2, ConcatWorks
<1>6. Range(gone) = ms \ zeroTimeout
  BY <1>2
<1> HIDE DEF gone, ms
<1>7. QED
  BY <1>1, <1>2, <1>3, <1>4, <1>5, <1>6 DEF gone, ms

\* What is in flight after one message has left.
LEMMA WithoutWorks ==
    ASSUME inflight \in Seq(Msgs), NEW m
    PROVE  /\ Without(inflight, m) \in Seq(Msgs) /\ Distinct(Without(inflight, m))
           /\ Range(Without(inflight, m)) = Range(inflight) \ {m}
BY KeptWorks DEF Without

\* The types hold; a message is numbered when it is sent, and only messages that were sent
\* are anywhere.
LEMMA TypeInvHolds == Spec => []TypeInv
<1> USE GroupsAssumption, CountsAssumption, EventsAssumption
<1>1. Init => TypeInv
  <2> SUFFICES ASSUME Init PROVE TypeInv
    OBVIOUS
  <2>1. QueueTypeOK /\ MessageTypeOK /\ TimeTypeOK /\ ConsumerTypeOK /\ DlqTypeOK /\ WorldTypeOK
    <3>1. <<>> \in Seq(Msgs)
      OBVIOUS
    <3>2. QED
      BY <3>1 DEF Init, QueueTypeOK, MessageTypeOK, TimeTypeOK, ConsumerTypeOK, DlqTypeOK,
                  WorldTypeOK
  <2>2. CreatedInv /\ GroupInv
    BY DEF Init, CreatedInv, GroupInv, Sent
  <2>3. SentInv
    <3>1. Range(<<>>) = {}
      BY DEF Range
    <3>2. QED
      BY <3>1 DEF Init, SentInv, Collections, InHands
  <2>4. QED
    BY <2>1, <2>2, <2>3 DEF TypeInv, TypeOK
<1>2. TypeInv /\ [Next]_vars => TypeInv'
  <2> SUFFICES ASSUME TypeInv, [Next]_vars PROVE TypeInv'
    OBVIOUS
  <2>q. QueueTypeOK
    BY DEF TypeInv, TypeOK
  <2>m. MessageTypeOK
    BY DEF TypeInv, TypeOK
  <2>t. TimeTypeOK
    BY DEF TypeInv, TypeOK
  <2>c. ConsumerTypeOK
    BY DEF TypeInv, TypeOK
  <2>d. DlqTypeOK
    BY DEF TypeInv, TypeOK
  <2>w. WorldTypeOK
    BY DEF TypeInv, TypeOK
  <2>i. CreatedInv /\ GroupInv /\ SentInv
    BY DEF TypeInv
  <2>r. /\ Range(inflight) \subseteq Msgs
        /\ \A c \in Consumers : Range(successful[c]) \subseteq Msgs
    BY <2>q, <2>c, RangeType DEF QueueTypeOK, ConsumerTypeOK
  \* Every action but Stamp and Push leaves the numbering alone.
  <2>n. ASSUME UNCHANGED <<created, clock, accepted>> PROVE CreatedInv' /\ Sent' = Sent
    BY <2>i, <2>n DEF CreatedInv, Sent
  <2>g. ASSUME UNCHANGED <<pc, group>> PROVE GroupInv'
    BY <2>i, <2>g DEF GroupInv
  <2>s. ASSUME UNCHANGED <<visible, inflight, delayed, successful, dead, orphan, accepted>>
        PROVE  SentInv'
    BY <2>i, <2>s DEF SentInv, Sent, Collections, InHands
  <2>1. ASSUME NEW m \in Msgs, Stamp(m) PROVE TypeInv'
    <3>1. /\ QueueTypeOK' /\ ConsumerTypeOK' /\ DlqTypeOK' /\ WorldTypeOK' /\ GroupInv' /\ SentInv'
      BY <2>1, <2>q, <2>c, <2>d, <2>w, <2>g, <2>s
      DEF Stamp, QueueTypeOK, ConsumerTypeOK, DlqTypeOK, WorldTypeOK, queueVars, consumerVars,
          dlqVars, worldVars
    <3>2. /\ clock \in Nat /\ horizon \in 0..clock /\ clock' = clock + 1
          /\ UNCHANGED <<horizon, accepted, slow>>
      BY <2>t, <2>1 DEF Stamp, TimeTypeOK
    <3>3. TimeTypeOK'
      BY <2>t, <3>2 DEF TimeTypeOK
    <3>4. /\ created \in [Msgs -> Nat] /\ created[m] = 0
          /\ created' = [created EXCEPT ![m] = clock + 1]
      BY <2>m, <2>1 DEF MessageTypeOK, Stamp
    <3>5. MessageTypeOK'
      <4>1. created' \in [Msgs -> Nat]
        BY <3>2, <3>4
      <4>2. delaying' \subseteq Msgs
        BY <2>m, <2>1 DEF MessageTypeOK, Stamp
      <4>3. QED
        BY <2>m, <2>1, <4>1, <4>2 DEF MessageTypeOK, Stamp
    <3>6. CreatedInv'
      <4>1. /\ created'[m] = clock + 1
            /\ \A n \in Msgs \ {m} : created'[n] = created[n]
            /\ \A n \in Msgs : created[n] \in Nat /\ created[n] <= clock
        BY <2>i, <3>2, <3>4 DEF CreatedInv
      <4>2. \A n \in Msgs : created'[n] <= clock'
        BY <3>2, <4>1
      <4>3. \A n, k \in Msgs : created'[n] = created'[k] => n = k \/ created'[n] = 0
        BY <2>i, <3>2, <4>1 DEF CreatedInv
      <4>4. Sent' = Sent /\ \A n \in Sent : n \in Msgs \ {m}
        BY <2>i, <3>2, <3>4 DEF CreatedInv, Sent
      <4>5. \A n \in Sent : created'[n] # 0 /\ created'[n] <= accepted'[n]
        BY <2>i, <3>2, <4>1, <4>4 DEF CreatedInv
      <4>6. QED
        BY <4>2, <4>3, <4>4, <4>5 DEF CreatedInv
    <3>7. QED
      BY <3>1, <3>3, <3>5, <3>6 DEF TypeInv, TypeOK
  <2>23. ASSUME NEW m \in Msgs, Push(m) PROVE TypeInv'
    <3>1. /\ MessageTypeOK' /\ ConsumerTypeOK' /\ DlqTypeOK' /\ WorldTypeOK' /\ GroupInv'
      BY <2>23, <2>m, <2>c, <2>d, <2>w, <2>g
      DEF Push, MessageTypeOK, ConsumerTypeOK, DlqTypeOK, WorldTypeOK, messageVars, consumerVars,
          dlqVars, worldVars
    <3>2. /\ accepted \in [Msgs -> Nat] /\ accepted' = [accepted EXCEPT ![m] = clock]
          /\ UNCHANGED <<clock, horizon, created>> /\ slow' \subseteq slow \cup {m}
      BY <2>23, <2>t DEF Push, TimeTypeOK, messageVars
    <3>3. clock \in Nat /\ created \in [Msgs -> Nat]
      BY <2>t, <2>m DEF TimeTypeOK, MessageTypeOK
    <3>4. TimeTypeOK'
      BY <2>t, <3>2 DEF TimeTypeOK
    <3>5. created[m] # 0 /\ created[m] <= clock /\ accepted[m] = 0
      BY <2>23, <2>i, <3>3 DEF Push, Sending, CreatedInv
    <3>6. accepted'[m] = clock /\ \A n \in Msgs \ {m} : accepted'[n] = accepted[n]
      BY <3>2
    <3>7. Sent' = Sent \cup {m}
      BY <3>3, <3>5, <3>6 DEF Sent
    <3>8. CreatedInv'
      <4>1. \A n \in Sent' : created[n] # 0 /\ created[n] <= accepted'[n]
        BY <2>i, <3>5, <3>6, <3>7 DEF CreatedInv, Sent
      <4>2. QED
        BY <2>i, <3>2, <4>1 DEF CreatedInv
    <3>9. SentInv'
      <4>1. /\ visible' \subseteq visible \cup {m} /\ delayed' \subseteq delayed \cup {m}
            /\ UNCHANGED <<inflight, successful, dead, orphan>>
        BY <2>23 DEF Push, PutMessages, consumerVars
      <4>2. QED
        BY <2>i, <3>7, <4>1 DEF SentInv, Collections, InHands
    <3>10. QueueTypeOK'
      <4>1. CASE m \in delaying
        BY <2>23, <2>q, <4>1 DEF Push, QueueTypeOK
      <4>2. CASE m \notin delaying
        <5>1. PutMessages({m}, TRUE)
          BY <2>23, <4>2 DEF Push
        <5>2. /\ visible' \subseteq Msgs /\ queued' \in [Groups -> Nat]
              /\ inflight_groups' \subseteq Groups
          BY <2>q, <5>1, PutMessagesType
        <5>3. QED
          BY <2>23, <2>q, <4>2, <5>2 DEF Push, QueueTypeOK
      <4>3. QED
        BY <4>1, <4>2
    <3>11. QED
      BY <3>1, <3>4, <3>8, <3>9, <3>10 DEF TypeInv, TypeOK
  <2>2. ASSUME NEW c \in Consumers, NEW n \in 1..MaxNum, NEW zero \in BOOLEAN,
               ReceiveStart(c, n, zero)
        PROVE  TypeInv'
    <3>1. /\ QueueTypeOK' /\ MessageTypeOK' /\ TimeTypeOK' /\ DlqTypeOK' /\ WorldTypeOK'
          /\ CreatedInv' /\ SentInv'
      BY <2>2, <2>q, <2>m, <2>t, <2>d, <2>w, <2>n, <2>s
      DEF ReceiveStart, QueueTypeOK, MessageTypeOK, TimeTypeOK, DlqTypeOK, WorldTypeOK,
          queueVars, messageVars, timeVars, dlqVars, worldVars
    <3>2. calls' \in 0..MaxReceives
      BY <2>2, <2>c DEF ReceiveStart, ConsumerTypeOK
    <3>3. ConsumerTypeOK'
      BY <2>2, <2>c, <3>2 DEF ReceiveStart, ConsumerTypeOK
    <3>4. GroupInv'
      BY <2>2, <2>c, <2>i DEF ReceiveStart, ConsumerTypeOK, GroupInv
    <3>5. QED
      BY <3>1, <3>3, <3>4 DEF TypeInv, TypeOK
  <2>3. ASSUME NEW c \in Consumers, NEW g \in Groups, GetGroup(c, g) PROVE TypeInv'
    <3>1. /\ MessageTypeOK' /\ TimeTypeOK' /\ DlqTypeOK' /\ WorldTypeOK'
          /\ CreatedInv' /\ SentInv'
      BY <2>3, <2>m, <2>t, <2>d, <2>w, <2>n, <2>s
      DEF GetGroup, MessageTypeOK, TimeTypeOK, DlqTypeOK, WorldTypeOK,
          messageVars, timeVars, dlqVars, worldVars
    <3>2. queued' \in [Groups -> Nat]
      <4>1. queued \in [Groups -> Nat] /\ queued[g] > 0
        BY <2>3, <2>q DEF GetGroup, InQueue, QueueTypeOK
      <4>2. queued[g] - 1 \in Nat
        BY <4>1
      <4>3. QED
        BY <2>3, <4>1, <4>2 DEF GetGroup
    <3>3. QueueTypeOK'
      BY <2>3, <2>q, <3>2 DEF GetGroup, QueueTypeOK
    <3>4. ConsumerTypeOK'
      BY <2>3, <2>c DEF GetGroup, ConsumerTypeOK
    <3>5. GroupInv'
      BY <2>3, <2>c, <2>i DEF GetGroup, ConsumerTypeOK, GroupInv
    <3>6. QED
      BY <3>1, <3>3, <3>4, <3>5 DEF TypeInv, TypeOK
  <2>4. ASSUME NEW c \in Consumers, GetEmpty(c) \/ FindDlq(c) PROVE TypeInv'
    <3>1. /\ QueueTypeOK' /\ MessageTypeOK' /\ TimeTypeOK' /\ DlqTypeOK' /\ WorldTypeOK'
          /\ CreatedInv' /\ SentInv'
      BY <2>4, <2>q, <2>m, <2>t, <2>d, <2>w, <2>n, <2>s
      DEF GetEmpty, FindDlq, QueueTypeOK, MessageTypeOK, TimeTypeOK, DlqTypeOK, WorldTypeOK,
          queueVars, messageVars, timeVars, dlqVars, worldVars
    <3>2. ConsumerTypeOK' /\ GroupInv'
      BY <2>4, <2>c, <2>i DEF GetEmpty, FindDlq, ConsumerTypeOK, GroupInv
    <3>3. QED
      BY <3>1, <3>2 DEF TypeInv, TypeOK
  <2>5. ASSUME NEW c \in Consumers, MarkGroup(c) PROVE TypeInv'
    <3>1. /\ MessageTypeOK' /\ TimeTypeOK' /\ DlqTypeOK' /\ WorldTypeOK'
          /\ CreatedInv' /\ SentInv'
      BY <2>5, <2>m, <2>t, <2>d, <2>w, <2>n, <2>s
      DEF MarkGroup, MessageTypeOK, TimeTypeOK, DlqTypeOK, WorldTypeOK,
          messageVars, timeVars, dlqVars, worldVars
    <3>2. group[c] \in Groups
      BY <2>5, <2>i DEF MarkGroup, GroupInv
    <3>3. QueueTypeOK'
      BY <2>5, <2>q, <3>2 DEF MarkGroup, QueueTypeOK
    <3>4. ConsumerTypeOK' /\ GroupInv'
      BY <2>5, <2>c, <2>i, <3>2 DEF MarkGroup, ConsumerTypeOK, GroupInv
    <3>5. QED
      BY <3>1, <3>3, <3>4 DEF TypeInv, TypeOK
  <2>24. ASSUME NEW c \in Consumers, CheckGroup(c) PROVE TypeInv'
    <3>1. /\ QueueTypeOK' /\ MessageTypeOK' /\ TimeTypeOK' /\ DlqTypeOK' /\ WorldTypeOK'
          /\ CreatedInv' /\ SentInv'
      BY <2>24, <2>q, <2>m, <2>t, <2>d, <2>w, <2>n, <2>s
      DEF CheckGroup, QueueTypeOK, MessageTypeOK, TimeTypeOK, DlqTypeOK, WorldTypeOK,
          queueVars, messageVars, timeVars, dlqVars, worldVars
    <3>2. group[c] \in Groups
      BY <2>24, <2>i DEF CheckGroup, GroupInv
    <3>3. CASE HeapOf(c) = {}
      <4>1. ConsumerTypeOK' /\ GroupInv'
        BY <2>24, <2>c, <2>i, <3>3 DEF CheckGroup, ConsumerTypeOK, GroupInv
      <4>2. QED
        BY <3>1, <4>1 DEF TypeInv, TypeOK
    <3>4. CASE HeapOf(c) # {}
      <4>1. ConsumerTypeOK' /\ GroupInv'
        BY <2>24, <2>c, <2>i, <3>2, <3>4 DEF CheckGroup, ConsumerTypeOK, GroupInv
      <4>2. QED
        BY <3>1, <4>1 DEF TypeInv, TypeOK
    <3>5. QED
      BY <3>3, <3>4
  <2>6. ASSUME NEW c \in Consumers, PopGroup(c) PROVE TypeInv'
    <3> DEFINE taken == Popped(c) \ deleted
               spent == {m \in taken : Exhausted(m)}
               new == InOrder(taken \ spent)
    <3>1. /\ TimeTypeOK' /\ DlqTypeOK' /\ WorldTypeOK' /\ CreatedInv' /\ Sent' = Sent
      BY <2>6, <2>t, <2>d, <2>w, <2>n
      DEF PopGroup, TimeTypeOK, DlqTypeOK, WorldTypeOK, timeVars, dlqVars, worldVars
    <3>2. taken \subseteq Sent /\ spent \subseteq Sent /\ Sent \subseteq Msgs
      BY HeapOfType DEF Sent
    <3>3. /\ successful' = [successful EXCEPT ![c] = @ \o new]
          /\ successful[c] \o new \in Seq(Msgs)
          /\ Range(successful'[c]) = Range(successful[c]) \cup (taken \ spent)
          /\ \A d \in Consumers \ {c} : successful'[d] = successful[d]
      BY <2>6, PopWorks
    <3>4. /\ dead' = [dead EXCEPT ![c] = @ \cup spent]
          /\ visible' \subseteq visible /\ inflight' = inflight /\ delayed' = delayed
          /\ \E popped : orphan' = [d \in Consumers |-> IF d = c THEN {} ELSE orphan[d] \ popped]
      BY <2>6 DEF PopGroup
    <3>5. /\ receive_count' = [m \in Msgs |-> IF m \in taken THEN receive_count[m] + 1
                                                             ELSE receive_count[m]]
          /\ leased' \subseteq leased \cup taken /\ zeroTimeout' \subseteq zeroTimeout \cup taken
          /\ UNCHANGED <<created, receipt_handles, deleted, delaying>>
      BY <2>6 DEF PopGroup
    <3>6. /\ group' = [group EXCEPT ![c] = NoGroup]
          /\ pc' \in {[pc EXCEPT ![c] = "settle"], [pc EXCEPT ![c] = "get"]}
          /\ UNCHANGED <<num, zeroReq, results, calls>>
      BY <2>6 DEF PopGroup
    <3>7. UNCHANGED <<queued, inflight_groups, receipts, open>>
      BY <2>6 DEF PopGroup
    <3> HIDE DEF taken, spent, new
    <3>8. QueueTypeOK'
      BY <2>q, <3>4, <3>7 DEF QueueTypeOK
    <3>9. MessageTypeOK'
      <4>1. receive_count' \in [Msgs -> Nat]
        BY <2>m, <3>5 DEF MessageTypeOK
      <4>2. QED
        BY <2>m, <3>2, <3>5, <4>1 DEF MessageTypeOK
    <3>10. orphan' \in [Consumers -> SUBSET Msgs] /\ \A d \in Consumers : orphan'[d] \subseteq orphan[d]
      BY <2>c, <3>4 DEF ConsumerTypeOK
    <3>11. ConsumerTypeOK'
      <4>1. successful' \in [Consumers -> Seq(Msgs)] /\ dead' \in [Consumers -> SUBSET Msgs]
        BY <2>c, <3>2, <3>3, <3>4 DEF ConsumerTypeOK
      <4>2. QED
        BY <2>c, <3>6, <3>10, <4>1 DEF ConsumerTypeOK
    <3>12. GroupInv'
      BY <2>c, <2>i, <3>6 DEF GroupInv, ConsumerTypeOK
    <3>13. SentInv'
      <4>1. \A d \in Consumers : dead'[d] \subseteq dead[d] \cup spent
        BY <2>c, <3>4 DEF ConsumerTypeOK
      <4>2. \A d \in Consumers : Range(successful'[d]) \subseteq Range(successful[d]) \cup taken
        BY <3>3
      <4>3. QED
        BY <2>i, <3>1, <3>2, <3>4, <3>10, <4>1, <4>2 DEF SentInv, Collections, InHands
    <3>14. QED
      BY <3>1, <3>8, <3>9, <3>11, <3>12, <3>13 DEF TypeInv, TypeOK
  <2>7. ASSUME NEW c \in Consumers, Settle(c) PROVE TypeInv'
    <3> DEFINE ms == Range(successful[c])
               new == {Handle(m) : m \in ms}
    <3>1. /\ TimeTypeOK' /\ DlqTypeOK' /\ WorldTypeOK' /\ CreatedInv' /\ Sent' = Sent
      BY <2>7, <2>t, <2>d, <2>w, <2>n
      DEF Settle, TimeTypeOK, DlqTypeOK, WorldTypeOK, timeVars, dlqVars, worldVars
    <3>2. /\ inflight' \in Seq(Msgs) /\ ms \subseteq Msgs
          /\ Range(inflight') = Range(inflight) \cup (ms \ zeroTimeout)
      BY <2>7, SettleWorks
    <3>3. PutMessages(ms \cap zeroTimeout, FALSE)
      BY <2>7 DEF Settle
    <3>4. /\ visible' \subseteq Msgs /\ queued' \in [Groups -> Nat] /\ inflight_groups' \subseteq Groups
      BY <2>q, <3>2, <3>3, PutMessagesType
    <3>5. visible' = visible \cup (ms \cap zeroTimeout)
      BY <3>3 DEF PutMessages
    <3>6. new \subseteq Handles
      BY <2>m, <3>2 DEF MessageTypeOK, Handle, Handles
    <3>7. /\ receipt_handles' = receipt_handles \cup new /\ receipts' = receipts \cup new
          /\ results' = [results EXCEPT ![c] = new]
          /\ successful' = [successful EXCEPT ![c] = <<>>] /\ pc' = [pc EXCEPT ![c] = "provider"]
          /\ UNCHANGED <<delayed, open, created, receive_count, deleted, zeroTimeout, leased,
                         delaying, num, zeroReq, group, orphan, dead, calls>>
      BY <2>7 DEF Settle
    <3> HIDE DEF new
    <3>8. QueueTypeOK' /\ MessageTypeOK'
      BY <2>q, <2>m, <3>2, <3>4, <3>6, <3>7 DEF QueueTypeOK, MessageTypeOK
    <3>9. ConsumerTypeOK'
      <4>1. <<>> \in Seq(Msgs)
        OBVIOUS
      <4>2. successful' \in [Consumers -> Seq(Msgs)]
        BY <2>c, <3>7, <4>1 DEF ConsumerTypeOK
      <4>3. QED
        BY <2>c, <3>6, <3>7, <4>2 DEF ConsumerTypeOK
    <3>10. GroupInv'
      BY <2>c, <2>i, <3>7 DEF GroupInv, ConsumerTypeOK
    <3>11. SentInv'
      <4>1. Range(<<>>) = {}
        BY DEF Range
      <4>2. \A d \in Consumers : Range(successful'[d]) \subseteq Range(successful[d])
        BY <2>c, <3>7, <4>1 DEF ConsumerTypeOK
      <4>3. ms \subseteq Sent
        BY <2>i DEF SentInv, InHands
      <4> HIDE DEF ms
      <4>4. QED
        BY <2>i, <3>1, <3>2, <3>5, <3>7, <4>2, <4>3 DEF SentInv, Collections, InHands
    <3>12. QED
      BY <3>1, <3>8, <3>9, <3>10, <3>11 DEF TypeInv, TypeOK
  <2>8. ASSUME NEW c \in Consumers, DlqMissing(c) PROVE TypeInv'
    <3>1. /\ QueueTypeOK' /\ MessageTypeOK' /\ TimeTypeOK' /\ DlqTypeOK'
          /\ CreatedInv' /\ Sent' = Sent
      BY <2>8, <2>q, <2>m, <2>t, <2>d, <2>n
      DEF DlqMissing, QueueTypeOK, MessageTypeOK, TimeTypeOK, DlqTypeOK,
          queueVars, messageVars, timeVars, dlqVars
    <3>2. WorldTypeOK'
      BY <2>8, <2>w, <2>c DEF DlqMissing, WorldTypeOK, ConsumerTypeOK
    <3>3. ConsumerTypeOK' /\ GroupInv'
      BY <2>8, <2>c, <2>i DEF DlqMissing, ConsumerTypeOK, GroupInv
    <3>4. SentInv'
      BY <2>8, <2>c, <2>i, <3>1 DEF DlqMissing, ConsumerTypeOK, SentInv, Collections, InHands,
                                    queueVars
    <3>5. QED
      BY <3>1, <3>2, <3>3, <3>4 DEF TypeInv, TypeOK
  <2>9. ASSUME NEW c \in Consumers, NEW m \in Msgs, ForwardDead(c, m) PROVE TypeInv'
    <3>1. /\ MessageTypeOK' /\ TimeTypeOK' /\ WorldTypeOK' /\ CreatedInv' /\ Sent' = Sent
      BY <2>9, <2>m, <2>t, <2>w, <2>n
      DEF ForwardDead, MessageTypeOK, TimeTypeOK, WorldTypeOK, messageVars, timeVars, worldVars
    <3>2. DlqTypeOK'
      BY <2>9, <2>d DEF ForwardDead, DlqTypeOK
    <3>3. ConsumerTypeOK' /\ GroupInv'
      BY <2>9, <2>c, <2>i DEF ForwardDead, ConsumerTypeOK, GroupInv
    <3>4. SentInv'
      BY <2>9, <2>c, <2>i, <3>1 DEF ForwardDead, ConsumerTypeOK, SentInv, Collections, InHands
    <3>5. GroupOf[m] \in Groups /\ UpdateGroup(GroupOf[m], Range(inflight))
      BY <2>9 DEF ForwardDead
    <3>6. queued' \in [Groups -> Nat] /\ inflight_groups' \subseteq Groups
      BY <2>q, <3>5, UpdateGroupType
    <3>7. QueueTypeOK'
      BY <2>9, <2>q, <3>6 DEF ForwardDead, QueueTypeOK
    <3>8. QED
      BY <3>1, <3>2, <3>3, <3>4, <3>7 DEF TypeInv, TypeOK
  <2>10. ASSUME NEW c \in Consumers, Respond(c) PROVE TypeInv'
    <3>1. /\ QueueTypeOK' /\ MessageTypeOK' /\ TimeTypeOK' /\ DlqTypeOK' /\ CreatedInv'
          /\ SentInv'
      BY <2>10, <2>q, <2>m, <2>t, <2>d, <2>n, <2>s
      DEF Respond, QueueTypeOK, MessageTypeOK, TimeTypeOK, DlqTypeOK,
          queueVars, messageVars, timeVars, dlqVars
    <3>2. WorldTypeOK'
      BY <2>10, <2>w, <2>c DEF Respond, WorldTypeOK, ConsumerTypeOK
    <3>3. ConsumerTypeOK' /\ GroupInv'
      BY <2>10, <2>c, <2>i DEF Respond, ConsumerTypeOK, GroupInv
    <3>4. QED
      BY <3>1, <3>2, <3>3 DEF TypeInv, TypeOK
  <2>11. ASSUME NEW h \in known, Remove(h) PROVE TypeInv'
    <3>0. h[1] \in Msgs /\ GroupOf[h[1]] \in Groups
      BY <2>w DEF WorldTypeOK, Handles
    <3>1. /\ TimeTypeOK' /\ ConsumerTypeOK' /\ DlqTypeOK' /\ WorldTypeOK' /\ CreatedInv'
          /\ Sent' = Sent /\ GroupInv'
      BY <2>11, <2>t, <2>c, <2>d, <2>w, <2>n, <2>g
      DEF Remove, TimeTypeOK, ConsumerTypeOK, DlqTypeOK, WorldTypeOK, timeVars, consumerVars,
          dlqVars, worldVars
    <3>2. inflight \in Seq(Msgs) /\ inflight' = Without(inflight, h[1])
      BY <2>11, <2>q DEF Remove, QueueTypeOK
    <3>3. inflight' \in Seq(Msgs) /\ Range(inflight') = Range(inflight) \ {h[1]}
      BY <3>2, WithoutWorks
    <3>4. UpdateGroup(GroupOf[h[1]], Range(inflight) \ {h[1]})
      BY <2>11 DEF Remove
    <3>5. queued' \in [Groups -> Nat] /\ inflight_groups' \subseteq Groups
      BY <2>q, <3>0, <3>4, UpdateGroupType
    <3>6. QueueTypeOK'
      BY <2>11, <2>q, <3>3, <3>5 DEF Remove, QueueTypeOK
    <3>7. MessageTypeOK'
      BY <2>11, <2>m, <3>0 DEF Remove, MessageTypeOK
    <3>8. SentInv'
      BY <2>11, <2>i, <3>1, <3>3 DEF Remove, SentInv, Collections, InHands, consumerVars
    <3>9. QED
      BY <3>1, <3>6, <3>7, <3>8 DEF TypeInv, TypeOK
  <2>12. ASSUME NEW h \in known, RemoveFails(h) PROVE TypeInv'
    <3>0. h[1] \in Msgs
      BY <2>w DEF WorldTypeOK, Handles
    <3>1. /\ TimeTypeOK' /\ ConsumerTypeOK' /\ DlqTypeOK' /\ WorldTypeOK' /\ CreatedInv'
          /\ GroupInv' /\ SentInv'
      BY <2>12, <2>t, <2>c, <2>d, <2>w, <2>n, <2>g, <2>s
      DEF RemoveFails, TimeTypeOK, ConsumerTypeOK, DlqTypeOK, WorldTypeOK, timeVars,
          consumerVars, dlqVars, worldVars
    <3>2. QueueTypeOK' /\ MessageTypeOK'
      BY <2>12, <2>q, <2>m, <3>0 DEF RemoveFails, QueueTypeOK, MessageTypeOK
    <3>3. QED
      BY <3>1, <3>2 DEF TypeInv, TypeOK
  <2>13. ASSUME NEW h \in known, NEW zero \in BOOLEAN, ChangeVisibility(h, zero) PROVE TypeInv'
    <3>0. h[1] \in Msgs /\ h[1] \in Range(inflight)
      BY <2>13, <2>w DEF WorldTypeOK, Handles, ChangeVisibility, MayChangeVisibility
    <3>1. /\ TimeTypeOK' /\ ConsumerTypeOK' /\ DlqTypeOK' /\ WorldTypeOK' /\ CreatedInv'
          /\ GroupInv' /\ Sent' = Sent
      BY <2>13, <2>t, <2>c, <2>d, <2>w, <2>n, <2>g
      DEF ChangeVisibility, TimeTypeOK, ConsumerTypeOK, DlqTypeOK, WorldTypeOK, timeVars,
          consumerVars, dlqVars, worldVars
    <3>2. MessageTypeOK'
      BY <2>13, <2>m, <3>0 DEF ChangeVisibility, MessageTypeOK
    <3>3. CASE zero
      <4>1. inflight \in Seq(Msgs) /\ inflight' = Without(inflight, h[1])
        BY <2>13, <2>q, <3>3 DEF ChangeVisibility, QueueTypeOK
      <4>2. inflight' \in Seq(Msgs) /\ Range(inflight') = Range(inflight) \ {h[1]}
        BY <4>1, WithoutWorks
      <4>3. PutMessages({h[1]}, FALSE)
        BY <2>13, <3>3 DEF ChangeVisibility
      <4>4. /\ visible' \subseteq Msgs /\ queued' \in [Groups -> Nat]
            /\ inflight_groups' \subseteq Groups
        BY <2>q, <3>0, <4>3, PutMessagesType
      <4>5. QueueTypeOK'
        BY <2>13, <2>q, <4>2, <4>4 DEF ChangeVisibility, QueueTypeOK
      <4>6. visible' = visible \cup {h[1]}
        BY <4>3 DEF PutMessages
      <4>7. SentInv'
        BY <2>13, <2>i, <3>0, <3>1, <4>2, <4>6
        DEF ChangeVisibility, SentInv, Collections, InHands, consumerVars
      <4>8. QED
        BY <3>1, <3>2, <4>5, <4>7 DEF TypeInv, TypeOK
    <3>4. CASE ~zero
      <4>1. QueueTypeOK' /\ SentInv'
        BY <2>13, <2>q, <2>s, <3>4 DEF ChangeVisibility, QueueTypeOK, timeVars, consumerVars
      <4>2. QED
        BY <3>1, <3>2, <4>1 DEF TypeInv, TypeOK
    <3>5. QED
      BY <3>3, <3>4
  <2>14. ASSUME Purge PROVE TypeInv'
    <3>1. /\ MessageTypeOK' /\ TimeTypeOK' /\ DlqTypeOK' /\ CreatedInv' /\ Sent' = Sent
      BY <2>14, <2>m, <2>t, <2>d, <2>n
      DEF Purge, MessageTypeOK, TimeTypeOK, DlqTypeOK, messageVars, timeVars, dlqVars
    <3>2. <<>> \in Seq(Msgs) /\ Range(<<>>) = {} /\ Sent \subseteq Msgs
      BY DEF Range, Sent
    <3>3. WorldTypeOK'
      BY <2>14, <2>w, <3>2 DEF Purge, WorldTypeOK
    <3>4. QueueTypeOK'
      BY <2>14, <2>q, <3>2 DEF Purge, QueueTypeOK
    <3>5. \A c \in Consumers : Heap(group[c]) \subseteq visible
      BY DEF Heap
    <3>6. /\ orphan' \in [Consumers -> SUBSET Msgs]
          /\ \A c \in Consumers : orphan'[c] \subseteq visible \cup orphan[c]
      BY <2>14, <2>q, <2>c, <3>5 DEF Purge, QueueTypeOK, ConsumerTypeOK
    <3>7. ConsumerTypeOK' /\ GroupInv'
      BY <2>14, <2>c, <2>i, <3>6 DEF Purge, ConsumerTypeOK, GroupInv
    <3>8. SentInv'
      BY <2>14, <2>i, <3>1, <3>2, <3>6 DEF Purge, SentInv, Collections, InHands
    <3>9. QED
      BY <3>1, <3>3, <3>4, <3>7, <3>8 DEF TypeInv, TypeOK
  <2>15. ASSUME DeleteQueue PROVE TypeInv'
    <3>1. /\ MessageTypeOK' /\ TimeTypeOK' /\ ConsumerTypeOK' /\ DlqTypeOK' /\ WorldTypeOK'
          /\ CreatedInv' /\ GroupInv' /\ SentInv'
      BY <2>15, <2>m, <2>t, <2>c, <2>d, <2>w, <2>n, <2>g, <2>s
      DEF DeleteQueue, MessageTypeOK, TimeTypeOK, ConsumerTypeOK, DlqTypeOK, WorldTypeOK,
          messageVars, timeVars, consumerVars, dlqVars, worldVars
    <3>2. QueueTypeOK'
      BY <2>15, <2>q DEF DeleteQueue, QueueTypeOK
    <3>3. QED
      BY <3>1, <3>2 DEF TypeInv, TypeOK
  <2>16. ASSUME DeleteDlq PROVE TypeInv'
    <3>1. /\ QueueTypeOK' /\ MessageTypeOK' /\ TimeTypeOK' /\ ConsumerTypeOK' /\ WorldTypeOK'
          /\ CreatedInv' /\ GroupInv' /\ SentInv'
      BY <2>16, <2>q, <2>m, <2>t, <2>c, <2>w, <2>n, <2>g, <2>s
      DEF DeleteDlq, QueueTypeOK, MessageTypeOK, TimeTypeOK, ConsumerTypeOK, WorldTypeOK,
          queueVars, messageVars, timeVars, consumerVars, worldVars
    <3>2. DlqTypeOK'
      BY <2>16, <2>d DEF DeleteDlq, DlqTypeOK
    <3>3. QED
      BY <3>1, <3>2 DEF TypeInv, TypeOK
  <2>17. ASSUME RequeueInflight PROVE TypeInv'
    <3>1. /\ MessageTypeOK' /\ TimeTypeOK' /\ ConsumerTypeOK' /\ DlqTypeOK' /\ WorldTypeOK'
          /\ CreatedInv' /\ GroupInv' /\ Sent' = Sent
      BY <2>17, <2>m, <2>t, <2>c, <2>d, <2>w, <2>n, <2>g
      DEF RequeueInflight, MessageTypeOK, TimeTypeOK, ConsumerTypeOK, DlqTypeOK, WorldTypeOK,
          messageVars, timeVars, consumerVars, dlqVars, worldVars
    <3>2. inflight \in Seq(Msgs) /\ inflight # <<>> /\ inflight' = Tail(inflight)
      BY <2>17, <2>q DEF RequeueInflight, QueueTypeOK
    <3>3. /\ Head(inflight) \in Msgs /\ Head(inflight) \in Range(inflight)
          /\ inflight' \in Seq(Msgs) /\ Range(inflight') \subseteq Range(inflight)
      BY <3>2, TailWorks
    <3>4. PutMessages({Head(inflight)}, FALSE)
      BY <2>17 DEF RequeueInflight
    <3>5. /\ visible' \subseteq Msgs /\ queued' \in [Groups -> Nat]
          /\ inflight_groups' \subseteq Groups
      BY <2>q, <3>3, <3>4, PutMessagesType
    <3>6. visible' = visible \cup {Head(inflight)}
      BY <3>4 DEF PutMessages
    <3>7. QueueTypeOK'
      BY <2>17, <2>q, <3>3, <3>5 DEF RequeueInflight, QueueTypeOK
    <3>8. SentInv'
      BY <2>17, <2>i, <3>1, <3>3, <3>6
      DEF RequeueInflight, SentInv, Collections, InHands, consumerVars
    <3>9. QED
      BY <3>1, <3>7, <3>8 DEF TypeInv, TypeOK
  <2>18. ASSUME EnqueueDelayed PROVE TypeInv'
    <3>1. /\ MessageTypeOK' /\ TimeTypeOK' /\ ConsumerTypeOK' /\ DlqTypeOK' /\ WorldTypeOK'
          /\ CreatedInv' /\ GroupInv' /\ Sent' = Sent
      BY <2>18, <2>m, <2>t, <2>c, <2>d, <2>w, <2>n, <2>g
      DEF EnqueueDelayed, MessageTypeOK, TimeTypeOK, ConsumerTypeOK, DlqTypeOK, WorldTypeOK,
          messageVars, timeVars, consumerVars, dlqVars, worldVars
    <3>2. PutMessages(delayed \ delaying, TRUE) /\ delayed \ delaying \in SUBSET Msgs
      BY <2>18, <2>q DEF EnqueueDelayed, QueueTypeOK
    <3>3. /\ visible' \subseteq Msgs /\ queued' \in [Groups -> Nat]
          /\ inflight_groups' \subseteq Groups
      BY <2>q, <3>2, PutMessagesType
    <3>4. visible' = visible \cup (delayed \ delaying)
      BY <3>2 DEF PutMessages
    <3>5. QueueTypeOK'
      BY <2>18, <2>q, <3>3 DEF EnqueueDelayed, QueueTypeOK
    <3>6. SentInv'
      BY <2>18, <2>i, <3>1, <3>4
      DEF EnqueueDelayed, SentInv, Collections, InHands, consumerVars
    <3>7. QED
      BY <3>1, <3>5, <3>6 DEF TypeInv, TypeOK
  <2>19. ASSUME RemoveExpired PROVE TypeInv'
    <3>1. /\ MessageTypeOK' /\ TimeTypeOK' /\ ConsumerTypeOK' /\ DlqTypeOK' /\ CreatedInv'
          /\ GroupInv' /\ Sent' = Sent
      BY <2>19, <2>m, <2>t, <2>c, <2>d, <2>n, <2>g
      DEF RemoveExpired, MessageTypeOK, TimeTypeOK, ConsumerTypeOK, DlqTypeOK,
          messageVars, timeVars, consumerVars, dlqVars
    <3>2. QueueTypeOK' /\ WorldTypeOK'
      BY <2>19, <2>q, <2>w DEF RemoveExpired, QueueTypeOK, WorldTypeOK
    <3>3. SentInv'
      BY <2>19, <2>i, <3>1 DEF RemoveExpired, SentInv, Collections, InHands, consumerVars
    <3>4. QED
      BY <3>1, <3>2, <3>3 DEF TypeInv, TypeOK
  <2>20. ASSUME NEW m \in Msgs, DeadlinePasses(m) \/ DelayPasses(m) PROVE TypeInv'
    <3>1. /\ QueueTypeOK' /\ TimeTypeOK' /\ ConsumerTypeOK' /\ DlqTypeOK' /\ WorldTypeOK'
          /\ CreatedInv' /\ GroupInv' /\ SentInv'
      BY <2>20, <2>q, <2>t, <2>c, <2>d, <2>w, <2>n, <2>g, <2>s
      DEF DeadlinePasses, DelayPasses, QueueTypeOK, TimeTypeOK, ConsumerTypeOK, DlqTypeOK,
          WorldTypeOK, queueVars, timeVars, consumerVars, dlqVars, worldVars
    <3>2. MessageTypeOK'
      BY <2>20, <2>m DEF DeadlinePasses, DelayPasses, MessageTypeOK
    <3>3. QED
      BY <3>1, <3>2 DEF TypeInv, TypeOK
  <2>21. ASSUME RetentionPasses PROVE TypeInv'
    <3>1. /\ QueueTypeOK' /\ MessageTypeOK' /\ ConsumerTypeOK' /\ DlqTypeOK' /\ WorldTypeOK'
          /\ CreatedInv' /\ GroupInv' /\ SentInv'
      BY <2>21, <2>q, <2>m, <2>c, <2>d, <2>w, <2>n, <2>g, <2>s
      DEF RetentionPasses, QueueTypeOK, MessageTypeOK, ConsumerTypeOK, DlqTypeOK,
          WorldTypeOK, queueVars, messageVars, consumerVars, dlqVars, worldVars
    <3>2. TimeTypeOK'
      BY <2>21, <2>t DEF RetentionPasses, TimeTypeOK
    <3>3. QED
      BY <3>1, <3>2 DEF TypeInv, TypeOK
  <2>22. ASSUME UNCHANGED vars PROVE TypeInv'
    <3>1. /\ QueueTypeOK' /\ MessageTypeOK' /\ TimeTypeOK' /\ ConsumerTypeOK' /\ DlqTypeOK'
          /\ WorldTypeOK' /\ CreatedInv' /\ GroupInv' /\ SentInv'
      BY <2>22, <2>q, <2>m, <2>t, <2>c, <2>d, <2>w, <2>n, <2>g, <2>s
      DEF vars, QueueTypeOK, MessageTypeOK, TimeTypeOK, ConsumerTypeOK, DlqTypeOK,
          WorldTypeOK, queueVars, messageVars, timeVars, consumerVars, dlqVars, worldVars
    <3>2. QED
      BY <3>1 DEF TypeInv, TypeOK
  <2>c1. CASE Client
    BY <2>1, <2>2, <2>11, <2>12, <2>13, <2>14, <2>15, <2>16, <2>23, <2>c1, Zenon DEF Client
  <2>c2. CASE \E c \in Consumers : Receive(c)
    BY <2>3, <2>4, <2>5, <2>6, <2>7, <2>8, <2>9, <2>10, <2>24, <2>c2, Zenon DEF Receive
  <2>c3. CASE Worker
    BY <2>17, <2>18, <2>19, <2>c3, Zenon DEF Worker
  <2>c4. CASE Time
    BY <2>20, <2>21, <2>c4, Zenon DEF Time
  <2>c5. QED
    BY <2>22, <2>c1, <2>c2, <2>c3, <2>c4 DEF Next
<1>3. QED
  BY <1>1, <1>2, PTL DEF Spec

\* The state keeps its shape: every collection of the queue and every variable of a
\* receive call holds what the class declarations of models.py say.
THEOREM TypesHold == Spec => []TypeOK
<1>1. TypeInv => TypeOK
  BY DEF TypeInv
<1>2. QED
  BY <1>1, TypeInvHolds, PTL

-----------------------------------------------------------------------------
(* Places *)

\* A message is in one place, and as long as nothing ends its life it is in some place.
LEMMA PlaceInvHolds == Spec => []PlaceInv
<1> USE GroupsAssumption, CountsAssumption, EventsAssumption
<1>1. Init => PlaceInv
  <2> SUFFICES ASSUME Init PROVE PlaceInv
    OBVIOUS
  <2>1. Range(<<>>) = {} /\ Distinct(<<>>)
    BY DEF Range, Distinct
  <2>2. SequencesInv
    BY <2>1 DEF Init, SequencesInv
  <2>3. PlacesInv
    BY <2>1 DEF Init, PlacesInv, InHands, Collections
  <2>4. AccountedInv
    BY DEF Init, AccountedInv, Sent
  <2>5. QED
    BY <2>2, <2>3, <2>4 DEF PlaceInv
<1>2. TypeInv /\ TypeInv' /\ PlaceInv /\ [Next]_vars => PlaceInv'
  <2> SUFFICES ASSUME TypeInv, TypeInv', PlaceInv, [Next]_vars PROVE PlaceInv'
    OBVIOUS
  <2>s. SequencesInv
    BY DEF PlaceInv
  <2>p. PlacesInv
    BY DEF PlaceInv
  <2>a. AccountedInv
    BY DEF PlaceInv
  <2>i. SentInv
    BY DEF TypeInv
  <2>t. /\ inflight \in Seq(Msgs) /\ successful \in [Consumers -> Seq(Msgs)]
        /\ dead \in [Consumers -> SUBSET Msgs] /\ orphan \in [Consumers -> SUBSET Msgs]
        /\ Sent \subseteq Msgs
    BY DEF TypeInv, TypeOK, QueueTypeOK, ConsumerTypeOK, Sent
  <2>u. ASSUME UNCHANGED <<visible, inflight, delayed, orphan, successful, dead, accepted, purged,
                           dropped, dlq, lost>>,
               deleted \subseteq deleted'
        PROVE  PlaceInv'
    <3>1. SequencesInv'
      BY <2>s, <2>u DEF SequencesInv
    <3>2. PlacesInv'
      BY <2>p, <2>u DEF PlacesInv, InHands, Collections
    <3>3. AccountedInv'
      BY <2>a, <2>u DEF AccountedInv, Sent, InHands, Collections
    <3>4. QED
      BY <3>1, <3>2, <3>3 DEF PlaceInv
  <2>1. ASSUME NEW m \in Msgs, Push(m) PROVE PlaceInv'
    <3>1. /\ \/ visible' = visible \cup {m} /\ delayed' = delayed
             \/ visible' = visible /\ delayed' = delayed \cup {m}
          /\ UNCHANGED <<inflight, successful, dead, orphan, deleted, purged, dropped, dlq, lost>>
      BY <2>1 DEF Push, PutMessages, messageVars, consumerVars, dlqVars, worldVars
    <3>8. m \notin Sent
      BY <2>1 DEF Push, Sending, Sent
    <3>2. Sent' \subseteq Sent \cup {m}
      BY <2>1 DEF Push, Sent, TypeInv, TypeOK, TimeTypeOK
    <3>3. SequencesInv'
      BY <2>s, <3>1 DEF SequencesInv
    <3>4. m \notin Collections /\ \A c \in Consumers : m \notin InHands(c) /\ m \notin orphan[c]
      BY <2>i, <3>8 DEF SentInv
    <3>5. PlacesInv'
      BY <2>p, <3>1, <3>4 DEF PlacesInv, InHands, Collections
    <3>6. AccountedInv'
      BY <2>a, <3>1, <3>2 DEF AccountedInv, InHands, Collections
    <3>7. QED
      BY <3>3, <3>5, <3>6 DEF PlaceInv
  <2>2. ASSUME NEW c \in Consumers, PopGroup(c) PROVE PlaceInv'
    <3> DEFINE popped == Popped(c)
               taken == popped \ deleted
               spent == {m \in taken : Exhausted(m)}
               new == InOrder(taken \ spent)
               found == taken \ spent
    <3>1. /\ successful' = [successful EXCEPT ![c] = @ \o new]
          /\ successful[c] \in Seq(Msgs) /\ new \in Seq(Msgs)
          /\ successful[c] \o new \in Seq(Msgs)
          /\ Range(successful'[c]) = Range(successful[c]) \cup found
          /\ \A d \in Consumers \ {c} : successful'[d] = successful[d]
          /\ Range(new) = found /\ Distinct(new)
      BY <2>2, PopWorks
    <3>2. /\ dead' = [dead EXCEPT ![c] = @ \cup spent] /\ inflight' = inflight /\ delayed' = delayed
          /\ orphan' = [d \in Consumers |-> IF d = c THEN {} ELSE orphan[d] \ popped]
          /\ UNCHANGED <<accepted, deleted, purged, dropped, dlq, lost>>
      BY <2>2 DEF PopGroup, dlqVars, worldVars, timeVars
    <3>3. \/ popped \subseteq visible /\ visible' = visible \ popped
          \/ popped \subseteq orphan[c] /\ visible' = visible
      BY <2>2 DEF PopGroup, Popped, HeapOf, Heap
    <3>4. popped = (popped \cap deleted) \cup spent \cup found /\ found \cap spent = {}
      OBVIOUS
    <3> HIDE DEF popped, taken, spent, new, found
    <3>5. popped \cap (Range(inflight) \cup delayed) = {} /\ \A d \in Consumers : popped \cap InHands(d) = {}
      BY <2>p, <3>3 DEF PlacesInv, Collections
    <3>6. /\ dead'[c] = dead[c] \cup spent /\ \A d \in Consumers \ {c} : dead'[d] = dead[d]
          /\ \A d \in Consumers : orphan'[d] \subseteq orphan[d] \ popped
      BY <2>t, <3>2
    <3>7. SequencesInv'
      <4>1. Distinct(successful[c] \o new)
        <5>1. Distinct(successful[c]) /\ Range(successful[c]) \cap found = {}
          BY <2>s, <3>4, <3>5 DEF SequencesInv, InHands
        <5>2. QED
          BY <3>1, <5>1, ConcatWorks
      <4>2. \A d \in Consumers : successful'[d] = successful[d] \/ successful'[d] = successful[c] \o new
        BY <2>t, <3>1
      <4>3. QED
        BY <2>s, <3>2, <4>1, <4>2 DEF SequencesInv
    <3>8. visible' \subseteq visible /\ visible' \cap popped = {}
      BY <2>p, <3>3 DEF PlacesInv, Collections
    <3>9. InHands(c)' = InHands(c) \cup found \cup spent /\ \A d \in Consumers \ {c} : InHands(d)' = InHands(d)
      BY <3>1, <3>6 DEF InHands
    <3>10. PlacesInv'
      <4>1. /\ visible' \cap Range(inflight') = {} /\ visible' \cap delayed' = {}
            /\ Range(inflight') \cap delayed' = {}
        BY <2>p, <3>2, <3>8 DEF PlacesInv
      <4>2. Collections' \subseteq Collections /\ Collections' \cap popped = {}
        BY <3>2, <3>5, <3>8 DEF Collections
      <4>3. ASSUME NEW d \in Consumers
            PROVE  /\ Range(successful'[d]) \cap dead'[d] = {}
                   /\ InHands(d)' \cap Collections' = {}
                   /\ orphan'[d] \cap Collections' = {}
        <5>1. CASE d = c
          BY <2>p, <3>1, <3>4, <3>5, <3>6, <3>9, <4>2, <5>1 DEF PlacesInv, InHands
        <5>2. CASE d # c
          BY <2>p, <3>1, <3>4, <3>5, <3>6, <3>9, <4>2, <5>2 DEF PlacesInv
        <5>3. QED
          BY <5>1, <5>2
      <4>4. ASSUME NEW d \in Consumers, NEW e \in Consumers PROVE InHands(d)' \cap orphan'[e] = {}
        BY <2>p, <3>4, <3>6, <3>9 DEF PlacesInv
      <4>5. ASSUME NEW d \in Consumers, NEW e \in Consumers, d # e
            PROVE  InHands(d)' \cap InHands(e)' = {}
        BY <2>p, <3>4, <3>5, <3>9, <4>5 DEF PlacesInv
      <4>6. QED
        BY <4>1, <4>3, <4>4, <4>5 DEF PlacesInv, InHands, Collections
    <3>11. AccountedInv'
      <4>1. Sent' = Sent
        BY <3>2 DEF Sent
      <4>2. \A m \in Collections : m \in Collections' \/ m \in popped
        BY <3>2, <3>3 DEF Collections
      <4>3. \A m \in popped : m \in deleted \/ m \in InHands(c)'
        BY <3>4, <3>9
      <4>4. \A d \in Consumers : InHands(d) \subseteq InHands(d)'
        BY <3>9
      <4>5. ASSUME NEW m \in Sent
            PROVE  \/ m \in Collections' \/ \E d \in Consumers : m \in InHands(d)'
                   \/ m \in deleted \cup purged \cup dropped \cup dlq \cup lost
        BY <2>a, <4>2, <4>3, <4>4 DEF AccountedInv
      <4>6. QED
        BY <3>2, <4>1, <4>5 DEF AccountedInv, Collections, InHands
    <3>12. QED
      BY <3>7, <3>10, <3>11 DEF PlaceInv
  <2>3. ASSUME NEW c \in Consumers, Settle(c) PROVE PlaceInv'
    <3> DEFINE ms == Range(successful[c])
               gone == Kept(successful[c], ms \ (ms \cap zeroTimeout))
    <3>1. /\ inflight' = inflight \o gone /\ gone \in Seq(Msgs)
          /\ Range(gone) = ms \ zeroTimeout /\ Distinct(gone)
          /\ Range(inflight') = Range(inflight) \cup (ms \ zeroTimeout)
      BY <2>3, SettleWorks
    <3>2. /\ visible' = visible \cup (ms \cap zeroTimeout)
          /\ successful' = [successful EXCEPT ![c] = <<>>]
          /\ UNCHANGED <<delayed, orphan, dead, accepted, deleted, purged, dropped, dlq, lost>>
      BY <2>3 DEF Settle, PutMessages, dlqVars, worldVars, timeVars
    <3>3. ms \subseteq InHands(c)
      BY DEF InHands
    <3>4. Range(<<>>) = {} /\ Distinct(<<>>)
      BY DEF Range, Distinct
    <3>5. /\ Range(successful'[c]) = {} /\ Distinct(successful'[c])
          /\ \A d \in Consumers \ {c} : successful'[d] = successful[d]
      BY <2>t, <3>2, <3>4
    <3>6. InHands(c)' = dead[c] /\ \A d \in Consumers \ {c} : InHands(d)' = InHands(d)
      BY <3>2, <3>5 DEF InHands
    <3>7. InHands(c) = ms \cup dead[c] /\ ms \cap dead[c] = {}
      BY <2>p DEF InHands, PlacesInv
    <3> HIDE DEF ms, gone
    <3>8. SequencesInv'
      <4>1. Distinct(inflight) /\ Range(inflight) \cap Range(gone) = {}
        BY <2>s, <2>p, <3>1, <3>3 DEF SequencesInv, PlacesInv, Collections
      <4>2. Distinct(inflight')
        BY <2>t, <3>1, <4>1, ConcatWorks
      <4>3. QED
        BY <2>s, <3>5, <4>2 DEF SequencesInv
    <3>9. Collections' = Collections \cup ms
      BY <3>1, <3>2 DEF Collections
    <3>10. \A d, e \in Consumers : InHands(d)' \cap ms = {} /\ InHands(d)' \subseteq InHands(d)
                                    /\ orphan[e] \cap ms = {}
      BY <2>p, <3>3, <3>6, <3>7 DEF PlacesInv
    <3>11. PlacesInv'
      <4>1. /\ visible' \cap Range(inflight') = {} /\ visible' \cap delayed' = {}
            /\ Range(inflight') \cap delayed' = {}
        BY <2>p, <3>1, <3>2, <3>3 DEF PlacesInv, Collections
      <4>2. ASSUME NEW d \in Consumers
            PROVE  /\ Range(successful'[d]) \cap dead'[d] = {}
                   /\ InHands(d)' \cap Collections' = {}
                   /\ orphan'[d] \cap Collections' = {}
        BY <2>p, <3>2, <3>5, <3>9, <3>10 DEF PlacesInv
      <4>3. ASSUME NEW d \in Consumers, NEW e \in Consumers
            PROVE  /\ InHands(d)' \cap orphan'[e] = {}
                   /\ d # e => InHands(d)' \cap InHands(e)' = {}
        BY <2>p, <3>2, <3>10 DEF PlacesInv
      <4>4. QED
        BY <4>1, <4>2, <4>3 DEF PlacesInv, InHands, Collections
    <3>12. AccountedInv'
      <4>1. Sent' = Sent
        BY <3>2 DEF Sent
      <4>2. \A d \in Consumers : \A m \in InHands(d) : m \in Collections' \/ m \in InHands(d)'
        BY <3>6, <3>7, <3>9
      <4>3. QED
        BY <2>a, <3>2, <3>9, <4>1, <4>2 DEF AccountedInv, Collections, InHands
    <3>13. QED
      BY <3>8, <3>11, <3>12 DEF PlaceInv
  <2>4. ASSUME NEW c \in Consumers, DlqMissing(c) PROVE PlaceInv'
    <3>1. /\ dead' = [dead EXCEPT ![c] = {}] /\ lost' = lost \cup dead[c]
          /\ UNCHANGED <<visible, inflight, delayed, orphan, successful, accepted, deleted, purged,
                         dropped, dlq>>
      BY <2>4 DEF DlqMissing, queueVars, messageVars, dlqVars, timeVars
    <3>2. \A d \in Consumers : dead'[d] \subseteq dead[d] /\ \A m \in dead[d] : m \in dead'[d] \/ m \in lost'
      BY <2>t, <3>1
    <3>3. SequencesInv'
      BY <2>s, <3>1 DEF SequencesInv
    <3>4. PlacesInv'
      BY <2>p, <3>1, <3>2 DEF PlacesInv, InHands, Collections
    <3>5. AccountedInv'
      BY <2>a, <3>1, <3>2 DEF AccountedInv, InHands, Collections, Sent
    <3>6. QED
      BY <3>3, <3>4, <3>5 DEF PlaceInv
  <2>5. ASSUME NEW c \in Consumers, NEW m \in Msgs, ForwardDead(c, m) PROVE PlaceInv'
    <3>1. /\ dead' = [dead EXCEPT ![c] = @ \ {m}] /\ dlq' = dlq \cup {m}
          /\ UNCHANGED <<visible, inflight, delayed, orphan, successful, accepted, deleted, purged,
                         dropped, lost>>
      BY <2>5 DEF ForwardDead, messageVars, worldVars, timeVars
    <3>2. \A d \in Consumers : dead'[d] \subseteq dead[d] /\ \A n \in dead[d] : n \in dead'[d] \/ n \in dlq'
      BY <2>t, <3>1
    <3>3. SequencesInv'
      BY <2>s, <3>1 DEF SequencesInv
    <3>4. PlacesInv'
      BY <2>p, <3>1, <3>2 DEF PlacesInv, InHands, Collections
    <3>5. AccountedInv'
      BY <2>a, <3>1, <3>2 DEF AccountedInv, InHands, Collections, Sent
    <3>6. QED
      BY <3>3, <3>4, <3>5 DEF PlaceInv
  \* A message leaves inflight, into the deleted ones or into its heap.
  <2>6. ASSUME NEW m, Range(inflight') = Range(inflight) \ {m}, Distinct(inflight'),
               \/ visible' = visible /\ deleted' = deleted \cup {m}
               \/ m \in Range(inflight) /\ visible' = visible \cup {m} /\ deleted' = deleted,
               UNCHANGED <<delayed, orphan, successful, dead, accepted, purged, dropped, dlq, lost>>
        PROVE  PlaceInv'
    <3>1. SequencesInv'
      BY <2>s, <2>6 DEF SequencesInv
    <3>2. PlacesInv'
      <4>1. Collections' \subseteq Collections
        BY <2>6 DEF Collections
      <4>2. /\ visible' \cap Range(inflight') = {} /\ visible' \cap delayed' = {}
            /\ Range(inflight') \cap delayed' = {}
        BY <2>p, <2>6 DEF PlacesInv
      <4>3. \A c \in Consumers : InHands(c)' = InHands(c)
        BY <2>6 DEF InHands
      <4>4. QED
        BY <2>p, <2>6, <4>1, <4>2, <4>3 DEF PlacesInv
    <3>3. AccountedInv'
      BY <2>a, <2>6 DEF AccountedInv, InHands, Collections, Sent
    <3>4. QED
      BY <3>1, <3>2, <3>3 DEF PlaceInv
  <2>7. ASSUME NEW h \in known, Remove(h) PROVE PlaceInv'
    <3>1. /\ inflight' = Without(inflight, h[1]) /\ visible' = visible
          /\ deleted' = deleted \cup {h[1]}
          /\ UNCHANGED <<delayed, orphan, successful, dead, accepted, purged, dropped, dlq, lost>>
      BY <2>7 DEF Remove, consumerVars, dlqVars, worldVars, timeVars
    <3>2. Range(inflight') = Range(inflight) \ {h[1]} /\ Distinct(inflight')
      BY <2>t, <3>1, WithoutWorks
    <3>3. QED
      BY <2>6, <3>1, <3>2
  <2>8. ASSUME NEW h \in known, NEW zero \in BOOLEAN, ChangeVisibility(h, zero) PROVE PlaceInv'
    <3>1. UNCHANGED <<delayed, orphan, successful, dead, accepted, purged, dropped, dlq, lost, deleted>>
      BY <2>8 DEF ChangeVisibility, consumerVars, dlqVars, worldVars, timeVars
    <3>2. CASE zero
      <4>1. /\ inflight' = Without(inflight, h[1]) /\ visible' = visible \cup {h[1]}
            /\ h[1] \in Range(inflight)
        BY <2>8, <3>2 DEF ChangeVisibility, MayChangeVisibility, PutMessages
      <4>2. Range(inflight') = Range(inflight) \ {h[1]} /\ Distinct(inflight')
        BY <2>t, <4>1, WithoutWorks
      <4>3. QED
        BY <2>6, <3>1, <4>1, <4>2
    <3>3. CASE ~zero
      BY <2>8, <2>u, <3>1, <3>3 DEF ChangeVisibility
    <3>4. QED
      BY <3>2, <3>3
  <2>9. ASSUME RequeueInflight PROVE PlaceInv'
    <3>1. /\ inflight # <<>> /\ inflight' = Tail(inflight)
          /\ visible' = visible \cup {Head(inflight)}
          /\ UNCHANGED <<delayed, orphan, successful, dead, accepted, purged, dropped, dlq, lost, deleted>>
      BY <2>9 DEF RequeueInflight, PutMessages, messageVars, consumerVars, dlqVars, worldVars, timeVars
    <3>2. /\ Head(inflight) \in Range(inflight) /\ Distinct(Tail(inflight))
          /\ Range(Tail(inflight)) = Range(inflight) \ {Head(inflight)}
      BY <2>t, <2>s, <3>1, TailWorks DEF SequencesInv
    <3>3. QED
      BY <2>6, <3>1, <3>2
  <2>10. ASSUME Purge PROVE PlaceInv'
    <3>1. /\ visible' = {} /\ inflight' = <<>> /\ delayed' = {} /\ purged' = Sent
          /\ orphan' = [c \in Consumers |-> IF pc[c] \in {"got", "full", "marked"} THEN Heap(group[c])
                                                                                  ELSE orphan[c]]
          /\ UNCHANGED <<successful, dead, accepted, deleted, dropped, dlq, lost>>
      BY <2>10 DEF Purge, messageVars, dlqVars, timeVars
    <3>2. Range(<<>>) = {} /\ Distinct(<<>>)
      BY DEF Range, Distinct
    <3>3. \A c \in Consumers : orphan'[c] \subseteq visible \cup orphan[c]
      BY <3>1 DEF Heap
    <3>4. SequencesInv'
      BY <2>s, <3>1, <3>2 DEF SequencesInv
    <3>5. PlacesInv'
      BY <2>p, <3>1, <3>2, <3>3 DEF PlacesInv, InHands, Collections
    <3>6. AccountedInv'
      BY <3>1 DEF AccountedInv, Sent
    <3>7. QED
      BY <3>4, <3>5, <3>6 DEF PlaceInv
  <2>11. ASSUME EnqueueDelayed PROVE PlaceInv'
    <3>1. /\ visible' = visible \cup (delayed \ delaying)
          /\ delayed' = delayed \ (delayed \ delaying)
          /\ UNCHANGED <<inflight, orphan, successful, dead, accepted, purged, dropped, dlq, lost, deleted>>
      BY <2>11 DEF EnqueueDelayed, PutMessages, messageVars, consumerVars, dlqVars, worldVars, timeVars
    <3>2. SequencesInv'
      BY <2>s, <3>1 DEF SequencesInv
    <3>3. PlacesInv'
      BY <2>p, <3>1 DEF PlacesInv, InHands, Collections
    <3>4. AccountedInv'
      BY <2>a, <3>1 DEF AccountedInv, InHands, Collections, Sent
    <3>5. QED
      BY <3>2, <3>3, <3>4 DEF PlaceInv
  <2>12. ASSUME RemoveExpired PROVE PlaceInv'
    <3>1. PICK expired \in SUBSET visible :
             /\ visible' = visible \ expired /\ dropped' = dropped \cup expired
             /\ UNCHANGED <<inflight, delayed, orphan, successful, dead, accepted, purged, dlq, lost,
                            deleted>>
      BY <2>12 DEF RemoveExpired, messageVars, consumerVars, dlqVars, timeVars
    <3>2. SequencesInv'
      BY <2>s, <3>1 DEF SequencesInv
    <3>3. PlacesInv'
      BY <2>p, <3>1 DEF PlacesInv, InHands, Collections
    <3>4. AccountedInv'
      BY <2>a, <3>1 DEF AccountedInv, InHands, Collections, Sent
    <3>5. QED
      BY <3>2, <3>3, <3>4 DEF PlaceInv
  <2>13. ASSUME NEW c \in Consumers,
                \/ \E n \in 1..MaxNum, zero \in BOOLEAN : ReceiveStart(c, n, zero)
                \/ \E g \in Groups : GetGroup(c, g)
                \/ GetEmpty(c) \/ CheckGroup(c) \/ MarkGroup(c) \/ FindDlq(c) \/ Respond(c)
         PROVE  PlaceInv'
    BY <2>13, <2>u DEF ReceiveStart, GetGroup, GetEmpty, CheckGroup, MarkGroup, FindDlq, Respond,
                       queueVars, messageVars, timeVars, dlqVars, worldVars
  <2>14. ASSUME \/ \E h \in known : RemoveFails(h)
                \/ DeleteQueue \/ DeleteDlq \/ RetentionPasses \/ UNCHANGED vars
                \/ \E m \in Msgs : Stamp(m) \/ DeadlinePasses(m) \/ DelayPasses(m)
         PROVE  PlaceInv'
    BY <2>14, <2>u DEF RemoveFails, DeleteQueue, DeleteDlq, RetentionPasses, Stamp, DeadlinePasses,
                       DelayPasses, vars, queueVars, messageVars, timeVars, consumerVars, dlqVars,
                       worldVars
  <2>15. CASE Client
    BY <2>1, <2>7, <2>8, <2>10, <2>13, <2>14, <2>15, Zenon DEF Client
  <2>16. CASE \E c \in Consumers : Receive(c)
    BY <2>2, <2>3, <2>4, <2>5, <2>13, <2>16, Zenon DEF Receive
  <2>17. CASE Worker
    BY <2>9, <2>11, <2>12, <2>17, Zenon DEF Worker
  <2>18. CASE Time
    BY <2>14, <2>18, Zenon DEF Time
  <2>19. QED
    BY <2>14, <2>15, <2>16, <2>17, <2>18, Zenon DEF Next
<1>3. QED
  BY <1>1, <1>2, TypeInvHolds, PTL DEF Spec

\* However receive calls, acknowledgements, purges and the update worker interleave, a
\* message is in one place: models.py registers a popped message in flight, and puts one
\* that is no longer in flight back, in different critical sections.
THEOREM OnePlaceHolds == Spec => []OnePlace
<1>1. TypeInv /\ PlaceInv => OnePlace
  <2> SUFFICES ASSUME TypeInv, PlaceInv PROVE OnePlace
    OBVIOUS
  <2>1. inflight \in Seq(Msgs) /\ Distinct(inflight)
    BY DEF TypeInv, TypeOK, QueueTypeOK, PlaceInv, SequencesInv
  <2>2. Len(inflight) \in Nat /\ DOMAIN inflight = 1..Len(inflight)
    BY <2>1, LenProperties
  <2>3. inflight \in Bijection(1..Len(inflight), Range(inflight))
    <3>1. inflight \in [1..Len(inflight) -> Msgs]
      BY <2>1
    <3>2. inflight \in [1..Len(inflight) -> Range(inflight)]
      BY <2>2, <3>1 DEF Range
    <3>3. QED
      BY <2>1, <2>2, <3>2 DEF Range, Distinct, Bijection, Injection, Surjection, IsInjective
  <2>4. Cardinality(Range(inflight)) = Len(inflight)
    <3>1. IsFiniteSet(1..Len(inflight)) /\ Cardinality(1..Len(inflight)) = Len(inflight)
      <4>1. PICK n \in Nat : n = Len(inflight)
        BY <2>2
      <4>2. IsFiniteSet(1..n) /\ Cardinality(1..n) = n
        BY FS_Interval
      <4>3. QED
        BY <4>1, <4>2
    <3>2. ExistsBijection(1..Len(inflight), Range(inflight))
      BY <2>3 DEF ExistsBijection
    <3>3. QED
      BY <3>1, <3>2, FS_Bijection
  <2>5. QED
    BY <2>4 DEF PlaceInv, PlacesInv, OnePlace
<1>2. QED
  BY <1>1, TypeInvHolds, PlaceInvHolds, PTL

\* A message that was accepted can be delivered until it is deleted, purged, dropped by the
\* retention job or handled as a dead letter: no interleaving of the steps of receive with
\* the worker or with other calls loses it.
THEOREM NoLossHolds == Spec => []NoLoss
<1>1. PlaceInv => NoLoss
  <2> SUFFICES ASSUME PlaceInv, NEW m \in Sent
               PROVE  m \in Collections \cup Held \cup deleted \cup purged \cup dropped \cup dlq
                        \cup lost
    BY DEF NoLoss
  <2>1. \A c \in Consumers : m \in InHands(c) => m \in Held
    BY DEF Held
  <2>2. QED
    BY <2>1 DEF PlaceInv, AccountedInv
<1>2. QED
  BY <1>1, PlaceInvHolds, PTL

-----------------------------------------------------------------------------
(* The order within a group *)

\* Messages are numbered from 1: the ones sent are finitely many.
LEMMA SentFinite ==
    ASSUME TypeInv
    PROVE  IsFiniteSet(Sent)
<1> DEFINE f == [m \in Sent |-> created[m]]
<1>1. clock \in Nat /\ \A m \in Sent : created[m] \in 0..clock
  BY DEF TypeInv, TypeOK, TimeTypeOK, MessageTypeOK, CreatedInv, Sent
<1>2. \A m, n \in Sent : created[m] = created[n] => m = n
  BY DEF TypeInv, CreatedInv, Sent
<1>3. f \in Injection(Sent, 0..clock)
  BY <1>1, <1>2 DEF Injection, IsInjective
<1>4. IsFiniteSet(0..clock)
  BY <1>1, FS_Interval
<1>5. QED
  BY <1>3, <1>4, FS_Injection

\* A pop takes no message of a heap before an older one.
LEMMA PoppedOldest ==
    ASSUME TypeInv, NEW c \in Consumers, NEW m \in Popped(c), NEW n \in HeapOf(c),
           created[n] < created[m]
    PROVE  n \in Popped(c)
<1> DEFINE Older(k) == {l \in HeapOf(c) : /\ created[l] < created[k]
                                          /\ l \notin deleted
                                          /\ ~Exhausted(l)}
           room == num[c] - Len(successful[c])
<1>1. HeapOf(c) \subseteq Sent /\ m \in HeapOf(c) /\ IsFiniteSet(Sent)
  BY HeapOfType, SentFinite
<1>2. \A l \in Sent : created[l] \in Nat
  BY DEF Sent, TypeInv, TypeOK, MessageTypeOK
<1>3. Older(n) \in SUBSET Older(m) /\ Older(m) \in SUBSET Sent
  BY <1>1, <1>2
<1>4. Cardinality(Older(m)) < room
  BY DEF Popped
<1>5. room \in Int
  <2>1. num[c] \in Int /\ successful[c] \in Seq(Msgs)
    BY CountsAssumption DEF TypeInv, TypeOK, ConsumerTypeOK
  <2>2. Len(successful[c]) \in Nat
    BY <2>1, LenProperties
  <2>3. QED
    BY <2>1, <2>2
<1> HIDE DEF Older, room
<1>6. IsFiniteSet(Older(m))
  BY <1>1, <1>3, FS_Subset
<1>7. IsFiniteSet(Older(n)) /\ Cardinality(Older(n)) <= Cardinality(Older(m))
  BY <1>3, <1>6, FS_Subset
<1>8. Cardinality(Older(n)) \in Nat /\ Cardinality(Older(m)) \in Nat
  BY <1>6, <1>7, FS_CardinalityType
<1>9. Cardinality(Older(n)) < room
  BY <1>4, <1>5, <1>7, <1>8
<1>10. QED
  BY <1>9 DEF Popped, Older, room

\* A message that was not received is still to come, and nothing passes it on the way.
LEMMA FifoInvHolds == Spec => []FifoInv
<1> USE GroupsAssumption, CountsAssumption, EventsAssumption
<1>1. Init => FifoInv
  <2> SUFFICES ASSUME Init PROVE FifoInv
    OBVIOUS
  <2>1. Range(<<>>) = {}
    BY DEF Range
  <2>2. UnreceivedInv /\ FirstInFirstOut
    BY DEF Init, UnreceivedInv, FirstInFirstOut, Sent
  <2>3. ReceivedInv
    BY <2>1 DEF Init, ReceivedInv, Sent
  <2>4. DelayInv /\ PurgedInv
    BY DEF Init, DelayInv, PurgedInv, Sent
  <2>5. QED
    BY <2>2, <2>3, <2>4 DEF FifoInv
<1>2. TypeInv /\ TypeInv' /\ PlaceInv /\ FifoInv /\ [Next]_vars => FifoInv'
  <2> SUFFICES ASSUME TypeInv, TypeInv', PlaceInv, FifoInv, [Next]_vars PROVE FifoInv'
    OBVIOUS
  <2>i. UnreceivedInv /\ ReceivedInv /\ DelayInv /\ PurgedInv /\ FirstInFirstOut
    BY DEF FifoInv
  <2>t. /\ created \in [Msgs -> Nat] /\ receive_count \in [Msgs -> Nat] /\ clock \in Nat
        /\ successful \in [Consumers -> Seq(Msgs)] /\ results \in [Consumers -> SUBSET Handles]
        /\ Sent \subseteq Msgs /\ accepted \in [Msgs -> Nat]
    BY DEF TypeInv, TypeOK, MessageTypeOK, TimeTypeOK, ConsumerTypeOK, Sent
  \* What the other actions leave alone.
  <2>g. ASSUME UNCHANGED <<created, accepted, slow, receive_count>>,
               visible \cup delayed \cup purged \cup dropped
                 \subseteq visible' \cup delayed' \cup purged' \cup dropped',
               purged \subseteq purged', dropped \subseteq dropped'
        PROVE  UnreceivedInv' /\ FirstInFirstOut' /\ Sent' = Sent
    BY <2>i, <2>g DEF UnreceivedInv, FirstInFirstOut, Sent, SentBefore
  <2>r. ASSUME UNCHANGED <<created, accepted, slow, receive_count, deleted, known, successful, results>>
        PROVE  ReceivedInv'
    BY <2>i, <2>r DEF ReceivedInv, Sent
  <2>d. ASSUME UNCHANGED <<created, accepted, slow, delayed, delaying>> PROVE DelayInv'
    BY <2>i, <2>d DEF DelayInv, Sent, SentBefore
  <2>p. ASSUME UNCHANGED <<created, accepted, purged, orphan>> PROVE PurgedInv'
    BY <2>i, <2>p DEF PurgedInv, Sent, SentBefore
  <2>u. ASSUME UNCHANGED <<created, accepted, slow, receive_count, visible, delayed, delaying, purged, dropped,
                           deleted, known, successful, results, orphan>>
        PROVE  FifoInv'
    BY <2>u, <2>g, <2>r, <2>d, <2>p DEF FifoInv
  <2>1. ASSUME NEW m \in Msgs, Stamp(m) PROVE FifoInv'
    <3>1. /\ created[m] = 0 /\ created' = [created EXCEPT ![m] = clock + 1]
          /\ delaying' = IF Delayed THEN delaying \cup {m} ELSE delaying
          /\ UNCHANGED <<accepted, slow, visible, delayed, receive_count, deleted, known, successful,
                         results, orphan, purged, dropped>>
      BY <2>1 DEF Stamp, queueVars, consumerVars, worldVars
    <3>2. /\ created'[m] = clock + 1
          /\ \A n \in Msgs \ {m} : created'[n] = created[n]
          /\ \A n \in Msgs : created[n] \in Nat /\ created[n] <= clock
      BY <2>t, <3>1 DEF TypeInv, CreatedInv
    <3>3. Sent' = Sent /\ m \notin Sent
      BY <3>1 DEF Sent, TypeInv, CreatedInv
    <3>4. \A k, n \in Sent : SentBefore(n, k)' = SentBefore(n, k)
      BY <2>t, <3>1, <3>2, <3>3 DEF SentBefore
    <3>5. delayed \subseteq Sent
      BY DEF TypeInv, SentInv, Collections
    <3>6. UnreceivedInv' /\ ReceivedInv'
      BY <2>i, <3>1, <3>3 DEF UnreceivedInv, ReceivedInv
    <3>7. FirstInFirstOut'
      BY <2>i, <3>1, <3>3, <3>4 DEF FirstInFirstOut
    <3>8. PurgedInv'
      BY <2>i, <3>1, <3>3, <3>4 DEF PurgedInv
    \* The new message is the youngest.
    <3>9. \A n \in delaying', k \in Msgs : created'[n] < created'[k] => k \in delaying'
      <4> SUFFICES ASSUME NEW n \in delaying', NEW k \in Msgs, created'[n] < created'[k]
                   PROVE  k \in delaying'
        OBVIOUS
      <4>1. Delayed /\ delaying' = delaying \cup {m} /\ n \in Msgs
        BY <2>i, <3>1 DEF DelayInv, TypeInv, TypeOK, MessageTypeOK
      <4>2. n # m
        <5>1. created'[k] <= clock + 1 /\ created'[k] \in Nat
          <6>1. CASE k = m
            BY <2>t, <3>2, <6>1
          <6>2. CASE k # m
            BY <2>t, <3>2, <6>2
          <6>3. QED
            BY <6>1, <6>2
        <5>2. QED
          BY <2>t, <3>2, <5>1
      <4>3. CASE k # m
        BY <2>i, <3>2, <4>1, <4>2, <4>3 DEF DelayInv
      <4>4. QED
        BY <4>1, <4>3
    <3>10. DelayInv'
      <4>1. ~Delayed => delayed' = {} /\ delaying' = {}
        BY <2>i, <3>1 DEF DelayInv
      <4>2. \A n \in delayed', k \in Sent' : SentBefore(n, k)' => k \in delayed' \cup slow'
        BY <2>i, <3>1, <3>3, <3>4, <3>5 DEF DelayInv
      <4>3. QED
        BY <3>9, <4>1, <4>2 DEF DelayInv
    <3>11. QED
      BY <3>6, <3>7, <3>8, <3>10 DEF FifoInv
  <2>18. ASSUME NEW m \in Msgs, Push(m) PROVE FifoInv'
    <3>1. /\ m \notin Sent /\ accepted' = [accepted EXCEPT ![m] = clock]
          /\ UNCHANGED <<created, delaying, receive_count, deleted, known, successful, results,
                         orphan, purged, dropped>>
      BY <2>18 DEF Push, Sending, Sent, messageVars, consumerVars, worldVars
    <3>2. /\ accepted'[m] = clock
          /\ \A n \in Msgs \ {m} : accepted'[n] = accepted[n]
          /\ \A n \in Msgs : created[n] \in Nat /\ created[n] <= clock
      BY <2>t, <3>1 DEF TypeInv, CreatedInv
    <3>3. Sent \subseteq Sent' /\ Sent' \subseteq Sent \cup {m}
      BY <2>t, <3>1, <3>2 DEF Sent
    \* Nothing was stamped after the new message was pushed.
    <3>4. \A n \in Msgs : ~SentBefore(m, n)'
      BY <2>t, <3>1, <3>2 DEF SentBefore
    <3>5. \A n \in Msgs \ {m}, k \in Msgs : SentBefore(n, k)' = SentBefore(n, k)
      BY <3>1, <3>2 DEF SentBefore
    <3>6. /\ visible \subseteq visible' /\ delayed' \subseteq delayed \cup {m}
          /\ delayed \subseteq delayed' /\ m \in visible' \cup delayed' /\ slow \subseteq slow'
          /\ m \in delayed' => Delayed
          /\ Delayed => m \in delayed' \cup slow'
      BY <2>18, <2>i DEF Push, PutMessages, DelayInv
    <3>7. delayed \subseteq Sent /\ receive_count[m] = 0 /\ m \notin purged
      BY <2>i, <3>1 DEF TypeInv, SentInv, Collections, ReceivedInv, PurgedInv
    <3>8. UnreceivedInv'
      BY <2>i, <3>1, <3>3, <3>6 DEF UnreceivedInv
    <3>9. ReceivedInv'
      BY <2>i, <3>1, <3>3 DEF ReceivedInv
    <3>10. DelayInv'
      <4>1. ~Delayed => delayed' = {} /\ delaying' = {}
        BY <2>i, <3>1, <3>6 DEF DelayInv
      <4>2. ASSUME NEW n \in delayed', NEW k \in Sent', SentBefore(n, k)'
            PROVE  k \in delayed' \cup slow'
        <5>1. n \in delayed /\ n # m /\ n \in Msgs /\ k \in Msgs
          BY <2>t, <3>3, <3>4, <3>6, <3>1, <3>7, <4>2
        <5>2. CASE k = m
          BY <2>i, <3>6, <5>1, <5>2 DEF DelayInv
        <5>3. CASE k # m
          BY <2>i, <3>3, <3>5, <3>6, <4>2, <5>1, <5>3 DEF DelayInv
        <5>4. QED
          BY <5>2, <5>3
      <4>3. QED
        BY <2>i, <3>1, <4>1, <4>2 DEF DelayInv
    <3>11. PurgedInv'
      BY <2>i, <2>t, <3>1, <3>3, <3>4, <3>5, <3>7 DEF PurgedInv
    <3>12. FirstInFirstOut'
      <4> SUFFICES ASSUME NEW k \in Sent', NEW n \in Sent', GroupOf[k] = GroupOf[n],
                          SentBefore(n, k)', k \notin slow', receive_count'[k] > 0
                   PROVE  receive_count'[n] > 0 \/ n \in purged' \cup dropped'
        BY DEF FirstInFirstOut
      <4>1. k \in Sent /\ k \in Msgs
        BY <2>t, <3>1, <3>3, <3>7
      <4>2. n # m /\ n \in Sent /\ n \in Msgs
        BY <2>t, <3>3, <3>4, <4>1
      <4>3. SentBefore(n, k) /\ k \notin slow
        BY <3>5, <3>6, <4>1, <4>2
      <4>4. QED
        BY <2>i, <3>1, <4>1, <4>2, <4>3 DEF FirstInFirstOut
    <3>13. QED
      BY <3>8, <3>9, <3>10, <3>11, <3>12 DEF FifoInv
  <2>2. ASSUME NEW c \in Consumers, PopGroup(c) PROVE FifoInv'
    <3> DEFINE popped == Popped(c)
               taken == popped \ deleted
               spent == {m \in taken : Exhausted(m)}
    <3>1. /\ Range(successful'[c]) = Range(successful[c]) \cup (taken \ spent)
          /\ \A d \in Consumers \ {c} : successful'[d] = successful[d]
      BY <2>2, PopWorks
    <3>2. /\ receive_count' = [m \in Msgs |-> IF m \in taken THEN receive_count[m] + 1
                                                             ELSE receive_count[m]]
          /\ orphan' = [d \in Consumers |-> IF d = c THEN {} ELSE orphan[d] \ popped]
          /\ UNCHANGED <<created, accepted, slow, delayed, delaying, deleted, known, results, purged, dropped>>
      BY <2>2 DEF PopGroup, worldVars, timeVars
    <3>3. visible \ popped \subseteq visible'
      BY <2>2 DEF PopGroup
    <3>4. popped \subseteq HeapOf(c) /\ HeapOf(c) \subseteq Sent
      BY HeapOfType
    <3>5. \A m \in Msgs : /\ m \in taken => receive_count'[m] > 0
                          /\ m \notin taken => receive_count'[m] = receive_count[m]
                          /\ receive_count[m] > 0 => receive_count'[m] > 0
      BY <2>t, <3>2
    <3>6. \A m \in popped : m \in deleted \/ m \in taken
      OBVIOUS
    <3>7. Sent' = Sent
      BY <3>2 DEF Sent
    <3>8. \A m \in deleted : m \in Msgs
      BY DEF TypeInv, TypeOK, MessageTypeOK
    <3>9. DelayInv'
      BY <2>d, <3>2
    <3>10. PurgedInv'
      <4>1. \A d \in Consumers : orphan'[d] \subseteq orphan[d]
        BY <3>2
      <4>2. QED
        BY <2>i, <3>2, <3>7, <4>1 DEF PurgedInv, SentBefore
    <3>11. \A d \in Consumers : \A m \in Range(successful'[d]) :
              m \in Range(successful[d]) \/ m \in taken
      BY <3>1
    <3> HIDE DEF taken, spent, popped
    <3>12. taken \subseteq Sent /\ taken \subseteq popped
      BY <3>4 DEF taken
    <3>13. ReceivedInv'
      <4>1. \A m \in Msgs \ Sent : receive_count'[m] = 0
        BY <2>i, <3>5, <3>12 DEF ReceivedInv
      <4>2. \A m \in deleted : receive_count'[m] > 0
        BY <2>i, <3>5, <3>8 DEF ReceivedInv
      <4>3. \A h \in Handles : h[1] \in Msgs
        BY DEF Handles
      <4>4. \A h \in known : receive_count'[h[1]] > 0
        <5>1. known \subseteq Handles
          BY DEF TypeInv, TypeOK, WorldTypeOK
        <5>2. QED
          BY <2>i, <3>5, <4>3, <5>1 DEF ReceivedInv
      <4>5. \A d \in Consumers : \A h \in results[d] : receive_count'[h[1]] > 0
        BY <2>t, <2>i, <3>5, <4>3 DEF ReceivedInv
      <4>6. \A d \in Consumers : \A m \in Range(successful'[d]) : receive_count'[m] > 0
        <5>1. \A d \in Consumers : Range(successful[d]) \subseteq Msgs
          BY <2>t, RangeType
        <5>2. QED
          BY <2>t, <2>i, <3>5, <3>11, <3>12, <5>1 DEF ReceivedInv
      <4>7. QED
        BY <3>2, <3>7, <4>1, <4>2, <4>4, <4>5, <4>6 DEF ReceivedInv
    <3>14. UnreceivedInv'
      <4> SUFFICES ASSUME NEW m \in Sent, receive_count'[m] = 0
                   PROVE  m \in visible' \cup delayed \cup purged \cup dropped
        BY <3>2, <3>7 DEF UnreceivedInv
      <4>1. m \in Msgs /\ m \notin taken /\ receive_count[m] = 0
        BY <2>t, <3>5
      <4>2. m \notin popped
        <5>1. m \notin deleted
          BY <2>i, <4>1 DEF ReceivedInv
        <5>2. QED
          BY <3>6, <4>1, <5>1
      <4>3. m \in visible \cup delayed \cup purged \cup dropped
        BY <2>i, <4>1 DEF UnreceivedInv
      <4>4. QED
        BY <3>3, <4>2, <4>3
    <3>15. FirstInFirstOut'
      <4> SUFFICES ASSUME NEW m \in Sent, NEW n \in Sent, GroupOf[m] = GroupOf[n],
                          SentBefore(n, m), m \notin slow, receive_count'[m] > 0,
                          n \notin purged \cup dropped
                   PROVE  receive_count'[n] > 0
        BY <3>2, <3>7 DEF FirstInFirstOut, SentBefore
      <4>0. m \in Msgs /\ n \in Msgs /\ created[n] < created[m]
        BY <2>t DEF SentBefore, TypeInv, CreatedInv
      <4>1. CASE m \notin taken
        <5>1. receive_count[m] > 0
          BY <3>5, <4>0, <4>1
        <5>2. receive_count[n] > 0
          BY <2>i, <5>1 DEF FirstInFirstOut
        <5>3. QED
          BY <3>5, <4>0, <5>2
      \* An older message of the group that was not received is in the same heap, and
      \* therefore popped.
      <4>2. CASE m \in taken /\ receive_count[n] = 0
        <5>1. m \in HeapOf(c) /\ m \in popped
          BY <3>4, <3>12, <4>2
        <5>2. n \in visible \cup delayed /\ n \notin deleted
          BY <2>i, <4>2 DEF UnreceivedInv, ReceivedInv
        <5>3. m \notin orphan[c]
          BY <2>i DEF PurgedInv
        <5>4. m \in Heap(group[c]) /\ HeapOf(c) = Heap(group[c])
          BY <5>1, <5>3 DEF HeapOf
        <5>5. m \in visible /\ GroupOf[m] = group[c]
          BY <5>4 DEF Heap
        <5>6. m \notin delayed
          BY <5>5 DEF PlaceInv, PlacesInv
        <5>7. n \notin delayed
          BY <2>i, <5>6 DEF DelayInv
        <5>8. n \in HeapOf(c)
          BY <5>2, <5>4, <5>5, <5>7 DEF Heap
        <5>9. n \in popped
          BY <4>0, <5>1, <5>8, PoppedOldest DEF popped
        <5>10. n \in taken
          BY <3>6, <5>2, <5>9
        <5>11. QED
          BY <3>5, <4>0, <5>10
      <4>3. CASE m \in taken /\ receive_count[n] # 0
        <5>1. receive_count[n] \in Nat
          BY <2>t, <4>0
        <5>2. QED
          BY <3>5, <4>0, <4>3, <5>1
      <4>4. QED
        BY <4>1, <4>2, <4>3
    <3>16. QED
      BY <3>9, <3>10, <3>13, <3>14, <3>15 DEF FifoInv
  <2>3. ASSUME NEW c \in Consumers, Settle(c) PROVE FifoInv'
    <3>1. /\ UNCHANGED <<created, accepted, slow, receive_count, delayed, delaying, purged, dropped, deleted, known,
                         orphan>>
          /\ visible \subseteq visible'
          /\ results' = [results EXCEPT ![c] = {Handle(m) : m \in Range(successful[c])}]
          /\ successful' = [successful EXCEPT ![c] = <<>>]
      BY <2>3 DEF Settle, PutMessages, worldVars, timeVars
    <3>2. UnreceivedInv' /\ FirstInFirstOut' /\ Sent' = Sent /\ DelayInv' /\ PurgedInv'
      BY <2>g, <2>d, <2>p, <3>1
    <3>3. Range(<<>>) = {}
      BY DEF Range
    <3>4. \A d \in Consumers : Range(successful'[d]) \subseteq Range(successful[d])
      BY <2>t, <3>1, <3>3
    <3>5. \A h \in results'[c] : \E m \in Range(successful[c]) : h[1] = m
      BY <2>t, <3>1 DEF Handle
    <3>6. \A d \in Consumers \ {c} : results'[d] = results[d]
      BY <2>t, <3>1
    <3>7. \A d \in Consumers : \A h \in results'[d] : receive_count[h[1]] > 0
      BY <2>i, <3>5, <3>6 DEF ReceivedInv
    <3>8. ReceivedInv'
      BY <2>i, <3>1, <3>2, <3>4, <3>7 DEF ReceivedInv
    <3>9. QED
      BY <3>2, <3>8 DEF FifoInv
  <2>4. ASSUME NEW c \in Consumers, DlqMissing(c) \/ Respond(c) PROVE FifoInv'
    <3>1. /\ UNCHANGED <<created, accepted, slow, receive_count, visible, delayed, delaying, purged, dropped, deleted,
                         successful, orphan>>
          /\ results' = [results EXCEPT ![c] = {}]
          /\ known' \subseteq known \cup results[c]
      BY <2>4 DEF DlqMissing, Respond, queueVars, messageVars, timeVars
    <3>2. UnreceivedInv' /\ FirstInFirstOut' /\ Sent' = Sent /\ DelayInv' /\ PurgedInv'
      BY <2>g, <2>d, <2>p, <3>1
    <3>3. \A d \in Consumers : results'[d] \subseteq results[d]
      BY <2>t, <3>1
    <3>4. ReceivedInv'
      BY <2>i, <3>1, <3>2, <3>3 DEF ReceivedInv
    <3>5. QED
      BY <3>2, <3>4 DEF FifoInv
  <2>5. ASSUME NEW h \in known, Remove(h) \/ RemoveFails(h) PROVE FifoInv'
    <3>1. /\ UNCHANGED <<created, accepted, slow, receive_count, visible, delayed, delaying, purged, dropped, known,
                         successful, results, orphan>>
          /\ deleted' = deleted \cup {h[1]}
      BY <2>5 DEF Remove, RemoveFails, consumerVars, worldVars, timeVars
    <3>2. UnreceivedInv' /\ FirstInFirstOut' /\ Sent' = Sent /\ DelayInv' /\ PurgedInv'
      BY <2>g, <2>d, <2>p, <3>1
    <3>3. ReceivedInv'
      BY <2>i, <3>1, <3>2 DEF ReceivedInv
    <3>4. QED
      BY <3>2, <3>3 DEF FifoInv
  <2>6. ASSUME \/ RequeueInflight
               \/ \E h \in known, zero \in BOOLEAN : ChangeVisibility(h, zero)
        PROVE  FifoInv'
    <3>1. /\ UNCHANGED <<created, accepted, slow, receive_count, delayed, delaying, purged, dropped, deleted, known,
                         successful, results, orphan>>
          /\ visible \subseteq visible'
      BY <2>6 DEF RequeueInflight, ChangeVisibility, PutMessages, messageVars, timeVars,
                  consumerVars, worldVars
    <3>2. QED
      BY <2>g, <2>r, <2>d, <2>p, <3>1 DEF FifoInv
  <2>7. ASSUME Purge PROVE FifoInv'
    <3>1. /\ UNCHANGED <<created, accepted, slow, receive_count, delaying, dropped, deleted, known, successful,
                         results>>
          /\ delayed' = {} /\ purged' = Sent
      BY <2>7 DEF Purge, messageVars, timeVars
    <3>2. Sent' = Sent
      BY <3>1 DEF Sent
    <3>3. UnreceivedInv' /\ FirstInFirstOut'
      BY <3>1, <3>2 DEF UnreceivedInv, FirstInFirstOut
    <3>4. ReceivedInv'
      BY <2>r, <3>1
    <3>5. DelayInv'
      BY <2>i, <3>1, <3>2 DEF DelayInv
    <3>6. PurgedInv'
      BY <3>1, <3>2 DEF PurgedInv, TypeInv, SentInv
    <3>7. QED
      BY <3>3, <3>4, <3>5, <3>6 DEF FifoInv
  <2>8. ASSUME EnqueueDelayed PROVE FifoInv'
    <3>1. /\ UNCHANGED <<created, accepted, slow, receive_count, delaying, purged, dropped, deleted, known, successful,
                         results, orphan>>
          /\ delayed' = delayed \ (delayed \ delaying)
          /\ visible' = visible \cup (delayed \ delaying)
      BY <2>8 DEF EnqueueDelayed, PutMessages, messageVars, consumerVars, worldVars, timeVars
    <3>2. UnreceivedInv' /\ FirstInFirstOut' /\ Sent' = Sent /\ ReceivedInv' /\ PurgedInv'
      BY <2>g, <2>r, <2>p, <3>1
    <3>3. DelayInv'
      <4>1. \A n \in delayed', m \in Sent : SentBefore(n, m) => m \in delayed' \cup slow
        <5> SUFFICES ASSUME NEW n \in delayed', NEW m \in Sent, SentBefore(n, m)
                     PROVE  m \in delayed' \cup slow
          OBVIOUS
        <5>1. n \in delayed /\ n \in delaying /\ n \in Sent
          BY <3>1 DEF TypeInv, SentInv, Collections
        <5>2. created[n] < created[m] /\ m \in Msgs
          BY <2>t, <5>1 DEF SentBefore, TypeInv, CreatedInv
        <5>3. m \in delaying /\ m \in delayed \cup slow
          BY <2>i, <5>1, <5>2 DEF DelayInv
        <5>4. QED
          BY <3>1, <5>3
      <4>2. QED
        BY <2>i, <3>1, <3>2, <4>1 DEF DelayInv, SentBefore
    <3>4. QED
      BY <3>2, <3>3 DEF FifoInv
  <2>9. ASSUME RemoveExpired PROVE FifoInv'
    <3>1. PICK expired \in SUBSET visible :
             /\ visible' = visible \ expired /\ dropped' = dropped \cup expired
             /\ UNCHANGED <<created, accepted, slow, receive_count, delayed, delaying, purged, deleted, known,
                            successful, results, orphan>>
      BY <2>9 DEF RemoveExpired, messageVars, consumerVars, timeVars
    <3>2. QED
      BY <2>g, <2>r, <2>d, <2>p, <3>1 DEF FifoInv
  <2>10. ASSUME NEW m \in Msgs, DelayPasses(m) PROVE FifoInv'
    <3>1. /\ UNCHANGED <<created, accepted, slow, receive_count, visible, delayed, purged, dropped, deleted, known,
                         successful, results, orphan>>
          /\ m \in delaying /\ (\A n \in delaying : created[m] <= created[n])
          /\ delaying' = delaying \ {m}
      BY <2>10 DEF DelayPasses, queueVars, consumerVars, worldVars, timeVars
    <3>2. UnreceivedInv' /\ FirstInFirstOut' /\ Sent' = Sent /\ ReceivedInv' /\ PurgedInv'
      BY <2>g, <2>r, <2>p, <3>1
    <3>3. \A n \in delaying, k \in Msgs : created[n] < created[k] => k # m
      <4>1. \A n \in delaying : n \in Msgs
        BY DEF TypeInv, TypeOK, MessageTypeOK
      <4>2. QED
        BY <2>t, <3>1, <4>1
    <3>4. DelayInv'
      BY <2>i, <3>1, <3>2, <3>3 DEF DelayInv, SentBefore
    <3>5. QED
      BY <3>2, <3>4 DEF FifoInv
  <2>11. ASSUME NEW c \in Consumers,
                \/ \E n \in 1..MaxNum, zero \in BOOLEAN : ReceiveStart(c, n, zero)
                \/ \E g \in Groups : GetGroup(c, g)
                \/ \E m \in Msgs : ForwardDead(c, m)
                \/ GetEmpty(c) \/ CheckGroup(c) \/ MarkGroup(c) \/ FindDlq(c)
         PROVE  FifoInv'
    BY <2>11, <2>u DEF ReceiveStart, GetGroup, ForwardDead, GetEmpty, CheckGroup, MarkGroup, FindDlq,
                       queueVars, messageVars, timeVars, worldVars
  <2>12. ASSUME \/ DeleteQueue \/ DeleteDlq \/ RetentionPasses \/ UNCHANGED vars
                \/ \E m \in Msgs : DeadlinePasses(m)
         PROVE  FifoInv'
    BY <2>12, <2>u DEF DeleteQueue, DeleteDlq, RetentionPasses, DeadlinePasses, vars, queueVars,
                       messageVars, timeVars, consumerVars, worldVars
  <2>13. CASE Client
    BY <2>1, <2>5, <2>6, <2>7, <2>11, <2>12, <2>13, <2>18, Zenon DEF Client
  <2>14. CASE \E c \in Consumers : Receive(c)
    BY <2>2, <2>3, <2>4, <2>11, <2>14, Zenon DEF Receive
  <2>15. CASE Worker
    BY <2>6, <2>8, <2>9, <2>15, Zenon DEF Worker
  <2>16. CASE Time
    BY <2>10, <2>12, <2>16, Zenon DEF Time
  <2>17. QED
    BY <2>12, <2>13, <2>14, <2>15, <2>16, Zenon DEF Next
<1>3. QED
  BY <1>1, <1>2, TypeInvHolds, PlaceInvHolds, PTL DEF Spec

\* First in, first out within a group, with any number of receive calls of any size, delays,
\* requeued messages and purges: no message of a group is received before one whose
\* SendMessage call was over when that of the message began.
THEOREM ReceivedInOrder == Spec => []FirstInFirstOut
<1>1. FifoInv => FirstInFirstOut
  BY DEF FifoInv
<1>2. QED
  BY <1>1, FifoInvHolds, PTL
=============================================================================

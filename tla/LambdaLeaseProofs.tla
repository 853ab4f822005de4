--------------------------- MODULE LambdaLeaseProofs ---------------------------
(***************************************************************************)
(* Proofs about the provisioned leases of LambdaVersionManager: as long as *)
(* the configuration is changed once and the version runs, an invocation   *)
(* with a provisioned lease finds an environment, for any number of        *)
(* environments and invocations.                                           *)
(*                                                                         *)
(* That there are no more leases than environments is not enough, since an *)
(* invocation looks at each environment once and those it has passed may   *)
(* be released, and those ahead of it taken, meanwhile.  What saves it is  *)
(* that all look at them in the order of the dict: of the invocations that *)
(* hold one of the last environments of the dict, or have only such        *)
(* environments left to look at, there are never more than environments.   *)
(***************************************************************************)
EXTENDS LambdaVersionManagerProofs

\* The updates that clients have made.
Started == {v \in Updates : updater[v] # "new"}

\* The version runs, and at most one update, u, has been made.
Sole(u) == version = "running" /\ \A v \in Started : v = u

\* The environments of u in the order they are put into the dict, from the k-th on.
Suffix(u, k) == {SetToSeq(NewEnvs[u])[j] : j \in k..Cardinality(NewEnvs[u])}

\* The environments of u appear in q in that order, each at most once.
Sorted(u, q) ==
    \A a, b \in DOMAIN q : \A j, k \in 1..Cardinality(NewEnvs[u]) :
        a < b /\ q[a] = SetToSeq(NewEnvs[u])[j] /\ q[b] = SetToSeq(NewEnvs[u])[k] => j < k

\* Only a provisioned lease is served with a provisioned environment.
KindInv ==
    \A i \in Invocations :
        pc[i] \in HasEnv /\ env[i] \notin Invocations => lease[i] = "provisioned"

\* Finitely many updates have been made, and there is no such lease without one.
GrantInv ==
    /\ KindInv
    /\ IsFiniteSet(Started)
    /\ Updates = {} => Lessees = {} /\ unavailable = {}

\* The configuration and the state of the first update.
ConfigInv(u) ==
    /\ config = IF updater[u] = "new" THEN 0 ELSE Cardinality(NewEnvs[u])
    /\ updater[u] # "refused"
    /\ provisioned_state \in {None, u}
    /\ updater[u] \in {"new", "configured"} => provisioned_state = None
    /\ state_status[u] = "READY" =>
           updater[u] = "done" /\ \A e \in NewEnvs[u] : starter[e] = "started"
    /\ \A i \in Invocations : seen[i] \in {None, u}

\* Leases are given out once its environments are started, and no more than those.
QuotaInv(u) ==
    /\ Lessees # {} => state_status[u] = "READY"
    /\ concurrent_executions <= config

FirstInv == \A u \in Updates : Sole(u) => ConfigInv(u) /\ QuotaInv(u)

\* Its environments are registered in one go, and nobody stops them.
KeptInv(u) ==
    /\ \A s \in stops : s.env \notin NewEnvs[u]
    /\ \A e \in NewEnvs[u] : status[e] \notin {"STOPPED", "TIMING_OUT"}
    /\ ToSet(environments) \subseteq Invocations \cup NewEnvs[u]
    /\ updater[u] \in {"new", "configured", "scaling"} => ToSet(environments) \subseteq Invocations
    /\ updater[u] \in {"waiting", "done"} => NewEnvs[u] \subseteq ToSet(environments)

FirstKept == \A u \in Updates : Sole(u) => KeptInv(u)

\* What is left of a snapshot has all of them from one on, in their order,
Remaining(u, q) ==
    /\ Sorted(u, q)
    /\ ToSet(q) \subseteq Invocations \cup NewEnvs[u]
    /\ \E k \in 1..Cardinality(NewEnvs[u]) + 1 : ToSet(q) \cap NewEnvs[u] = Suffix(u, k)

\* since this is the order of the dict.
OrderInv(u) ==
    /\ Sorted(u, environments)
    /\ \A i \in Lessees : pc[i] = "scan" => Remaining(u, todo[i])

FirstSorted == \A u \in Updates : Sole(u) => OrderInv(u)

\* Invocations that hold one of the environments from the k-th on, or have no other
\* left to look at.
From(u, k) ==
    {i \in Lessees :
        \/ pc[i] = "scan" /\ ToSet(todo[i]) \cap NewEnvs[u] \subseteq Suffix(u, k)
        \/ \E e \in Suffix(u, k) : Holds(i, e)}

\* There are enough of them.
SpreadInv(u) ==
    /\ \A k \in 1..Cardinality(NewEnvs[u]) + 1 :
           Cardinality(From(u, k)) <= Cardinality(NewEnvs[u]) - k + 1
    /\ unavailable = {}

FirstServed == \A u \in Updates : Sole(u) => SpreadInv(u)

-----------------------------------------------------------------------------

\* The environments of an update are put into the dict in an order, each once.
LEMMA PlacesWork ==
    ASSUME NEW u \in Updates
    PROVE  LET S == NewEnvs[u]
               n == Cardinality(S)
               q == SetToSeq(S)
           IN  /\ n \in Nat /\ q \in Seq(Envs) /\ Len(q) = n /\ DOMAIN q = 1..n
               /\ \A j \in 1..n : q[j] \in S
               /\ \A j, k \in 1..n : q[j] = q[k] => j = k
               /\ \A e \in S : \E j \in 1..n : q[j] = e
<1> DEFINE S == NewEnvs[u]
           n == Cardinality(S)
           q == SetToSeq(S)
<1>1. IsFiniteSet(S) /\ S \subseteq Envs
  BY NewEnvsAssumption DEF Envs, ProvisionedEnvs
<1>2. n \in Nat /\ ExistsBijection(1..n, S)
  BY <1>1, FS_CardinalityType
<1>3. \E f \in [1..n -> S] : IsInjective(f)
  BY <1>2 DEF ExistsBijection, Bijection, Injection, IsInjective
<1>4. q \in [1..n -> S] /\ IsInjective(q)
  BY <1>3 DEF SetToSeq
<1> HIDE DEF q, S
<1>5. q \in Injection(1..n, S)
  BY <1>4 DEF Injection
<1>6. Cardinality(1..n) = n
  BY <1>2, FS_Interval
<1>7. q \in Surjection(1..n, S)
  BY <1>1, <1>5, <1>6, FS_Injection
<1>8. \A e \in S : \E j \in 1..n : q[j] = e
  BY <1>7 DEF Surjection
<1>9. q \in Seq(Envs) /\ Len(q) = n
  BY <1>1, <1>2, <1>4
<1>10. QED
  BY <1>2, <1>4, <1>8, <1>9 DEF IsInjective, q, S

\* What is left of them from the k-th on.
LEMMA SuffixWorks ==
    ASSUME NEW u \in Updates
    PROVE  LET n == Cardinality(NewEnvs[u])
               q == SetToSeq(NewEnvs[u])
           IN  /\ Suffix(u, 1) = NewEnvs[u] /\ Suffix(u, n + 1) = {}
               /\ \A k \in 1..n + 1 : Suffix(u, k) \subseteq NewEnvs[u]
               /\ \A k \in 1..n : \A e : e \in Suffix(u, k + 1) <=> e \in Suffix(u, k) /\ e # q[k]
               /\ \A k \in 1..n + 1 : \A j \in 1..n : q[j] \in Suffix(u, k) <=> k <= j
               /\ \A j, k \in 1..n + 1 : k <= j => Suffix(u, j) \subseteq Suffix(u, k)
<1> DEFINE S == NewEnvs[u]
           n == Cardinality(S)
           q == SetToSeq(S)
<1>1. /\ n \in Nat /\ \A j \in 1..n : q[j] \in S
      /\ \A j, k \in 1..n : q[j] = q[k] => j = k
      /\ \A e \in S : \E j \in 1..n : q[j] = e
  BY PlacesWork
<1>2. \A k : Suffix(u, k) = {q[j] : j \in k..n}
  BY DEF Suffix
<1> HIDE DEF q, n
<1>3. Suffix(u, 1) = S /\ Suffix(u, n + 1) = {}
  <2>1. Suffix(u, 1) = S
    <3>1. Suffix(u, 1) = {q[j] : j \in 1..n}
      BY <1>2
    <3> HIDE DEF S
    <3>2. QED
      BY <1>1, <3>1
  <2>2. (n + 1)..n = {}
    BY <1>1
  <2>3. Suffix(u, n + 1) = {}
    BY <1>2, <2>2
  <2>4. QED
    BY <2>1, <2>3
<1>4. \A k \in 1..n + 1 : \A j \in 1..n : q[j] \in Suffix(u, k) <=> k <= j
  BY <1>1, <1>2
<1>5. \A k \in 1..n + 1 : Suffix(u, k) \subseteq S
  BY <1>1, <1>2
<1>6. ASSUME NEW k \in 1..n, NEW e PROVE e \in Suffix(u, k + 1) <=> e \in Suffix(u, k) /\ e # q[k]
  <2>1. ASSUME e \in Suffix(u, k + 1) PROVE e \in Suffix(u, k) /\ e # q[k]
    <3>1. PICK j \in k + 1..n : e = q[j]
      BY <1>2, <2>1
    <3>2. j \in k..n /\ j \in 1..n /\ j # k
      BY <1>1
    <3>3. QED
      BY <1>1, <1>2, <3>1, <3>2
  <2>2. ASSUME e \in Suffix(u, k), e # q[k] PROVE e \in Suffix(u, k + 1)
    <3>1. PICK j \in k..n : e = q[j]
      BY <1>2, <2>2
    <3>2. j # k
      BY <2>2, <3>1
    <3>3. j \in k + 1..n
      BY <1>1, <3>2
    <3>4. QED
      BY <1>2, <3>1, <3>3
  <2>3. QED
    BY <2>1, <2>2
<1>7. ASSUME NEW j \in 1..n + 1, NEW k \in 1..n + 1, k <= j PROVE Suffix(u, j) \subseteq Suffix(u, k)
  <2>1. j..n \subseteq k..n
    BY <1>1, <1>7
  <2>2. QED
    BY <1>2, <2>1
<1>8. QED
  BY <1>3, <1>4, <1>5, <1>6, <1>7 DEF q, n

\* Adding an on-demand environment keeps the order,
LEMMA SortedAppend ==
    ASSUME NEW u \in Updates, NEW q \in Seq(Envs), NEW i \in Invocations, Sorted(u, q)
    PROVE  Sorted(u, Append(q, i))
<1> DEFINE n == Cardinality(NewEnvs[u])
           p == SetToSeq(NewEnvs[u])
           r == Append(q, i)
<1>1. \A j \in 1..n : p[j] # i
  BY PlacesWork, EnvsAre
<1>2. i \in Envs /\ Len(q) \in Nat /\ DOMAIN q = 1..Len(q)
  BY LenProperties, EnvsAre
<1>3. /\ r \in Seq(Envs) /\ Len(r) = Len(q) + 1 /\ DOMAIN r = 1..(Len(q) + 1)
      /\ \A j \in 1..Len(q) : r[j] = q[j]
      /\ r[Len(q) + 1] = i
  BY <1>2, AppendProperties, LenProperties
<1> HIDE DEF p, n, r
<1>4. ASSUME NEW a \in DOMAIN r, NEW b \in DOMAIN r, NEW j \in 1..n, NEW k \in 1..n,
             a < b, r[a] = p[j], r[b] = p[k]
      PROVE  j < k
  <2>1. a # Len(q) + 1 /\ b # Len(q) + 1
    BY <1>1, <1>3, <1>4
  <2>2. a \in DOMAIN q /\ b \in DOMAIN q /\ r[a] = q[a] /\ r[b] = q[b]
    BY <1>2, <1>3, <2>1
  <2>3. QED
    BY <1>4, <2>2 DEF Sorted, p, n
<1>5. QED
  BY <1>4, Zenon DEF Sorted, p, n, r

\* adding those of the update to a dict without them makes it,
LEMMA SortedScale ==
    ASSUME NEW u \in Updates, NEW q \in Seq(Envs), ToSet(q) \subseteq Invocations
    PROVE  /\ Sorted(u, q \o SetToSeq(NewEnvs[u]))
           /\ ToSet(q \o SetToSeq(NewEnvs[u])) \subseteq ToSet(q) \cup NewEnvs[u]
           /\ NewEnvs[u] \subseteq ToSet(q \o SetToSeq(NewEnvs[u]))
<1> DEFINE n == Cardinality(NewEnvs[u])
           p == SetToSeq(NewEnvs[u])
           r == q \o p
<1>1. /\ n \in Nat /\ p \in Seq(Envs) /\ Len(p) = n
      /\ \A j \in 1..n : p[j] \in NewEnvs[u]
      /\ \A j, k \in 1..n : p[j] = p[k] => j = k
      /\ \A e \in NewEnvs[u] : \E j \in 1..n : p[j] = e
  BY PlacesWork
<1>2. Len(q) \in Nat /\ DOMAIN q = 1..Len(q)
  BY LenProperties
<1> HIDE DEF p, n
<1>3. /\ r \in Seq(Envs) /\ Len(r) = Len(q) + n
      /\ \A a \in 1..Len(q) + n : r[a] = IF a <= Len(q) THEN q[a] ELSE p[a - Len(q)]
  BY <1>1, <1>2, ConcatProperties
<1>4. DOMAIN r = 1..(Len(q) + n)
  BY <1>3, LenProperties
<1>5. \A a \in 1..Len(q) : q[a] \notin NewEnvs[u]
  BY <1>2, EnvsAre DEF ToSet
<1> HIDE DEF r
<1>6. \A a \in DOMAIN r : \A j \in 1..n : r[a] = p[j] => a = Len(q) + j
  <2> SUFFICES ASSUME NEW a \in DOMAIN r, NEW j \in 1..n, r[a] = p[j] PROVE a = Len(q) + j
    OBVIOUS
  <2>1. ~(a <= Len(q))
    BY <1>1, <1>2, <1>3, <1>4, <1>5
  <2>2. a - Len(q) \in 1..n /\ r[a] = p[a - Len(q)]
    BY <1>1, <1>2, <1>3, <1>4, <2>1
  <2>3. a - Len(q) = j
    BY <1>1, <2>2
  <2>4. QED
    BY <1>1, <1>2, <1>4, <2>3
<1>7. Sorted(u, r)
  <2>1. ASSUME NEW a \in DOMAIN r, NEW b \in DOMAIN r, NEW j \in 1..n, NEW k \in 1..n,
               a < b, r[a] = p[j], r[b] = p[k]
        PROVE  j < k
    BY <1>1, <1>2, <1>6, <2>1
  <2>2. QED
    BY <2>1, Zenon DEF Sorted, p, n
<1>8. \A j \in 1..n : Len(q) + j \in DOMAIN r /\ r[Len(q) + j] = p[j]
  <2> SUFFICES ASSUME NEW j \in 1..n PROVE Len(q) + j \in DOMAIN r /\ r[Len(q) + j] = p[j]
    OBVIOUS
  <2>1. Len(q) + j \in 1..(Len(q) + n) /\ ~(Len(q) + j <= Len(q)) /\ Len(q) + j - Len(q) = j
    BY <1>1, <1>2
  <2>2. QED
    BY <1>3, <1>4, <2>1
<1>9. NewEnvs[u] \subseteq ToSet(r)
  BY <1>1, <1>8 DEF ToSet
<1>10. ToSet(r) \subseteq ToSet(q) \cup NewEnvs[u]
  BY ScaledEnvironments DEF r, p
<1>11. QED
  BY <1>7, <1>9, <1>10 DEF r, p

\* and so does taking one out.
LEMMA SortedRemove ==
    ASSUME NEW u \in Updates, NEW q \in Seq(Envs), NEW m \in DOMAIN q
    PROVE  /\ Sorted(u, q) => Sorted(u, RemoveAt(q, m))
           /\ ToSet(q) \ {q[m]} \subseteq ToSet(RemoveAt(q, m))
<1> DEFINE n == Cardinality(NewEnvs[u])
           p == SetToSeq(NewEnvs[u])
           r == RemoveAt(q, m)
           x == SubSeq(q, 1, m - 1)
           y == SubSeq(q, m + 1, Len(q))
<1>1. n \in Nat /\ Len(q) \in Nat /\ m \in 1..Len(q) /\ DOMAIN q = 1..Len(q)
  BY LenProperties, PlacesWork
<1>2. /\ x \in Seq(Envs) /\ Len(x) = m - 1
      /\ \A j \in 1..m - 1 : x[j] = q[j]
  <2>1. \A j \in 1..m - 1 : q[j] \in Envs
    BY <1>1, ElementOfSeq
  <2>2. QED
    BY <1>1, <2>1, SubSeqProperties
<1>3. /\ y \in Seq(Envs) /\ Len(y) = Len(q) - m
      /\ \A j \in 1..Len(q) - m : y[j] = q[m + j]
  <2>1. \A j \in m + 1..Len(q) : q[j] \in Envs
    BY <1>1, ElementOfSeq
  <2>2. QED
    BY <1>1, <2>1, SubSeqProperties
<1>4. r = x \o y
  BY DEF RemoveAt
<1> HIDE DEF r, x, y, p, n
<1>5. /\ r \in Seq(Envs) /\ Len(r) = Len(q) - 1
      /\ \A j \in 1..Len(q) - 1 : r[j] = IF j <= m - 1 THEN x[j] ELSE y[j - (m - 1)]
  <2>1. /\ x \o y \in Seq(Envs) /\ Len(x \o y) = Len(x) + Len(y)
        /\ \A j \in 1..Len(x) + Len(y) : (x \o y)[j] = IF j <= Len(x) THEN x[j] ELSE y[j - Len(x)]
    BY <1>2, <1>3, ConcatProperties
  <2>2. Len(x) + Len(y) = Len(q) - 1
    BY <1>1, <1>2, <1>3
  <2>3. QED
    BY <1>2, <1>4, <2>1, <2>2
<1>6. DOMAIN r = 1..Len(q) - 1
  BY <1>5, LenProperties
\* Where an element of the new sequence was in the old one.
<1> DEFINE Was(j) == IF j <= m - 1 THEN j ELSE j + 1
<1>7. \A j \in 1..Len(q) - 1 : Was(j) \in 1..Len(q) /\ r[j] = q[Was(j)]
  <2> SUFFICES ASSUME NEW j \in 1..Len(q) - 1 PROVE Was(j) \in 1..Len(q) /\ r[j] = q[Was(j)]
    OBVIOUS
  <2>1. CASE j <= m - 1
    <3>1. j \in 1..m - 1 /\ j \in 1..Len(q)
      BY <1>1, <2>1
    <3>2. QED
      BY <1>2, <1>5, <2>1, <3>1
  <2>2. CASE ~(j <= m - 1)
    <3>1. j - (m - 1) \in 1..Len(q) - m /\ m + (j - (m - 1)) = j + 1 /\ j + 1 \in 1..Len(q)
      BY <1>1, <2>2
    <3>2. r[j] = y[j - (m - 1)]
      BY <1>5, <2>2
    <3>3. r[j] = q[j + 1]
      BY <1>3, <3>1, <3>2
    <3>4. QED
      BY <2>2, <3>1, <3>3
  <2>3. QED
    BY <2>1, <2>2
<1>8. \A a, b \in 1..Len(q) - 1 : a < b => Was(a) < Was(b)
  BY <1>1
<1>9. ASSUME Sorted(u, q) PROVE Sorted(u, r)
  <2>1. ASSUME NEW a \in DOMAIN r, NEW b \in DOMAIN r, NEW j \in 1..n, NEW k \in 1..n,
               a < b, r[a] = p[j], r[b] = p[k]
        PROVE  j < k
    <3>1. /\ Was(a) \in DOMAIN q /\ Was(b) \in DOMAIN q /\ Was(a) < Was(b)
          /\ q[Was(a)] = p[j] /\ q[Was(b)] = p[k]
      BY <1>1, <1>6, <1>7, <1>8, <2>1
    <3> HIDE DEF Was
    <3>2. QED
      BY <1>9, <3>1 DEF Sorted, p, n
  <2>2. QED
    BY <2>1, Zenon DEF Sorted, p, n
<1>10. ToSet(q) \ {q[m]} \subseteq ToSet(r)
  <2> SUFFICES ASSUME NEW e \in ToSet(q), e # q[m] PROVE e \in ToSet(r)
    OBVIOUS
  <2>1. PICK k \in 1..Len(q) : e = q[k]
    BY <1>1 DEF ToSet
  <2>2. k # m
    BY <2>1
  <2>3. CASE k < m
    <3>1. k \in 1..Len(q) - 1 /\ Was(k) = k
      BY <1>1, <2>3
    <3>2. r[k] = e
      BY <1>7, <2>1, <3>1
    <3>3. QED
      BY <1>6, <3>1, <3>2 DEF ToSet
  <2>4. CASE k > m
    <3>1. k - 1 \in 1..Len(q) - 1 /\ Was(k - 1) = k
      BY <1>1, <2>4
    <3>2. r[k - 1] = e
      BY <1>7, <2>1, <3>1
    <3>3. QED
      BY <1>6, <3>1, <3>2 DEF ToSet
  <2>5. QED
    BY <1>1, <2>2, <2>3, <2>4
<1>11. QED
  BY <1>9, <1>10 DEF r

\* A turn of the loop over a snapshot.
LEMMA SortedTail ==
    ASSUME NEW u \in Updates, NEW q \in Seq(Envs), q # <<>>, Sorted(u, q)
    PROVE  /\ Sorted(u, Tail(q)) /\ Tail(q) \in Seq(Envs)
           /\ Head(q) \in ToSet(q) /\ ToSet(Tail(q)) \subseteq ToSet(q)
           /\ ToSet(q) = ToSet(Tail(q)) \cup {Head(q)}
           /\ \A j, k \in 1..Cardinality(NewEnvs[u]) :
                  Head(q) = SetToSeq(NewEnvs[u])[j] /\ SetToSeq(NewEnvs[u])[k] \in ToSet(Tail(q))
                  => j < k
<1> DEFINE n == Cardinality(NewEnvs[u])
           p == SetToSeq(NewEnvs[u])
           r == Tail(q)
<1>1. /\ n \in Nat /\ Len(q) \in Nat /\ DOMAIN q = 1..Len(q) /\ Len(q) >= 1 /\ Head(q) = q[1]
  BY LenProperties, PlacesWork, EmptySeq
<1>2. r \in Seq(Envs) /\ Len(r) = Len(q) - 1 /\ \A a \in 1..Len(r) : r[a] = q[a + 1]
  BY HeadTailProperties
<1>3. DOMAIN r = 1..(Len(q) - 1)
  BY <1>2, LenProperties
<1> HIDE DEF p, n, r
<1>4. \A a \in DOMAIN r : a + 1 \in DOMAIN q /\ r[a] = q[a + 1]
  BY <1>1, <1>2, <1>3
<1>5. Sorted(u, r)
  <2>1. ASSUME NEW a \in DOMAIN r, NEW b \in DOMAIN r, NEW j \in 1..n, NEW k \in 1..n,
               a < b, r[a] = p[j], r[b] = p[k]
        PROVE  j < k
    <3>1. a + 1 \in DOMAIN q /\ b + 1 \in DOMAIN q /\ a + 1 < b + 1 /\ q[a + 1] = p[j] /\ q[b + 1] = p[k]
      BY <1>3, <1>4, <2>1
    <3>2. QED
      BY <3>1 DEF Sorted, p, n
  <2>2. QED
    BY <2>1, Zenon DEF Sorted, p, n
<1>6. Head(q) \in ToSet(q) /\ ToSet(r) \subseteq ToSet(q)
  BY <1>1, <1>4 DEF ToSet
<1>7. ToSet(q) \subseteq ToSet(r) \cup {Head(q)}
  <2> SUFFICES ASSUME NEW a \in 1..Len(q), a # 1 PROVE q[a] \in ToSet(r)
    BY <1>1 DEF ToSet
  <2>1. a - 1 \in DOMAIN r /\ r[a - 1] = q[a]
    BY <1>1, <1>2, <1>3
  <2>2. QED
    BY <2>1 DEF ToSet
<1>8. ASSUME NEW j \in 1..n, NEW k \in 1..n, Head(q) = p[j], p[k] \in ToSet(r)
      PROVE  j < k
  <2>1. PICK a \in DOMAIN r : r[a] = p[k]
    BY <1>8 DEF ToSet
  <2>2. a + 1 \in DOMAIN q /\ q[a + 1] = p[k] /\ 1 \in DOMAIN q /\ 1 < a + 1 /\ q[1] = p[j]
    BY <1>1, <1>3, <1>4, <1>8, <2>1
  <2>3. QED
    BY <2>2 DEF Sorted, p, n
<1>9. QED
  BY <1>2, <1>5, <1>6, <1>7, <1>8 DEF r, p, n

\* When the next environment of a snapshot is one of the update, it is the first of
\* those left, and the ones after it are left afterwards.
LEMMA NextOfSnapshot ==
    ASSUME NEW u \in Updates, NEW q \in Seq(Envs), q # <<>>, Sorted(u, q),
           NEW k \in 1..Cardinality(NewEnvs[u]) + 1, ToSet(q) \cap NewEnvs[u] = Suffix(u, k)
    PROVE  /\ Head(q) \in Invocations => ToSet(Tail(q)) \cap NewEnvs[u] = Suffix(u, k)
           /\ Head(q) \in NewEnvs[u] =>
                  /\ k \in 1..Cardinality(NewEnvs[u])
                  /\ Head(q) = SetToSeq(NewEnvs[u])[k]
                  /\ ToSet(Tail(q)) \cap NewEnvs[u] = Suffix(u, k + 1)
<1> DEFINE n == Cardinality(NewEnvs[u])
           p == SetToSeq(NewEnvs[u])
           r == Tail(q)
<1>1. /\ ToSet(q) = ToSet(r) \cup {Head(q)} /\ Head(q) \in ToSet(q)
      /\ \A i, j \in 1..n : Head(q) = p[i] /\ p[j] \in ToSet(r) => i < j
  BY SortedTail
<1>2. /\ n \in Nat /\ \A e \in NewEnvs[u] : \E j \in 1..n : p[j] = e
      /\ \A j \in 1..n : p[j] \in NewEnvs[u]
  BY PlacesWork
<1>3. /\ \A e : k \in 1..n => (e \in Suffix(u, k + 1) <=> e \in Suffix(u, k) /\ e # p[k])
      /\ \A j \in 1..n : p[j] \in Suffix(u, k) <=> k <= j
  BY SuffixWorks
<1> HIDE DEF p, n, r
<1>4. Head(q) \in Invocations => ToSet(r) \cap NewEnvs[u] = Suffix(u, k)
  BY <1>1, EnvsAre
<1>5. ASSUME Head(q) \in NewEnvs[u]
      PROVE  k \in 1..n /\ Head(q) = p[k] /\ ToSet(r) \cap NewEnvs[u] = Suffix(u, k + 1)
  <2>1. PICK j \in 1..n : Head(q) = p[j]
    BY <1>2, <1>5
  <2>2. p[j] \in Suffix(u, k)
    BY <1>1, <1>5, <2>1
  <2>3. k <= j /\ k \in 1..n
    <3>1. k <= j
      BY <1>3, <2>2
    <3>2. k \in 1..n + 1
      BY DEF n
    <3>3. QED
      BY <1>2, <3>1, <3>2
  <2>4. p[k] \in ToSet(q)
    BY <1>3, <2>3
  <2>5. p[k] = Head(q)
    <3>1. CASE p[k] \in ToSet(r)
      <4>1. j < k
        BY <1>1, <2>1, <2>3, <3>1
      <4>2. QED
        BY <2>3, <4>1
    <3>2. QED
      BY <1>1, <2>4, <3>1
  <2>6. Head(q) \notin ToSet(r)
    BY <1>1, <2>3, <2>5
  <2>7. \A e : e \in Suffix(u, k + 1) <=> e \in Suffix(u, k) /\ e # Head(q)
    BY <1>3, <2>3, <2>5
  <2>8. ToSet(r) \cap NewEnvs[u] = Suffix(u, k + 1)
    BY <1>1, <2>6, <2>7
  <2>9. QED
    BY <2>3, <2>5, <2>8
<1>6. QED
  BY <1>4, <1>5 DEF r, p, n

\* A second update, and a shutdown, are for ever.
LEMMA SoleBefore ==
    ASSUME TypeInv, [Next]_vars, NEW u \in Updates, Sole(u)'
    PROVE  Sole(u)
<1> DEFINE Goal == /\ version' = "running" => version = "running"
                   /\ \A w \in Updates : updater[w] # "new" => updater'[w] # "new"
<1>t. updater \in [Updates -> {"new", "configured", "refused", "scaling", "waiting", "done"}]
  BY DEF TypeInv, TypeOK, ProvTypeOK
<1>0. UNCHANGED <<version, updater>> => Goal
  OBVIOUS
<1>1. Goal
  <2> USE <1>t DEF poolVars, envVars, timerVars, execVars, invokeVars, provVars
  <2>1. ASSUME NEW i \in Invocations, Invoke(i) PROVE Goal
    BY <2>1, <1>0 DEF Invoke
  <2>2. ASSUME NEW i \in Invocations, LeaseProvisioned(i) PROVE Goal
    BY <2>2, <1>0 DEF LeaseProvisioned
  <2>3. ASSUME NEW i \in Invocations, LeaseOnDemand(i) PROVE Goal
    BY <2>3, <1>0 DEF LeaseOnDemand
  <2>4. ASSUME NEW i \in Invocations, LeaseCrashes(i) PROVE Goal
    BY <2>4, <1>0 DEF LeaseCrashes
  <2>5. ASSUME NEW i \in Invocations, Snapshot(i) PROVE Goal
    BY <2>5, <1>0 DEF Snapshot
  <2>6. ASSUME NEW i \in Invocations, TryReserve(i) PROVE Goal
    BY <2>6, <1>0 DEF TryReserve
  <2>7. ASSUME NEW i \in Invocations, NoneAvailable(i) PROVE Goal
    BY <2>7, <1>0 DEF NoneAvailable
  <2>8. ASSUME NEW i \in Invocations, StartOnDemand(i) PROVE Goal
    BY <2>8, <1>0 DEF StartOnDemand
  <2>9. ASSUME NEW i \in Invocations, StartOnDemandFailed(i) PROVE Goal
    BY <2>9, <1>0 DEF StartOnDemandFailed
  <2>10. ASSUME NEW i \in Invocations, Register(i) PROVE Goal
    BY <2>10, <1>0 DEF Register
  <2>11. ASSUME NEW i \in Invocations, ReserveNew(i) PROVE Goal
    BY <2>11, <1>0 DEF ReserveNew
  <2>12. ASSUME NEW i \in Invocations, CancelKeepalive(i) PROVE Goal
    BY <2>12, <1>0 DEF CancelKeepalive
  <2>13. ASSUME NEW i \in Invocations, InvokeEnvironment(i) PROVE Goal
    BY <2>13, <1>0 DEF InvokeEnvironment
  <2>14. ASSUME NEW i \in Invocations, InvocationEnds(i) PROVE Goal
    BY <2>14, <1>0 DEF InvocationEnds
  <2>15. ASSUME NEW i \in Invocations, Release(i) PROVE Goal
    BY <2>15, <1>0 DEF Release
  <2>16. ASSUME NEW i \in Invocations, NewKeepalive(i) PROVE Goal
    BY <2>16, <1>0 DEF NewKeepalive
  <2>17. ASSUME NEW i \in Invocations, ArmKeepalive(i) PROVE Goal
    BY <2>17, <1>0 DEF ArmKeepalive
  <2>18. ASSUME NEW i \in Invocations, HandleFailure(i) PROVE Goal
    BY <2>18, <1>0 DEF HandleFailure
  <2>19. ASSUME NEW i \in Invocations, FailureHandled(i) PROVE Goal
    BY <2>19, <1>0 DEF FailureHandled
  <2>20. ASSUME NEW i \in Invocations, ReturnLease(i) PROVE Goal
    BY <2>20, <1>0 DEF ReturnLease
  <2>21. ASSUME NEW i \in Invocations, KeepalivePassed(i) PROVE Goal
    BY <2>21, <1>0 DEF KeepalivePassed
  <2>22. ASSUME NEW e \in Envs, StartBegins(e) PROVE Goal
    BY <2>22, <1>0 DEF StartBegins
  <2>23. ASSUME NEW e \in Envs, CreateContainer(e) PROVE Goal
    BY <2>23, <1>0 DEF CreateContainer
  <2>24. ASSUME NEW e \in Envs, StartSucceeds(e) PROVE Goal
    BY <2>24, <1>0 DEF StartSucceeds
  <2>25. ASSUME NEW e \in Envs, StartFails(e) PROVE Goal
    BY <2>25, <1>0 DEF StartFails
  <2>26. ASSUME NEW e \in Envs, ContainerReports(e) PROVE Goal
    BY <2>26, <1>0 DEF ContainerReports
  <2>27. ASSUME NEW e \in Envs, CreateFails(e) PROVE Goal
    BY <2>27, <1>0 DEF CreateFails
  <2>28. ASSUME NEW e \in Envs, StartupTimesOut(e) PROVE Goal
    BY <2>28, <1>0 DEF StartupTimesOut
  <2>29. ASSUME NEW e \in Envs, TimeoutHalts(e) PROVE Goal
    BY <2>29, <1>0 DEF TimeoutHalts
  <2>30. ASSUME NEW s \in stops, StopBegins(s) PROVE Goal
    BY <2>30, <1>0 DEF StopBegins
  <2>31. ASSUME NEW s \in stops, StopHalts(s) PROVE Goal
    BY <2>31, <1>0 DEF StopHalts
  <2>32. ASSUME NEW s \in stops, StopRemoves(s) PROVE Goal
    BY <2>32, <1>0 DEF StopRemoves
  <2>33. ASSUME NEW v \in Updates, Configure(v) PROVE Goal
    BY <2>33 DEF Configure
  <2>34. ASSUME NEW v \in Updates, BeginUpdate(v) PROVE Goal
    BY <2>34 DEF BeginUpdate
  <2>35. ASSUME NEW v \in Updates, Scale(v) PROVE Goal
    BY <2>35 DEF Scale
  <2>36. ASSUME NEW v \in Updates, FinishUpdate(v) PROVE Goal
    BY <2>36 DEF FinishUpdate
  <2>37. CASE Shutdown
    BY <2>37 DEF Shutdown
  <2>38. CASE StopEnvironments
    BY <2>38 DEF StopEnvironments
  <2>39. CASE UNCHANGED vars
    BY <2>39, <1>0 DEF vars
  <2>40. QED
    BY <2>1, <2>2, <2>3, <2>4, <2>5, <2>6, <2>7, <2>8, <2>9, <2>10, <2>11, <2>12,
       <2>13, <2>14, <2>15, <2>16, <2>17, <2>18, <2>19, <2>20, <2>21, <2>22, <2>23,
       <2>24, <2>25, <2>26, <2>27, <2>28, <2>29, <2>30, <2>31, <2>32, <2>33, <2>34,
       <2>35, <2>36, <2>37, <2>38, <2>39,
       Zenon DEF Next, Invocation, Start, StartupTimer, Stop, Update
<1>2. QED
  BY <1>1 DEF Sole, Started

\* What is handed out goes with the lease, whatever happens to the configuration.
LEMMA GrantInvHolds == Spec => []GrantInv
<1> USE EnvsAre DEF GrantInv
<1>1. Init => GrantInv
  <2>1. Init => KindInv /\ Lessees = {} /\ unavailable = {} /\ Started = {}
    BY DEF Init, KindInv, HasEnv, Lessees, Started
  <2>2. QED
    BY <2>1, FS_EmptySet
<1>2. ASSUME TypeInv, GrantInv, [Next]_vars PROVE GrantInv'
  <2>t. /\ pc \in [Invocations -> Labels] /\ env \in [Invocations -> Envs \cup {None}]
        /\ lease \in [Invocations -> {"none", "on_demand", "provisioned"}]
        /\ todo \in [Invocations -> Seq(Envs)]
        /\ updater \in [Updates -> {"new", "configured", "refused", "scaling", "waiting", "done"}]
    BY <1>2 DEF TypeInv, TypeOK, InvokeTypeOK, ProvTypeOK
  <2>0. /\ UNCHANGED updater => IsFiniteSet(Started')
        /\ UNCHANGED <<lease, unavailable>> => (Updates = {} => Lessees' = {} /\ unavailable' = {})
    BY <1>2 DEF Started, Lessees
  <2>k. UNCHANGED <<pc, env, lease>> => KindInv'
    BY <1>2 DEF KindInv
  <2>v. ASSUME NEW v \in Updates, Configure(v) \/ Update(v) PROVE GrantInv'
    <3>1. Started' \subseteq Started \cup {v}
      BY <2>t, <2>v DEF Started, Configure, Update, BeginUpdate, Scale, FinishUpdate
    <3>2. IsFiniteSet(Started')
      BY <1>2, <3>1, FS_AddElement, FS_Subset
    <3>3. UNCHANGED <<pc, env, lease, unavailable>>
      BY <2>v DEF Configure, Update, BeginUpdate, Scale, FinishUpdate, invokeVars
    <3>4. QED
      BY <2>0, <2>k, <3>2, <3>3
  <2> USE <1>2, <2>t DEF poolVars, envVars, timerVars, execVars, invokeVars, provVars
  <2>1. ASSUME NEW i \in Invocations, Invoke(i) PROVE GrantInv'
    <3>1. KindInv'
      BY <2>1 DEF Invoke, Goto, KindInv, HasEnv
    <3>2. QED
      BY <2>0, <2>1, <3>1 DEF Invoke
  <2>2. ASSUME NEW i \in Invocations, LeaseProvisioned(i) PROVE GrantInv'
    <3>1. KindInv'
      BY <2>2 DEF LeaseProvisioned, Goto, KindInv, HasEnv
    <3>2. seen[i] \in Updates
      BY <2>2 DEF LeaseProvisioned, ProvisionedFree, TypeInv, TypeOK, InvokeTypeOK
    <3>3. QED
      BY <2>0, <2>2, <3>1, <3>2 DEF LeaseProvisioned
  <2>3. ASSUME NEW i \in Invocations, LeaseOnDemand(i) PROVE GrantInv'
    <3>1. KindInv'
      BY <2>3 DEF LeaseOnDemand, Goto, KindInv, HasEnv
    <3>2. Lessees' \subseteq Lessees
      BY <2>3 DEF LeaseOnDemand, Lessees
    <3>3. QED
      BY <2>0, <2>3, <3>1, <3>2 DEF LeaseOnDemand
  <2>4. ASSUME NEW i \in Invocations, LeaseCrashes(i) PROVE GrantInv'
    <3>1. KindInv'
      BY <2>4 DEF LeaseCrashes, Goto, KindInv, HasEnv
    <3>2. QED
      BY <2>0, <2>4, <3>1 DEF LeaseCrashes
  <2>5. ASSUME NEW i \in Invocations, Snapshot(i) PROVE GrantInv'
    <3>1. KindInv'
      BY <2>5 DEF Snapshot, Goto, KindInv, HasEnv
    <3>2. QED
      BY <2>0, <2>5, <3>1 DEF Snapshot
  <2>6. ASSUME NEW i \in Invocations, TryReserve(i) PROVE GrantInv'
    <3>1. CASE UNCHANGED <<status, env, pc>>
      BY <2>0, <2>k, <2>6, <3>1 DEF TryReserve
    <3>2. CASE Kind(Head(todo[i])) = lease[i] /\ Reserve(i, Head(todo[i]))
      <4> DEFINE e == Head(todo[i])
      <4>1. e \notin Invocations => lease[i] = "provisioned"
        BY <3>2 DEF Kind
      <4> HIDE DEF e
      <4>2. pc' = [pc EXCEPT ![i] = "reserved"] /\ env' = [env EXCEPT ![i] = e]
        BY <3>2 DEF Reserve, Goto, e
      <4>3. KindInv'
        BY <2>6, <4>1, <4>2 DEF TryReserve, KindInv, HasEnv
      <4>4. QED
        BY <2>0, <2>6, <4>3 DEF TryReserve
    <3>3. QED
      BY <2>6, <3>1, <3>2 DEF TryReserve
  <2>7. ASSUME NEW i \in Invocations, NoneAvailable(i) PROVE GrantInv'
    <3>1. KindInv'
      BY <2>7 DEF NoneAvailable, Goto, KindInv, HasEnv
    <3>2. i \in Lessees /\ Lessees' = Lessees
      BY <2>7 DEF NoneAvailable, Lessees
    <3>3. QED
      BY <2>0, <2>7, <3>1, <3>2 DEF NoneAvailable
  <2>8. ASSUME NEW i \in Invocations, StartOnDemand(i) PROVE GrantInv'
    <3>1. KindInv'
      BY <2>8 DEF StartOnDemand, Goto, KindInv, HasEnv
    <3>2. QED
      BY <2>0, <2>8, <3>1 DEF StartOnDemand
  <2>9. ASSUME NEW i \in Invocations, StartOnDemandFailed(i) PROVE GrantInv'
    <3>1. KindInv'
      BY <2>9 DEF StartOnDemandFailed, Goto, KindInv, HasEnv
    <3>2. QED
      BY <2>0, <2>9, <3>1 DEF StartOnDemandFailed
  <2>10. ASSUME NEW i \in Invocations, Register(i) PROVE GrantInv'
    <3>1. KindInv'
      BY <2>10 DEF Register, Goto, KindInv, HasEnv
    <3>2. QED
      BY <2>0, <2>10, <3>1 DEF Register
  <2>11. ASSUME NEW i \in Invocations, ReserveNew(i) PROVE GrantInv'
    <3>1. KindInv'
      BY <2>11 DEF ReserveNew, Goto, Reserve, Reservable, Kind, KindInv, HasEnv
    <3>2. QED
      BY <2>0, <2>11, <3>1 DEF ReserveNew
  <2>12. ASSUME NEW i \in Invocations, CancelKeepalive(i) PROVE GrantInv'
    <3>1. KindInv'
      BY <2>12 DEF CancelKeepalive, Goto, KindInv, HasEnv
    <3>2. QED
      BY <2>0, <2>12, <3>1 DEF CancelKeepalive
  <2>13. ASSUME NEW i \in Invocations, InvokeEnvironment(i) PROVE GrantInv'
    <3>1. KindInv'
      BY <2>13 DEF InvokeEnvironment, Goto, KindInv, HasEnv
    <3>2. QED
      BY <2>0, <2>13, <3>1 DEF InvokeEnvironment
  <2>14. ASSUME NEW i \in Invocations, InvocationEnds(i) PROVE GrantInv'
    <3>1. KindInv'
      BY <2>14 DEF InvocationEnds, Goto, KindInv, HasEnv
    <3>2. QED
      BY <2>0, <2>14, <3>1 DEF InvocationEnds
  <2>15. ASSUME NEW i \in Invocations, Release(i) PROVE GrantInv'
    <3>1. KindInv'
      BY <2>15 DEF Release, Goto, AfterRelease, KindInv, HasEnv
    <3>2. QED
      BY <2>0, <2>15, <3>1 DEF Release
  <2>16. ASSUME NEW i \in Invocations, NewKeepalive(i) PROVE GrantInv'
    <3>1. KindInv'
      BY <2>16 DEF NewKeepalive, Goto, KindInv, HasEnv
    <3>2. QED
      BY <2>0, <2>16, <3>1 DEF NewKeepalive
  <2>17. ASSUME NEW i \in Invocations, ArmKeepalive(i) PROVE GrantInv'
    <3>1. KindInv'
      BY <2>17 DEF ArmKeepalive, Goto, KindInv, HasEnv
    <3>2. QED
      BY <2>0, <2>17, <3>1 DEF ArmKeepalive
  <2>18. ASSUME NEW i \in Invocations, HandleFailure(i) PROVE GrantInv'
    <3>1. KindInv'
      BY <2>18 DEF HandleFailure, Goto, KindInv, HasEnv
    <3>2. QED
      BY <2>0, <2>18, <3>1 DEF HandleFailure
  <2>19. ASSUME NEW i \in Invocations, FailureHandled(i) PROVE GrantInv'
    <3>1. KindInv'
      BY <2>19 DEF FailureHandled, Goto, KindInv, HasEnv
    <3>2. QED
      BY <2>0, <2>19, <3>1 DEF FailureHandled
  <2>20. ASSUME NEW i \in Invocations, ReturnLease(i) PROVE GrantInv'
    <3>1. KindInv'
      BY <2>20 DEF ReturnLease, Goto, KindInv, HasEnv
    <3>2. Lessees' \subseteq Lessees
      BY <2>20 DEF ReturnLease, Lessees
    <3>3. QED
      BY <2>0, <2>20, <3>1, <3>2 DEF ReturnLease
  <2>21. ASSUME NEW i \in Invocations, KeepalivePassed(i) PROVE GrantInv'
    BY <2>21, <2>0, <2>k DEF KeepalivePassed
  <2>22. ASSUME NEW e \in Envs, StartBegins(e) PROVE GrantInv'
    BY <2>22, <2>0, <2>k DEF StartBegins
  <2>23. ASSUME NEW e \in Envs, CreateContainer(e) PROVE GrantInv'
    BY <2>23, <2>0, <2>k DEF CreateContainer
  <2>24. ASSUME NEW e \in Envs, StartSucceeds(e) PROVE GrantInv'
    BY <2>24, <2>0, <2>k DEF StartSucceeds
  <2>25. ASSUME NEW e \in Envs, StartFails(e) PROVE GrantInv'
    BY <2>25, <2>0, <2>k DEF StartFails
  <2>26. ASSUME NEW e \in Envs, ContainerReports(e) PROVE GrantInv'
    BY <2>26, <2>0, <2>k DEF ContainerReports
  <2>27. ASSUME NEW e \in Envs, CreateFails(e) PROVE GrantInv'
    BY <2>27, <2>0, <2>k DEF CreateFails
  <2>28. ASSUME NEW e \in Envs, StartupTimesOut(e) PROVE GrantInv'
    BY <2>28, <2>0, <2>k DEF StartupTimesOut
  <2>29. ASSUME NEW e \in Envs, TimeoutHalts(e) PROVE GrantInv'
    BY <2>29, <2>0, <2>k DEF TimeoutHalts
  <2>30. ASSUME NEW s \in stops, StopBegins(s) PROVE GrantInv'
    BY <2>30, <2>0, <2>k DEF StopBegins
  <2>31. ASSUME NEW s \in stops, StopHalts(s) PROVE GrantInv'
    BY <2>31, <2>0, <2>k DEF StopHalts
  <2>32. ASSUME NEW s \in stops, StopRemoves(s) PROVE GrantInv'
    BY <2>32, <2>0, <2>k DEF StopRemoves
  <2>33. ASSUME NEW v \in Updates, Configure(v) PROVE GrantInv'
    BY <2>33, <2>v
  <2>34. ASSUME NEW v \in Updates, BeginUpdate(v) PROVE GrantInv'
    BY <2>34, <2>v DEF Update
  <2>35. ASSUME NEW v \in Updates, Scale(v) PROVE GrantInv'
    BY <2>35, <2>v DEF Update
  <2>36. ASSUME NEW v \in Updates, FinishUpdate(v) PROVE GrantInv'
    BY <2>36, <2>v DEF Update
  <2>37. CASE Shutdown
    BY <2>37, <2>0, <2>k DEF Shutdown
  <2>38. CASE StopEnvironments
    BY <2>38, <2>0, <2>k DEF StopEnvironments
  <2>39. CASE UNCHANGED vars
    BY <2>39, <2>0, <2>k DEF vars
  <2>40. QED
    BY <2>1, <2>2, <2>3, <2>4, <2>5, <2>6, <2>7, <2>8, <2>9, <2>10, <2>11, <2>12,
       <2>13, <2>14, <2>15, <2>16, <2>17, <2>18, <2>19, <2>20, <2>21, <2>22, <2>23,
       <2>24, <2>25, <2>26, <2>27, <2>28, <2>29, <2>30, <2>31, <2>32, <2>33, <2>34,
       <2>35, <2>36, <2>37, <2>38, <2>39,
       Zenon DEF Next, Invocation, Start, StartupTimer, Stop, Update
<1>3. QED
  BY <1>1, <1>2, TypeInvHolds, PTL DEF Spec

\* The first update: leases are given out for environments it has started.
LEMMA FirstInvHolds == Spec => []FirstInv
<1> USE EnvsAre
<1>1. Init => FirstInv
  <2> SUFFICES ASSUME Init, NEW u \in Updates PROVE ConfigInv(u) /\ QuotaInv(u)
    BY DEF FirstInv
  <2>1. Lessees = {}
    BY DEF Init, Lessees
  <2>2. ConfigInv(u)
    BY DEF Init, ConfigInv
  <2>3. QED
    BY <2>1, <2>2 DEF Init, QuotaInv
<1>2. ASSUME TypeInv, StartInv, FirstInv, [Next]_vars PROVE FirstInv'
  <2> DEFINE Goal(u) == ConfigInv(u) /\ QuotaInv(u)
  <2> SUFFICES ASSUME NEW u \in Updates, Sole(u)' PROVE Goal(u)'
    BY DEF FirstInv
  <2>i. Sole(u) /\ ConfigInv(u) /\ QuotaInv(u)
    BY <1>2, SoleBefore DEF FirstInv
  <2>c. /\ config = IF updater[u] = "new" THEN 0 ELSE Cardinality(NewEnvs[u])
        /\ updater[u] # "refused"
        /\ provisioned_state \in {None, u}
        /\ updater[u] \in {"new", "configured"} => provisioned_state = None
        /\ state_status[u] = "READY" => updater[u] = "done"
        /\ \A i \in Invocations : seen[i] \in {None, u}
    BY <2>i DEF ConfigInv
  <2>p. state_status[u] = "READY" => \A e \in NewEnvs[u] : starter'[e] = "started"
    <3>1. \A e \in Envs : starter[e] = "started" => starter'[e] = "started"
      BY <1>2, StartedPersists
    <3>2. QED
      BY <2>i, <3>1 DEF ConfigInv
  <2>t. /\ lease \in [Invocations -> {"none", "on_demand", "provisioned"}]
        /\ seen \in [Invocations -> Updates \cup {None}]
        /\ updater \in [Updates -> {"new", "configured", "refused", "scaling", "waiting", "done"}]
        /\ state_status \in [Updates -> {"IN_PROGRESS", "READY", "FAILED"}]
        /\ config \in Nat /\ concurrent_executions \in Nat /\ None \notin Updates
    BY <1>2, NamesAssumption DEF TypeInv, TypeOK, InvokeTypeOK, ProvTypeOK
  <2>n. Cardinality(NewEnvs[u]) \in Nat
    BY PlacesWork
  <2>v. \A v \in Updates : updater'[v] # "new" => v = u
    BY DEF Sole, Started
  \* What changes only the configuration, only the leases, or nothing of either.
  <2>1a. UNCHANGED <<config, provisioned_state, state_status, updater, seen>> => ConfigInv(u)'
    BY <2>c, <2>p DEF ConfigInv
  <2>1b. ASSUME Lessees' \subseteq Lessees, state_status[u] = "READY" => state_status'[u] = "READY",
                concurrent_executions' <= config'
         PROVE  QuotaInv(u)'
    BY <2>i, <2>1b DEF QuotaInv
  <2>1c. UNCHANGED lease => Lessees' = Lessees
    BY DEF Lessees
  <2>1d. UNCHANGED <<config, concurrent_executions, state_status, lease>> => QuotaInv(u)'
    BY <2>i, <2>1c DEF QuotaInv
  <2>0. UNCHANGED <<config, concurrent_executions, provisioned_state, state_status, updater, seen, lease>>
            => Goal(u)'
    BY <2>1a, <2>1d
  <2> HIDE DEF Goal
  <2>g. ConfigInv(u)' /\ QuotaInv(u)' => Goal(u)'
    BY DEF Goal
  <2> USE DEF poolVars, envVars, timerVars, execVars, invokeVars, provVars
  <2>1. ASSUME NEW i \in Invocations, Invoke(i) PROVE Goal(u)'
    <3>1. \A j \in Invocations : seen'[j] \in {None, u}
      BY <2>1, <2>c, <2>t DEF Invoke
    <3>2. ConfigInv(u)'
      BY <2>1, <2>c, <2>p, <3>1 DEF Invoke, ConfigInv
    <3>3. QED
      BY <2>1, <2>g, <2>1d, <3>2 DEF Invoke
  <2>2. ASSUME NEW i \in Invocations, LeaseProvisioned(i) PROVE Goal(u)'
    <3>1. seen[i] = u /\ state_status[u] = "READY" /\ concurrent_executions < config
      BY <2>2, <2>c DEF LeaseProvisioned, ProvisionedFree
    <3>2. concurrent_executions' <= config' /\ state_status' = state_status
      BY <2>2, <2>t, <3>1 DEF LeaseProvisioned
    <3>3. QuotaInv(u)'
      BY <3>1, <3>2 DEF QuotaInv
    <3>4. QED
      BY <2>2, <2>g, <2>1a, <3>3 DEF LeaseProvisioned
  <2>3. ASSUME NEW i \in Invocations, LeaseOnDemand(i) PROVE Goal(u)'
    <3>1. Lessees' \subseteq Lessees
      BY <2>3, <2>t DEF LeaseOnDemand, Lessees
    <3>2. concurrent_executions' <= config'
      BY <2>3, <2>i DEF LeaseOnDemand, QuotaInv
    <3>3. QED
      BY <2>3, <2>g, <2>1a, <2>1b, <3>1, <3>2 DEF LeaseOnDemand
  <2>4. ASSUME NEW i \in Invocations, LeaseCrashes(i) PROVE Goal(u)'
    BY <2>4, <2>0 DEF LeaseCrashes
  <2>5. ASSUME NEW i \in Invocations, Snapshot(i) PROVE Goal(u)'
    BY <2>5, <2>0 DEF Snapshot
  <2>6. ASSUME NEW i \in Invocations, TryReserve(i) PROVE Goal(u)'
    BY <2>6, <2>0 DEF TryReserve
  <2>7. ASSUME NEW i \in Invocations, NoneAvailable(i) PROVE Goal(u)'
    BY <2>7, <2>0 DEF NoneAvailable
  <2>8. ASSUME NEW i \in Invocations, StartOnDemand(i) PROVE Goal(u)'
    BY <2>8, <2>0 DEF StartOnDemand
  <2>9. ASSUME NEW i \in Invocations, StartOnDemandFailed(i) PROVE Goal(u)'
    BY <2>9, <2>0 DEF StartOnDemandFailed
  <2>10. ASSUME NEW i \in Invocations, Register(i) PROVE Goal(u)'
    BY <2>10, <2>0 DEF Register
  <2>11. ASSUME NEW i \in Invocations, ReserveNew(i) PROVE Goal(u)'
    BY <2>11, <2>0 DEF ReserveNew
  <2>12. ASSUME NEW i \in Invocations, CancelKeepalive(i) PROVE Goal(u)'
    BY <2>12, <2>0 DEF CancelKeepalive
  <2>13. ASSUME NEW i \in Invocations, InvokeEnvironment(i) PROVE Goal(u)'
    BY <2>13, <2>0 DEF InvokeEnvironment
  <2>14. ASSUME NEW i \in Invocations, InvocationEnds(i) PROVE Goal(u)'
    BY <2>14, <2>0 DEF InvocationEnds
  <2>15. ASSUME NEW i \in Invocations, Release(i) PROVE Goal(u)'
    BY <2>15, <2>0 DEF Release
  <2>16. ASSUME NEW i \in Invocations, NewKeepalive(i) PROVE Goal(u)'
    BY <2>16, <2>0 DEF NewKeepalive
  <2>17. ASSUME NEW i \in Invocations, ArmKeepalive(i) PROVE Goal(u)'
    BY <2>17, <2>0 DEF ArmKeepalive
  <2>18. ASSUME NEW i \in Invocations, HandleFailure(i) PROVE Goal(u)'
    BY <2>18, <2>0 DEF HandleFailure
  <2>19. ASSUME NEW i \in Invocations, FailureHandled(i) PROVE Goal(u)'
    BY <2>19, <2>0 DEF FailureHandled
  <2>20. ASSUME NEW i \in Invocations, ReturnLease(i) PROVE Goal(u)'
    <3>1. Lessees' \subseteq Lessees
      BY <2>20, <2>t DEF ReturnLease, Lessees
    <3>2. concurrent_executions' <= config'
      BY <2>20, <2>i, <2>t DEF ReturnLease, QuotaInv, Returned
    <3>3. QED
      BY <2>20, <2>g, <2>1a, <2>1b, <3>1, <3>2 DEF ReturnLease
  <2>21. ASSUME NEW i \in Invocations, KeepalivePassed(i) PROVE Goal(u)'
    BY <2>21, <2>0 DEF KeepalivePassed
  <2>22. ASSUME NEW e \in Envs, StartBegins(e) PROVE Goal(u)'
    BY <2>22, <2>0 DEF StartBegins
  <2>23. ASSUME NEW e \in Envs, CreateContainer(e) PROVE Goal(u)'
    BY <2>23, <2>0 DEF CreateContainer
  <2>24. ASSUME NEW e \in Envs, StartSucceeds(e) PROVE Goal(u)'
    BY <2>24, <2>0 DEF StartSucceeds
  <2>25. ASSUME NEW e \in Envs, StartFails(e) PROVE Goal(u)'
    BY <2>25, <2>0 DEF StartFails
  <2>26. ASSUME NEW e \in Envs, ContainerReports(e) PROVE Goal(u)'
    BY <2>26, <2>0 DEF ContainerReports
  <2>27. ASSUME NEW e \in Envs, CreateFails(e) PROVE Goal(u)'
    BY <2>27, <2>0 DEF CreateFails
  <2>28. ASSUME NEW e \in Envs, StartupTimesOut(e) PROVE Goal(u)'
    BY <2>28, <2>0 DEF StartupTimesOut
  <2>29. ASSUME NEW e \in Envs, TimeoutHalts(e) PROVE Goal(u)'
    BY <2>29, <2>0 DEF TimeoutHalts
  <2>30. ASSUME NEW s \in stops, StopBegins(s) PROVE Goal(u)'
    BY <2>30, <2>0 DEF StopBegins
  <2>31. ASSUME NEW s \in stops, StopHalts(s) PROVE Goal(u)'
    BY <2>31, <2>0 DEF StopHalts
  <2>32. ASSUME NEW s \in stops, StopRemoves(s) PROVE Goal(u)'
    BY <2>32, <2>0 DEF StopRemoves
  <2>33. ASSUME NEW v \in Updates, Configure(v) PROVE Goal(u)'
    <3>1. v = u
      BY <2>33, <2>t, <2>v DEF Configure
    <3>2. updater[u] = "new" /\ updater'[u] = "configured" /\ config' = Cardinality(NewEnvs[u])
      BY <2>33, <2>t, <3>1 DEF Configure
    <3>3. state_status[u] # "READY" /\ UNCHANGED <<provisioned_state, state_status, seen, lease, concurrent_executions>>
      BY <2>33, <2>c, <3>2 DEF Configure
    <3>4. ConfigInv(u)'
      BY <2>c, <3>2, <3>3 DEF ConfigInv
    <3>5. concurrent_executions' <= config'
      BY <2>c, <2>i, <2>n, <2>t, <3>2, <3>3 DEF QuotaInv
    <3>6. QED
      BY <2>g, <2>1b, <2>1c, <3>3, <3>4, <3>5
  <2>34. ASSUME NEW v \in Updates, BeginUpdate(v) PROVE Goal(u)'
    <3>1. updater[v] = "configured" /\ updater'[v] # "new"
      BY <2>34, <2>t DEF BeginUpdate
    <3>2. v = u
      BY <2>v, <3>1
    <3>3. provisioned_state = None /\ state_status[u] # "READY"
      BY <2>c, <3>1, <3>2
    <3>4. updater' = [updater EXCEPT ![u] = "scaling"] /\ provisioned_state' = u
      BY <2>34, <3>2, <3>3 DEF BeginUpdate
    <3>5. UNCHANGED <<config, state_status, seen, lease, concurrent_executions>>
      BY <2>34 DEF BeginUpdate
    <3>6. ConfigInv(u)'
      BY <2>c, <2>t, <3>1, <3>2, <3>3, <3>4, <3>5 DEF ConfigInv
    <3>7. QED
      BY <2>g, <2>1d, <3>5, <3>6
  <2>35. ASSUME NEW v \in Updates, Scale(v) PROVE Goal(u)'
    <3>1. updater[v] = "scaling" /\ updater' = [updater EXCEPT ![v] = "waiting"]
      BY <2>35 DEF Scale
    <3>2. v = u /\ updater'[u] = "waiting"
      BY <2>v, <2>t, <3>1
    <3>3. UNCHANGED <<config, provisioned_state, state_status, seen, lease, concurrent_executions>>
      BY <2>35 DEF Scale
    <3>4. ConfigInv(u)'
      BY <2>c, <3>1, <3>2, <3>3 DEF ConfigInv
    <3>5. QED
      BY <2>g, <2>1d, <3>3, <3>4
  <2>36. ASSUME NEW v \in Updates, FinishUpdate(v) PROVE Goal(u)'
    <3>1. updater[v] = "waiting" /\ updater' = [updater EXCEPT ![v] = "done"]
      BY <2>36 DEF FinishUpdate
    <3>2. v = u /\ updater'[u] = "done"
      BY <2>v, <2>t, <3>1
    <3>3. UNCHANGED <<config, seen, lease, concurrent_executions, starter>>
      BY <2>36 DEF FinishUpdate
    <3>4. provisioned_state' \in {None, u} /\ state_status[u] # "READY"
      BY <2>36, <2>c, <3>1, <3>2 DEF FinishUpdate
    <3>5. state_status'[u] = "READY" => \A e \in NewEnvs[u] : starter'[e] = "started"
      BY <2>36, <3>2, <3>3, <3>4 DEF FinishUpdate
    <3>6. ConfigInv(u)'
      BY <2>c, <3>1, <3>2, <3>3, <3>4, <3>5 DEF ConfigInv
    <3>7. concurrent_executions' <= config'
      BY <2>i, <3>3 DEF QuotaInv
    <3>8. QED
      BY <2>g, <2>1b, <2>1c, <3>3, <3>4, <3>6, <3>7
  <2>37. CASE Shutdown
    BY <2>37, <2>0 DEF Shutdown
  <2>38. CASE StopEnvironments
    BY <2>38, <2>0 DEF StopEnvironments
  <2>39. CASE UNCHANGED vars
    BY <2>39, <2>0 DEF vars
  <2>40. QED
    BY <2>1, <2>2, <2>3, <2>4, <2>5, <2>6, <2>7, <2>8, <2>9, <2>10, <2>11, <2>12,
       <2>13, <2>14, <2>15, <2>16, <2>17, <2>18, <2>19, <2>20, <2>21, <2>22, <2>23,
       <2>24, <2>25, <2>26, <2>27, <2>28, <2>29, <2>30, <2>31, <2>32, <2>33, <2>34,
       <2>35, <2>36, <2>37, <2>38, <2>39,
       <1>2, Zenon DEF Next, Invocation, Start, StartupTimer, Stop, Update
<1>3. QED
  BY <1>1, <1>2, TypeInvHolds, StartInvHolds, PTL DEF Spec

\* Nobody stops the environments of the first update, and they stay in the dict.
LEMMA FirstKeptHolds == Spec => []FirstKept
<1> USE EnvsAre
<1>1. Init => FirstKept
  BY DEF Init, FirstKept, KeptInv, ToSet
<1>2. ASSUME TypeInv, StartInv, UseInv, FirstInv, FirstKept, [Next]_vars PROVE FirstKept'
  <2> SUFFICES ASSUME NEW u \in Updates, Sole(u)' PROVE KeptInv(u)'
    BY DEF FirstKept
  <2>i. Sole(u) /\ ConfigInv(u) /\ KeptInv(u)
    BY <1>2, SoleBefore DEF FirstInv, FirstKept
  <2>t. /\ status \in [Envs -> Statuses]
        /\ pc \in [Invocations -> Labels] /\ env \in [Invocations -> Envs \cup {None}]
        /\ updater \in [Updates -> {"new", "configured", "refused", "scaling", "waiting", "done"}]
        /\ stops \subseteq StopThreads /\ environments \in Seq(Envs)
        /\ todo \in [Invocations -> Seq(Envs)]
        /\ \A i \in Invocations : pc[i] \in HasEnv => env[i] \in Envs
    BY <1>2 DEF TypeInv, TypeOK, InvokeTypeOK, EnvTypeOK, ProvTypeOK, PoolTypeOK, EnvInv
  <2>v. \A v \in Updates : updater'[v] # "new" => v = u
    BY DEF Sole, Started
  <2> DEFINE Spared == \A s \in stops' : s.env \notin NewEnvs[u]
             Alive == \A e \in NewEnvs[u] : status'[e] \notin {"STOPPED", "TIMING_OUT"}
             Listed == /\ ToSet(environments') \subseteq Invocations \cup NewEnvs[u]
                       /\ updater'[u] \in {"new", "configured", "scaling"} =>
                              ToSet(environments') \subseteq Invocations
                       /\ updater'[u] \in {"waiting", "done"} =>
                              NewEnvs[u] \subseteq ToSet(environments')
  <2>g. Spared /\ Alive /\ Listed => KeptInv(u)'
    BY DEF KeptInv
  <2>s. stops' \subseteq stops => Spared
    BY <2>i DEF KeptInv
  <2>a. UNCHANGED status => Alive
    BY <2>i DEF KeptInv
  <2>x. ASSUME NEW e \in Envs, NEW x, x \notin {"STOPPED", "TIMING_OUT"} \/ e \notin NewEnvs[u],
               status' = [status EXCEPT ![e] = x]
        PROVE  Alive
    BY <2>i, <2>t, <2>x DEF KeptInv
  <2>e. UNCHANGED <<environments, updater>> => Listed
    BY <2>i DEF KeptInv
  <2>0. UNCHANGED <<status, stops, environments, updater>> => KeptInv(u)'
    BY <2>g, <2>s, <2>a, <2>e
  <2> HIDE DEF Spared, Alive, Listed
  <2> USE DEF poolVars, envVars, timerVars, execVars, invokeVars, provVars
  <2>1. ASSUME NEW i \in Invocations, Invoke(i) PROVE KeptInv(u)'
    BY <2>1, <2>0 DEF Invoke
  <2>2. ASSUME NEW i \in Invocations, LeaseProvisioned(i) PROVE KeptInv(u)'
    BY <2>2, <2>0 DEF LeaseProvisioned
  <2>3. ASSUME NEW i \in Invocations, LeaseOnDemand(i) PROVE KeptInv(u)'
    BY <2>3, <2>0 DEF LeaseOnDemand
  <2>4. ASSUME NEW i \in Invocations, LeaseCrashes(i) PROVE KeptInv(u)'
    BY <2>4, <2>0 DEF LeaseCrashes
  <2>5. ASSUME NEW i \in Invocations, Snapshot(i) PROVE KeptInv(u)'
    BY <2>5, <2>0 DEF Snapshot
  <2>6. ASSUME NEW i \in Invocations, TryReserve(i) PROVE KeptInv(u)'
    <3>1. Alive
      <4>1. CASE UNCHANGED status
        BY <2>a, <4>1
      <4>2. CASE Reserve(i, Head(todo[i]))
        <5>1. Head(todo[i]) \in Envs
          BY <2>6, <2>t, HeadTailProperties DEF TryReserve
        <5>2. QED
          BY <2>x, <4>2, <5>1 DEF Reserve
      <4>3. QED
        BY <2>6, <4>1, <4>2 DEF TryReserve
    <3>2. QED
      BY <2>6, <2>g, <2>s, <2>e, <3>1 DEF TryReserve
  <2>7. ASSUME NEW i \in Invocations, NoneAvailable(i) PROVE KeptInv(u)'
    BY <2>7, <2>0 DEF NoneAvailable
  <2>8. ASSUME NEW i \in Invocations, StartOnDemand(i) PROVE KeptInv(u)'
    BY <2>8, <2>0 DEF StartOnDemand
  <2>9. ASSUME NEW i \in Invocations, StartOnDemandFailed(i) PROVE KeptInv(u)'
    BY <2>9, <2>0 DEF StartOnDemandFailed
  <2>10. ASSUME NEW i \in Invocations, Register(i) PROVE KeptInv(u)'
    <3>1. ToSet(environments') = ToSet(environments) \cup {i}
      BY <2>10, <2>t, ToSetOfAppend DEF Register
    <3>2. Listed
      BY <2>10, <2>i, <3>1 DEF Register, KeptInv, Listed
    <3>3. QED
      BY <2>10, <2>g, <2>a, <2>s, <3>2 DEF Register
  <2>11. ASSUME NEW i \in Invocations, ReserveNew(i) PROVE KeptInv(u)'
    <3>1. Alive
      BY <2>11, <2>a, <2>x DEF ReserveNew, Reserve
    <3>2. QED
      BY <2>11, <2>g, <2>s, <2>e, <3>1 DEF ReserveNew
  <2>12. ASSUME NEW i \in Invocations, CancelKeepalive(i) PROVE KeptInv(u)'
    BY <2>12, <2>0 DEF CancelKeepalive
  <2>13. ASSUME NEW i \in Invocations, InvokeEnvironment(i) PROVE KeptInv(u)'
    BY <2>13, <2>0 DEF InvokeEnvironment
  <2>14. ASSUME NEW i \in Invocations, InvocationEnds(i) PROVE KeptInv(u)'
    BY <2>14, <2>0 DEF InvocationEnds
  <2>15. ASSUME NEW i \in Invocations, Release(i) PROVE KeptInv(u)'
    <3>1. env[i] \in Envs
      BY <2>15, <2>t DEF Release, HasEnv
    <3>2. Alive
      BY <2>15, <2>a, <2>x, <3>1 DEF Release
    <3>3. QED
      BY <2>15, <2>g, <2>s, <2>e, <3>2 DEF Release
  <2>16. ASSUME NEW i \in Invocations, NewKeepalive(i) PROVE KeptInv(u)'
    BY <2>16, <2>0 DEF NewKeepalive
  <2>17. ASSUME NEW i \in Invocations, ArmKeepalive(i) PROVE KeptInv(u)'
    BY <2>17, <2>0 DEF ArmKeepalive
  <2>18. ASSUME NEW i \in Invocations, HandleFailure(i) PROVE KeptInv(u)'
    <3>1. env[i] \in Envs
      BY <2>18, <2>t DEF HandleFailure, HasEnv
    <3>2. Alive
      BY <2>18, <2>a, <2>x, <3>1 DEF HandleFailure
    <3>3. ASSUME env[i] \in NewEnvs[u] PROVE ~StopsOnFailure(env[i])
      <4>1. env[i] \notin Invocations
        BY <3>3
      <4>2. Holds(i, env[i])
        BY <2>18, <4>1 DEF HandleFailure, Holds
      <4>3. status[env[i]] \in {"INVOKING", "STOPPED"}
        BY <1>2, <3>1, <4>2 DEF UseInv, HoldInv
      <4>4. status[env[i]] # "STOPPED"
        BY <2>i, <3>3 DEF KeptInv
      <4>5. QED
        BY <4>1, <4>3, <4>4 DEF StopsOnFailure, Kind
    <3>4. Spared
      <4>1. CASE UNCHANGED stops
        BY <2>s, <4>1
      <4>2. CASE StopsOnFailure(env[i]) /\ stops' = stops \cup {StopThread(env[i], i)}
        BY <2>i, <3>3, <4>2 DEF Spared, KeptInv, StopThread
      <4>3. QED
        BY <2>18, <4>1, <4>2 DEF HandleFailure
    <3>5. QED
      BY <2>18, <2>g, <2>e, <3>2, <3>4 DEF HandleFailure
  <2>19. ASSUME NEW i \in Invocations, FailureHandled(i) PROVE KeptInv(u)'
    BY <2>19, <2>0 DEF FailureHandled
  <2>20. ASSUME NEW i \in Invocations, ReturnLease(i) PROVE KeptInv(u)'
    BY <2>20, <2>0 DEF ReturnLease
  <2>21. ASSUME NEW i \in Invocations, KeepalivePassed(i) PROVE KeptInv(u)'
    <3>1. env[i] \in Invocations
      BY <2>21, <1>2 DEF KeepalivePassed, TypeInv, TimerInv
    <3>2. Alive
      BY <2>21, <2>a, <2>x, <3>1 DEF KeepalivePassed
    <3>3. Spared
      BY <2>21, <2>i, <3>1 DEF KeepalivePassed, KeptInv, StopThread, Spared
    <3>4. QED
      BY <2>21, <2>g, <2>e, <3>2, <3>3 DEF KeepalivePassed
  <2>22. ASSUME NEW e \in Envs, StartBegins(e) PROVE KeptInv(u)'
    <3>1. Alive
      BY <2>22, <2>a, <2>x DEF StartBegins
    <3>2. QED
      BY <2>22, <2>g, <2>s, <2>e, <3>1 DEF StartBegins
  <2>23. ASSUME NEW e \in Envs, CreateContainer(e) PROVE KeptInv(u)'
    BY <2>23, <2>0 DEF CreateContainer
  <2>24. ASSUME NEW e \in Envs, StartSucceeds(e) PROVE KeptInv(u)'
    <3>1. Alive
      BY <2>24, <2>a, <2>x DEF StartSucceeds
    <3>2. QED
      BY <2>24, <2>g, <2>s, <2>e, <3>1 DEF StartSucceeds
  <2>25. ASSUME NEW e \in Envs, StartFails(e) PROVE KeptInv(u)'
    <3>1. Alive
      BY <2>25, <2>a, <2>x DEF StartFails
    <3>2. QED
      BY <2>25, <2>g, <2>s, <2>e, <3>1 DEF StartFails
  <2>26. ASSUME NEW e \in Envs, ContainerReports(e) PROVE KeptInv(u)'
    BY <2>26, <2>0 DEF ContainerReports
  <2>27. ASSUME NEW e \in Envs, CreateFails(e) PROVE KeptInv(u)'
    BY <2>27, <2>0 DEF CreateFails
  <2>28. ASSUME NEW e \in Envs, StartupTimesOut(e) PROVE KeptInv(u)'
    <3>1. Alive
      BY <2>28, <2>a, <2>x DEF StartupTimesOut
    <3>2. QED
      BY <2>28, <2>g, <2>s, <2>e, <3>1 DEF StartupTimesOut
  <2>29. ASSUME NEW e \in Envs, TimeoutHalts(e) PROVE KeptInv(u)'
    BY <2>29, <2>0 DEF TimeoutHalts
  <2>30. ASSUME NEW s \in stops, StopBegins(s) PROVE KeptInv(u)'
    <3>1. s.env \in Envs /\ s.env \notin NewEnvs[u]
      BY <2>i, <2>t DEF KeptInv, StopThreads
    <3>2. Alive
      BY <2>30, <2>a, <2>x, <3>1 DEF StopBegins
    <3> DEFINE n == [s EXCEPT !.stage = "halt"]
    <3>3. n.env = s.env
      BY <2>t DEF StopThreads
    <3>4. stops' \subseteq stops \cup {n}
      BY <2>30 DEF StopBegins
    <3> HIDE DEF n
    <3>5. Spared
      BY <2>i, <3>1, <3>3, <3>4 DEF KeptInv, Spared
    <3>6. QED
      BY <2>30, <2>g, <2>e, <3>2, <3>5 DEF StopBegins
  <2>31. ASSUME NEW s \in stops, StopHalts(s) PROVE KeptInv(u)'
    <3>1. s.env \notin NewEnvs[u]
      BY <2>i DEF KeptInv
    <3> DEFINE n == [s EXCEPT !.stage = "remove"]
    <3>2. n.env = s.env
      BY <2>t DEF StopThreads
    <3>3. stops' \subseteq stops \cup {n}
      BY <2>31 DEF StopHalts
    <3> HIDE DEF n
    <3>4. Spared
      BY <2>i, <3>1, <3>2, <3>3 DEF KeptInv, Spared
    <3>5. QED
      BY <2>31, <2>g, <2>a, <2>e, <3>4 DEF StopHalts
  <2>32. ASSUME NEW s \in stops, StopRemoves(s) PROVE KeptInv(u)'
    <3>1. s.env \notin NewEnvs[u]
      BY <2>i DEF KeptInv
    <3>2. \A m \in DOMAIN environments :
             /\ ToSet(RemoveAt(environments, m)) \subseteq ToSet(environments)
             /\ ToSet(environments) \ {environments[m]} \subseteq ToSet(RemoveAt(environments, m))
      BY <2>t, RemoveAtType, SortedRemove
    <3>3. /\ ToSet(environments') \subseteq ToSet(environments)
          /\ ToSet(environments) \ {s.env} \subseteq ToSet(environments')
      BY <2>32, <3>2 DEF StopRemoves
    <3>4. UNCHANGED updater
      BY <2>32 DEF StopRemoves
    <3>5. Listed
      BY <2>i, <3>1, <3>3, <3>4 DEF KeptInv, Listed
    <3>6. stops' \subseteq stops /\ UNCHANGED status
      BY <2>32 DEF StopRemoves
    <3>7. QED
      BY <2>g, <2>a, <2>s, <3>5, <3>6
  <2>33. ASSUME NEW v \in Updates, Configure(v) PROVE KeptInv(u)'
    <3>1. updater[v] = "new" /\ updater' = [updater EXCEPT ![v] = "configured"]
      BY <2>33 DEF Configure
    <3>2. v = u /\ updater'[u] = "configured" /\ UNCHANGED environments
      BY <2>33, <2>t, <2>v, <3>1 DEF Configure
    <3>3. Listed
      BY <2>i, <3>1, <3>2 DEF KeptInv, Listed
    <3>4. QED
      BY <2>33, <2>g, <2>a, <2>s, <3>3 DEF Configure
  <2>34. ASSUME NEW v \in Updates, BeginUpdate(v) PROVE KeptInv(u)'
    <3>1. updater[v] = "configured" /\ updater'[v] \in {"scaling", "refused"} /\ UNCHANGED environments
      BY <2>34, <2>t DEF BeginUpdate
    <3>2. v = u
      BY <2>v, <3>1
    <3>3. Listed
      BY <2>i, <3>1, <3>2 DEF KeptInv, Listed
    <3>4. QED
      BY <2>34, <2>g, <2>a, <2>s, <3>3 DEF BeginUpdate
  <2>35. ASSUME NEW v \in Updates, Scale(v) PROVE KeptInv(u)'
    <3>1. updater[v] = "scaling" /\ updater' = [updater EXCEPT ![v] = "waiting"]
      BY <2>35 DEF Scale
    <3>2. v = u /\ updater'[u] = "waiting"
      BY <2>v, <2>t, <3>1
    <3>3. ToSet(environments) \subseteq Invocations
      BY <2>i, <3>1, <3>2 DEF KeptInv
    <3>4. environments' = environments \o SetToSeq(NewEnvs[u]) /\ UNCHANGED status
      BY <2>35, <3>2 DEF Scale
    <3>5. /\ ToSet(environments') \subseteq ToSet(environments) \cup NewEnvs[u]
          /\ NewEnvs[u] \subseteq ToSet(environments')
      BY <2>t, <3>3, <3>4, SortedScale
    <3>6. Listed
      BY <3>2, <3>3, <3>5 DEF Listed
    <3>7. stops' = stops
      BY <2>35, <3>3 DEF Scale, Kind
    <3>8. QED
      BY <2>g, <2>a, <2>s, <3>4, <3>6, <3>7
  <2>36. ASSUME NEW v \in Updates, FinishUpdate(v) PROVE KeptInv(u)'
    <3>1. updater[v] = "waiting" /\ updater' = [updater EXCEPT ![v] = "done"] /\ UNCHANGED environments
      BY <2>36 DEF FinishUpdate
    <3>2. v = u /\ updater'[u] = "done"
      BY <2>v, <2>t, <3>1
    <3>3. Listed
      BY <2>i, <3>1, <3>2 DEF KeptInv, Listed
    <3>4. QED
      BY <2>36, <2>g, <2>a, <2>s, <3>3 DEF FinishUpdate
  <2>37. CASE Shutdown
    BY <2>37, <2>0 DEF Shutdown
  <2>38. CASE StopEnvironments
    <3>1. version' = "stopped"
      BY <2>38 DEF StopEnvironments
    <3>2. QED
      BY <3>1 DEF Sole
  <2>39. CASE UNCHANGED vars
    BY <2>39, <2>0 DEF vars
  <2>40. QED
    BY <2>1, <2>2, <2>3, <2>4, <2>5, <2>6, <2>7, <2>8, <2>9, <2>10, <2>11, <2>12,
       <2>13, <2>14, <2>15, <2>16, <2>17, <2>18, <2>19, <2>20, <2>21, <2>22, <2>23,
       <2>24, <2>25, <2>26, <2>27, <2>28, <2>29, <2>30, <2>31, <2>32, <2>33, <2>34,
       <2>35, <2>36, <2>37, <2>38, <2>39,
       <1>2, Zenon DEF Next, Invocation, Start, StartupTimer, Stop, Update
<1>3. QED
  BY <1>1, <1>2, TypeInvHolds, StartInvHolds, UseInvHolds, FirstInvHolds, PTL DEF Spec

\* A turn of the loop leaves the rest of the snapshot.
LEMMA RemainingTail ==
    ASSUME NEW u \in Updates, NEW q \in Seq(Envs), q # <<>>, Remaining(u, q)
    PROVE  Remaining(u, Tail(q))
<1> DEFINE n == Cardinality(NewEnvs[u])
<1>1. PICK k \in 1..n + 1 : ToSet(q) \cap NewEnvs[u] = Suffix(u, k)
  BY DEF Remaining
<1>2. Sorted(u, q) /\ ToSet(q) \subseteq Invocations \cup NewEnvs[u] /\ n \in Nat
  BY PlacesWork DEF Remaining
<1>3. Sorted(u, Tail(q)) /\ ToSet(Tail(q)) \subseteq ToSet(q) /\ Head(q) \in ToSet(q)
  BY <1>2, SortedTail
<1>4. CASE Head(q) \in Invocations
  <2>1. ToSet(Tail(q)) \cap NewEnvs[u] = Suffix(u, k)
    BY <1>1, <1>2, <1>4, NextOfSnapshot
  <2>2. QED
    BY <1>2, <1>3, <2>1 DEF Remaining
<1>5. CASE Head(q) \in NewEnvs[u]
  <2>1. k \in 1..n /\ ToSet(Tail(q)) \cap NewEnvs[u] = Suffix(u, k + 1)
    BY <1>1, <1>2, <1>5, NextOfSnapshot
  <2>2. k + 1 \in 1..n + 1
    BY <1>2, <2>1
  <2>3. QED
    BY <1>2, <1>3, <2>1, <2>2 DEF Remaining
<1>6. QED
  BY <1>2, <1>3, <1>4, <1>5

\* The dict and the snapshots of it keep the environments of the first update in order.
LEMMA FirstSortedHolds == Spec => []FirstSorted
<1> USE EnvsAre
<1>1. Init => FirstSorted
  BY DEF Init, FirstSorted, OrderInv, Sorted, Lessees
<1>2. ASSUME TypeInv, FirstInv, FirstKept, FirstSorted, [Next]_vars PROVE FirstSorted'
  <2> SUFFICES ASSUME NEW u \in Updates, Sole(u)' PROVE OrderInv(u)'
    BY DEF FirstSorted
  <2>i. Sole(u) /\ ConfigInv(u) /\ QuotaInv(u) /\ KeptInv(u) /\ OrderInv(u)
    BY <1>2, SoleBefore DEF FirstInv, FirstKept, FirstSorted
  <2>t. /\ pc \in [Invocations -> Labels] /\ environments \in Seq(Envs)
        /\ lease \in [Invocations -> {"none", "on_demand", "provisioned"}]
        /\ updater \in [Updates -> {"new", "configured", "refused", "scaling", "waiting", "done"}]
        /\ todo \in [Invocations -> Seq(Envs)]
    BY <1>2 DEF TypeInv, TypeOK, InvokeTypeOK, ProvTypeOK, PoolTypeOK
  <2>v. \A v \in Updates : updater'[v] # "new" => v = u
    BY DEF Sole, Started
  <2> DEFINE Same(i) == i \in Lessees' /\ pc'[i] = "scan" =>
                            i \in Lessees /\ pc[i] = "scan" /\ todo'[i] = todo[i]
             Scans == \A i \in Lessees' : pc'[i] = "scan" => Remaining(u, todo'[i])
  <2>l. Lessees' \subseteq Invocations
    BY DEF Lessees
  <2>g. Sorted(u, environments') /\ Scans => OrderInv(u)'
    BY DEF OrderInv, Remaining
  <2>e. UNCHANGED environments => Sorted(u, environments')
    BY <2>i DEF OrderInv
  <2>s. (\A i \in Invocations : Same(i)) => Scans
    BY <2>i, <2>l DEF OrderInv
  <2>m. UNCHANGED <<pc, todo, lease>> => Scans
    BY <2>i DEF OrderInv, Lessees
  <2> HIDE DEF Scans
  <2> USE DEF poolVars, envVars, timerVars, execVars, invokeVars, provVars
  <2>1. ASSUME NEW i \in Invocations, Invoke(i) PROVE OrderInv(u)'
    <3>1. \A j \in Invocations : Same(j)
      BY <2>1, <2>t DEF Invoke, Goto, Lessees
    <3>2. QED
      BY <2>1, <2>g, <2>e, <2>s, <3>1 DEF Invoke
  <2>2. ASSUME NEW i \in Invocations, LeaseProvisioned(i) PROVE OrderInv(u)'
    <3>1. \A j \in Invocations : Same(j)
      BY <2>2, <2>t DEF LeaseProvisioned, Goto, Lessees
    <3>2. QED
      BY <2>2, <2>g, <2>e, <2>s, <3>1 DEF LeaseProvisioned
  <2>3. ASSUME NEW i \in Invocations, LeaseOnDemand(i) PROVE OrderInv(u)'
    <3>1. \A j \in Invocations : Same(j)
      BY <2>3, <2>t DEF LeaseOnDemand, Goto, Lessees
    <3>2. QED
      BY <2>3, <2>g, <2>e, <2>s, <3>1 DEF LeaseOnDemand
  <2>4. ASSUME NEW i \in Invocations, LeaseCrashes(i) PROVE OrderInv(u)'
    <3>1. \A j \in Invocations : Same(j)
      BY <2>4, <2>t DEF LeaseCrashes, Goto, Lessees
    <3>2. QED
      BY <2>4, <2>g, <2>e, <2>s, <3>1 DEF LeaseCrashes
  <2>5. ASSUME NEW i \in Invocations, Snapshot(i) PROVE OrderInv(u)'
    <3>1. \A j \in Invocations \ {i} : Same(j)
      BY <2>5, <2>t DEF Snapshot, Goto, Lessees
    <3>2. todo'[i] = environments /\ UNCHANGED <<environments, lease>>
      BY <2>5, <2>t DEF Snapshot
    <3>3. ASSUME i \in Lessees PROVE Remaining(u, environments)
      <4>1. NewEnvs[u] \subseteq ToSet(environments)
        BY <2>i, <3>3 DEF QuotaInv, ConfigInv, KeptInv
      <4>2. ToSet(environments) \cap NewEnvs[u] = Suffix(u, 1)
        BY <4>1, SuffixWorks
      <4>3. 1 \in 1..Cardinality(NewEnvs[u]) + 1
        BY PlacesWork
      <4>4. QED
        BY <2>i, <4>2, <4>3 DEF Remaining, OrderInv, KeptInv
    <3>4. Lessees' = Lessees
      BY <3>2 DEF Lessees
    <3>5. Scans
      BY <2>i, <2>l, <3>1, <3>2, <3>3, <3>4 DEF Scans, OrderInv
    <3>6. QED
      BY <2>g, <2>e, <3>2, <3>5
  <2>6. ASSUME NEW i \in Invocations, TryReserve(i) PROVE OrderInv(u)'
    <3>1. UNCHANGED <<environments, lease>> /\ todo[i] # <<>> /\ todo[i] \in Seq(Envs) /\ pc[i] = "scan"
      BY <2>6, <2>t DEF TryReserve
    <3>2. \A j \in Invocations \ {i} : Same(j)
      BY <2>6, <2>t DEF TryReserve, Reserve, Goto, Lessees
    <3>3. Lessees' = Lessees
      BY <3>1 DEF Lessees
    <3>4. CASE pc' = [pc EXCEPT ![i] = "reserved"]
      <4>1. Scans
        BY <2>i, <2>l, <2>t, <3>2, <3>4 DEF Scans, OrderInv
      <4>2. QED
        BY <2>g, <2>e, <3>1, <4>1
    <3>5. CASE todo' = [todo EXCEPT ![i] = Tail(@)]
      <4>1. todo'[i] = Tail(todo[i])
        BY <2>t, <3>5
      <4>2. i \in Lessees => Remaining(u, todo[i])
        BY <2>i, <3>1 DEF OrderInv
      <4>3. i \in Lessees => Remaining(u, Tail(todo[i]))
        BY <3>1, <4>2, RemainingTail
      <4>4. Scans
        BY <2>i, <2>l, <3>2, <3>3, <4>1, <4>3 DEF Scans, OrderInv
      <4>5. QED
        BY <2>g, <2>e, <3>1, <4>4
    <3>6. QED
      BY <2>6, <3>4, <3>5 DEF TryReserve, Reserve, Goto
  <2>7. ASSUME NEW i \in Invocations, NoneAvailable(i) PROVE OrderInv(u)'
    <3>1. \A j \in Invocations : Same(j)
      BY <2>7, <2>t DEF NoneAvailable, Goto, Lessees
    <3>2. QED
      BY <2>7, <2>g, <2>e, <2>s, <3>1 DEF NoneAvailable
  <2>8. ASSUME NEW i \in Invocations, StartOnDemand(i) PROVE OrderInv(u)'
    <3>1. \A j \in Invocations : Same(j)
      BY <2>8, <2>t DEF StartOnDemand, Goto, Lessees
    <3>2. QED
      BY <2>8, <2>g, <2>e, <2>s, <3>1 DEF StartOnDemand
  <2>9. ASSUME NEW i \in Invocations, StartOnDemandFailed(i) PROVE OrderInv(u)'
    <3>1. \A j \in Invocations : Same(j)
      BY <2>9, <2>t DEF StartOnDemandFailed, Goto, Lessees
    <3>2. QED
      BY <2>9, <2>g, <2>e, <2>s, <3>1 DEF StartOnDemandFailed
  <2>10. ASSUME NEW i \in Invocations, Register(i) PROVE OrderInv(u)'
    <3>1. \A j \in Invocations : Same(j)
      BY <2>10, <2>t DEF Register, Goto, Lessees
    <3>2. Sorted(u, environments')
      BY <2>10, <2>i, <2>t, SortedAppend DEF Register, OrderInv
    <3>3. QED
      BY <2>g, <2>s, <3>1, <3>2
  <2>11. ASSUME NEW i \in Invocations, ReserveNew(i) PROVE OrderInv(u)'
    <3>1. \A j \in Invocations : Same(j)
      BY <2>11, <2>t DEF ReserveNew, Goto, Reserve, Lessees
    <3>2. QED
      BY <2>11, <2>g, <2>e, <2>s, <3>1 DEF ReserveNew
  <2>12. ASSUME NEW i \in Invocations, CancelKeepalive(i) PROVE OrderInv(u)'
    <3>1. \A j \in Invocations : Same(j)
      BY <2>12, <2>t DEF CancelKeepalive, Goto, Lessees
    <3>2. QED
      BY <2>12, <2>g, <2>e, <2>s, <3>1 DEF CancelKeepalive
  <2>13. ASSUME NEW i \in Invocations, InvokeEnvironment(i) PROVE OrderInv(u)'
    <3>1. \A j \in Invocations : Same(j)
      BY <2>13, <2>t DEF InvokeEnvironment, Goto, Lessees
    <3>2. QED
      BY <2>13, <2>g, <2>e, <2>s, <3>1 DEF InvokeEnvironment
  <2>14. ASSUME NEW i \in Invocations, InvocationEnds(i) PROVE OrderInv(u)'
    <3>1. \A j \in Invocations : Same(j)
      BY <2>14, <2>t DEF InvocationEnds, Goto, Lessees
    <3>2. QED
      BY <2>14, <2>g, <2>e, <2>s, <3>1 DEF InvocationEnds
  <2>15. ASSUME NEW i \in Invocations, Release(i) PROVE OrderInv(u)'
    <3>1. \A j \in Invocations : Same(j)
      BY <2>15, <2>t DEF Release, Goto, AfterRelease, Lessees
    <3>2. QED
      BY <2>15, <2>g, <2>e, <2>s, <3>1 DEF Release
  <2>16. ASSUME NEW i \in Invocations, NewKeepalive(i) PROVE OrderInv(u)'
    <3>1. \A j \in Invocations : Same(j)
      BY <2>16, <2>t DEF NewKeepalive, Goto, Lessees
    <3>2. QED
      BY <2>16, <2>g, <2>e, <2>s, <3>1 DEF NewKeepalive
  <2>17. ASSUME NEW i \in Invocations, ArmKeepalive(i) PROVE OrderInv(u)'
    <3>1. \A j \in Invocations : Same(j)
      BY <2>17, <2>t DEF ArmKeepalive, Goto, Lessees
    <3>2. QED
      BY <2>17, <2>g, <2>e, <2>s, <3>1 DEF ArmKeepalive
  <2>18. ASSUME NEW i \in Invocations, HandleFailure(i) PROVE OrderInv(u)'
    <3>1. \A j \in Invocations : Same(j)
      BY <2>18, <2>t DEF HandleFailure, Goto, Lessees
    <3>2. QED
      BY <2>18, <2>g, <2>e, <2>s, <3>1 DEF HandleFailure
  <2>19. ASSUME NEW i \in Invocations, FailureHandled(i) PROVE OrderInv(u)'
    <3>1. \A j \in Invocations : Same(j)
      BY <2>19, <2>t DEF FailureHandled, Goto, Lessees
    <3>2. QED
      BY <2>19, <2>g, <2>e, <2>s, <3>1 DEF FailureHandled
  <2>20. ASSUME NEW i \in Invocations, ReturnLease(i) PROVE OrderInv(u)'
    <3>1. \A j \in Invocations : Same(j)
      BY <2>20, <2>t DEF ReturnLease, Goto, Lessees
    <3>2. QED
      BY <2>20, <2>g, <2>e, <2>s, <3>1 DEF ReturnLease
  <2>21. ASSUME NEW i \in Invocations, KeepalivePassed(i) PROVE OrderInv(u)'
    BY <2>21, <2>g, <2>e, <2>m DEF KeepalivePassed
  <2>22. ASSUME NEW e \in Envs, StartBegins(e) PROVE OrderInv(u)'
    BY <2>22, <2>g, <2>e, <2>m DEF StartBegins
  <2>23. ASSUME NEW e \in Envs, CreateContainer(e) PROVE OrderInv(u)'
    BY <2>23, <2>g, <2>e, <2>m DEF CreateContainer
  <2>24. ASSUME NEW e \in Envs, StartSucceeds(e) PROVE OrderInv(u)'
    BY <2>24, <2>g, <2>e, <2>m DEF StartSucceeds
  <2>25. ASSUME NEW e \in Envs, StartFails(e) PROVE OrderInv(u)'
    BY <2>25, <2>g, <2>e, <2>m DEF StartFails
  <2>26. ASSUME NEW e \in Envs, ContainerReports(e) PROVE OrderInv(u)'
    BY <2>26, <2>g, <2>e, <2>m DEF ContainerReports
  <2>27. ASSUME NEW e \in Envs, CreateFails(e) PROVE OrderInv(u)'
    BY <2>27, <2>g, <2>e, <2>m DEF CreateFails
  <2>28. ASSUME NEW e \in Envs, StartupTimesOut(e) PROVE OrderInv(u)'
    BY <2>28, <2>g, <2>e, <2>m DEF StartupTimesOut
  <2>29. ASSUME NEW e \in Envs, TimeoutHalts(e) PROVE OrderInv(u)'
    BY <2>29, <2>g, <2>e, <2>m DEF TimeoutHalts
  <2>30. ASSUME NEW s \in stops, StopBegins(s) PROVE OrderInv(u)'
    BY <2>30, <2>g, <2>e, <2>m DEF StopBegins
  <2>31. ASSUME NEW s \in stops, StopHalts(s) PROVE OrderInv(u)'
    BY <2>31, <2>g, <2>e, <2>m DEF StopHalts
  <2>32. ASSUME NEW s \in stops, StopRemoves(s) PROVE OrderInv(u)'
    <3>1. Sorted(u, environments')
      BY <2>32, <2>i, <2>t, SortedRemove DEF StopRemoves, OrderInv
    <3>2. QED
      BY <2>32, <2>g, <2>m, <3>1 DEF StopRemoves
  <2>33. ASSUME NEW v \in Updates, Configure(v) PROVE OrderInv(u)'
    BY <2>33, <2>g, <2>e, <2>m DEF Configure
  <2>34. ASSUME NEW v \in Updates, BeginUpdate(v) PROVE OrderInv(u)'
    BY <2>34, <2>g, <2>e, <2>m DEF BeginUpdate
  <2>35. ASSUME NEW v \in Updates, Scale(v) PROVE OrderInv(u)'
    <3>1. updater[v] = "scaling" /\ updater'[v] # "new"
      BY <2>35, <2>t DEF Scale
    <3>2. v = u
      BY <2>v, <3>1
    <3>3. ToSet(environments) \subseteq Invocations
      BY <2>i, <3>1, <3>2 DEF KeptInv
    <3>4. environments' = environments \o SetToSeq(NewEnvs[u])
      BY <2>35, <3>2 DEF Scale
    <3>5. Sorted(u, environments')
      BY <2>t, <3>3, <3>4, SortedScale
    <3>6. QED
      BY <2>35, <2>g, <2>m, <3>5 DEF Scale
  <2>36. ASSUME NEW v \in Updates, FinishUpdate(v) PROVE OrderInv(u)'
    BY <2>36, <2>g, <2>e, <2>m DEF FinishUpdate
  <2>37. CASE Shutdown
    BY <2>37, <2>g, <2>e, <2>m DEF Shutdown
  <2>38. CASE StopEnvironments
    BY <2>38, <2>g, <2>e, <2>m DEF StopEnvironments
  <2>39. CASE UNCHANGED vars
    BY <2>39, <2>g, <2>e, <2>m DEF vars
  <2>40. QED
    BY <2>1, <2>2, <2>3, <2>4, <2>5, <2>6, <2>7, <2>8, <2>9, <2>10, <2>11, <2>12,
       <2>13, <2>14, <2>15, <2>16, <2>17, <2>18, <2>19, <2>20, <2>21, <2>22, <2>23,
       <2>24, <2>25, <2>26, <2>27, <2>28, <2>29, <2>30, <2>31, <2>32, <2>33, <2>34,
       <2>35, <2>36, <2>37, <2>38, <2>39,
       <1>2, Zenon DEF Next, Invocation, Start, StartupTimer, Stop, Update
<1>3. QED
  BY <1>1, <1>2, TypeInvHolds, FirstInvHolds, FirstKeptHolds, PTL DEF Spec

\* Whoever finds a provisioned environment of the first update busy has a lessee to
\* thank for it.
LEMMA BusyIsLeased ==
    ASSUME TypeInv, StartInv, UseInv, GrantInv, NEW u \in Updates, ConfigInv(u), QuotaInv(u), KeptInv(u),
           Lessees # {}, NEW e \in NewEnvs[u], ~Reservable(e)
    PROVE  \E j \in Lessees : Holds(j, e)
<1>1. e \in Envs /\ e \notin Invocations
  BY EnvsAre
<1>2. starter[e] = "started"
  BY DEF QuotaInv, ConfigInv
<1>3. status[e] = "INVOKING"
  BY <1>1, <1>2 DEF StartInv, KeptInv, Reservable
<1>4. PICK j \in Invocations : Minds(j, e)
  BY <1>1, <1>3 DEF UseInv, BusyInv
<1>5. ~(StopThread(e, j) \in stops)
  BY DEF KeptInv, StopThread
<1>6. Holds(j, e)
  BY <1>1, <1>4, <1>5 DEF Minds, Holds
<1>7. j \in Lessees
  BY <1>1, <1>6 DEF Holds, GrantInv, KindInv, HasEnv, Lessees
<1>8. QED
  BY <1>6, <1>7

\* A lease is worth an environment: of the invocations that are left with the last
\* environments of the dict there are never more than environments.
LEMMA FirstServedHolds == Spec => []FirstServed
<1> USE EnvsAre
<1>1. Init => FirstServed
  <2> SUFFICES ASSUME Init, NEW u \in Updates PROVE SpreadInv(u)
    BY DEF FirstServed
  <2>1. \A k : From(u, k) = {}
    BY DEF Init, From, Lessees
  <2>2. Cardinality(NewEnvs[u]) \in Nat
    BY PlacesWork
  <2>3. \A k \in 1..Cardinality(NewEnvs[u]) + 1 : 0 <= Cardinality(NewEnvs[u]) - k + 1
    BY <2>2
  <2>4. \A k : Cardinality(From(u, k)) = 0
    BY <2>1, FS_EmptySet
  <2>5. unavailable = {}
    BY DEF Init
  <2>6. QED
    BY <2>3, <2>4, <2>5 DEF SpreadInv
<1>2. ASSUME TypeInv, TypeInv', StartInv, UseInv, GrantInv, FirstInv, FirstInv', FirstKept, FirstSorted,
             FirstServed, [Next]_vars
      PROVE  FirstServed'
  <2> SUFFICES ASSUME NEW u \in Updates, Sole(u)' PROVE SpreadInv(u)'
    BY DEF FirstServed
  <2> DEFINE n == Cardinality(NewEnvs[u])
             q == SetToSeq(NewEnvs[u])
             Left(i) == ToSet(todo[i]) \cap NewEnvs[u]
  <2>i. Sole(u) /\ ConfigInv(u) /\ QuotaInv(u) /\ KeptInv(u) /\ OrderInv(u) /\ SpreadInv(u)
    BY <1>2, SoleBefore DEF FirstInv, FirstKept, FirstSorted, FirstServed
  <2>t. /\ pc \in [Invocations -> Labels] /\ env \in [Invocations -> Envs \cup {None}]
        /\ lease \in [Invocations -> {"none", "on_demand", "provisioned"}]
        /\ todo \in [Invocations -> Seq(Envs)]
        /\ \A i \in Invocations : pc[i] \in {"timer", "arm"} => env[i] \in Invocations
    BY <1>2 DEF TypeInv, TypeOK, InvokeTypeOK, EnvInv
  <2>n. /\ n \in Nat
        /\ \A k \in 1..n + 1 : Suffix(u, k) \subseteq NewEnvs[u]
        /\ \A j, k \in 1..n + 1 : k <= j => Suffix(u, j) \subseteq Suffix(u, k)
        /\ \A k \in 1..n + 1 : \A j \in 1..n : q[j] \in Suffix(u, k) <=> k <= j
    BY PlacesWork, SuffixWorks
  <2>l. /\ IsFiniteSet(Lessees) /\ IsFiniteSet(Lessees') /\ Lessees' \subseteq Invocations
        /\ Cardinality(Lessees') <= n
    <3>1. IsFiniteSet(Lessees) /\ IsFiniteSet(Lessees') /\ concurrent_executions' = Cardinality(Lessees')
      BY <1>2 DEF TypeInv, LeaseInv
    <3>2. (QuotaInv(u) /\ ConfigInv(u))'
      BY <1>2 DEF FirstInv
    <3>3. concurrent_executions' <= config' /\ (config' = 0 \/ config' = n)
      BY <3>2 DEF QuotaInv, ConfigInv
    <3>4. concurrent_executions' \in Nat
      BY <1>2 DEF TypeInv, TypeOK, ProvTypeOK
    <3>5. QED
      BY <2>n, <3>1, <3>3, <3>4 DEF Lessees
  <2> DEFINE in(i, k) == \/ pc[i] = "scan" /\ Left(i) \subseteq Suffix(u, k)
                         \/ \E e \in Suffix(u, k) : Holds(i, e)
  <2>f. /\ \A k : \A i : i \in From(u, k) <=> i \in Lessees /\ in(i, k)
        /\ \A k : \A i : i \in From(u, k)' <=> i \in Lessees' /\ in(i, k)'
    BY DEF From
  <2>c. \A k : /\ IsFiniteSet(From(u, k)) /\ Cardinality(From(u, k)) \in Nat
               /\ IsFiniteSet(From(u, k)') /\ Cardinality(From(u, k)') \in Nat
               /\ Cardinality(From(u, k)') <= n
    <3> SUFFICES ASSUME NEW k
                 PROVE  /\ IsFiniteSet(From(u, k)) /\ Cardinality(From(u, k)) \in Nat
                        /\ IsFiniteSet(From(u, k)') /\ Cardinality(From(u, k)') \in Nat
                        /\ Cardinality(From(u, k)') <= n
      OBVIOUS
    <3>1. From(u, k) \subseteq Lessees /\ From(u, k)' \subseteq Lessees'
      BY <2>f
    <3>2. /\ IsFiniteSet(From(u, k)) /\ IsFiniteSet(From(u, k)')
          /\ Cardinality(From(u, k)') <= Cardinality(Lessees')
      BY <2>l, <3>1, FS_Subset
    <3>3. Cardinality(From(u, k)) \in Nat /\ Cardinality(From(u, k)') \in Nat /\ Cardinality(Lessees') \in Nat
      BY <2>l, <3>2, FS_CardinalityType
    <3>4. QED
      BY <2>l, <2>n, <3>2, <3>3
  <2>b. \A k \in 1..n + 1 : Cardinality(From(u, k)) <= n - k + 1
    BY <2>i DEF SpreadInv
  <2>m. \A k \in 1..n + 1 : From(u, k)' \subseteq From(u, k) => Cardinality(From(u, k)') <= n - k + 1
    <3> SUFFICES ASSUME NEW k \in 1..n + 1, From(u, k)' \subseteq From(u, k)
                 PROVE  Cardinality(From(u, k)') <= n - k + 1
      OBVIOUS
    <3>1. Cardinality(From(u, k)') <= Cardinality(From(u, k))
      BY <2>c, FS_Subset
    <3>2. QED
      BY <2>b, <2>c, <2>n, <3>1
  <2>g. (\A k \in 1..n + 1 : Cardinality(From(u, k)') <= n - k + 1) /\ unavailable' = unavailable
            => SpreadInv(u)'
    BY <2>i DEF SpreadInv
  \* An invocation that stays where it is, or leaves.
  <2> DEFINE Stays(i) ==
                /\ i \in Lessees' /\ pc'[i] = "scan" => i \in Lessees /\ pc[i] = "scan" /\ todo'[i] = todo[i]
                /\ \A e \in NewEnvs[u] : i \in Lessees' /\ Holds(i, e)' => i \in Lessees /\ Holds(i, e)
  <2>s. \A i \in Invocations : Stays(i) => \A k \in 1..n + 1 : i \in From(u, k)' => i \in From(u, k)
    BY <2>f, <2>n
  <2> HIDE DEF n, q
  <2>0. ASSUME \A i \in Invocations : Stays(i), UNCHANGED unavailable PROVE SpreadInv(u)'
    <3>1. \A k \in 1..n + 1 : From(u, k)' \subseteq From(u, k)
      BY <2>0, <2>f, <2>l, <2>s
    <3>2. QED
      BY <2>0, <2>m, <2>g, <3>1
  <2>u. UNCHANGED <<pc, lease, todo, env>> => \A i \in Invocations : Stays(i)
    BY DEF Lessees, Holds
  <2> HIDE DEF in
  <2> USE DEF poolVars, envVars, timerVars, execVars, invokeVars, provVars
  <2>1. ASSUME NEW i \in Invocations, Invoke(i) PROVE SpreadInv(u)'
    <3>1. \A j \in Invocations : Stays(j)
      BY <2>1, <2>t DEF Invoke, Goto, Lessees, Holds
    <3>2. QED
      BY <2>1, <2>0, <3>1 DEF Invoke
  <2>2. ASSUME NEW i \in Invocations, LeaseProvisioned(i) PROVE SpreadInv(u)'
    <3>1. \A j \in Invocations : Stays(j)
      BY <2>2, <2>t DEF LeaseProvisioned, Goto, Lessees, Holds
    <3>2. QED
      BY <2>2, <2>0, <3>1 DEF LeaseProvisioned
  <2>3. ASSUME NEW i \in Invocations, LeaseOnDemand(i) PROVE SpreadInv(u)'
    <3>1. \A j \in Invocations : Stays(j)
      BY <2>3, <2>t DEF LeaseOnDemand, Goto, Lessees, Holds
    <3>2. QED
      BY <2>3, <2>0, <3>1 DEF LeaseOnDemand
  <2>4. ASSUME NEW i \in Invocations, LeaseCrashes(i) PROVE SpreadInv(u)'
    <3>1. \A j \in Invocations : Stays(j)
      BY <2>4, <2>t DEF LeaseCrashes, Goto, Lessees, Holds
    <3>2. QED
      BY <2>4, <2>0, <3>1 DEF LeaseCrashes
  <2>5. ASSUME NEW i \in Invocations, Snapshot(i) PROVE SpreadInv(u)'
    <3>1. \A j \in Invocations \ {i} : Stays(j)
      BY <2>5, <2>t DEF Snapshot, Goto, Lessees, Holds
    <3>2. todo'[i] = environments /\ pc'[i] = "scan" /\ UNCHANGED <<lease, env, unavailable>>
      BY <2>5, <2>t DEF Snapshot, Goto
    <3>3. ASSUME NEW k \in 1..n + 1 PROVE Cardinality(From(u, k)') <= n - k + 1
      <4>1. CASE k = 1
        BY <2>c, <2>n, <4>1
      <4>2. CASE k # 1
        <5>1. 1 \in 1..n /\ ~(k <= 1)
          BY <2>n, <4>2
        <5>2. q[1] \in NewEnvs[u] /\ q[1] \notin Suffix(u, k)
          BY <2>n, <5>1, PlacesWork DEF q, n
        <5>3. i \in Lessees' => i \notin From(u, k)'
          <6>1. i \in Lessees' => NewEnvs[u] \subseteq ToSet(environments)
            BY <2>i, <3>2 DEF QuotaInv, ConfigInv, KeptInv, Lessees
          <6>2. i \in Lessees' => ~(ToSet(todo'[i]) \cap NewEnvs[u] \subseteq Suffix(u, k))
            BY <3>2, <5>2, <6>1
          <6>3. \A e : ~Holds(i, e)'
            BY <3>2 DEF Holds
          <6>4. QED
            BY <2>f, <6>2, <6>3 DEF in
        <5>4. From(u, k)' \subseteq From(u, k)
          BY <2>f, <2>l, <2>s, <3>1, <5>3
        <5>5. QED
          BY <2>m, <5>4
      <4>3. QED
        BY <4>1, <4>2
    <3>4. QED
      BY <2>g, <3>2, <3>3
  <2>6. ASSUME NEW i \in Invocations, TryReserve(i) PROVE SpreadInv(u)'
    <3> DEFINE e == Head(todo[i])
    <3>1. /\ pc[i] = "scan" /\ todo[i] # <<>> /\ todo[i] \in Seq(Envs)
          /\ UNCHANGED <<lease, unavailable>>
      BY <2>6, <2>t DEF TryReserve
    <3>2. \A j \in Invocations \ {i} : Stays(j)
      BY <2>6, <2>t DEF TryReserve, Reserve, Goto, Lessees, Holds
    <3>3. Lessees' = Lessees
      BY <3>1 DEF Lessees
    <3>4. CASE i \notin Lessees
      BY <2>0, <3>1, <3>2, <3>3, <3>4
    <3>5. CASE i \in Lessees
      <4>1. /\ Sorted(u, todo[i]) /\ ToSet(todo[i]) \subseteq Invocations \cup NewEnvs[u]
            /\ \E k \in 1..n + 1 : Left(i) = Suffix(u, k)
        BY <2>i, <3>1, <3>5 DEF OrderInv, Remaining, n
      <4>2. PICK k \in 1..n + 1 : Left(i) = Suffix(u, k)
        BY <4>1
      <4>3. e \in ToSet(todo[i]) /\ e \in Invocations \cup NewEnvs[u]
        BY <3>1, <4>1, SortedTail
      <4>4. /\ e \in Invocations => ToSet(Tail(todo[i])) \cap NewEnvs[u] = Suffix(u, k)
            /\ e \in NewEnvs[u] =>
                   k \in 1..n /\ e = q[k] /\ ToSet(Tail(todo[i])) \cap NewEnvs[u] = Suffix(u, k + 1)
        BY <3>1, <4>1, <4>2, NextOfSnapshot DEF n, q
      <4>5. \A m \in 1..n + 1 : m <= k => i \in From(u, m)
        BY <2>f, <2>n, <3>1, <3>5, <4>2 DEF in
      <4>6. lease[i] = "provisioned"
        BY <3>5 DEF Lessees
      <4> HIDE DEF e
      <4>7. CASE Kind(e) = lease[i] /\ Reserve(i, e)
        <5>1. e \in NewEnvs[u]
          BY <4>3, <4>6, <4>7 DEF Kind
        <5>2. pc'[i] = "reserved" /\ env'[i] = e
          BY <2>t, <4>7 DEF Reserve, Goto
        <5>3. \A m \in 1..n + 1 : i \in From(u, m)' => e \in Suffix(u, m)
          BY <2>f, <5>2 DEF in, Holds
        <5>4. \A m \in 1..n + 1 : e \in Suffix(u, m) => m <= k
          BY <2>n, <4>4, <5>1
        <5>5. \A m \in 1..n + 1 : From(u, m)' \subseteq From(u, m)
          BY <2>f, <2>l, <2>s, <3>2, <4>5, <5>3, <5>4
        <5>6. QED
          BY <2>g, <2>m, <3>1, <5>5
      <4>8. CASE /\ Kind(e) = lease[i] => ~Reservable(e)
                 /\ todo' = [todo EXCEPT ![i] = Tail(@)] /\ UNCHANGED <<status, env, pc>>
        <5>1. todo'[i] = Tail(todo[i]) /\ pc'[i] = "scan" /\ \A f : ~Holds(i, f)'
          BY <2>t, <3>1, <4>8 DEF Holds
        <5>2. \A m \in 1..n + 1 : i \in From(u, m)' => ToSet(Tail(todo[i])) \cap NewEnvs[u] \subseteq Suffix(u, m)
          BY <2>f, <5>1 DEF in
        <5>3. CASE e \in Invocations
          <6>1. \A m \in 1..n + 1 : i \in From(u, m)' => i \in From(u, m)
            BY <2>f, <3>1, <3>5, <4>2, <4>4, <5>2, <5>3 DEF in
          <6>2. \A m \in 1..n + 1 : From(u, m)' \subseteq From(u, m)
            BY <2>f, <2>l, <2>s, <3>2, <6>1
          <6>3. QED
            BY <2>g, <2>m, <3>1, <6>2
        <5>4. CASE e \in NewEnvs[u]
          <6>1. /\ k \in 1..n /\ k \in 1..n + 1 /\ k + 1 \in 1..n + 1
                /\ e = q[k] /\ ToSet(Tail(todo[i])) \cap NewEnvs[u] = Suffix(u, k + 1)
            BY <2>n, <4>4, <5>4
          <6>2. ~Reservable(e)
            BY <4>6, <4>8, <5>4 DEF Kind
          <6>3. PICK j \in Lessees : Holds(j, e)
            BY <1>2, <2>i, <3>5, <5>4, <6>2, BusyIsLeased
          <6>4. e \in Suffix(u, k) /\ e \notin Suffix(u, k + 1)
            BY <2>n, <6>1
          <6>5. j \in From(u, k) /\ j \notin From(u, k + 1) /\ j # i
            BY <2>f, <3>1, <6>3, <6>4 DEF in, Holds
          <6>6. ASSUME NEW m \in 1..n + 1, m # k + 1 PROVE From(u, m)' \subseteq From(u, m)
            <7>1. CASE m <= k
              BY <2>f, <2>l, <2>s, <3>2, <4>5, <7>1
            <7>2. CASE ~(m <= k)
              <8>1. k + 1 \in 1..n /\ ~(m <= k + 1)
                BY <2>n, <6>1, <6>6, <7>2
              <8>2. q[k + 1] \in Suffix(u, k + 1) /\ q[k + 1] \notin Suffix(u, m)
                BY <2>n, <6>1, <8>1
              <8>3. i \notin From(u, m)'
                BY <5>2, <6>1, <8>2
              <8>4. QED
                BY <2>f, <2>l, <2>s, <3>2, <8>3
            <7>3. QED
              BY <7>1, <7>2
          <6>7. Cardinality(From(u, k + 1)') <= n - (k + 1) + 1
            <7>1. \A x \in From(u, k + 1) : x \in From(u, k)
              <8>1. Suffix(u, k + 1) \subseteq Suffix(u, k)
                BY <2>n, <6>1
              <8>2. QED
                BY <2>f, <8>1 DEF in
            <7>2. i \in From(u, k)
              BY <2>n, <4>5, <6>1
            <7> DEFINE T == From(u, k + 1) \cup {i}
            <7>3. IsFiniteSet(T) /\ j \notin T
              BY <2>c, <6>5, FS_AddElement
            <7>4. Cardinality(T \cup {j}) = Cardinality(T) + 1
              BY <7>3, FS_AddElement
            <7>5. T \cup {j} \subseteq From(u, k)
              BY <6>5, <7>1, <7>2
            <7>6. Cardinality(T \cup {j}) <= Cardinality(From(u, k))
              BY <2>c, <7>5, FS_Subset
            <7>7. From(u, k + 1)' \subseteq T
              BY <2>f, <2>l, <2>s, <3>2, <6>1
            <7>8. Cardinality(From(u, k + 1)') <= Cardinality(T)
              BY <7>3, <7>7, FS_Subset
            <7>9. Cardinality(T) \in Nat
              BY <7>3, FS_CardinalityType
            <7>10. Cardinality(From(u, k)) <= n - k + 1
              BY <2>b, <6>1
            <7> HIDE DEF T
            <7>11. QED
              BY <2>c, <2>n, <6>1, <7>4, <7>6, <7>8, <7>9, <7>10
          <6>8. \A m \in 1..n + 1 : Cardinality(From(u, m)') <= n - m + 1
            BY <2>m, <6>6, <6>7
          <6>9. QED
            BY <2>g, <3>1, <6>8
        <5>5. QED
          BY <4>3, <5>3, <5>4
      <4>9. QED
        BY <2>6, <4>7, <4>8 DEF TryReserve, e
    <3>6. QED
      BY <3>4, <3>5
  <2>7. ASSUME NEW i \in Invocations, NoneAvailable(i) PROVE SpreadInv(u)'
    <3>1. i \in Lessees /\ pc[i] = "scan" /\ todo[i] = <<>>
      BY <2>7 DEF NoneAvailable, Lessees
    <3>2. Left(i) = {}
      BY <3>1 DEF ToSet
    <3>3. n + 1 \in 1..n + 1
      BY <2>n
    <3>4. i \in From(u, n + 1)
      BY <2>f, <3>1, <3>2 DEF in
    <3>5. Cardinality(From(u, n + 1)) = 0
      BY <2>b, <2>c, <2>n, <3>3
    <3>6. From(u, n + 1) = {}
      BY <2>c, <3>5, FS_EmptySet
    <3>7. QED
      BY <3>4, <3>6
  <2>8. ASSUME NEW i \in Invocations, StartOnDemand(i) PROVE SpreadInv(u)'
    <3>1. \A j \in Invocations : Stays(j)
      BY <2>8, <2>t DEF StartOnDemand, Goto, Lessees, Holds
    <3>2. QED
      BY <2>8, <2>0, <3>1 DEF StartOnDemand
  <2>9. ASSUME NEW i \in Invocations, StartOnDemandFailed(i) PROVE SpreadInv(u)'
    <3>1. \A j \in Invocations : Stays(j)
      BY <2>9, <2>t DEF StartOnDemandFailed, Goto, Lessees, Holds
    <3>2. QED
      BY <2>9, <2>0, <3>1 DEF StartOnDemandFailed
  <2>10. ASSUME NEW i \in Invocations, Register(i) PROVE SpreadInv(u)'
    <3>1. \A j \in Invocations : Stays(j)
      BY <2>10, <2>t DEF Register, Goto, Lessees, Holds
    <3>2. QED
      BY <2>10, <2>0, <3>1 DEF Register
  <2>11. ASSUME NEW i \in Invocations, ReserveNew(i) PROVE SpreadInv(u)'
    <3>1. \A j \in Invocations : Stays(j)
      BY <2>11, <2>t DEF ReserveNew, Goto, Reserve, Lessees, Holds
    <3>2. QED
      BY <2>11, <2>0, <3>1 DEF ReserveNew
  <2>12. ASSUME NEW i \in Invocations, CancelKeepalive(i) PROVE SpreadInv(u)'
    <3>1. \A j \in Invocations : Stays(j)
      BY <2>12, <2>t DEF CancelKeepalive, Goto, Lessees, Holds
    <3>2. QED
      BY <2>12, <2>0, <3>1 DEF CancelKeepalive
  <2>13. ASSUME NEW i \in Invocations, InvokeEnvironment(i) PROVE SpreadInv(u)'
    <3>1. \A j \in Invocations : Stays(j)
      BY <2>13, <2>t DEF InvokeEnvironment, Goto, Lessees, Holds
    <3>2. QED
      BY <2>13, <2>0, <3>1 DEF InvokeEnvironment
  <2>14. ASSUME NEW i \in Invocations, InvocationEnds(i) PROVE SpreadInv(u)'
    <3>1. \A j \in Invocations : Stays(j)
      BY <2>14, <2>t DEF InvocationEnds, Goto, Lessees, Holds
    <3>2. QED
      BY <2>14, <2>0, <3>1 DEF InvocationEnds
  <2>15. ASSUME NEW i \in Invocations, Release(i) PROVE SpreadInv(u)'
    <3>1. \A j \in Invocations : Stays(j)
      BY <2>15, <2>t DEF Release, Goto, AfterRelease, Lessees, Holds
    <3>2. QED
      BY <2>15, <2>0, <3>1 DEF Release
  <2>16. ASSUME NEW i \in Invocations, NewKeepalive(i) PROVE SpreadInv(u)'
    <3>1. \A j \in Invocations : Stays(j)
      BY <2>16, <2>t DEF NewKeepalive, Goto, Lessees, Holds
    <3>2. QED
      BY <2>16, <2>0, <3>1 DEF NewKeepalive
  <2>17. ASSUME NEW i \in Invocations, ArmKeepalive(i) PROVE SpreadInv(u)'
    <3>1. \A j \in Invocations : Stays(j)
      BY <2>17, <2>t DEF ArmKeepalive, Goto, Lessees, Holds
    <3>2. QED
      BY <2>17, <2>0, <3>1 DEF ArmKeepalive
  <2>18. ASSUME NEW i \in Invocations, HandleFailure(i) PROVE SpreadInv(u)'
    <3>1. \A j \in Invocations : Stays(j)
      BY <2>18, <2>t DEF HandleFailure, Goto, Lessees, Holds
    <3>2. QED
      BY <2>18, <2>0, <3>1 DEF HandleFailure
  <2>19. ASSUME NEW i \in Invocations, FailureHandled(i) PROVE SpreadInv(u)'
    <3>1. \A j \in Invocations : Stays(j)
      BY <2>19, <2>t DEF FailureHandled, Goto, Lessees, Holds
    <3>2. QED
      BY <2>19, <2>0, <3>1 DEF FailureHandled
  <2>20. ASSUME NEW i \in Invocations, ReturnLease(i) PROVE SpreadInv(u)'
    <3>1. \A j \in Invocations : Stays(j)
      BY <2>20, <2>t DEF ReturnLease, Goto, Lessees, Holds
    <3>2. QED
      BY <2>20, <2>0, <3>1 DEF ReturnLease
  <2>21. ASSUME NEW i \in Invocations, KeepalivePassed(i) PROVE SpreadInv(u)'
    <3>1. UNCHANGED <<pc, lease, todo, env, unavailable>>
      BY <2>21 DEF KeepalivePassed
    <3>2. QED
      BY <2>0, <2>u, <3>1
  <2>22. ASSUME NEW e \in Envs, StartBegins(e) PROVE SpreadInv(u)'
    <3>1. UNCHANGED <<pc, lease, todo, env, unavailable>>
      BY <2>22 DEF StartBegins
    <3>2. QED
      BY <2>0, <2>u, <3>1
  <2>23. ASSUME NEW e \in Envs, CreateContainer(e) PROVE SpreadInv(u)'
    <3>1. UNCHANGED <<pc, lease, todo, env, unavailable>>
      BY <2>23 DEF CreateContainer
    <3>2. QED
      BY <2>0, <2>u, <3>1
  <2>24. ASSUME NEW e \in Envs, StartSucceeds(e) PROVE SpreadInv(u)'
    <3>1. UNCHANGED <<pc, lease, todo, env, unavailable>>
      BY <2>24 DEF StartSucceeds
    <3>2. QED
      BY <2>0, <2>u, <3>1
  <2>25. ASSUME NEW e \in Envs, StartFails(e) PROVE SpreadInv(u)'
    <3>1. UNCHANGED <<pc, lease, todo, env, unavailable>>
      BY <2>25 DEF StartFails
    <3>2. QED
      BY <2>0, <2>u, <3>1
  <2>26. ASSUME NEW e \in Envs, ContainerReports(e) PROVE SpreadInv(u)'
    <3>1. UNCHANGED <<pc, lease, todo, env, unavailable>>
      BY <2>26 DEF ContainerReports
    <3>2. QED
      BY <2>0, <2>u, <3>1
  <2>27. ASSUME NEW e \in Envs, CreateFails(e) PROVE SpreadInv(u)'
    <3>1. UNCHANGED <<pc, lease, todo, env, unavailable>>
      BY <2>27 DEF CreateFails
    <3>2. QED
      BY <2>0, <2>u, <3>1
  <2>28. ASSUME NEW e \in Envs, StartupTimesOut(e) PROVE SpreadInv(u)'
    <3>1. UNCHANGED <<pc, lease, todo, env, unavailable>>
      BY <2>28 DEF StartupTimesOut
    <3>2. QED
      BY <2>0, <2>u, <3>1
  <2>29. ASSUME NEW e \in Envs, TimeoutHalts(e) PROVE SpreadInv(u)'
    <3>1. UNCHANGED <<pc, lease, todo, env, unavailable>>
      BY <2>29 DEF TimeoutHalts
    <3>2. QED
      BY <2>0, <2>u, <3>1
  <2>30. ASSUME NEW s \in stops, StopBegins(s) PROVE SpreadInv(u)'
    <3>1. UNCHANGED <<pc, lease, todo, env, unavailable>>
      BY <2>30 DEF StopBegins
    <3>2. QED
      BY <2>0, <2>u, <3>1
  <2>31. ASSUME NEW s \in stops, StopHalts(s) PROVE SpreadInv(u)'
    <3>1. UNCHANGED <<pc, lease, todo, env, unavailable>>
      BY <2>31 DEF StopHalts
    <3>2. QED
      BY <2>0, <2>u, <3>1
  <2>32. ASSUME NEW s \in stops, StopRemoves(s) PROVE SpreadInv(u)'
    <3>1. UNCHANGED <<pc, lease, todo, env, unavailable>>
      BY <2>32 DEF StopRemoves
    <3>2. QED
      BY <2>0, <2>u, <3>1
  <2>33. ASSUME NEW v \in Updates, Configure(v) PROVE SpreadInv(u)'
    <3>1. UNCHANGED <<pc, lease, todo, env, unavailable>>
      BY <2>33 DEF Configure
    <3>2. QED
      BY <2>0, <2>u, <3>1
  <2>34. ASSUME NEW v \in Updates, BeginUpdate(v) PROVE SpreadInv(u)'
    <3>1. UNCHANGED <<pc, lease, todo, env, unavailable>>
      BY <2>34 DEF BeginUpdate
    <3>2. QED
      BY <2>0, <2>u, <3>1
  <2>35. ASSUME NEW v \in Updates, Scale(v) PROVE SpreadInv(u)'
    <3>1. UNCHANGED <<pc, lease, todo, env, unavailable>>
      BY <2>35 DEF Scale
    <3>2. QED
      BY <2>0, <2>u, <3>1
  <2>36. ASSUME NEW v \in Updates, FinishUpdate(v) PROVE SpreadInv(u)'
    <3>1. UNCHANGED <<pc, lease, todo, env, unavailable>>
      BY <2>36 DEF FinishUpdate
    <3>2. QED
      BY <2>0, <2>u, <3>1
  <2>37. CASE Shutdown
    <3>1. UNCHANGED <<pc, lease, todo, env, unavailable>>
      BY <2>37 DEF Shutdown
    <3>2. QED
      BY <2>0, <2>u, <3>1
  <2>38. CASE StopEnvironments
    <3>1. UNCHANGED <<pc, lease, todo, env, unavailable>>
      BY <2>38 DEF StopEnvironments
    <3>2. QED
      BY <2>0, <2>u, <3>1
  <2>39. CASE UNCHANGED vars
    <3>1. UNCHANGED <<pc, lease, todo, env, unavailable>>
      BY <2>39 DEF vars
    <3>2. QED
      BY <2>0, <2>u, <3>1
  <2>40. QED
    BY <2>1, <2>2, <2>3, <2>4, <2>5, <2>6, <2>7, <2>8, <2>9, <2>10, <2>11, <2>12,
       <2>13, <2>14, <2>15, <2>16, <2>17, <2>18, <2>19, <2>20, <2>21, <2>22, <2>23,
       <2>24, <2>25, <2>26, <2>27, <2>28, <2>29, <2>30, <2>31, <2>32, <2>33, <2>34,
       <2>35, <2>36, <2>37, <2>38, <2>39,
       <1>2, Zenon DEF Next, Invocation, Start, StartupTimer, Stop, Update
<1>3. QED
  BY <1>1, <1>2, TypeInvHolds, StartInvHolds, UseInvHolds, GrantInvHolds, FirstInvHolds, FirstKeptHolds,
     FirstSortedHolds, PTL DEF Spec

\* A provisioned lease is worth an environment: as long as the configuration was not
\* changed a second time and the version runs, no invocation with a lease scans the
\* dict in vain, although nothing keeps the environments it has passed from becoming
\* free and those ahead of it from being taken.
THEOREM LeasesServed == Spec => []LeaseServed
<1>1. GrantInv /\ FirstServed => LeaseServed
  <2> SUFFICES ASSUME GrantInv, FirstServed, unavailable # {}, version = "running",
                      ~(Cardinality(Started) > 1)
               PROVE  FALSE
    BY DEF LeaseServed, Started
  <2>1. IsFiniteSet(Started) /\ Updates # {}
    BY DEF GrantInv
  <2>2. Cardinality(Started) = 0 \/ Cardinality(Started) = 1
    BY <2>1, FS_CardinalityType
  <2>3. Started = {} \/ \E u : Started = {u}
    BY <2>1, <2>2, FS_EmptySet, FS_Singleton
  <2>4. \E u \in Updates : Sole(u)
    BY <2>1, <2>3 DEF Sole, Started
  <2>5. QED
    BY <2>4 DEF FirstServed, SpreadInv
<1>2. QED
  BY <1>1, GrantInvHolds, FirstServedHolds, PTL

================================================================================

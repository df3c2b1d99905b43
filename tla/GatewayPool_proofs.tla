------------------------- MODULE GatewayPool_proofs -------------------------
(***************************************************************************)
(* Proofs that the gateway's pool holds each scheduler once, that a        *)
(* request tries no address twice, and that it sets out to try every       *)
(* healthy one, for any addresses, schedulers, requests and DNS answers.   *)
(***************************************************************************)
EXTENDS GatewayPool, FiniteSetTheorems, SequenceTheorems, WellFoundedInduction, TLAPS

\* Most leaves are first-order: Zenon is tried unless a leaf names another prover.
USE Zenon

\* What the goroutine of the pool holds: DNS gives IP addresses, and under the lock
\* no entry that is still to be probed can leave the pool.
PoolInv ==
    /\ pool \in [Addresses -> {"absent", "unhealthy", "healthy"}]
    /\ dns \subseteq Addresses \ HostNames /\ misses \in Nat
    /\ loop \in [step : {"rest", "merge", "probe"}, found : SUBSET (Addresses \ HostNames),
                 todo : SUBSET Addresses]
    /\ locked => loop.todo \subseteq Members
    /\ OneEntryPerScheduler

\* The configured entries are the first members.
LEMMA PoolStarts == Init => PoolInv
BY PoolAssumption, AddressAssumption, SMT
   DEF Init, PoolInv, Resting, locked, Members, OneEntryPerScheduler

\* discoverAndMerge, when every host name is resolved, adds no second name of a member
\* and no two names of one scheduler.
LEMMA MergeKeepsOne ==
    ASSUME PoolInv, misses = 0, NEW found \in SUBSET (Addresses \ HostNames),
           NEW a \in Addresses, NEW b \in Addresses,
           merged(found, HostNames)[a] # "absent", merged(found, HostNames)[b] # "absent",
           Instance[a] = Instance[b]
    PROVE  a = b
<1> DEFINE known == UNION {canonicalAddressKeys(c, HostNames) : c \in Members}
           new(c) == c \in found \ Static /\ c \notin known
<1>1. ASSUME NEW c \in Addresses, merged(found, HostNames)[c] # "absent"
      PROVE  c \in Members \/ (new(c) /\ c \notin Members)
    BY <1>1 DEF merged, Members
<1>2. ASSUME NEW c \in Addresses, NEW d \in Members, new(c), Instance[c] = Instance[d]
      PROVE  c = d
    <2>1. c \in Addresses \ HostNames /\ d \in Addresses
        BY <1>2 DEF Members
    <2>2. CASE d \in HostNames
        <3>1. c \in canonicalAddressKeys(d, HostNames)
            BY <1>2, <2>1, <2>2 DEF canonicalAddressKeys
        <3> QED BY <1>2, <3>1
    <2>3. CASE d \notin HostNames
        BY <1>2, <2>1, <2>3, AddressAssumption
    <2> QED BY <2>2, <2>3
<1>3. ASSUME new(a), new(b) PROVE a = b
    BY <1>3, AddressAssumption
<1>4. ASSUME a \in Members, b \in Members PROVE a = b
    BY <1>4 DEF PoolInv, OneEntryPerScheduler
<1> HIDE DEF new
<1> QED BY <1>1, <1>2, <1>3, <1>4

\* Steps that leave the entries of the pool as members or as absent as they were.
LEMMA MembersKeep ==
    ASSUME PoolInv, Members' = Members, misses' = misses PROVE OneEntryPerScheduler'
BY DEF PoolInv, OneEntryPerScheduler

\* Probes, discoveries, requests, failures and changes of DNS keep the invariant.
LEMMA PoolKeeps == PoolInv /\ [Next]_vars => PoolInv'
<1> SUFFICES ASSUME PoolInv, [Next]_vars PROVE PoolInv'
    OBVIOUS
<1>1. ASSUME NEW resolved \in SUBSET HostNames, discoverAndMerge(resolved) PROVE PoolInv'
    <2>1. /\ loop.found \in SUBSET (Addresses \ HostNames) /\ pool' = merged(loop.found, resolved)
          /\ dns' = dns /\ loop' = Resting /\ misses' \in Nat
          /\ misses' = 0 => misses = 0 /\ resolved = HostNames
        BY <1>1, SMT DEF discoverAndMerge, PoolInv
    <2>2. pool' \in [Addresses -> {"absent", "unhealthy", "healthy"}]
        BY <2>1 DEF PoolInv, merged
    <2>3. OneEntryPerScheduler'
        BY <2>1, MergeKeepsOne, SMT DEF OneEntryPerScheduler, Members
    <2> QED BY <2>1, <2>2, <2>3 DEF PoolInv, Resting, locked
<1>2. ASSUME NEW a \in Addresses, checkInstanceHealth(a) PROVE PoolInv'
    <2>1. a \in Members /\ locked /\ a \in loop.todo
        BY <1>2 DEF checkInstanceHealth, PoolInv
    <2>2. /\ pool' \in [Addresses -> {"absent", "unhealthy", "healthy"}] /\ Members' = Members
          /\ UNCHANGED <<dns, misses>>
        BY <1>2, <2>1 DEF checkInstanceHealth, PoolInv, Members
    <2>3. loop' = Resting \/ loop' = [loop EXCEPT !.todo = @ \ {a}]
        BY <1>2 DEF checkInstanceHealth
    <2> QED BY <2>2, <2>3, MembersKeep, SMT DEF PoolInv, Resting, locked
<1>3. ASSUME NEW r \in Requests, MarkUnhealthy(r) PROVE PoolInv'
    <2>1. /\ pool' \in [Addresses -> {"absent", "unhealthy", "healthy"}] /\ Members' = Members
          /\ UNCHANGED <<dns, loop, misses>>
        BY <1>3 DEF MarkUnhealthy, PoolInv, Members
    <2> QED BY <2>1, MembersKeep DEF PoolInv, locked
<1>4. CASE discoverSchedulers \/ refreshHealth
    <2>1. Members' = Members /\ UNCHANGED <<pool, dns, misses>>
        BY <1>4 DEF discoverSchedulers, refreshHealth, Members
    <2>2. \/ loop.step = "rest" /\ loop' = [loop EXCEPT !.step = "merge", !.found = dns]
          \/ loop' = [loop EXCEPT !.step = "probe", !.todo = Members]
        BY <1>4 DEF discoverSchedulers, refreshHealth
    <2>3. Members \subseteq Addresses
        BY DEF Members
    <2>4. /\ loop' \in [step : {"rest", "merge", "probe"}, found : SUBSET (Addresses \ HostNames),
                        todo : SUBSET Addresses]
          /\ loop'.step = "probe" => loop'.todo \subseteq Members
        <3>1. CASE loop' = [loop EXCEPT !.step = "merge", !.found = dns]
            BY <3>1 DEF PoolInv
        <3>2. CASE loop' = [loop EXCEPT !.step = "probe", !.todo = Members]
            <4> DEFINE ms == Members
            <4>1. loop' = [loop EXCEPT !.step = "probe", !.todo = ms] /\ ms \subseteq Addresses
                BY <2>3, <3>2
            <4> HIDE DEF ms
            <4>2. loop' \in [step : {"rest", "merge", "probe"},
                            found : SUBSET (Addresses \ HostNames), todo : SUBSET Addresses]
                BY <4>1 DEF PoolInv
            <4>3. loop'.todo = ms
                BY <4>1 DEF PoolInv
            <4> QED BY <4>2, <4>3 DEF ms
        <3> QED BY <2>2, <3>1, <3>2
    <2>5. OneEntryPerScheduler'
        BY <2>1, MembersKeep
    <2> QED BY <2>1, <2>4, <2>5 DEF PoolInv, locked
<1>5. ASSUME UNCHANGED <<pool, loop, misses>>, dns' \subseteq Addresses \ HostNames PROVE PoolInv'
    BY <1>5 DEF PoolInv, locked, Members, OneEntryPerScheduler
<1>6. ASSUME NEW r \in Requests, OrderedSchedulers(r) \/ called(r) \/ callFails(r) PROVE PoolInv'
    BY <1>5, <1>6 DEF OrderedSchedulers, called, callFails, PoolInv
<1>7. ASSUME NEW i \in Instances, SchedulerDown(i) \/ SchedulerUp(i) PROVE PoolInv'
    BY <1>5, <1>7 DEF SchedulerDown, SchedulerUp, PoolInv
<1>8. ASSUME NEW answer \in SUBSET (Addresses \ HostNames), DNSChanges(answer) PROVE PoolInv'
    BY <1>5, <1>8 DEF DNSChanges
<1>9. CASE UNCHANGED vars
    BY <1>5, <1>9 DEF vars, PoolInv
<1> QED BY <1>1, <1>2, <1>3, <1>4, <1>6, <1>7, <1>8, <1>9 DEF Next, Probes, Discovers, Proceeds

\* For any addresses and DNS answers: as long as the lookups of host names succeed,
\* no scheduler is in the pool under two addresses.
THEOREM SchedulerPooledOnce == Spec => []OneEntryPerScheduler
<1>1. PoolInv => OneEntryPerScheduler
    BY DEF PoolInv
<1> QED BY <1>1, PoolStarts, PoolKeeps, PTL DEF Spec

----------------------------------------------------------------------------
\* The candidates of a request

\* Induction over the naturals, for a set.
LEMMA NatInSet == ASSUME NEW S, 0 \in S, \A n \in S : n + 1 \in S PROVE Nat \subseteq S
<1> SUFFICES ASSUME Nat \ S # {} PROVE FALSE
    OBVIOUS
<1>1. PICK n \in Nat \ S : \A m \in Nat \ S : ~ (<<m, n>> \in OpToRel(<, Nat))
    BY NatLessThanWellFounded, WFMin
<1>2. \A m \in Nat \ S : ~ (m < n)
    BY <1>1 DEF OpToRel
<1>3. n # 0 /\ n - 1 \in Nat /\ n - 1 < n /\ (n - 1) + 1 = n
    BY SMT
<1> QED BY <1>2, <1>3

\* The first n addresses by entry ID, and what it means that s is S in that order.
FirstByID(n) == {Order[i] : i \in {k \in DOMAIN Order : k <= n}}
InOrder(s, S) ==
    /\ s \in [1..Cardinality(S) -> S]
    /\ \A i, j \in 1..Cardinality(S) : i < j => before(s[i], s[j])

\* Every set of addresses is finite and can be put in order.
LEMMA OrderExists ==
    ASSUME NEW S \in SUBSET Addresses PROVE IsFiniteSet(S) /\ \E s : InOrder(s, S)
<1> DEFINE G == {n \in Nat : \A R \in SUBSET FirstByID(n) : IsFiniteSet(R) /\ \E s : InOrder(s, R)}
<1>1. 0 \in G
    <2> SUFFICES ASSUME NEW R \in SUBSET FirstByID(0) PROVE IsFiniteSet(R) /\ \E s : InOrder(s, R)
        OBVIOUS
    <2>1. DOMAIN Order = 1..Len(Order) /\ Len(Order) \in Nat
        BY PoolAssumption, LenProperties
    <2>2. R = {}
        BY <2>1, SMT DEF FirstByID
    <2>3. IsFiniteSet(R) /\ Cardinality(R) = 0
        BY <2>2, FS_EmptySet
    <2>4. InOrder(<<>>, R)
        BY <2>2, <2>3, SMT DEF InOrder
    <2> QED BY <2>3, <2>4
<1>2. ASSUME NEW n \in G PROVE n + 1 \in G
    <2> SUFFICES ASSUME NEW R \in SUBSET FirstByID(n + 1)
                 PROVE  IsFiniteSet(R) /\ \E s : InOrder(s, R)
        BY SMT
    <2>1. DOMAIN Order = 1..Len(Order) /\ Len(Order) \in Nat /\ n \in Nat
        BY PoolAssumption, LenProperties
    <2>2. CASE R \subseteq FirstByID(n)
        BY <2>2
    <2>3. CASE ~(R \subseteq FirstByID(n))
        <3> DEFINE a == Order[n + 1]  T == R \ {a}
        <3>1. n + 1 \in DOMAIN Order /\ a \in R /\ T \subseteq FirstByID(n)
            BY <2>1, <2>3, SMT DEF FirstByID
        <3>2. IsFiniteSet(T) /\ \E s : InOrder(s, T)
            BY <3>1
        <3>3. PICK s : InOrder(s, T)
            BY <3>2
        <3>4. R = T \cup {a} /\ a \notin T
            BY <3>1
        <3> DEFINE c == Cardinality(T)
        <3>5. IsFiniteSet(R) /\ c \in Nat /\ Cardinality(R) = c + 1
            <4> HIDE DEF a, T
            <4>1. IsFiniteSet(T \cup {a}) /\ Cardinality(T \cup {a}) = Cardinality(T) + 1
                BY <3>2, <3>4, FS_AddElement
            <4> QED BY <3>2, <3>4, <4>1, FS_CardinalityType
        <3> DEFINE t == [k \in 1..(c + 1) |-> IF k = c + 1 THEN a ELSE s[k]]
        <3>6. \A b \in T : before(b, a)
            BY <2>1, <3>1, SMT DEF FirstByID, before
        <3>7. s \in [1..c -> T] /\ \A k, j \in 1..c : k < j => before(s[k], s[j])
            BY <3>3 DEF InOrder
        <3> HIDE DEF a, T, c
        <3>8. t \in [1..(c + 1) -> R]
            BY <3>4, <3>5, <3>7, SMT
        <3>9. ASSUME NEW k \in 1..(c + 1), NEW j \in 1..(c + 1), k < j PROVE before(t[k], t[j])
            <4>1. k \in 1..c /\ t[k] = s[k] /\ s[k] \in T
                BY <3>5, <3>7, <3>9, SMT
            <4>2. CASE j = c + 1
                BY <3>6, <4>1, <4>2
            <4>3. CASE j # c + 1
                <5>1. j \in 1..c /\ t[j] = s[j]
                    BY <3>5, <4>3, SMT
                <5> QED BY <3>7, <3>9, <4>1, <5>1
            <4> QED BY <4>2, <4>3
        <3>10. InOrder(t, R)
            BY <3>5, <3>8, <3>9 DEF InOrder
        <3> QED BY <3>5, <3>10
    <2> QED BY <2>2, <2>3
<1> HIDE DEF G
<1>3. Nat \subseteq G
    BY <1>1, <1>2, NatInSet
<1>4. Len(Order) \in Nat /\ Len(Order) \in G
    BY <1>3, PoolAssumption, LenProperties
<1>5. S \subseteq FirstByID(Len(Order))
    BY PoolAssumption, LenProperties, SMT DEF FirstByID, Addresses, ToSet
<1> QED BY <1>4, <1>5 DEF G

\* A list of members of a finite set without repetition, as long as the set is
\* large, holds every member.
LEMMA FullList ==
    ASSUME NEW S, IsFiniteSet(S), NEW s \in Seq(S), IsInjective(s), Len(s) = Cardinality(S)
    PROVE  ToSet(s) = S
<1> DEFINE n == Len(s)
<1>1. n \in Nat /\ DOMAIN s = 1..n /\ s \in [1..n -> S]
    BY LenProperties, SMT
<1> HIDE DEF n
<1>2. s \in Injection(1..n, S)
    BY <1>1 DEF Injection, IsInjective
<1>3. Cardinality(1..n) = n
    <2>1. 1 \in Int /\ n \in Int
        BY <1>1, SMT
    <2>2. Cardinality(1..n) = IF 1 > n THEN 0 ELSE n - 1 + 1
        BY <2>1, FS_Interval
    <2> QED BY <1>1, <2>2, SMT
<1>4. s \in Surjection(1..n, S)
    <2>1. Cardinality(1..n) = Cardinality(S) <=> s \in Surjection(1..n, S)
        BY <1>2, FS_Injection
    <2> QED BY <1>3, <2>1 DEF n
<1> QED BY <1>1, <1>4 DEF Surjection, ToSet

\* What sort.SliceStable yields: the members of the set, each of them once.
LEMMA ByIDLists ==
    ASSUME NEW S \in SUBSET Addresses
    PROVE  /\ byID(S) \in Seq(S) /\ Len(byID(S)) = Cardinality(S) /\ IsInjective(byID(S))
           /\ ToSet(byID(S)) = S /\ IsFiniteSet(S)
           /\ Cardinality(S) \in Nat /\ (Cardinality(S) = 0 <=> S = {})
<1>1. IsFiniteSet(S) /\ \E s : InOrder(s, S)
    BY OrderExists
<1>2. Cardinality(S) \in Nat /\ (Cardinality(S) = 0 <=> S = {})
    BY <1>1, FS_CardinalityType, FS_EmptySet
<1>3. InOrder(byID(S), S)
    BY <1>1 DEF byID, InOrder
<1> DEFINE s == byID(S)  c == Cardinality(S)
<1>4. s \in [1..c -> S] /\ \A i, j \in 1..c : i < j => before(s[i], s[j])
    BY <1>3 DEF InOrder
<1> HIDE DEF s, c
<1>5. s \in Seq(S) /\ Len(s) = c
    BY <1>2, <1>4, SMT DEF c
<1>6. \A a : ~before(a, a)
    BY PoolAssumption, LenProperties, SMT DEF before, IsInjective
<1>7. IsInjective(s)
    <2> SUFFICES ASSUME NEW i \in 1..c, NEW j \in 1..c, s[i] = s[j] PROVE i = j
        BY <1>4 DEF IsInjective
    <2>1. ~(i < j) /\ ~(j < i)
        BY <1>4, <1>6
    <2> QED BY <2>1, <1>2, SMT DEF c
<1>8. ToSet(s) = S
    BY <1>1, <1>5, <1>7, FullList DEF c
<1> QED BY <1>1, <1>2, <1>5, <1>7, <1>8 DEF s, c

\* rotateByIndex moves the head of the list behind its tail and loses or repeats nothing.
LEMMA RotationLists ==
    ASSUME NEW A, NEW s \in Seq(A), IsInjective(s), NEW i \in Nat, i < Len(s)
    PROVE  /\ rotateByIndex(s, i) \in Seq(A) /\ IsInjective(rotateByIndex(s, i))
           /\ Len(rotateByIndex(s, i)) = Len(s)
<1> DEFINE n == Len(s)  p == SubSeq(s, i + 1, n)  q == SubSeq(s, 1, i)  t == rotateByIndex(s, i)
<1>1. n \in Nat /\ DOMAIN s = 1..n
    BY LenProperties
<1>2. p \in Seq(A) /\ Len(p) = n - i /\ \A k \in 1..(n - i) : p[k] = s[k + i]
    <2>1. i + 1 \in Int /\ n \in Int /\ i + 1 <= n /\ \A k \in (i + 1)..n : s[k] \in A
        BY <1>1, ElementOfSeq, SMT
    <2> HIDE DEF n
    <2>2. p \in Seq(A) /\ Len(p) = n - i
        <3>1. SubSeq(s, i + 1, n) \in Seq(A)
            BY <2>1, SubSeqProperties
        <3>2. Len(SubSeq(s, i + 1, n)) = n - (i + 1) + 1
            BY <2>1, SubSeqProperties
        <3> QED BY <1>1, <3>1, <3>2, SMT
    <2> USE DEF n
    <2>3. ASSUME NEW k \in 1..(n - i) PROVE p[k] = s[k + i]
        BY <1>1, SMT
    <2> QED BY <2>2, <2>3
<1>3. q \in Seq(A) /\ Len(q) = i /\ \A k \in 1..i : q[k] = s[k]
    BY <1>1, SubSeqProperties, SMT
<1> HIDE DEF n, p, q
<1>4. t = p \o q
    BY DEF rotateByIndex, p, q, n
<1>5. /\ t \in Seq(A) /\ Len(t) = n
      /\ \A k \in 1..n : t[k] = IF k <= n - i THEN p[k] ELSE q[k - (n - i)]
    <2>1. /\ p \o q \in Seq(A) /\ Len(p \o q) = Len(p) + Len(q)
          /\ \A k \in 1..Len(p) + Len(q) :
                (p \o q)[k] = IF k <= Len(p) THEN p[k] ELSE q[k - Len(p)]
        BY <1>2, <1>3, ConcatProperties
    <2> HIDE DEF t
    <2> QED BY <1>1, <1>2, <1>3, <1>4, <2>1, SMT
<1> USE DEF t
<1> DEFINE at(k) == IF k <= n - i THEN k + i ELSE k - (n - i)
<1>6. i < n
    BY DEF n
<1>7. ASSUME NEW k \in 1..n PROVE at(k) \in 1..n /\ t[k] = s[at(k)]
    <2>1. CASE k <= n - i
        BY <1>1, <1>2, <1>5, <1>6, <2>1, SMT
    <2>2. CASE ~(k <= n - i)
        <3>1. k - (n - i) \in 1..i
            BY <1>1, <1>6, <2>2, SMT
        <3>2. t[k] = q[k - (n - i)]
            BY <1>5, <2>2
        <3> QED BY <1>1, <1>3, <1>6, <2>2, <3>1, <3>2, SMT
    <2> QED BY <2>1, <2>2
<1>8. ASSUME NEW j \in 1..n, NEW k \in 1..n, at(j) = at(k) PROVE j = k
    BY <1>1, <1>6, <1>8, SMT
<1>9. DOMAIN t = 1..n
    BY <1>5, LenProperties
<1> HIDE DEF at, t
<1>10. \A j, k \in 1..n : t[j] = t[k] => j = k
    BY <1>1, <1>7, <1>8, ZenonT(30) DEF IsInjective
<1> QED BY <1>5, <1>9, <1>10, ZenonT(30) DEF IsInjective, t, n

\* OrderedSchedulers lists every healthy entry, none twice, and under leader-only
\* the leader before the others.
LEMMA OrderedLists ==
    ASSUME healthy # {}, NEW i \in 0..Cardinality(healthy) - 1
    PROVE  /\ Ordered(i) \in Seq(Addresses) /\ IsInjective(Ordered(i)) /\ Ordered(i) # <<>>
           /\ ToSet(Ordered(i)) = healthy
           /\ strategy = "leader-only" /\ Leader \in healthy => Head(Ordered(i)) = Leader
<1>1. healthy \in SUBSET Addresses
    BY DEF healthy
<1> DEFINE s == byID(healthy)
<1>2. /\ s \in Seq(Addresses) /\ IsInjective(s) /\ Len(s) = Cardinality(healthy)
      /\ Len(s) \in Nat /\ Len(s) # 0
    BY <1>1, ByIDLists, SeqMonotonic, SMT
<1>6. s \in Seq(healthy) /\ ToSet(s) = healthy /\ IsFiniteSet(healthy)
    BY <1>1, ByIDLists
<1>3. CASE strategy # "leader-only"
    <2>1. i \in Nat /\ i < Len(s)
        BY <1>2, SMT
    <2> DEFINE t == rotateByIndex(s, i)
    <2>2. t \in Seq(healthy) /\ IsInjective(t) /\ Len(t) = Len(s)
        BY <1>2, <1>6, <2>1, RotationLists
    <2>3. Ordered(i) = t
        BY <1>3 DEF Ordered
    <2> HIDE DEF s, t
    <2>4. t \in Seq(Addresses) /\ t # <<>>
        BY <1>1, <1>2, <2>2, SeqMonotonic, SMT
    <2>5. ToSet(t) = healthy
        BY <1>2, <1>6, <2>2, FullList
    <2> QED BY <1>3, <2>2, <2>3, <2>4, <2>5
<1>4. CASE strategy = "leader-only" /\ Leader \in healthy
    <2> DEFINE u == byID(healthy \ {Leader})  t == <<Leader>> \o u
    <2>1. /\ u \in Seq(healthy \ {Leader}) /\ IsInjective(u) /\ ToSet(u) = healthy \ {Leader}
        BY <1>1, ByIDLists
    <2>2. u \in Seq(Addresses) /\ <<Leader>> \in Seq(Addresses)
        BY <1>1, <1>4, <2>1, SeqMonotonic, SMT
    <2>3. Ordered(i) = t
        BY <1>4 DEF Ordered
    <2> HIDE DEF u
    <2>4. /\ t \in Seq(Addresses) /\ Len(t) = Len(u) + 1 /\ Len(u) \in Nat
          /\ \A k \in 1..(Len(u) + 1) : t[k] = IF k = 1 THEN Leader ELSE u[k - 1]
        BY <2>2, SMT
    <2>5. \A k \in 1..Len(u) : u[k] # Leader
        BY <2>1, ElementOfSeq, SMT
    <2> HIDE DEF t
    <2>6. DOMAIN t = 1..(Len(u) + 1) /\ DOMAIN u = 1..Len(u)
        BY <2>1, <2>4, LenProperties
    <2>7. IsInjective(t)
        <3> SUFFICES ASSUME NEW j \in 1..(Len(u) + 1), NEW k \in 1..(Len(u) + 1), t[j] = t[k]
                     PROVE  j = k
            BY <2>6 DEF IsInjective
        <3>1. \A m \in 1..(Len(u) + 1) : m # 1 => m - 1 \in 1..Len(u) /\ t[m] = u[m - 1]
            BY <2>4, SMT
        <3>2. CASE j = 1 \/ k = 1
            BY <2>4, <2>5, <3>1, <3>2, ZenonT(30)
        <3>3. CASE j # 1 /\ k # 1
            <4>1. j - 1 = k - 1
                BY <2>1, <2>6, <3>1, <3>3 DEF IsInjective
            <4> QED BY <4>1, SMT
        <3> QED BY <3>2, <3>3
    <2>8. t # <<>> /\ Head(t) = Leader
        BY <2>4, SMT
    <2>9. ToSet(t) = {Leader} \cup ToSet(u)
        <3>1. /\ 1 \in DOMAIN t /\ t[1] = Leader
              /\ \A k \in DOMAIN t : k # 1 => k - 1 \in DOMAIN u /\ t[k] = u[k - 1]
              /\ \A k \in DOMAIN u : k + 1 \in DOMAIN t /\ t[k + 1] = u[k]
            BY <2>4, <2>6, SMT
        <3>2. ASSUME NEW k \in DOMAIN t PROVE t[k] \in {Leader} \cup ToSet(u)
            BY <3>1 DEF ToSet
        <3>3. ASSUME NEW k \in DOMAIN u PROVE u[k] \in ToSet(t)
            BY <3>1 DEF ToSet
        <3>4. Leader \in ToSet(t)
            BY <3>1 DEF ToSet
        <3>5. ToSet(t) \subseteq {Leader} \cup ToSet(u)
            <4> DEFINE B == {Leader} \cup ToSet(u)
            <4> SUFFICES ASSUME NEW z \in ToSet(t) PROVE z \in B
                OBVIOUS
            <4>1. PICK k \in DOMAIN t : z = t[k]
                BY DEF ToSet
            <4> QED BY <3>2, <4>1
        <3>6. ToSet(u) \subseteq ToSet(t)
            <4> SUFFICES ASSUME NEW z \in ToSet(u) PROVE z \in ToSet(t)
                OBVIOUS
            <4>1. PICK k \in DOMAIN u : z = u[k]
                BY DEF ToSet
            <4> QED BY <3>3, <4>1
        <3> QED BY <3>4, <3>5, <3>6
    <2>10. ToSet(t) = healthy
        BY <1>4, <2>1, <2>9
    <2> QED BY <2>3, <2>4, <2>7, <2>8, <2>10
<1>5. CASE strategy = "leader-only" /\ Leader \notin healthy
    <2>1. Ordered(i) = s
        BY <1>5 DEF Ordered
    <2> HIDE DEF s
    <2>2. s # <<>>
        BY <1>2, SMT
    <2> QED BY <1>2, <1>5, <1>6, <2>1, <2>2
<1> QED BY <1>3, <1>4, <1>5

\* A candidate that is struck off leaves a list without repetition.
LEMMA TailLists ==
    ASSUME NEW s \in Seq(Addresses), s # <<>>, IsInjective(s)
    PROVE  Tail(s) \in Seq(Addresses) /\ IsInjective(Tail(s))
<1>1. /\ Tail(s) \in Seq(Addresses) /\ Len(Tail(s)) = Len(s) - 1 /\ Len(s) \in Nat \ {0}
      /\ \A k \in 1..Len(Tail(s)) : Tail(s)[k] = s[k + 1]
    BY HeadTailProperties, EmptySeq
<1> DEFINE t == Tail(s)
<1>2. DOMAIN t = 1..Len(t) /\ DOMAIN s = 1..Len(s)
    BY <1>1, LenProperties
<1> HIDE DEF t
<1>3. ASSUME NEW j \in 1..Len(t), NEW k \in 1..Len(t), t[j] = t[k] PROVE j = k
    <2>1. j + 1 \in DOMAIN s /\ k + 1 \in DOMAIN s /\ s[j + 1] = s[k + 1]
        BY <1>1, <1>2, <1>3, SMT DEF t
    <2>2. j + 1 = k + 1
        BY <2>1 DEF IsInjective
    <2> QED BY <2>2, SMT
<1> QED BY <1>1, <1>2, <1>3 DEF IsInjective, t

\* Every step keeps the lists of candidates, the entries and the counters well formed.
LEMMA PoolTypeKeeps == PoolInv /\ TypeOK /\ [Next]_vars => TypeOK'
<1> SUFFICES ASSUME PoolInv, TypeOK, [Next]_vars PROVE TypeOK'
    OBVIOUS
<1> DEFINE Req == [step : {"idle", "call", "mark"}, left : Seq(Addresses)]
           good(q) == (q.step = "idle" <=> q.left = <<>>) /\ IsInjective(q.left)
<1>1. /\ faults \in Nat /\ moves \in Nat /\ misses \in Nat /\ MaxMishaps \in Nat
      /\ req \in [Requests -> Req] /\ \A r \in Requests : req[r] \in Req /\ good(req[r])
    BY PoolAssumption, SMT DEF TypeOK
<1>2. PoolInv'
    BY PoolKeeps
<1>3. /\ pool' \in [Addresses -> {"absent", "unhealthy", "healthy"}]
      /\ dns' \subseteq Addresses \ HostNames
      /\ loop' \in [step : {"rest", "merge", "probe"}, found : SUBSET Addresses,
                    todo : SUBSET Addresses]
    BY <1>2 DEF PoolInv
<1>4. ASSUME strategy' = strategy, up' \subseteq Instances,
             {faults', moves', misses'} \subseteq 0..MaxMishaps,
             req' \in [Requests -> Req], \A r \in Requests : good(req'[r])
      PROVE  TypeOK'
    BY <1>3, <1>4 DEF TypeOK
<1>5. up \subseteq Instances /\ {faults, moves, misses} \subseteq 0..MaxMishaps
    BY DEF TypeOK
<1>6. ASSUME NEW r \in Requests, NEW q \in Req, good(q), req' = [req EXCEPT ![r] = q]
      PROVE  req' \in [Requests -> Req] /\ \A x \in Requests : good(req'[x])
    BY <1>1, <1>6
<1>7. Idle \in Req /\ good(Idle)
    <2>1. Idle \in Req /\ Idle.step = "idle" /\ Idle.left = <<>>
        BY SMT DEF Idle
    <2>2. IsInjective(<<>>)
        BY SMT DEF IsInjective
    <2> QED BY <2>1, <2>2
<1> HIDE DEF Req, good
<1>8. CASE Probes \/ Discovers
    <2>1. UNCHANGED <<strategy, up, req, faults, moves>>
        BY <1>8 DEF Probes, Discovers, refreshHealth, checkInstanceHealth, discoverSchedulers,
                    discoverAndMerge
    <2>2. misses' = misses \/ (mishapLeft /\ misses' = misses + 1)
        BY <1>8 DEF Probes, Discovers, refreshHealth, checkInstanceHealth, discoverSchedulers,
                    discoverAndMerge
    <2>3. misses' \in 0..MaxMishaps
        BY <1>1, <1>5, <2>2, SMT DEF mishapLeft
    <2> QED BY <1>1, <1>4, <1>5, <2>1, <2>3
<1>9. ASSUME NEW r \in Requests, OrderedSchedulers(r) PROVE TypeOK'
    <2>1. PICK i \in 0..Cardinality(healthy) - 1 :
              req' = [req EXCEPT ![r] = [step |-> "call", left |-> Ordered(i)]]
        BY <1>9 DEF OrderedSchedulers
    <2>2. Ordered(i) \in Seq(Addresses) /\ IsInjective(Ordered(i)) /\ Ordered(i) # <<>>
        BY <1>9, OrderedLists DEF OrderedSchedulers
    <2> DEFINE q == [step |-> "call", left |-> Ordered(i)]
    <2>3. q \in Req /\ good(q)
        BY <2>2 DEF Req, good
    <2> HIDE DEF q
    <2>4. req' = [req EXCEPT ![r] = q]
        BY <2>1 DEF q
    <2>5. UNCHANGED <<strategy, up, faults, moves, misses>>
        BY <1>9 DEF OrderedSchedulers
    <2> QED BY <1>4, <1>5, <1>6, <2>3, <2>4, <2>5
<1>10. ASSUME NEW r \in Requests, called(r) PROVE TypeOK'
    BY <1>4, <1>5, <1>6, <1>7, <1>10 DEF called
<1>11. ASSUME NEW r \in Requests, callFails(r) PROVE TypeOK'
    <2> DEFINE q == [req[r] EXCEPT !.step = "mark"]
    <2>1. req[r].step = "call" /\ req[r] \in Req /\ good(req[r])
        BY <1>1, <1>11 DEF callFails
    <2>2. q \in Req /\ q.step = "mark" /\ q.left = req[r].left
        BY <2>1 DEF Req
    <2> HIDE DEF q
    <2>3. good(q)
        BY <2>1, <2>2 DEF good
    <2>4. req' = [req EXCEPT ![r] = q] /\ UNCHANGED <<strategy, up, moves, misses>>
        BY <1>1, <1>11 DEF callFails, q
    <2>5. faults' = faults \/ (mishapLeft /\ faults' = faults + 1)
        BY <1>11 DEF callFails
    <2>6. faults' \in 0..MaxMishaps
        BY <1>1, <1>5, <2>5, SMT DEF mishapLeft
    <2> QED BY <1>4, <1>5, <1>6, <2>2, <2>3, <2>4, <2>6
<1>12. ASSUME NEW r \in Requests, MarkUnhealthy(r) PROVE TypeOK'
    <2> DEFINE rest == Tail(req[r].left)
               q == IF rest = <<>> THEN Idle ELSE [step |-> "call", left |-> rest]
    <2>1. /\ req[r].left \in Seq(Addresses) /\ req[r].left # <<>> /\ IsInjective(req[r].left)
        BY <1>1, <1>12 DEF MarkUnhealthy, Req, good
    <2>2. rest \in Seq(Addresses) /\ IsInjective(rest)
        BY <2>1, TailLists
    <2>3. req' = [req EXCEPT ![r] = q] /\ UNCHANGED <<strategy, up, faults, moves, misses>>
        BY <1>12 DEF MarkUnhealthy
    <2> HIDE DEF rest
    <2>4. q \in Req /\ good(q)
        BY <1>7, <2>2 DEF Req, good
    <2> HIDE DEF q
    <2> QED BY <1>4, <1>5, <1>6, <2>3, <2>4
<1>13. ASSUME NEW i \in Instances, SchedulerDown(i) PROVE TypeOK'
    <2>1. UNCHANGED <<strategy, req, moves, misses>> /\ up' = up \ {i} /\ mishapLeft
          /\ faults' = faults + 1
        BY <1>13 DEF SchedulerDown
    <2>2. faults' \in 0..MaxMishaps
        BY <1>1, <1>5, <2>1, SMT DEF mishapLeft
    <2> QED BY <1>1, <1>4, <1>5, <2>1, <2>2
<1>14. ASSUME NEW i \in Instances, SchedulerUp(i) PROVE TypeOK'
    BY <1>1, <1>4, <1>5, <1>14 DEF SchedulerUp
<1>15. ASSUME NEW answer \in SUBSET (Addresses \ HostNames), DNSChanges(answer) PROVE TypeOK'
    <2>1. UNCHANGED <<strategy, up, req, faults, misses>> /\ mishapLeft /\ moves' = moves + 1
        BY <1>15 DEF DNSChanges
    <2>2. moves' \in 0..MaxMishaps
        BY <1>1, <1>5, <2>1, SMT DEF mishapLeft
    <2> QED BY <1>1, <1>4, <1>5, <2>1, <2>2
<1>16. CASE UNCHANGED vars
    BY <1>1, <1>4, <1>5, <1>16 DEF vars
<1> QED BY <1>8, <1>9, <1>10, <1>11, <1>12, <1>13, <1>14, <1>15, <1>16 DEF Next, Proceeds

\* For any addresses, requests and strategy: the pool is well formed, a request that is
\* under way has a candidate left to call, and it never tries one address twice.
THEOREM NoCandidateTwice == Spec => []TypeOK
<1>1. Init => TypeOK
    <2> SUFFICES ASSUME Init PROVE TypeOK
        OBVIOUS
    <2>1. Idle \in [step : {"idle", "call", "mark"}, left : Seq(Addresses)]
        BY SMT DEF Idle
    <2>2. Idle.step = "idle" /\ Idle.left = <<>> /\ IsInjective(Idle.left)
        BY SMT DEF Idle, IsInjective
    <2>3. 0 \in 0..MaxMishaps
        BY PoolAssumption, SMT
    <2>4. PoolInv
        BY PoolStarts
    <2>5. req = [r \in Requests |-> Idle]
        BY DEF Init
    <2>6. /\ req \in [Requests -> [step : {"idle", "call", "mark"}, left : Seq(Addresses)]]
          /\ \A r \in Requests : req[r] = Idle
        BY <2>1, <2>5
    <2> QED BY <2>2, <2>3, <2>4, <2>6 DEF Init, PoolInv, TypeOK
<1> QED BY <1>1, PoolStarts, PoolKeeps, PoolTypeKeeps, PTL DEF Spec

----------------------------------------------------------------------------
\* What a request sets out to try

\* The candidates a request takes from OrderedSchedulers are all the entries that
\* are healthy at that moment, whatever index its key hashes to, and with
\* leader-only routing a healthy leader is the first of them.
TriesAllHealthy ==
    [][\A r \in Requests :
          req[r].step = "idle" /\ req'[r].step # "idle" =>
             /\ ToSet(req'[r].left) = healthy
             /\ strategy = "leader-only" /\ Leader \in healthy => Head(req'[r].left) = Leader]_vars

\* A request leaves idle by no other step than OrderedSchedulers.
LEMMA LeavesIdle ==
    ASSUME TypeOK, [Next]_vars, NEW r \in Requests, req[r].step = "idle", req'[r].step # "idle"
    PROVE  OrderedSchedulers(r)
<1>1. req' # req
    OBVIOUS
<1>2. PICK x \in Requests : OrderedSchedulers(x) \/ Proceeds(x)
    BY <1>1 DEF Next, vars, Probes, Discovers, refreshHealth, checkInstanceHealth,
       discoverSchedulers, discoverAndMerge, SchedulerDown, SchedulerUp, DNSChanges
<1>3. req'[r] # req[r]
    OBVIOUS
<1>4. x = r
    <2>1. \E q : req' = [req EXCEPT ![x] = q]
        BY <1>2 DEF Proceeds, OrderedSchedulers, called, callFails, MarkUnhealthy
    <2>2. PICK q : req' = [req EXCEPT ![x] = q]
        BY <2>1
    <2>3. r # x => req'[r] = req[r]
        BY <2>2 DEF TypeOK
    <2> QED BY <1>3, <2>3
<1>5. ~Proceeds(r)
    BY DEF Proceeds, called, callFails, MarkUnhealthy
<1> QED BY <1>2, <1>4, <1>5

\* Routing forgets no healthy scheduler: for any pool, strategy and key.
THEOREM RequestTriesAllHealthy == Spec => TriesAllHealthy
<1> DEFINE Fresh(r) == /\ ToSet(req'[r].left) = healthy
                       /\ strategy = "leader-only" /\ Leader \in healthy
                          => Head(req'[r].left) = Leader
<1>1. ASSUME TypeOK, [Next]_vars, NEW r \in Requests, req[r].step = "idle", req'[r].step # "idle"
      PROVE  Fresh(r)
    <2>1. OrderedSchedulers(r)
        BY <1>1, LeavesIdle
    <2>2. PICK i \in 0..Cardinality(healthy) - 1 :
              req' = [req EXCEPT ![r] = [step |-> "call", left |-> Ordered(i)]]
        BY <2>1 DEF OrderedSchedulers
    <2>3. req'[r].left = Ordered(i) /\ healthy # {}
        BY <1>1, <2>1, <2>2 DEF OrderedSchedulers, TypeOK
    <2> QED BY <2>3, OrderedLists
<1>2. TypeOK /\ [Next]_vars
      => [\A r \in Requests : req[r].step = "idle" /\ req'[r].step # "idle" => Fresh(r)]_vars
    BY <1>1
<1> QED BY <1>2, NoCandidateTwice, PTL DEF Spec, TriesAllHealthy
=============================================================================

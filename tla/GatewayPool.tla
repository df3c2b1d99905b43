---------------------------- MODULE GatewayPool ----------------------------
(***************************************************************************)
(* persys-gateway/services/scheduler_pool.go and invokeControlRPC of       *)
(* scheduler_grpc.service.go: the gateway's pool of scheduler addresses,   *)
(* fed by the configuration and by DNS, kept healthy by a probe, and used  *)
(* by every API request, which tries the healthy addresses one by one.     *)
(* One goroutine probes and discovers; requests run concurrently with it.  *)
(***************************************************************************)
EXTENDS Naturals, Sequences, FiniteSets, SequencesExt

CONSTANTS Order,      \* the addresses the pool may hold, sorted by entry ID
          Static,     \* the addresses of the configured default cluster
          HostNames,  \* the configured addresses that are host names
          Instance,   \* [address -> the scheduler process behind it]
          Leader,     \* the address configured with is_leader
          Requests,   \* concurrent clients, each repeating its request
          BadRequests, \* those whose request every scheduler refuses
          MaxMishaps  \* bound on schedulers going down or losing a reply, changes
                      \* of the DNS answer and failed host name lookups together

Addresses == ToSet(Order)
Instances == {Instance[a] : a \in Addresses}

ASSUME PoolAssumption ==
    /\ Order \in Seq(Addresses) /\ IsInjective(Order)
    /\ Static \subseteq Addresses /\ HostNames \subseteq Static
    /\ Leader \in Static /\ BadRequests \subseteq Requests
    /\ MaxMishaps \in Nat

\* An IP address is one scheduler, and the configuration names each one once.
ASSUME AddressAssumption ==
    /\ \A a, b \in Addresses \ HostNames : Instance[a] = Instance[b] => a = b
    /\ \A a, b \in Static : Instance[a] = Instance[b] => a = b

VARIABLES strategy,  \* the cluster's RoutingStrategy ("shard" routes as "sticky" does)
          pool,      \* [address -> absent | unhealthy | healthy]
          up,        \* the scheduler processes that accept connections
          dns,       \* the addresses DNS answers with
          loop,      \* the pool's goroutine: its step, DNS answer, probes to do
          req,       \* each request: its step and the candidates left
          faults, moves, misses

vars == <<strategy, pool, up, dns, loop, req, faults, moves, misses>>

mishapLeft == faults + moves + misses < MaxMishaps

Members == {a \in Addresses : pool[a] # "absent"}
Resting == [step |-> "rest", found |-> {}, todo |-> {}]
Idle == [step |-> "idle", left |-> <<>>]

\* NewSchedulerPoolManager and the start of Start: configured entries only, not
\* yet probed; the first discovery comes next, then the first probe.
Init ==
    /\ strategy \in {"leader-only", "sticky"}
    /\ pool = [a \in Addresses |-> IF a \in Static THEN "unhealthy" ELSE "absent"]
    /\ up = Instances
    /\ dns = Addresses \ HostNames
    /\ loop = Resting
    /\ req = [r \in Requests |-> Idle]
    /\ faults = 0 /\ moves = 0 /\ misses = 0

----------------------------------------------------------------------------
\* The pool's goroutine

\* discoverSchedulers: the DNS answer is taken without the lock.  An empty
\* answer ends the discovery: the pool is left as it is.
discoverSchedulers ==
    /\ loop.step = "rest"
    /\ dns # {}
    /\ loop' = [loop EXCEPT !.step = "merge", !.found = dns]
    /\ UNCHANGED <<strategy, pool, up, dns, req, faults, moves, misses>>

\* Mutant: host names are not looked up.
canonicalAddressKeysLiteral(a, resolved) == {a}

\* canonicalAddressKeys: an address, and for a host name that resolves the IP
\* addresses of the same scheduler.
canonicalAddressKeys(a, resolved) ==
    {a} \cup (IF a \in resolved
              THEN {b \in Addresses \ HostNames : Instance[b] = Instance[a]} ELSE {})

\* Mutant: nothing is ever dropped.
mergedKeeping(found, resolved) ==
    [a \in Addresses |->
        IF a \in Members \/ a \notin found
           \/ \E b \in Members : a \in canonicalAddressKeys(b, resolved)
        THEN pool[a] ELSE "unhealthy"]

\* discoverAndMerge under the lock: an address found in DNS is added, unhealthy,
\* unless the pool holds it or another name of it; then the entries that are
\* neither configured nor found any more are dropped.
merged(found, resolved) ==
    LET known == UNION {canonicalAddressKeys(a, resolved) : a \in Members}
    IN  [a \in Addresses |->
            CASE a \in Static -> pool[a]
              [] a \in found \ Static /\ a \in Members -> pool[a]
              [] a \in found \ Static /\ a \notin known -> "unhealthy"
              [] OTHER -> "absent"]

discoverAndMerge(resolved) ==
    /\ loop.step = "merge"
    /\ resolved \subseteq HostNames
    /\ resolved = HostNames \/ mishapLeft
    /\ misses' = IF resolved = HostNames THEN misses ELSE misses + 1
    /\ pool' = merged(loop.found, resolved)
    /\ loop' = Resting
    /\ UNCHANGED <<strategy, up, dns, req, faults, moves>>

\* refreshHealth takes the write lock and dials every entry in turn; requests
\* wait for the lock meanwhile.
refreshHealth ==
    /\ loop.step = "rest"
    /\ Members # {}
    /\ loop' = [loop EXCEPT !.step = "probe", !.todo = Members]
    /\ UNCHANGED <<strategy, pool, up, dns, req, faults, moves, misses>>

locked == loop.step = "probe"

\* Mutant: a probe demotes an entry and never restores one.
checkInstanceHealthDemotes(a) ==
    /\ locked /\ a \in loop.todo
    /\ pool' = [pool EXCEPT ![a] = IF Instance[a] \in up THEN @ ELSE "unhealthy"]
    /\ loop' = IF loop.todo = {a} THEN Resting ELSE [loop EXCEPT !.todo = @ \ {a}]
    /\ UNCHANGED <<strategy, up, dns, req, faults, moves, misses>>

checkInstanceHealth(a) ==
    /\ locked /\ a \in loop.todo
    /\ pool' = [pool EXCEPT ![a] = IF Instance[a] \in up THEN "healthy" ELSE "unhealthy"]
    /\ loop' = IF loop.todo = {a} THEN Resting ELSE [loop EXCEPT !.todo = @ \ {a}]
    /\ UNCHANGED <<strategy, up, dns, req, faults, moves, misses>>

----------------------------------------------------------------------------
\* A request

healthy == {a \in Addresses : pool[a] = "healthy"}

before(a, b) == \E i, j \in DOMAIN Order : i < j /\ Order[i] = a /\ Order[j] = b

\* sort.SliceStable: the members of S, in the order of their entry IDs.
byID(S) == CHOOSE s \in [1..Cardinality(S) -> S] :
               \A i, j \in 1..Cardinality(S) : i < j => before(s[i], s[j])

\* Mutant: the entry at the index is put at both ends.
rotateByIndexOverlap(s, i) == SubSeq(s, i + 1, Len(s)) \o SubSeq(s, 1, i + 1)

rotateByIndex(s, i) == SubSeq(s, i + 1, Len(s)) \o SubSeq(s, 1, i)

\* OrderedSchedulers: the healthy entries, the leader first, or rotated to an
\* index that the session or workload key hashes to.
Ordered(i) ==
    IF strategy # "leader-only" THEN rotateByIndex(byID(healthy), i)
    ELSE IF Leader \in healthy THEN <<Leader>> \o byID(healthy \ {Leader})
         ELSE byID(healthy)

OrderedSchedulers(r) ==
    /\ req[r].step = "idle" /\ ~locked
    /\ healthy # {}
    /\ \E i \in 0..Cardinality(healthy) - 1 :
          req' = [req EXCEPT ![r] = [step |-> "call", left |-> Ordered(i)]]
    /\ UNCHANGED <<strategy, pool, up, dns, loop, faults, moves, misses>>

\* invokeControlRPC with the next candidate: the call is answered,
called(r) ==
    /\ req[r].step = "call"
    /\ Instance[Head(req[r].left)] \in up /\ r \notin BadRequests
    /\ req' = [req EXCEPT ![r] = Idle]
    /\ UNCHANGED <<strategy, pool, up, dns, loop, faults, moves, misses>>

\* or it fails: the dial fails, the scheduler refuses the request, or its reply
\* is lost.  Any error counts against the address.
callFails(r) ==
    /\ req[r].step = "call"
    /\ \/ Instance[Head(req[r].left)] \notin up /\ UNCHANGED faults
       \/ r \in BadRequests /\ UNCHANGED faults
       \/ mishapLeft /\ faults' = faults + 1
    /\ req' = [req EXCEPT ![r].step = "mark"]
    /\ UNCHANGED <<strategy, pool, up, dns, loop, moves, misses>>

\* Mutant: the request tries the same candidate again.
MarkUnhealthySticks(r) ==
    /\ req[r].step = "mark" /\ ~locked
    /\ pool' = [pool EXCEPT ![Head(req[r].left)] = IF @ = "absent" THEN @ ELSE "unhealthy"]
    /\ req' = [req EXCEPT ![r].step = "call"]
    /\ UNCHANGED <<strategy, up, dns, loop, faults, moves, misses>>

\* MarkUnhealthy, once the lock is free (an address dropped meanwhile is not
\* marked), and on to the next candidate; without one the request has failed.
MarkUnhealthy(r) ==
    /\ req[r].step = "mark" /\ ~locked
    /\ LET a == Head(req[r].left)  rest == Tail(req[r].left)
       IN  /\ pool' = [pool EXCEPT ![a] = IF @ = "absent" THEN @ ELSE "unhealthy"]
           /\ req' = [req EXCEPT ![r] = IF rest = <<>> THEN Idle
                                         ELSE [step |-> "call", left |-> rest]]
    /\ UNCHANGED <<strategy, up, dns, loop, faults, moves, misses>>

----------------------------------------------------------------------------
\* External: schedulers go down and come back, DNS changes its answer.

SchedulerDown(i) ==
    /\ i \in up /\ mishapLeft
    /\ up' = up \ {i} /\ faults' = faults + 1
    /\ UNCHANGED <<strategy, pool, dns, loop, req, moves, misses>>

SchedulerUp(i) ==
    /\ i \notin up /\ up' = up \cup {i}
    /\ UNCHANGED <<strategy, pool, dns, loop, req, faults, moves, misses>>

DNSChanges(answer) ==
    /\ mishapLeft /\ answer # dns
    /\ dns' = answer /\ moves' = moves + 1
    /\ UNCHANGED <<strategy, pool, up, loop, req, faults, misses>>

Probes == refreshHealth \/ \E a \in Addresses : checkInstanceHealth(a)
Discovers == discoverSchedulers \/ \E resolved \in SUBSET HostNames : discoverAndMerge(resolved)
Proceeds(r) == called(r) \/ callFails(r) \/ MarkUnhealthy(r)

Next ==
    \/ Probes \/ Discovers
    \/ \E r \in Requests : OrderedSchedulers(r) \/ Proceeds(r)
    \/ \E i \in Instances : SchedulerDown(i) \/ SchedulerUp(i)
    \/ \E answer \in SUBSET (Addresses \ HostNames) : DNSChanges(answer)

Spec == Init /\ [][Next]_vars

\* Both tickers of the goroutine's select fire for ever and neither is starved,
\* and what it has begun it ends.  Every call returns (it has a deadline) and a
\* waiting MarkUnhealthy gets the lock; a client that keeps asking does not for
\* ever ask only in the instants when no address is healthy.
FairSpec ==
    /\ Spec
    /\ SF_vars(refreshHealth) /\ SF_vars(discoverSchedulers)
    /\ WF_vars(\/ \E a \in Addresses : checkInstanceHealth(a)
               \/ \E resolved \in SUBSET HostNames : discoverAndMerge(resolved))
    /\ \A r \in Requests \ BadRequests : SF_vars(OrderedSchedulers(r)) /\ SF_vars(Proceeds(r))

----------------------------------------------------------------------------
\* Type correctness of the pool's entries, of its goroutine and of the requests: a
\* request under way has a candidate to call, and no candidate twice.
TypeOK ==
    /\ strategy \in {"leader-only", "sticky"}
    /\ pool \in [Addresses -> {"absent", "unhealthy", "healthy"}]
    /\ up \subseteq Instances /\ dns \subseteq Addresses \ HostNames
    /\ loop \in [step : {"rest", "merge", "probe"}, found : SUBSET Addresses,
                 todo : SUBSET Addresses]
    /\ req \in [Requests -> [step : {"idle", "call", "mark"}, left : Seq(Addresses)]]
    /\ \A r \in Requests :
          /\ req[r].step = "idle" <=> req[r].left = <<>>
          /\ IsInjective(req[r].left)
    /\ {faults, moves, misses} \subseteq 0..MaxMishaps

\* A scheduler is in the pool under one address only, unless the lookup of a
\* host name has failed during a discovery (canonicalAddressKeys then misses the
\* other name, and the second entry stays): a request that fails over is not
\* sent to the process that has just failed it.
OneEntryPerScheduler ==
    misses = 0 => \A a, b \in Members : Instance[a] = Instance[b] => a = b

\* A scheduler that stays up, and stays configured or in DNS, is selectable
\* again and again, whatever requests, probes and discoveries do to its entry:
\* refreshHealth undoes every MarkUnhealthy.
HealthyReturns ==
    \A a \in Addresses :
        <>[](Instance[a] \in up /\ a \in Static \cup dns)
        => []<>(\E b \in Addresses : Instance[b] = Instance[a] /\ pool[b] = "healthy")

\* While a configured scheduler stays up, a client whose requests are valid is
\* answered again and again, although every refused request of another client
\* marks every scheduler unhealthy (invokeControlRPC treats any error alike).
ServedEventually ==
    \A a \in Static : <>[](Instance[a] \in up)
                      => \A r \in Requests \ BadRequests : []<><<called(r)>>_vars

\* An address that DNS no longer gives, and that is not configured, leaves the
\* pool for good, unless DNS answers with nothing at all.
StaleDropped ==
    <>[](dns # {}) => <>[](Members \subseteq Static \cup dns)
=============================================================================

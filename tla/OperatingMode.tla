--------------------------- MODULE OperatingMode ---------------------------
(***************************************************************************)
(* The operating modes of persys-scheduler (internal/scheduler/mode.go),   *)
(* the retrying etcd client they gate (etcd.go) and the read cache that is *)
(* frozen when the mode leaves "normal" (scheduler.go, GetNodes ...        *)
(* GetWorkloadByID).                                                       *)
(*                                                                         *)
(* The contents of etcd and of the cache are abstracted to the set of keys *)
(* present: what the modes tell apart is which prefixes hold anything.     *)
(* A handler is the sequence of etcd and cache operations it performs, its *)
(* "plan"; every operation of a plan is a step of its own, so that the     *)
(* mode supervisor, other handlers and etcd outages interleave with it.    *)
(***************************************************************************)
EXTENDS Naturals, Sequences

CONSTANTS
    NodeIDs,        \* ids of the nodes that may register
    WorkloadIDs,    \* ids of the workloads
    Clients,        \* the goroutines that run handlers concurrently
    Handlers,       \* the plans each of them may be asked to run
    NoSnapshot,     \* the nil *FrozenState
    MaxRetries,     \* maxRetries of etcd.go (5 in the code)
    MaxFaults       \* bound on outages, wipes, lost answers and restarts

ASSUME MaxRetriesAssumption == MaxRetries \in Nat
ASSUME MaxFaultsAssumption == MaxFaults \in Nat

VARIABLES
    up,         \* etcd answers
    etcd,       \* the keys stored in etcd
    backup,     \* the keys lost by the last wipe, for a restore
    mode,       \* s.mode
    frozen,     \* s.frozen: the keys of the snapshot, or NoSnapshot
    cache,      \* cacheNodes, cacheWorkloads and cacheAssignments
    sup,        \* program counter of the mode supervisor
    plan,       \* for each client, the operations its handler still has to do
    phase,      \* for each client, where it is in the first of them
    tries,      \* for each client, the failed attempts of that operation
    seen,       \* for each client, the keys its last list request returned
    faults      \* faults so far

vars == <<up, etcd, backup, mode, frozen, cache, sup, plan, phase, tries, seen, faults>>
clientVars == <<plan, phase, tries, seen>>

----------------------------------------------------------------------------
(* Keys and modes *)

NodeKey(n) == [kind |-> "node", id |-> n]
SpecKey(w) == [kind |-> "spec", id |-> w]
StatusKey(w) == [kind |-> "status", id |-> w]
AssignmentKey(w) == [kind |-> "assignment", id |-> w]

Keys == {NodeKey(n) : n \in NodeIDs} \cup {SpecKey(w) : w \in WorkloadIDs}
        \cup {StatusKey(w) : w \in WorkloadIDs} \cup {AssignmentKey(w) : w \in WorkloadIDs}

ASSUME SnapshotAssumption == \A keys \in SUBSET Keys : NoSnapshot # keys

OfKind(keys, kind) == {k \in keys : k.kind = kind}

Modes == {"normal", "degraded", "recovery"}

isWritable == mode = "normal"

\* The prefixes etcdHasState probes, in order. "legacy" stands for /workloads/,
\* where nothing is written any more: workloads live under /workloads-spec/
\* and /workloads-status/.
Prefixes == <<"node", "legacy", "assignment">>

----------------------------------------------------------------------------
(* Mode transitions, each under modeMu *)

enterDegraded ==
    IF mode = "degraded"
    THEN UNCHANGED <<mode, frozen>>
    ELSE mode' = "degraded" /\ frozen' = cache

\* Mutant: a fresh snapshot on every entry.
enterRecoverySnapshotsAgain ==
    IF mode = "recovery" THEN UNCHANGED <<mode, frozen>> ELSE mode' = "recovery" /\ frozen' = cache

enterRecovery ==
    IF mode = "recovery"
    THEN UNCHANGED <<mode, frozen>>
    ELSE /\ mode' = "recovery"
         /\ frozen' = IF frozen = NoSnapshot THEN cache ELSE frozen

\* Mutant: the snapshot is not dropped.
enterNormalKeepsSnapshot == mode' = "normal" /\ UNCHANGED frozen

enterNormal ==
    IF mode = "normal"
    THEN UNCHANGED <<mode, frozen>>
    ELSE mode' = "normal" /\ frozen' = NoSnapshot

----------------------------------------------------------------------------
(* Handlers as plans *)

\* One operation: do is the etcd request or cache update, keys what it touches.
\* A failed request ends the handler when must holds and is ignored otherwise.
Ops == [do : {"put", "delete", "list", "find", "peek", "serve", "fill", "cache", "uncache"},
        keys : SUBSET Keys, must : BOOLEAN]

Op(do, keys, must) == [do |-> do, keys |-> keys, must |-> must]

RegisterNodePlan(n) == <<Op("put", {NodeKey(n)}, TRUE), Op("cache", {NodeKey(n)}, TRUE)>>

\* The node's cache entry stays until the next GetNodes.
DeleteNodePlan(n) == <<Op("delete", {NodeKey(n)}, TRUE)>>

\* The last put is the /retries/ key, whose failure is ignored.
saveWorkloadPlan(w) ==
    <<Op("put", {SpecKey(w)}, TRUE), Op("put", {StatusKey(w)}, TRUE),
      Op("cache", {SpecKey(w)}, TRUE), Op("put", {}, FALSE)>>

writeAssignmentPlan(w) ==
    <<Op("put", {AssignmentKey(w)}, TRUE), Op("cache", {AssignmentKey(w)}, TRUE)>>

DeleteWorkloadPlan(w) ==
    <<Op("delete", {SpecKey(w)}, TRUE), Op("delete", {StatusKey(w)}, FALSE),
      Op("delete", {AssignmentKey(w)}, FALSE),
      Op("uncache", {SpecKey(w), AssignmentKey(w)}, TRUE)>>

GetNodesPlan == <<Op("list", {NodeKey(n) : n \in NodeIDs}, TRUE),
                  Op("fill", {NodeKey(n) : n \in NodeIDs}, TRUE)>>

GetNodeByIDPlan(n) == <<Op("find", {NodeKey(n)}, TRUE), Op("cache", {NodeKey(n)}, TRUE)>>

\* The peek reads the statuses; its error is dropped.
GetWorkloadsPlan ==
    LET specs == {SpecKey(w) : w \in WorkloadIDs}
    IN  <<Op("list", specs, TRUE), Op("peek", {}, FALSE),
          Op("serve", specs, TRUE), Op("fill", specs, TRUE)>>

GetWorkloadByIDPlan(w) == <<Op("find", {SpecKey(w)}, TRUE), Op("peek", {}, FALSE),
                            Op("cache", {SpecKey(w)}, TRUE)>>

AllPlans == {RegisterNodePlan(n) : n \in NodeIDs} \cup {DeleteNodePlan(n) : n \in NodeIDs}
         \cup {saveWorkloadPlan(w) : w \in WorkloadIDs}
         \cup {writeAssignmentPlan(w) : w \in WorkloadIDs}
         \cup {DeleteWorkloadPlan(w) : w \in WorkloadIDs}
         \cup {GetNodeByIDPlan(n) : n \in NodeIDs}
         \cup {GetWorkloadByIDPlan(w) : w \in WorkloadIDs}
         \cup {GetNodesPlan, GetWorkloadsPlan}

ASSUME HandlersAssumption == Handlers \in [Clients -> SUBSET AllPlans]

Idle(c) == plan[c] = <<>>
Current(c) == Head(plan[c])

\* Writes pass requireWritable before their first attempt, reads do not.
FirstPhase(p) == IF p # <<>> /\ Head(p).do \in {"put", "delete"} THEN "gate" ELSE "try"

Continue(c, p) ==
    /\ plan' = [plan EXCEPT ![c] = p]
    /\ phase' = [phase EXCEPT ![c] = FirstPhase(p)]
    /\ tries' = [tries EXCEPT ![c] = 0]

\* What follows a failed operation: the error return, or the next operation.
AfterFailure(c) == Continue(c, IF Current(c).must THEN <<>> ELSE Tail(plan[c]))

----------------------------------------------------------------------------
(* Handler steps *)

\* A handler is called.
StartHandler(c) ==
    /\ Idle(c)
    /\ \E p \in Handlers[c] : Continue(c, p)
    /\ UNCHANGED <<up, etcd, backup, mode, frozen, cache, sup, seen, faults>>

\* requireWritable at the head of RetryableEtcdPut and RetryableEtcdDelete.
requireWritable(c) ==
    /\ ~Idle(c) /\ phase[c] = "gate"
    /\ IF isWritable
       THEN phase' = [phase EXCEPT ![c] = "try"] /\ UNCHANGED <<plan, tries>>
       ELSE AfterFailure(c)
    /\ UNCHANGED <<up, etcd, backup, mode, frozen, cache, sup, seen, faults>>

Requests == {"put", "delete", "list", "find", "peek"}

StoreAfter(op) ==
    IF op.do = "put" THEN etcd \cup op.keys
    ELSE IF op.do = "delete" THEN etcd \ op.keys ELSE etcd

\* One attempt that etcd answers. A find that returns nothing ends the
\* handler, after the compatibility read of /workloads/<id> for a workload.
AttemptAnswered(c) ==
    /\ ~Idle(c) /\ phase[c] = "try" /\ Current(c).do \in Requests
    /\ up
    /\ etcd' = StoreAfter(Current(c))
    /\ seen' = [seen EXCEPT ![c] = IF Current(c).do = "list" THEN etcd \cap Current(c).keys ELSE @]
    /\ Continue(c, IF Current(c).do = "find" /\ Current(c).keys \cap etcd = {}
                   THEN IF OfKind(Current(c).keys, "spec") # {}
                        THEN <<Op("peek", {}, FALSE)>> ELSE <<>>
                   ELSE Tail(plan[c]))
    /\ UNCHANGED <<up, backup, mode, frozen, cache, sup, faults>>

\* Mutant: one attempt too many.
CountFailureOffByOne(c) ==
    IF tries[c] <= MaxRetries
    THEN tries' = [tries EXCEPT ![c] = @ + 1] /\ UNCHANGED phase
    ELSE phase' = [phase EXCEPT ![c] = "fail"] /\ UNCHANGED tries

CountFailure(c) ==
    IF tries[c] < MaxRetries
    THEN tries' = [tries EXCEPT ![c] = @ + 1] /\ UNCHANGED phase
    ELSE phase' = [phase EXCEPT ![c] = "fail"] /\ UNCHANGED tries

\* One attempt while etcd is unreachable.
AttemptRefused(c) ==
    /\ ~Idle(c) /\ phase[c] = "try" /\ Current(c).do \in Requests
    /\ ~up
    /\ CountFailure(c)
    /\ UNCHANGED <<up, etcd, backup, mode, frozen, cache, sup, plan, seen, faults>>

\* One attempt that takes effect in etcd but whose answer misses the deadline.
AttemptTimedOut(c) ==
    /\ ~Idle(c) /\ phase[c] = "try" /\ Current(c).do \in {"put", "delete"}
    /\ up /\ faults < MaxFaults
    /\ etcd' = StoreAfter(Current(c))
    /\ CountFailure(c)
    /\ faults' = faults + 1
    /\ UNCHANGED <<up, backup, mode, frozen, cache, sup, plan, seen>>

\* All attempts failed: enterDegraded, then the error return. A read then
\* falls back on the cache, which changes nothing.
GiveUp(c) ==
    /\ ~Idle(c) /\ phase[c] = "fail"
    /\ enterDegraded
    /\ AfterFailure(c)
    /\ UNCHANGED <<up, etcd, backup, cache, sup, seen, faults>>

\* GetWorkloads: an empty answer outside normal mode is served from the cache.
ServeFrozenCache(c) ==
    /\ ~Idle(c) /\ Current(c).do = "serve"
    /\ Continue(c, IF ~isWritable /\ seen[c] = {} THEN <<>> ELSE Tail(plan[c]))
    /\ UNCHANGED <<up, etcd, backup, mode, frozen, cache, sup, seen, faults>>

\* The cache updates, under cacheMu.
UpdateCache(c) ==
    /\ ~Idle(c) /\ Current(c).do \in {"fill", "cache", "uncache"}
    /\ cache' = IF Current(c).do = "fill" THEN (cache \ Current(c).keys) \cup seen[c]
                ELSE IF Current(c).do = "cache" THEN cache \cup Current(c).keys
                ELSE cache \ Current(c).keys
    /\ Continue(c, Tail(plan[c]))
    /\ seen' = [seen EXCEPT ![c] = {}]
    /\ UNCHANGED <<up, etcd, backup, mode, frozen, sup, faults>>

----------------------------------------------------------------------------
(* The mode supervisor: evaluateMode, every three seconds *)

Probes == {"probe1", "probe2", "probe3"}
ProbeIndex == [probe1 |-> 1, probe2 |-> 2, probe3 |-> 3]
AfterEmptyProbe == [probe1 |-> "probe2", probe2 |-> "probe3", probe3 |-> "toRecovery"]
SupStates == {"sleep", "currentMode", "toDegraded", "toNormal", "toRecovery"} \cup Probes

\* Mutant: the error of the ping is dropped.
pingEtcdIgnoresError ==
    /\ sup = "sleep" /\ sup' = "currentMode"
    /\ UNCHANGED <<up, etcd, backup, mode, frozen, cache, clientVars, faults>>

pingEtcd ==
    /\ sup = "sleep"
    /\ sup' = IF up THEN "currentMode" ELSE "toDegraded"
    /\ UNCHANGED <<up, etcd, backup, mode, frozen, cache, clientVars, faults>>

\* Mutant: only degraded mode is re-evaluated.
checkModeDegradedOnly ==
    /\ sup = "currentMode"
    /\ sup' = IF mode # "degraded" THEN "sleep" ELSE "probe1"
    /\ UNCHANGED <<up, etcd, backup, mode, frozen, cache, clientVars, faults>>

checkMode ==
    /\ sup = "currentMode"
    /\ sup' = IF mode = "normal" THEN "sleep" ELSE "probe1"
    /\ UNCHANGED <<up, etcd, backup, mode, frozen, cache, clientVars, faults>>

\* One of the three prefix reads of etcdHasState.
etcdHasState ==
    /\ sup \in Probes
    /\ sup' = IF ~up THEN "toDegraded"
              ELSE IF OfKind(etcd, Prefixes[ProbeIndex[sup]]) # {} THEN "toNormal"
              ELSE AfterEmptyProbe[sup]
    /\ UNCHANGED <<up, etcd, backup, mode, frozen, cache, clientVars, faults>>

switchMode ==
    /\ \/ sup = "toDegraded" /\ enterDegraded
       \/ sup = "toNormal" /\ enterNormal
       \/ sup = "toRecovery" /\ enterRecovery
    /\ sup' = "sleep"
    /\ UNCHANGED <<up, etcd, backup, cache, clientVars, faults>>

----------------------------------------------------------------------------
(* etcd, the operator and the process *)

EtcdDown ==
    /\ up /\ faults < MaxFaults
    /\ up' = FALSE /\ faults' = faults + 1
    /\ UNCHANGED <<etcd, backup, mode, frozen, cache, sup, clientVars>>

EtcdUp ==
    /\ ~up /\ up' = TRUE
    /\ UNCHANGED <<etcd, backup, mode, frozen, cache, sup, clientVars, faults>>

\* etcd loses its data while it is down.
EtcdWipe ==
    /\ ~up /\ faults < MaxFaults /\ etcd # {}
    /\ backup' = etcd /\ etcd' = {} /\ faults' = faults + 1
    /\ UNCHANGED <<up, mode, frozen, cache, sup, clientVars>>

\* The restore/import that recovery mode waits for.
OperatorRestore ==
    /\ up /\ mode = "recovery" /\ backup # {}
    /\ etcd' = etcd \cup backup /\ backup' = {}
    /\ UNCHANGED <<up, mode, frozen, cache, sup, clientVars, faults>>

\* The process is restarted: NewScheduler needs one answer from etcd.
NewScheduler ==
    /\ up /\ faults < MaxFaults
    /\ mode' = "normal" /\ frozen' = NoSnapshot /\ cache' = {} /\ sup' = "sleep"
    /\ plan' = [c \in Clients |-> <<>>]
    /\ phase' = [c \in Clients |-> "try"]
    /\ tries' = [c \in Clients |-> 0]
    /\ seen' = [c \in Clients |-> {}]
    /\ faults' = faults + 1
    /\ UNCHANGED <<up, etcd, backup>>

----------------------------------------------------------------------------
Init ==
    /\ up = TRUE /\ etcd = {} /\ backup = {}
    /\ mode = "normal" /\ frozen = NoSnapshot /\ cache = {} /\ sup = "sleep"
    /\ plan = [c \in Clients |-> <<>>]
    /\ phase = [c \in Clients |-> "try"]
    /\ tries = [c \in Clients |-> 0]
    /\ seen = [c \in Clients |-> {}]
    /\ faults = 0

HandlerStep(c) ==
    \/ requireWritable(c) \/ AttemptAnswered(c) \/ AttemptRefused(c)
    \/ GiveUp(c) \/ ServeFrozenCache(c) \/ UpdateCache(c)

Supervisor == pingEtcd \/ checkMode \/ etcdHasState \/ switchMode

Next ==
    \/ \E c \in Clients : StartHandler(c) \/ HandlerStep(c) \/ AttemptTimedOut(c)
    \/ Supervisor
    \/ EtcdDown \/ EtcdUp \/ EtcdWipe \/ OperatorRestore \/ NewScheduler

Spec == Init /\ [][Next]_vars

\* The supervisor's ticker and the goroutines of running handlers keep going;
\* nothing is assumed of etcd, of the operator or of callers.
FairSpec == Spec /\ WF_vars(Supervisor) /\ \A c \in Clients : WF_vars(HandlerStep(c))

----------------------------------------------------------------------------
(* Properties *)

\* Every variable has its type.
TypeOK ==
    /\ up \in BOOLEAN /\ etcd \subseteq Keys /\ backup \subseteq Keys
    /\ mode \in Modes /\ frozen \in (SUBSET Keys) \cup {NoSnapshot} /\ cache \subseteq Keys
    /\ sup \in SupStates
    /\ plan \in [Clients -> Seq(Ops)]
    /\ phase \in [Clients -> {"gate", "try", "fail"}]
    /\ tries \in [Clients -> 0..MaxRetries]
    /\ seen \in [Clients -> SUBSET Keys]
    /\ faults \in 0..MaxFaults

\* The frozen snapshot exists exactly while the control plane is frozen, in
\* whatever order the supervisor and failing handlers switch modes.
SnapshotWhileFrozen == (frozen = NoSnapshot) <=> (mode = "normal")

\* The scheduler never falls from normal straight into recovery: it degrades
\* first, and entering recovery keeps the snapshot taken then, although the
\* supervisor decides on a mode it read some steps earlier (evaluateMode,
\* enterRecovery).
RecoveryKeepsSnapshot ==
    [][mode' = "recovery" => mode # "normal" /\ frozen' = frozen]_vars

\* What etcdHasState can see.
ProbeVisible(keys) == \E i \in DOMAIN Prefixes : OfKind(keys, Prefixes[i]) # {}

\* As long as etcd answers and holds a node or an assignment, the supervisor
\* brings the scheduler back to normal mode again and again, whatever failing
\* handlers do (evaluateMode, enterNormal).
ReturnsToNormal == []<>(mode = "normal" \/ ~up \/ ~ProbeVisible(etcd))

\* An outage that lasts is noticed: the scheduler freezes its control plane
\* (evaluateMode and the last failed attempt of the etcd client).
OutageFreezes == []<>(up \/ mode = "degraded")
=============================================================================

------------------------- MODULE WorkloadLifecycle -------------------------
(***************************************************************************)
(* The life of one workload in persys-scheduler: the API handlers that     *)
(* write its record (workload_control.go, grpcapi/service.go), the         *)
(* reconciler (reconciler.go), the status monitor (monitor.go), the drift  *)
(* detector (drift.go) and heartbeats, all running concurrently on one     *)
(* record in etcd, and the agents that run the workload on the nodes.      *)
(*                                                                         *)
(* Every goroutine works on its own copy of the record. A read of the      *)
(* record, a save of it and a call to an agent are separate steps, so that *)
(* the goroutines interleave between them: nothing in the code compares    *)
(* revisions when it saves. The spec and the status key of a record are    *)
(* read and written together here, and the scheduler stays in normal mode. *)
(***************************************************************************)
EXTENDS Naturals, Sequences

CONSTANTS
    Nodes,          \* registered nodes, each with its own endpoint
    Revs,           \* revision ids, one for each content of the spec
    Callers,        \* gRPC goroutines serving ApplyWorkload, DeleteWorkload, RetryWorkload
    Calls,          \* the calls they may be sent
    Reporters,      \* the nodes whose heartbeats carry workload statuses
    Daemons,        \* the periodic goroutines that run: "loop", "monitor", "drift"
    Split,          \* the record updates whose read and save are separate steps
    Windows,        \* the backoff windows a pass may fall into: "retry", "reapply"
    Redis,          \* whether reconciliation metadata goes to Redis, not to the record
    Faults,         \* the faults that may happen
    NoNode,         \* the empty NodeID
    NoRecord,       \* no such key in etcd
    Absent,         \* the agent does not know the workload
    MaxCalls,       \* bound on API calls
    MaxFaults       \* bound on faults

Desired == {"Running", "Stopped", "Deleted"}
AgentStates == {"Pending", "Running", "Stopped", "Failed", "Unknown"}
Statuses == AgentStates \cup {"Scheduled", "Updating", "RetryPending", "Deleting", "Deleted"}

\* models.RetryState: no retry planned, one planned for NextRetryAt, or
\* attempts >= maxAttempts.
Retries == {"idle", "armed", "exhausted"}

Records == [desired : Desired, rev : Revs, status : Statuses, node : Nodes \cup {NoNode},
            retry : Retries]
Instances == [state : AgentStates, rev : Revs]

\* ApplyWorkload with a spec, ApplyWorkload without one, DeleteWorkload and
\* RetryWorkload; each uses the fields it needs.
AllCalls == [op : {"apply", "setDesired", "delete", "retry"},
             desired : {"Running", "Stopped"}, rev : Revs]

AllFaults == {"linkDown", "workloadLost", "Stopped", "Failed", "Unknown",
              "applyTimeout", "applyRejected", "runtimeUnavailable", "restart"}

\* The statuses in a heartbeat of node n are stored by a goroutine named n.
Procs == Callers \cup Daemons \cup Reporters

ASSUME CallsAssumption == Calls \subseteq AllCalls
ASSUME ReportersAssumption == Reporters \subseteq Nodes
ASSUME DaemonsAssumption == Daemons \subseteq {"loop", "monitor", "drift"}
ASSUME SplitAssumption == Split \subseteq {"touch", "retryOnFailure", "status"}
ASSUME WindowsAssumption == Windows \subseteq {"retry", "reapply"}
ASSUME FaultsAssumption == Faults \subseteq AllFaults
ASSUME RedisAssumption == Redis \in BOOLEAN
ASSUME BoundsAssumption == MaxCalls \in Nat /\ MaxFaults \in Nat
ASSUME NamesAssumption ==
    NoNode \notin Nodes /\ NoRecord \notin Records /\ Absent \notin Instances

VARIABLES
    store,      \* the record in etcd, or NoRecord
    agent,      \* for each node, the instance its agent holds, or Absent
    link,       \* for each node, whether its agent can be reached
    health,     \* for each node, its status and the age of its last heartbeat
    supports,   \* for each node, whether it takes this type of workload
    pc,         \* for each goroutine, where it is
    call,       \* for each goroutine, the call it serves, or NoRecord
    w,          \* for each goroutine, its copy of the record
    seen,       \* for each goroutine, the agent state it observed last
    todo,       \* for each goroutine, the record updates it does next
    tmp,        \* for each goroutine, the copy the current update works on
    scan,       \* the drift detector's view of the cluster
    calls,      \* API calls so far
    faults,     \* faults so far
    placed,     \* history: the nodes the record has been assigned to
    revs        \* history: the revisions the record has had

procVars == <<pc, call, w, seen, todo, tmp>>
nodeVars == <<link, health, supports>>
history == <<placed, revs>>
vars == <<store, agent, nodeVars, procVars, scan, calls, faults, history>>

----------------------------------------------------------------------------
(* The record in etcd *)

\* saveWorkload: the whole record is overwritten.
saveWorkload(rec) ==
    /\ store' = rec
    /\ placed' = placed \cup ({rec.node} \ {NoNode})
    /\ revs' = revs \cup {rec.rev}

\* The helpers that read the record, change it and save it. Log and metadata
\* updates change nothing the model has, but rewrite the record all the same.
Helpers == {"touch", "retryOnFailure", "status"}
Updates == [f : Helpers, status : Statuses]
Touch == [f |-> "touch", status |-> "Unknown"]
Touches == IF "touch" \in Split THEN <<Touch>> ELSE <<>>
UpdateWorkloadRetryOnFailure == [f |-> "retryOnFailure", status |-> "Failed"]
UpdateWorkloadStatus(s) == [f |-> "status", status |-> s]

\* What an update may write over the record r. Which of its two outcomes a
\* failure has depends on the attempts and the grace period (module RetryEngine).
Updated(u, r) ==
    IF u.f = "touch" THEN {r}
    ELSE IF u.f = "status" THEN {[r EXCEPT !.status = u.status]}
    ELSE {[r EXCEPT !.status = "Failed", !.retry = "exhausted"],
          [r EXCEPT !.status = "RetryPending", !.retry = IF @ = "exhausted" THEN @ ELSE "armed"]}

Busy(p) == todo[p] # <<>>

\* The first half of an update: GetWorkloadByID. Its errors are ignored.
UpdateRead(p) ==
    /\ Busy(p) /\ Head(todo[p]).f \in Split /\ tmp[p] = NoRecord /\ store # NoRecord
    /\ tmp' = [tmp EXCEPT ![p] = store]
    /\ UNCHANGED <<store, agent, nodeVars, pc, call, w, seen, todo, scan, calls, faults, history>>

UpdateSkip(p) ==
    /\ Busy(p) /\ tmp[p] = NoRecord /\ store = NoRecord
    /\ todo' = [todo EXCEPT ![p] = Tail(@)]
    /\ UNCHANGED <<store, agent, nodeVars, pc, call, w, seen, tmp, scan, calls, faults, history>>

\* The second half: change and save, except that an unchanged status is not saved.
\* An update outside Split works on the record as it is now.
UpdateWrite(p) ==
    LET u == Head(todo[p])
        r == IF u.f \in Split THEN tmp[p] ELSE store
    IN  /\ Busy(p) /\ r # NoRecord
        /\ IF u.f = "status" /\ u.status = r.status
           THEN UNCHANGED <<store, history>>
           ELSE \E rec \in Updated(u, r) : saveWorkload(rec)
        /\ todo' = [todo EXCEPT ![p] = Tail(@)]
        /\ tmp' = [tmp EXCEPT ![p] = NoRecord]
        /\ UNCHANGED <<agent, nodeVars, pc, call, w, seen, scan, calls, faults>>

----------------------------------------------------------------------------
(* Moving a goroutine: no update is pending, it is at one of the given places *)

At(p, places) == pc[p] \in places /\ ~Busy(p)

Goto(p, place) == pc' = [pc EXCEPT ![p] = place]
Queue(p, us) == todo' = [todo EXCEPT ![p] = us]
Copy(p, rec) == w' = [w EXCEPT ![p] = rec]

\* Where a reconciliation pass returns to.
Caller(p) == IF p = "drift" THEN "drift" ELSE "idle"

\* The pass ends, with the updates us still to be done.
Return(p, us) ==
    /\ Goto(p, Caller(p)) /\ Queue(p, us) /\ Copy(p, NoRecord)
    /\ seen' = [seen EXCEPT ![p] = "None"]

\* updateWorkloadReconciliationStatus, at the end of most passes.
RecordResult == IF Redis THEN <<>> ELSE Touches

----------------------------------------------------------------------------
(* API calls *)

ServeCall(p) ==
    /\ p \in Callers /\ At(p, {"idle"}) /\ calls < MaxCalls
    /\ \E c \in Calls : /\ call' = [call EXCEPT ![p] = c]
                        /\ Goto(p, IF c.op = "apply" THEN "exists" ELSE "read")
    /\ calls' = calls + 1
    /\ UNCHANGED <<store, agent, nodeVars, w, seen, todo, tmp, scan, faults, history>>

\* ApplyWorkload decides between an update and a creation.
ApplyWorkload(p) ==
    /\ At(p, {"exists"})
    /\ Goto(p, IF store = NoRecord THEN "create" ELSE "read")
    /\ UNCHANGED <<store, agent, nodeVars, call, w, seen, todo, tmp, scan, calls, faults, history>>

\* The created record is passed to the reconciler at once.
CreateWorkload(p) ==
    LET rec == [desired |-> call[p].desired, rev |-> call[p].rev, status |-> "Pending",
                node |-> NoNode, retry |-> "idle"]
    IN  /\ At(p, {"create"})
        /\ saveWorkload(rec) /\ Copy(p, rec) /\ Goto(p, "gate")
        /\ call' = [call EXCEPT ![p] = NoRecord]
        /\ UNCHANGED <<agent, nodeVars, seen, todo, tmp, scan, calls, faults>>

\* The read of UpdateWorkloadSpec, MarkWorkloadDeleted and TriggerWorkloadRetry.
ReadForCall(p) ==
    /\ At(p, {"read"})
    /\ Copy(p, store)
    /\ IF store = NoRecord
       THEN Goto(p, "idle") /\ call' = [call EXCEPT ![p] = NoRecord]
       ELSE Goto(p, "write") /\ UNCHANGED call
    /\ UNCHANGED <<store, agent, nodeVars, seen, todo, tmp, scan, calls, faults, history>>

UpdateWorkloadSpec(c, r) ==
    IF c.op = "apply" /\ c.rev # r.rev
    THEN [r EXCEPT !.desired = c.desired, !.rev = c.rev, !.status = "Updating"]
    ELSE [r EXCEPT !.desired = c.desired]

MarkWorkloadDeleted(r) == [r EXCEPT !.desired = "Deleted", !.status = "Deleting"]

TriggerWorkloadRetry(r) == [r EXCEPT !.retry = "armed"]

\* Their save. An update is passed to the reconciler at once.
WriteForCall(p) ==
    /\ At(p, {"write"})
    /\ LET rec == IF call[p].op = "delete" THEN MarkWorkloadDeleted(w[p])
                  ELSE IF call[p].op = "retry" THEN TriggerWorkloadRetry(w[p])
                  ELSE UpdateWorkloadSpec(call[p], w[p])
       IN  /\ saveWorkload(rec)
           /\ IF call[p].op \in {"apply", "setDesired"}
              THEN Goto(p, "gate") /\ Copy(p, rec)
              ELSE Goto(p, "idle") /\ Copy(p, NoRecord)
    /\ call' = [call EXCEPT ![p] = NoRecord]
    /\ UNCHANGED <<agent, nodeVars, seen, todo, tmp, scan, calls, faults>>

----------------------------------------------------------------------------
(* ReconcileWorkload on the copy w[p] *)

\* Mutant: a workload being deleted is skipped as well.
ReconcileAllWorkloadsSkipsDeleting ==
    /\ "loop" \in Daemons /\ At("loop", {"idle"})
    /\ store # NoRecord /\ store.status \notin {"Deleted", "Deleting"}
    /\ Copy("loop", store) /\ Goto("loop", "gate")
    /\ UNCHANGED <<store, agent, nodeVars, call, seen, todo, tmp, scan, calls, faults, history>>

\* ReconcileAllWorkloads skips a record whose status says it is gone.
ReconcileAllWorkloads ==
    /\ "loop" \in Daemons /\ At("loop", {"idle"})
    /\ store # NoRecord /\ store.status # "Deleted"
    /\ Copy("loop", store) /\ Goto("loop", "gate")
    /\ UNCHANGED <<store, agent, nodeVars, call, seen, todo, tmp, scan, calls, faults, history>>

\* The pass ends because NextRetryAt has not come. How many attempts it takes
\* until there is such a window is left to module RetryEngine.
BackoffWait(p) ==
    /\ At(p, {"gate"}) /\ w[p].retry # "idle" /\ "retry" \in Windows
    /\ Return(p, <<>>)
    /\ UNCHANGED <<store, agent, nodeVars, call, tmp, scan, calls, faults, history>>

\* selectNodeForWorkload takes a node that is NotReady or of the wrong type for
\* no workload, and one with an old heartbeat for some time still.
Candidates == {n \in Nodes : health[n] # "NotReady" /\ supports[n]}

\* Mutant: the assignment is not saved before the pass goes on with it.
assignWorkloadInMemory(p, rec) == Copy(p, rec) /\ UNCHANGED <<store, history>>

assignWorkload(p, rec) == saveWorkload(rec) /\ Copy(p, rec)

\* A deleted workload without a node is finalized; an unassigned one is placed.
EnsureWorkloadAssigned(p) ==
    /\ At(p, {"gate"})
    /\ \/ /\ w[p].node = NoNode /\ w[p].desired = "Deleted"
          /\ Goto(p, "deleteRead")
          /\ UNCHANGED <<store, history, w, seen, todo>>
       \/ /\ w[p].node = NoNode /\ w[p].desired # "Deleted" /\ Candidates = {}
          /\ Return(p, RecordResult)
          /\ UNCHANGED <<store, history>>
       \/ /\ w[p].node = NoNode /\ w[p].desired # "Deleted"
          /\ \E n \in Candidates :
                assignWorkload(p, [w[p] EXCEPT !.node = n, !.status = "Scheduled"])
          /\ Goto(p, "due")
          /\ UNCHANGED <<seen, todo>>
       \/ /\ w[p].node # NoNode
          /\ Goto(p, "due")
          /\ UNCHANGED <<store, history, w, seen, todo>>
    /\ UNCHANGED <<agent, nodeVars, call, tmp, scan, calls, faults>>

\* Past the gate, a planned retry is due.
dueForRetry(p) ==
    /\ At(p, {"due"})
    /\ IF w[p].retry = "armed"
       THEN LET rec == [w[p] EXCEPT !.retry = "idle", !.status = "Pending"]
            IN  saveWorkload(rec) /\ Copy(p, rec)
       ELSE UNCHANGED <<store, history, w>>
    /\ Goto(p, IF w[p].desired = "Deleted" THEN "probe" ELSE "failover")
    /\ UNCHANGED <<agent, nodeVars, call, seen, todo, tmp, scan, calls, faults>>

\* Before the first status call and, when that found the agent unreachable, again.
handleUnavailableAssignedNode(p) ==
    LET probe == IF pc[p] = "failover" THEN "probe" ELSE "probeAgain"
    IN  /\ At(p, {"failover", "failoverAgain"})
        /\ \/ /\ health[w[p].node] = "Ready"
              /\ Goto(p, probe)
              /\ UNCHANGED <<store, history, w, seen, todo>>
           \/ /\ health[w[p].node] # "Ready"
              /\ \E n \in Candidates \ {w[p].node} :
                    assignWorkload(p, [w[p] EXCEPT !.node = n, !.status = "Scheduled", !.retry = "idle"])
              /\ Queue(p, Touches) /\ Goto(p, probe)
              /\ UNCHANGED seen
           \/ /\ health[w[p].node] # "Ready"
              /\ Candidates = {} \/ w[p].node \in Candidates
              /\ Return(p, <<UpdateWorkloadRetryOnFailure>> \o RecordResult)
              /\ UNCHANGED <<store, history>>
        /\ UNCHANGED <<agent, nodeVars, call, tmp, scan, calls, faults>>

\* An unreachable agent gets its node marked NotReady and the workload, unless it
\* is to be deleted, one more chance on another node.
getActualWorkloadState(p) ==
    LET n == w[p].node
    IN  /\ At(p, {"probe", "probeAgain"})
        /\ \/ /\ link[n]
              /\ seen' = [seen EXCEPT ![p] = IF agent[n] = Absent THEN "Missing" ELSE agent[n].state]
              /\ Queue(p, IF agent[n] = Absent THEN <<>> ELSE Touches)
              /\ Goto(p, "decide")
              /\ UNCHANGED <<health, w>>
           \/ /\ ~link[n] /\ pc[p] = "probe" /\ w[p].desired # "Deleted"
              /\ health' = [health EXCEPT ![n] = "NotReady"]
              /\ Goto(p, "failoverAgain")
              /\ UNCHANGED <<w, seen, todo>>
           \/ /\ ~link[n] /\ (pc[p] = "probeAgain" \/ w[p].desired = "Deleted")
              /\ Return(p, RecordResult)
              /\ UNCHANGED health
        /\ UNCHANGED <<store, agent, link, supports, call, tmp, scan, calls, faults, history>>

\* Mutants: a workload found stopped or failed is left alone, one to stop is.
DecisionMissingOnly(desired, actual) ==
    IF actual = desired THEN "NoAction"
    ELSE IF desired = "Deleted" THEN "delete"
    ELSE IF \/ desired = "Running" /\ actual = "Missing"
            \/ desired = "Stopped" /\ actual \in {"Running", "Pending", "Unknown"}
         THEN "apply"
    ELSE "NoAction"

DecisionNeverStops(desired, actual) ==
    IF actual = desired THEN "NoAction"
    ELSE IF desired = "Deleted" THEN "delete"
    ELSE IF desired = "Running" /\ actual \in {"Missing", "Stopped", "Failed"} THEN "apply"
    ELSE "NoAction"

\* needsReconciliation and the switch of performReconciliation.
Decision(desired, actual) ==
    IF actual = desired THEN "NoAction"
    ELSE IF desired = "Deleted" THEN "delete"
    ELSE IF \/ desired = "Running" /\ actual \in {"Missing", "Stopped", "Failed"}
            \/ desired = "Stopped" /\ actual \in {"Running", "Pending", "Unknown"}
         THEN "apply"
    ELSE "NoAction"

\* The part of shouldHaltReapply that depends on the record.
shouldHaltReapply(p) ==
    /\ w[p].desired = "Running" /\ w[p].retry = "exhausted"
    /\ seen[p] = "Failed" \/ w[p].status = "Failed"

\* A halted workload is saved as Failed the first time. An apply may also be put
\* off by reapplyStillGuarded.
performReconciliation(p) ==
    LET decision == Decision(w[p].desired, seen[p])
    IN  /\ At(p, {"decide"})
        /\ \/ /\ decision = "NoAction"
              /\ Return(p, <<>>) \/ Return(p, RecordResult)
              /\ UNCHANGED <<store, history>>
           \/ /\ decision = "apply" /\ shouldHaltReapply(p)
              /\ \/ saveWorkload([w[p] EXCEPT !.status = "Failed"]) /\ Return(p, Touches)
                 \/ UNCHANGED <<store, history>> /\ Return(p, <<>>)
           \/ /\ decision = "apply" /\ ~shouldHaltReapply(p)
              /\ Goto(p, "precheck")
              /\ UNCHANGED <<store, history, w, seen, todo>>
           \/ /\ decision = "delete"
              /\ Goto(p, "delete")
              /\ UNCHANGED <<store, history, w, seen, todo>>
        /\ UNCHANGED <<agent, nodeVars, call, tmp, scan, calls, faults>>

\* The apply is put off by the reapply window, with a line in the log.
reapplyStillGuarded(p) ==
    /\ At(p, {"decide"}) /\ w[p].desired = "Running" /\ "reapply" \in Windows
    /\ Decision(w[p].desired, seen[p]) = "apply" /\ ~shouldHaltReapply(p)
    /\ Return(p, Touches)
    /\ UNCHANGED <<store, agent, nodeVars, call, tmp, scan, calls, faults, history>>

----------------------------------------------------------------------------
(* applyDesiredState *)

\* The agent's side of ApplyWorkload: the same revision in the desired state is
\* skipped, anything else is started or stopped.
Applied(n, rec) ==
    IF rec.desired = "Stopped" THEN [state |-> "Stopped", rev |-> rec.rev]
    ELSE IF agent[n] # Absent /\ agent[n].rev = rec.rev /\ agent[n].state \in {"Pending", "Running"}
         THEN agent[n]
    ELSE [state |-> "Pending", rev |-> rec.rev]

\* The status call right before an apply.
preApplyStatusCheck(p) ==
    LET n == w[p].node
        done == agent[n] # Absent /\ agent[n].state = w[p].desired
    IN  /\ At(p, {"precheck"})
        /\ \/ /\ ~link[n]
              /\ Return(p, <<UpdateWorkloadRetryOnFailure>> \o RecordResult)
           \/ /\ link[n] /\ done
              /\ Queue(p, <<UpdateWorkloadStatus(agent[n].state)>>) /\ Goto(p, "reset")
              /\ UNCHANGED <<w, seen>>
           \/ /\ link[n] /\ ~done
              /\ Goto(p, "apply")
              /\ UNCHANGED <<w, seen, todo>>
        /\ UNCHANGED <<store, agent, nodeVars, call, tmp, scan, calls, faults, history>>

\* The copy is saved when it has reapply metadata to drop.
resetReapplyBackoff(p) ==
    /\ At(p, {"reset"})
    /\ saveWorkload(w[p]) \/ UNCHANGED <<store, history>>
    /\ Return(p, RecordResult)
    /\ UNCHANGED <<agent, nodeVars, call, tmp, scan, calls, faults>>

applyWorkloadOnNode(p) ==
    LET n == w[p].node
    IN  /\ At(p, {"apply"})
        /\ \/ /\ link[n]
              /\ agent' = [agent EXCEPT ![n] = Applied(n, w[p])]
              /\ Queue(p, <<UpdateWorkloadStatus(Applied(n, w[p]).state)>> \o Touches)
              /\ Goto(p, "persist")
              /\ UNCHANGED <<w, seen>>
           \/ /\ ~link[n]
              /\ Return(p, <<UpdateWorkloadRetryOnFailure>> \o RecordResult)
              /\ UNCHANGED agent
        /\ UNCHANGED <<store, nodeVars, call, tmp, scan, calls, faults, history>>

\* The copy read before the apply is saved with the new reapply window.
persistApplyMetadata(p) ==
    /\ At(p, {"persist"})
    /\ saveWorkload(w[p])
    /\ Return(p, RecordResult)
    /\ UNCHANGED <<agent, nodeVars, call, tmp, scan, calls, faults>>

\* The call takes effect but fails (its answer is late), or is rejected.
applyFails(p) ==
    LET n == w[p].node
    IN  /\ At(p, {"apply"}) /\ link[n] /\ faults < MaxFaults
        /\ \/ /\ "applyTimeout" \in Faults
              /\ agent' = [agent EXCEPT ![n] = Applied(n, w[p])]
           \/ /\ "applyRejected" \in Faults
              /\ UNCHANGED agent
        /\ Return(p, <<UpdateWorkloadRetryOnFailure>> \o RecordResult)
        /\ faults' = faults + 1
        /\ UNCHANGED <<store, nodeVars, call, tmp, scan, calls, history>>

\* The agent answers "runtime not available": MarkNodeWorkloadTypeUnsupported,
\* then the copy is saved without a node, for the next pass to place it.
handleRuntimeUnavailable(p) ==
    LET n == w[p].node
    IN  /\ At(p, {"apply"}) /\ link[n] /\ faults < MaxFaults /\ "runtimeUnavailable" \in Faults
        /\ supports' = [supports EXCEPT ![n] = FALSE]
        /\ saveWorkload([w[p] EXCEPT !.node = NoNode, !.status = "Pending"])
        /\ Return(p, Touches \o RecordResult)
        /\ faults' = faults + 1
        /\ UNCHANGED <<agent, link, health, call, tmp, scan, calls>>

----------------------------------------------------------------------------
(* deleteDesiredWorkload and DeleteWorkloadWithContext *)

deleteDesiredWorkload(p) ==
    LET n == w[p].node
    IN  /\ At(p, {"delete"})
        /\ \/ /\ link[n]
              /\ agent' = [agent EXCEPT ![n] = Absent]
              /\ Goto(p, "deleteRead")
              /\ UNCHANGED <<w, seen, todo>>
           \/ /\ ~link[n]
              /\ Return(p, <<UpdateWorkloadRetryOnFailure>> \o RecordResult)
              /\ UNCHANGED agent
        /\ UNCHANGED <<store, nodeVars, call, tmp, scan, calls, faults, history>>

\* DeleteWorkloadWithContext reads the record again.
deleteRead(p) ==
    /\ At(p, {"deleteRead"})
    /\ Copy(p, store)
    /\ Goto(p, IF store = NoRecord \/ store.node = NoNode THEN "deleteKeys" ELSE "deleteOnNode")
    /\ UNCHANGED <<store, agent, nodeVars, call, seen, todo, tmp, scan, calls, faults, history>>

\* Best effort: an unreachable agent does not stop the deletion.
deleteWorkloadFromNode(p) ==
    LET n == w[p].node
    IN  /\ At(p, {"deleteOnNode"})
        /\ IF link[n]
           THEN agent' = [agent EXCEPT ![n] = Absent] /\ Queue(p, <<>>)
           ELSE UNCHANGED agent /\ Queue(p, Touches)
        /\ Goto(p, "deleteKeys")
        /\ UNCHANGED <<store, nodeVars, call, w, seen, tmp, scan, calls, faults, history>>

\* The verification that follows ends at the latest with deleteTimeout, whatever
\* it saw; then the keys of the record go. Nothing is recorded after a
\* FinalizeDelete, which has not asked the agent for a state.
deleteKeys(p) ==
    /\ At(p, {"deleteKeys"})
    /\ store' = NoRecord
    /\ Return(p, IF seen[p] = "None" THEN <<>> ELSE RecordResult)
    /\ UNCHANGED <<agent, nodeVars, call, tmp, scan, calls, faults, history>>

----------------------------------------------------------------------------
(* Monitor *)

MonitorWorkloads ==
    /\ "monitor" \in Daemons /\ At("monitor", {"idle"})
    /\ store # NoRecord /\ store.status # "Deleted"
    /\ Goto("monitor", "sync")
    /\ UNCHANGED <<store, agent, nodeVars, call, w, seen, todo, tmp, scan, calls, faults, history>>

\* syncWorkloadStatus up to the call to the agent ...
syncRead(p) ==
    /\ At(p, {"sync"})
    /\ IF store = NoRecord \/ store.node = NoNode \/ health[store.node] = "NotReady"
       THEN Goto(p, "idle") /\ UNCHANGED w
       ELSE Goto(p, "syncProbe") /\ Copy(p, store)
    /\ UNCHANGED <<store, agent, nodeVars, call, seen, todo, tmp, scan, calls, faults, history>>

\* Mutant: the reconciler's word for an unknown workload is stored as a status.
reportedStateMissing(n) == IF agent[n] = Absent THEN "Missing" ELSE agent[n].state

\* A workload the agent does not know gets status Deleted.
reportedState(n) == IF agent[n] = Absent THEN "Deleted" ELSE agent[n].state

\* ... and from it on.
syncWorkloadStatus(p) ==
    LET n == w[p].node
        state == reportedState(n)
    IN  /\ At(p, {"syncProbe"})
        /\ \/ ~link[n] /\ Return(p, <<>>)
           \/ /\ link[n]
              /\ LET us == IF state = w[p].status THEN <<>> ELSE <<UpdateWorkloadStatus(state)>>
                 IN  Return(p, IF agent[n] = Absent THEN us ELSE us \o Touches)
        /\ UNCHANGED <<store, agent, nodeVars, call, tmp, scan, calls, faults, history>>

----------------------------------------------------------------------------
(* Drift detection. scan holds the nodes still to be visited, the one being  *)
(* visited and what its agent listed, the record the cycle started from (exp)*)
(* and that record as the cycle has changed it since (snap, expectedAll).    *)

Scans == [left : SUBSET Nodes, cur : Nodes \cup {NoNode}, found : Instances \cup {Absent},
          exp : Records \cup {NoRecord}, snap : Records \cup {NoRecord}]

NoScan == [left |-> {}, cur |-> NoNode, found |-> Absent, exp |-> NoRecord, snap |-> NoRecord]

\* driftProbeEligible nodes only.
detectDriftOnce ==
    /\ "drift" \in Daemons /\ At("drift", {"idle"})
    /\ scan' = [left |-> {n \in Nodes : health[n] = "Ready"}, cur |-> NoNode, found |-> Absent,
                exp |-> store, snap |-> store]
    /\ Goto("drift", "drift")
    /\ UNCHANGED <<store, agent, nodeVars, call, w, seen, todo, tmp, calls, faults, history>>

driftDone ==
    /\ "drift" \in Daemons /\ At("drift", {"drift"}) /\ scan.left = {}
    /\ scan' = NoScan
    /\ Goto("drift", "idle")
    /\ UNCHANGED <<store, agent, nodeVars, call, w, seen, todo, tmp, calls, faults, history>>

listWorkloadsFromNode ==
    /\ "drift" \in Daemons /\ At("drift", {"drift"})
    /\ \E n \in scan.left :
         IF link[n]
         THEN /\ scan' = [scan EXCEPT !.left = @ \ {n}, !.cur = n, !.found = agent[n]]
              /\ Goto("drift", "compare")
         ELSE scan' = [scan EXCEPT !.left = @ \ {n}] /\ UNCHANGED pc
    /\ UNCHANGED <<store, agent, nodeVars, call, w, seen, todo, tmp, calls, faults, history>>

\* Mutant: the revision is compared with the cycle's own copy of the record.
revisionMismatchOwnCopy == scan.snap.rev # scan.exp.rev

revisionMismatch == scan.found.rev # scan.exp.rev

\* State and revision mismatch, orphan, and missing on the agent: the last is
\* reconciled from the record the cycle started with.
compareNodeDrift ==
    LET n == scan.cur
        expected == scan.exp # NoRecord /\ scan.exp.node = n
        missing == /\ scan.found = Absent /\ expected
                   /\ scan.snap.node \in {NoNode, n} /\ scan.exp.desired # "Deleted"
    IN  /\ "drift" \in Daemons /\ At("drift", {"compare"})
        /\ \/ /\ scan.found # Absent /\ expected
              /\ Queue("drift", IF scan.found.state = scan.exp.status THEN <<>>
                                ELSE <<UpdateWorkloadStatus(scan.found.state)>> \o Touches)
              /\ Goto("drift", IF revisionMismatch THEN "reapply" ELSE "drift")
              /\ UNCHANGED w
           \/ /\ scan.found # Absent /\ ~expected
              /\ Goto("drift", "orphan")
              /\ UNCHANGED <<todo, w>>
           \/ /\ missing
              /\ Queue("drift", <<UpdateWorkloadRetryOnFailure>>)
              /\ Copy("drift", scan.exp) /\ Goto("drift", "gate")
           \/ /\ scan.found = Absent /\ ~missing
              /\ Goto("drift", "drift")
              /\ UNCHANGED <<todo, w>>
        /\ UNCHANGED <<store, agent, nodeVars, call, seen, tmp, scan, calls, faults, history>>

\* normalizeDesiredState sends a record that is to be deleted as RUNNING.
remediateRevisionMismatch ==
    LET n == scan.cur
    IN  /\ "drift" \in Daemons /\ At("drift", {"reapply"})
        /\ IF link[n]
           THEN agent' = [agent EXCEPT ![n] = Applied(n, scan.exp)] /\ Queue("drift", Touches)
           ELSE UNCHANGED agent /\ Queue("drift", <<UpdateWorkloadRetryOnFailure>>)
        /\ Goto("drift", "drift")
        /\ UNCHANGED <<store, nodeVars, call, w, seen, tmp, scan, calls, faults, history>>

\* Mutant: it is judged by what the cycle read when it started.
remediateOrphanOnAgentNoLookup ==
    LET snap == scan.snap
    IN  /\ "drift" \in Daemons /\ At("drift", {"orphan"})
        /\ scan' = [scan EXCEPT !.snap = snap]
        /\ Goto("drift", IF snap = NoRecord \/ snap.desired = "Deleted" THEN "deleteOrphan"
                         ELSE IF snap.node \in {NoNode, scan.cur} THEN "adopt" ELSE "owner")
        /\ UNCHANGED <<store, agent, nodeVars, call, w, seen, todo, tmp, calls, faults, history>>

\* A workload unknown to the cycle is looked up again. One that is still unknown
\* or is to be deleted is removed from the node; one without an owner is adopted.
remediateOrphanOnAgent ==
    LET snap == IF scan.snap = NoRecord THEN store ELSE scan.snap
    IN  /\ "drift" \in Daemons /\ At("drift", {"orphan"})
        /\ scan' = [scan EXCEPT !.snap = snap]
        /\ Goto("drift", IF snap = NoRecord \/ snap.desired = "Deleted" THEN "deleteOrphan"
                         ELSE IF snap.node \in {NoNode, scan.cur} THEN "adopt" ELSE "owner")
        /\ UNCHANGED <<store, agent, nodeVars, call, w, seen, todo, tmp, calls, faults, history>>

\* The owner is asked: if it has the workload this one is a duplicate; an owner
\* that does not, or cannot be reached and is likely unavailable, is replaced.
checkOwner ==
    LET owner == scan.snap.node
    IN  /\ "drift" \in Daemons /\ At("drift", {"owner"})
        /\ Goto("drift", IF link[owner] /\ agent[owner] # Absent THEN "deleteOrphan"
                         ELSE IF link[owner] \/ health[owner] # "Ready" THEN "adopt"
                         ELSE "drift")
        /\ UNCHANGED <<store, agent, nodeVars, call, w, seen, todo, tmp, scan, calls, faults, history>>

deleteOrphanFromNode ==
    LET n == scan.cur
    IN  /\ "drift" \in Daemons /\ At("drift", {"deleteOrphan"})
        /\ agent' = IF link[n] THEN [agent EXCEPT ![n] = Absent] ELSE agent
        /\ Goto("drift", "drift")
        /\ UNCHANGED <<store, nodeVars, call, w, seen, todo, tmp, scan, calls, faults, history>>

adoptOrphanedWorkload ==
    LET rec == [scan.snap EXCEPT !.node = scan.cur, !.status = scan.found.state]
    IN  /\ "drift" \in Daemons /\ At("drift", {"adopt"})
        /\ saveWorkload(rec) /\ Queue("drift", Touches)
        /\ scan' = [scan EXCEPT !.snap = rec]
        /\ Goto("drift", "drift")
        /\ UNCHANGED <<agent, nodeVars, call, w, seen, tmp, calls, faults>>

----------------------------------------------------------------------------
(* Nodes and agents *)

\* UpdateNodeHeartbeat, then the statuses the heartbeat carries.
Heartbeat(n) ==
    /\ link[n] /\ health' = [health EXCEPT ![n] = "Ready"]
    /\ IF n \in Reporters /\ agent[n] # Absent
       THEN At(n, {"idle"}) /\ Queue(n, <<UpdateWorkloadStatus(agent[n].state)>> \o Touches)
       ELSE UNCHANGED todo
    /\ UNCHANGED <<store, agent, link, supports, pc, call, w, seen, tmp, scan, calls, faults, history>>

\* No heartbeat comes over a broken link: the node first looks stale, then
\* MonitorNodes marks it NotReady.
HeartbeatStale(n) ==
    /\ ~link[n] /\ health[n] = "Ready"
    /\ health' = [health EXCEPT ![n] = "Stale"]
    /\ UNCHANGED <<store, agent, link, supports, procVars, scan, calls, faults, history>>

MonitorNodes(n) ==
    /\ ~link[n] /\ health[n] = "Stale"
    /\ health' = [health EXCEPT ![n] = "NotReady"]
    /\ UNCHANGED <<store, agent, link, supports, procVars, scan, calls, faults, history>>

\* The agent starts what it was told to run.
AgentStarts(n) ==
    /\ agent[n] # Absent /\ agent[n].state = "Pending"
    /\ agent' = [agent EXCEPT ![n].state = "Running"]
    /\ UNCHANGED <<store, nodeVars, procVars, scan, calls, faults, history>>

LinkUp(n) ==
    /\ ~link[n] /\ link' = [link EXCEPT ![n] = TRUE]
    /\ UNCHANGED <<store, agent, health, supports, procVars, scan, calls, faults, history>>

NodeFault(n) ==
    /\ faults < MaxFaults /\ faults' = faults + 1
    /\ \/ /\ "linkDown" \in Faults /\ link[n]
          /\ link' = [link EXCEPT ![n] = FALSE] /\ UNCHANGED agent
       \/ /\ "workloadLost" \in Faults /\ agent[n] # Absent
          /\ agent' = [agent EXCEPT ![n] = Absent] /\ UNCHANGED link
       \/ /\ agent[n] # Absent
          /\ \E s \in Faults \cap AgentStates : agent' = [agent EXCEPT ![n].state = s]
          /\ UNCHANGED link
    /\ UNCHANGED <<store, health, supports, procVars, scan, calls, history>>

\* The scheduler process dies and starts again: what its goroutines were doing is
\* forgotten, what is in etcd stays.
Restart ==
    /\ "restart" \in Faults /\ faults < MaxFaults /\ faults' = faults + 1
    /\ pc' = [p \in Procs |-> "idle"] /\ call' = [p \in Procs |-> NoRecord]
    /\ w' = [p \in Procs |-> NoRecord] /\ seen' = [p \in Procs |-> "None"]
    /\ todo' = [p \in Procs |-> <<>>] /\ tmp' = [p \in Procs |-> NoRecord]
    /\ scan' = NoScan
    /\ UNCHANGED <<store, agent, nodeVars, calls, history>>

----------------------------------------------------------------------------
Init ==
    /\ store = NoRecord /\ agent = [n \in Nodes |-> Absent]
    /\ link = [n \in Nodes |-> TRUE] /\ health = [n \in Nodes |-> "Ready"]
    /\ supports = [n \in Nodes |-> TRUE]
    /\ pc = [p \in Procs |-> "idle"] /\ call = [p \in Procs |-> NoRecord]
    /\ w = [p \in Procs |-> NoRecord] /\ seen = [p \in Procs |-> "None"]
    /\ todo = [p \in Procs |-> <<>>] /\ tmp = [p \in Procs |-> NoRecord]
    /\ scan = NoScan /\ calls = 0 /\ faults = 0 /\ placed = {} /\ revs = {}

UpdateStep(p) == UpdateRead(p) \/ UpdateSkip(p) \/ UpdateWrite(p)

CallStep(p) == ApplyWorkload(p) \/ CreateWorkload(p) \/ ReadForCall(p) \/ WriteForCall(p)

ApplyStep(p) ==
    \/ preApplyStatusCheck(p) \/ resetReapplyBackoff(p) \/ applyWorkloadOnNode(p)
    \/ persistApplyMetadata(p)

DeleteStep(p) == deleteDesiredWorkload(p) \/ deleteRead(p) \/ deleteWorkloadFromNode(p) \/ deleteKeys(p)

ReconcileStep(p) ==
    \/ EnsureWorkloadAssigned(p) \/ dueForRetry(p) \/ handleUnavailableAssignedNode(p)
    \/ getActualWorkloadState(p) \/ performReconciliation(p) \/ ApplyStep(p) \/ DeleteStep(p)

MonitorStep(p) == syncRead(p) \/ syncWorkloadStatus(p)

DriftStep ==
    \/ detectDriftOnce \/ driftDone \/ listWorkloadsFromNode \/ compareNodeDrift
    \/ remediateRevisionMismatch \/ remediateOrphanOnAgent \/ checkOwner
    \/ deleteOrphanFromNode \/ adoptOrphanedWorkload

\* What a goroutine does of its own accord, backoff windows aside.
Step(p) == UpdateStep(p) \/ CallStep(p) \/ ReconcileStep(p) \/ MonitorStep(p)

NodeStep(n) == Heartbeat(n) \/ HeartbeatStale(n) \/ MonitorNodes(n) \/ AgentStarts(n)

Next ==
    \/ \E p \in Procs : \/ ServeCall(p) \/ Step(p) \/ BackoffWait(p) \/ reapplyStillGuarded(p)
                        \/ applyFails(p) \/ handleRuntimeUnavailable(p)
    \/ ReconcileAllWorkloads \/ MonitorWorkloads \/ DriftStep
    \/ \E n \in Nodes : NodeStep(n) \/ LinkUp(n) \/ NodeFault(n)
    \/ Restart

Spec == Init /\ [][Next]_vars

\* Goroutines, tickers, heartbeats and agents keep going. A backoff window ends,
\* so a workload reconciled again and again is some time let through. Nothing is
\* assumed of callers, of links that are down or of faults.
FairSpec ==
    /\ Spec
    /\ \A p \in Procs : /\ WF_vars(Step(p))
                        /\ SF_vars(EnsureWorkloadAssigned(p)) /\ SF_vars(performReconciliation(p))
    /\ WF_vars(ReconcileAllWorkloads) /\ WF_vars(MonitorWorkloads) /\ WF_vars(DriftStep)
    /\ \A n \in Nodes : WF_vars(NodeStep(n))

----------------------------------------------------------------------------
(* Properties *)

Places == {"idle", "exists", "create", "read", "write", "gate", "due", "failover", "probe",
           "failoverAgain", "probeAgain", "decide", "precheck", "reset", "apply", "persist",
           "delete", "deleteRead", "deleteOnNode", "deleteKeys", "sync", "syncProbe",
           "drift", "compare", "reapply", "orphan", "owner", "deleteOrphan", "adopt"}

\* Every variable has its type.
TypeOK ==
    /\ store \in Records \cup {NoRecord}
    /\ agent \in [Nodes -> Instances \cup {Absent}]
    /\ link \in [Nodes -> BOOLEAN] /\ supports \in [Nodes -> BOOLEAN]
    /\ health \in [Nodes -> {"Ready", "Stale", "NotReady"}]
    /\ pc \in [Procs -> Places] /\ call \in [Procs -> AllCalls \cup {NoRecord}]
    /\ w \in [Procs -> Records \cup {NoRecord}]
    /\ seen \in [Procs -> AgentStates \cup {"Missing", "None"}]
    /\ todo \in [Procs -> Seq(Updates)] /\ tmp \in [Procs -> Records \cup {NoRecord}]
    /\ scan \in Scans /\ calls \in 0..MaxCalls /\ faults \in 0..MaxFaults
    /\ placed \subseteq Nodes /\ revs \subseteq Revs

\* SCHEDULER_DESIGN_V1.md, acceptance criteria: all workload actions are
\* persisted before execution. Whatever copies the reconcilers and the drift
\* detector work on, an agent only ever holds the workload on a node the record
\* was assigned to before, in a revision the record had before.
PersistedBeforeExecution ==
    \A n \in Nodes : agent[n] # Absent => n \in placed /\ agent[n].rev \in revs

\* The record is not lost, and an instance goes only by a fault or as a duplicate:
\* the drift detector removes it from a node that is not the one it knows as owner.
Stays ==
    /\ store # NoRecord => store' # NoRecord
    /\ \A n \in Nodes : agent[n] # Absent /\ agent'[n] = Absent =>
          \/ faults' # faults
          \/ /\ pc["drift"] = "deleteOrphan" /\ scan.cur = n
             /\ scan.snap # NoRecord /\ scan.snap.node \in Nodes \ {n}

NoDeletes == \A c \in Calls : c.op # "delete"

\* A workload nobody asked to delete is kept: neither the passes over copies of the
\* record nor the remediations of the drift detector, which deletes what it takes
\* for an orphan, remove the record or the only instance they know of.
KeptUntilDeleted == [][NoDeletes => Stays]_vars

Outage == \E n \in Nodes : ~link[n]

OnNode == IF store.node = NoNode THEN Absent ELSE agent[store.node]

\* A record marked for deletion does not stay: with the agents reachable, the
\* reconciler deletes the workload on its node and removes the record
\* (SCHEDULER_DESIGN_V1.md, Delete).
DeletionCompletes == []<>(store = NoRecord \/ store.desired # "Deleted" \/ Outage)

\* A workload that is to run gets to run on the node of its record, whatever
\* goroutines and faults it meets, unless its retries are used up.
RunningConverges ==
    []<>(\/ store = NoRecord \/ Outage
         \/ store.desired # "Running" \/ store.retry = "exhausted"
         \/ OnNode # Absent /\ OnNode.state = "Running")

\* A workload that is to stop is not left running.
StoppedConverges ==
    []<>(\/ store = NoRecord \/ Outage \/ store.desired # "Stopped"
         \/ OnNode = Absent \/ OnNode.state \notin {"Pending", "Running"})

\* A new spec reaches the agent: the instance on the node of the record gets the
\* revision of the record.
RevisionReachesAgent ==
    []<>(\/ store = NoRecord \/ Outage \/ store.desired = "Deleted"
         \/ store.retry = "exhausted" \/ OnNode = Absent \/ OnNode.rev = store.rev)
=============================================================================

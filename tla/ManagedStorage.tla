--------------------------- MODULE ManagedStorage ---------------------------
(***************************************************************************)
(* Volumes and attachments of workloads in persys-scheduler                *)
(* (state_store.go). Every save of a workload writes its spec key, its     *)
(* status key and then brings the volume and attachment records in line    *)
(* with the copy that was saved (syncWorkloadManagedStorage).              *)
(*                                                                         *)
(* Goroutines save copies of the same or of different workloads at the     *)
(* same time. Records are read, changed and written back without a         *)
(* transaction, so a read and the write that depends on it are two steps.  *)
(* The workloads that share a volume are assumed to ask for one policy.    *)
(* Phases, sizes and paths are left out.                                   *)
(***************************************************************************)
EXTENDS Naturals

CONSTANTS
    Workloads, Volumes, Nodes,
    Wanted,         \* the managed volumes each workload asks for
    VMs,            \* the workloads that are virtual machines
    Existing,       \* the workloads CreateWorkload has already saved at the start
    Policy,         \* normalizeRetainPolicy of each volume: "Delete" or "Retain"
    Callers,        \* goroutines that create, place and delete workloads
    Beats,          \* goroutines that handle heartbeats
    NoNode, NoRecord,
    MaxCalls,       \* bound on operations other than heartbeats
    MaxFaults       \* bound on failures of etcd and on deaths of the process

ASSUME StorageAssumption ==
    /\ Wanted \in [Workloads -> SUBSET Volumes] /\ VMs \subseteq Workloads /\ Existing \subseteq Workloads
    /\ Policy \in [Volumes -> {"Delete", "Retain"}]
    /\ Callers \intersect Beats = {} /\ NoNode \notin Nodes /\ MaxCalls \in Nat /\ MaxFaults \in Nat

VARIABLES
    spec,           \* the desired state under workloadSpecKey, or NoRecord
    status,         \* node and managedStorageStateKey under workloadStatusKey, or NoRecord
    volume,         \* WorkloadRefs and AttachedNodes under managedVolumeKey, or NoRecord
    attachments,    \* the keys under attachmentPrefix: node, workload, volume
    pc,             \* where each goroutine is
    copy,           \* the workload it has read and changed
    required,       \* required of syncWorkloadManagedStorage
    todo,           \* what its loop still has to visit
    current,        \* the attachment or volume it is at
    held,           \* the volume records it has read
    calls, faults,
    placed          \* history: the nodes each workload was saved with

Procs == Callers \union Beats

etcdVars == <<spec, status, volume, attachments>>
vars == <<etcdVars, pc, copy, required, todo, current, held, calls, faults, placed>>

Record == [refs : SUBSET Workloads, nodes : SUBSET Nodes]
Empty == [refs |-> {}, nodes |-> {}]
NoCopy == [op |-> "none", id |-> NoRecord, volumes |-> {}, desired |-> NoRecord,
           node |-> NoNode, tracked |-> FALSE]
NoneHeld == [v \in Volumes |-> NoRecord]

ASSUME RecordAssumption == NoRecord \notin Record

\* The workloads of Existing have been created, some of them have a node, and the save
\* that followed brought their storage in line with it.
Init ==
    /\ \E start \in [Existing -> Nodes \union {NoNode}] :
         LET bound == {w \in Existing : start[w] # NoNode}
             users(v) == {w \in Existing : v \in Wanted[w]}
         IN  /\ status = [w \in Workloads |->
                            IF w \in Existing THEN [node |-> start[w], tracked |-> Wanted[w] # {}]
                            ELSE NoRecord]
             /\ volume = [v \in Volumes |->
                            IF users(v) = {} THEN NoRecord
                            ELSE [refs |-> users(v), nodes |-> {start[w] : w \in users(v) \intersect bound}]]
             /\ attachments = UNION {{[node |-> start[w], workload |-> w, volume |-> v] : v \in Wanted[w]} :
                                       w \in bound}
             /\ placed = [w \in Workloads |-> IF w \in bound THEN {start[w]} ELSE {}]
    /\ spec = [w \in Workloads |-> IF w \in Existing THEN "Running" ELSE NoRecord]
    /\ pc = [p \in Procs |-> "idle"] /\ copy = [p \in Procs |-> NoCopy]
    /\ required = [p \in Procs |-> {}] /\ todo = [p \in Procs |-> {}]
    /\ current = [p \in Procs |-> NoRecord] /\ held = [p \in Procs |-> NoneHeld]
    /\ calls = 0 /\ faults = 0

At(p, place) == pc[p] = place
Goto(p, place) == pc' = [pc EXCEPT ![p] = place]
deleting(p) == copy[p].desired = "Deleted"
attachmentsOf(w) == {a \in attachments : a.workload = w}

\* The end of a save: the goroutine is done, unless DeleteWorkload made the save.
Return(p) ==
    LET more == copy[p].op = "delete"
    IN  /\ Goto(p, IF more THEN "removeSpec" ELSE "idle")
        /\ copy' = IF more THEN copy ELSE [copy EXCEPT ![p] = NoCopy]
        /\ required' = [required EXCEPT ![p] = {}]
        /\ todo' = [todo EXCEPT ![p] = {}]
        /\ current' = [current EXCEPT ![p] = NoRecord]
        /\ held' = [held EXCEPT ![p] = NoneHeld]

\* Mutant: the policy is not looked at.
ReleasedAlways(record, v, w, ns) ==
    LET rest == [refs |-> record.refs \ {w}, nodes |-> record.nodes \ ns]
    IN  IF rest.refs = {} THEN NoRecord ELSE rest

\* What is stored of volume v once workload w and the nodes ns have left it: nothing,
\* when w was the last reference and the policy is Delete.
Released(record, v, w, ns) ==
    LET rest == [refs |-> record.refs \ {w}, nodes |-> record.nodes \ ns]
    IN  IF rest.refs = {} /\ Policy[v] = "Delete" THEN NoRecord ELSE rest

----------------------------------------------------------------------------
(* Operations that save a workload *)

\* CreateWorkload saves what the caller sent.
CreateWorkload(p, w) ==
    /\ At(p, "idle") /\ spec[w] = NoRecord
    /\ calls < MaxCalls /\ calls' = calls + 1
    /\ copy' = [copy EXCEPT ![p] = [op |-> "create", id |-> w, volumes |-> Wanted[w],
                                    desired |-> "Running", node |-> NoNode, tracked |-> FALSE]]
    /\ Goto(p, "saveSpec")
    /\ UNCHANGED <<etcdVars, required, todo, current, held, faults, placed>>

\* The spec half of GetWorkloadByID. The spec key holds the volumes of a VM; those of a
\* container are no field of workloadSpec.
readSpec(p, w, op) ==
    /\ copy' = [copy EXCEPT ![p] = [op |-> op, id |-> w,
                                    volumes |-> IF w \in VMs THEN Wanted[w] ELSE {},
                                    desired |-> spec[w], node |-> NoNode, tracked |-> FALSE]]
    /\ Goto(p, "readStatus")

\* UpdateWorkloadRuntimeDetails saves on every heartbeat that reports usage;
\* UpdateWorkloadStatus, Logs and Metadata save when something changed.
UpdateWorkload(p, w) ==
    /\ At(p, "idle") /\ spec[w] # NoRecord
    /\ readSpec(p, w, "update")
    /\ UNCHANGED <<etcdVars, required, todo, current, held, calls, faults, placed>>

\* assign: assignWorkload and adoptOrphanedWorkload; clear: a failover;
\* mark: MarkWorkloadDeleted; delete: DeleteWorkloadWithContext, for a workload marked.
Call(p, w) ==
    /\ At(p, "idle") /\ spec[w] # NoRecord
    /\ calls < MaxCalls /\ calls' = calls + 1
    /\ \E op \in {"assign", "clear", "mark", "delete"} :
         /\ op = "delete" => spec[w] = "Deleted"
         /\ readSpec(p, w, op)
    /\ UNCHANGED <<etcdVars, required, todo, current, held, faults, placed>>

NoStatus == [node |-> NoNode, tracked |-> FALSE]

\* What the status key says of a workload; nothing is stored for a new one.
storedStatus(w) == IF status[w] = NoRecord THEN NoStatus ELSE status[w]

\* The copy with the status st, and what the operation changes in it.
loaded(p, st) ==
    LET read == [copy[p] EXCEPT !.node = st.node, !.tracked = st.tracked]
    IN  \/ read.op = "update" /\ copy' = [copy EXCEPT ![p] = read] /\ Goto(p, "saveSpec")
        \/ /\ read.op = "assign"
           /\ \E n \in Nodes : copy' = [copy EXCEPT ![p] = [read EXCEPT !.node = n]]
           /\ Goto(p, "saveSpec")
        \/ /\ read.op = "clear"
           /\ copy' = [copy EXCEPT ![p] = [read EXCEPT !.node = NoNode]] /\ Goto(p, "saveSpec")
        \/ /\ read.op = "mark"
           /\ copy' = [copy EXCEPT ![p] = [read EXCEPT !.desired = "Deleted"]]
           /\ Goto(p, "saveSpec")
        \/ /\ read.op = "delete" /\ copy' = [copy EXCEPT ![p] = read]
           /\ Goto(p, IF read.volumes # {} \/ read.tracked THEN "cleanup" ELSE "cleanupVolumes")

\* The status half of GetWorkloadByID. An error of this read is dropped: the operation
\* goes on with a copy that has no node and no metadata.
readStatus(p) ==
    /\ At(p, "readStatus")
    /\ \/ loaded(p, storedStatus(copy[p].id)) /\ UNCHANGED faults
       \/ loaded(p, NoStatus) /\ faults < MaxFaults /\ faults' = faults + 1
    /\ UNCHANGED <<etcdVars, required, todo, current, held, calls, placed>>

----------------------------------------------------------------------------
(* saveWorkload *)

saveSpec(p) ==
    /\ At(p, "saveSpec")
    /\ spec' = [spec EXCEPT ![copy[p].id] = copy[p].desired]
    /\ Goto(p, "saveStatus")
    /\ UNCHANGED <<status, volume, attachments, copy, required, todo, current, held, calls, faults, placed>>

\* Mutant: the storage is synchronised even when the status could not be written.
saveStatusUnchecked(p) ==
    LET w == copy[p].id
        sync == copy[p].volumes # {} \/ copy[p].tracked
    IN  /\ At(p, "saveStatus")
        /\ \/ /\ status' = [status EXCEPT ![w] = [node |-> copy[p].node, tracked |-> sync]]
              /\ placed' = [placed EXCEPT ![w] = @ \union ({copy[p].node} \ {NoNode})]
              /\ UNCHANGED faults
           \/ faults < MaxFaults /\ faults' = faults + 1 /\ UNCHANGED <<status, placed>>
        /\ IF sync
           THEN /\ Goto(p, "list")
                /\ required' = [required EXCEPT ![p] = copy[p].volumes]
                /\ UNCHANGED <<copy, todo, current, held>>
           ELSE Return(p)
        /\ UNCHANGED <<spec, volume, attachments, calls>>

\* The status key holds the node and the metadata. Then the storage is synchronised
\* if the workload asks for volumes or its metadata says it once did.
saveStatus(p) ==
    LET w == copy[p].id
        sync == copy[p].volumes # {} \/ copy[p].tracked
    IN  /\ At(p, "saveStatus")
        /\ status' = [status EXCEPT ![w] = [node |-> copy[p].node, tracked |-> sync]]
        /\ placed' = [placed EXCEPT ![w] = @ \union ({copy[p].node} \ {NoNode})]
        /\ IF sync
           THEN /\ Goto(p, "list")
                /\ required' = [required EXCEPT ![p] = copy[p].volumes]
                /\ UNCHANGED <<copy, todo, current, held>>
           ELSE Return(p)
        /\ UNCHANGED <<spec, volume, attachments, calls, faults>>

----------------------------------------------------------------------------
(* syncWorkloadManagedStorage *)

\* The first loop has attachments left, or the second begins, over what is then required.
Detaching(p, left) ==
    /\ todo' = [todo EXCEPT ![p] = IF left = {} THEN required[p] ELSE left]
    /\ Goto(p, IF left = {} THEN "attach" ELSE "detach")

listAttachments(p) ==
    /\ At(p, "list")
    /\ Detaching(p, attachmentsOf(copy[p].id))
    /\ UNCHANGED <<etcdVars, copy, required, current, held, calls, faults, placed>>

\* Mutant: an attachment to another node than the assigned one is left alone.
staleElsewhere(p, a) == deleting(p) \/ a.volume \notin required[p] \/ copy[p].node = NoNode

\* Whether the first loop takes an attachment away.
stale(p, a) == deleting(p) \/ a.volume \notin required[p] \/ a.node # copy[p].node

\* One attachment of the first loop. Its key is deleted (an error of that is ignored),
\* its volume is read and leaves required: this pass does not attach it again.
detach(p) ==
    /\ At(p, "detach")
    /\ \E a \in todo[p] :
         IF stale(p, a)
         THEN /\ \/ attachments' = attachments \ {a} /\ UNCHANGED faults
                 \/ faults < MaxFaults /\ faults' = faults + 1 /\ UNCHANGED attachments
              /\ required' = [required EXCEPT ![p] = @ \ {a.volume}]
              /\ todo' = [todo EXCEPT ![p] = @ \ {a}]
              /\ current' = [current EXCEPT ![p] = a]
              /\ held' = [held EXCEPT ![p][a.volume] = volume[a.volume]]
              /\ Goto(p, "release")
         ELSE /\ Detaching(p, todo[p] \ {a})
              /\ UNCHANGED <<attachments, faults, required, current, held>>
    /\ UNCHANGED <<spec, status, volume, copy, calls, placed>>

\* ... and its record is written back without the workload and the node, unless the
\* read or the write fails, which is ignored too.
release(p) ==
    LET v == current[p].volume
    IN  /\ At(p, "release")
        /\ \/ /\ volume' = IF held[p][v] = NoRecord THEN volume
                           ELSE [volume EXCEPT ![v] =
                                   Released(held[p][v], v, copy[p].id, {current[p].node})]
              /\ UNCHANGED faults
           \/ faults < MaxFaults /\ faults' = faults + 1 /\ UNCHANGED volume
        /\ current' = [current EXCEPT ![p] = NoRecord]
        /\ held' = [held EXCEPT ![p] = NoneHeld]
        /\ Detaching(p, todo[p])
        /\ UNCHANGED <<spec, status, attachments, copy, required, calls, placed>>

\* getManagedVolumeRecord; a record that does not exist starts empty.
attach(p) ==
    /\ At(p, "attach")
    /\ \E v \in todo[p] :
         /\ todo' = [todo EXCEPT ![p] = @ \ {v}]
         /\ current' = [current EXCEPT ![p] = v]
         /\ held' = [held EXCEPT ![p][v] = IF volume[v] = NoRecord THEN Empty ELSE volume[v]]
    /\ Goto(p, "saveVolume")
    /\ UNCHANGED <<etcdVars, copy, required, calls, faults, placed>>

\* Mutant: a workload without a node gets an attachment too.
saveVolumeUnassigned(p) ==
    LET v == current[p]
        ns == {copy[p].node} \ {NoNode}
    IN  /\ At(p, "saveVolume") /\ ~ deleting(p)
        /\ volume' = [volume EXCEPT ![v] = [refs |-> held[p][v].refs \union {copy[p].id},
                                            nodes |-> held[p][v].nodes \union ns]]
        /\ held' = [held EXCEPT ![p] = NoneHeld]
        /\ Goto(p, "saveAttachment")
        /\ UNCHANGED <<spec, status, attachments, copy, required, todo, current, calls, faults, placed>>

\* saveManagedVolumeRecord, or deleteManagedVolumeRecord for a deleted workload.
saveVolume(p) ==
    LET v == current[p]
        w == copy[p].id
        ns == {copy[p].node} \ {NoNode}
        bind == ~ deleting(p) /\ ns # {}
    IN  /\ At(p, "saveVolume")
        /\ volume' = [volume EXCEPT ![v] =
                        IF deleting(p) THEN Released(held[p][v], v, w, ns)
                        ELSE [refs |-> held[p][v].refs \union {w},
                              nodes |-> held[p][v].nodes \union ns]]
        /\ held' = [held EXCEPT ![p] = NoneHeld]
        /\ current' = IF bind THEN current ELSE [current EXCEPT ![p] = NoRecord]
        /\ Goto(p, IF bind THEN "saveAttachment" ELSE "attach")
        /\ UNCHANGED <<spec, status, attachments, copy, required, todo, calls, faults, placed>>

saveVolumeAttachmentRecord(p) ==
    /\ At(p, "saveAttachment")
    /\ attachments' = attachments \union
         {[node |-> copy[p].node, workload |-> copy[p].id, volume |-> current[p]]}
    /\ current' = [current EXCEPT ![p] = NoRecord]
    /\ Goto(p, "attach")
    /\ UNCHANGED <<spec, status, volume, copy, required, todo, held, calls, faults, placed>>

\* The third loop is over a list of all volumes: the ones that still have the workload
\* in their references although it no longer requires them.
listVolumes(p) ==
    LET listed == {v \in Volumes : /\ volume[v] # NoRecord /\ copy[p].id \in volume[v].refs
                                   /\ v \notin required[p] \/ deleting(p)}
    IN  /\ At(p, "attach") /\ todo[p] = {}
        /\ IF listed = {} THEN Return(p)
           ELSE /\ todo' = [todo EXCEPT ![p] = listed]
                /\ held' = [held EXCEPT ![p] =
                              [v \in Volumes |-> IF v \in listed THEN volume[v] ELSE NoRecord]]
                /\ Goto(p, "prune")
                /\ UNCHANGED <<copy, required, current>>
        /\ UNCHANGED <<etcdVars, calls, faults, placed>>

prune(p) ==
    /\ At(p, "prune")
    /\ \E v \in todo[p] :
         /\ volume' = [volume EXCEPT ![v] =
                         Released(held[p][v], v, copy[p].id, {copy[p].node} \ {NoNode})]
         /\ IF todo[p] = {v} THEN Return(p)
            ELSE /\ todo' = [todo EXCEPT ![p] = @ \ {v}]
                 /\ held' = [held EXCEPT ![p][v] = NoRecord]
                 /\ UNCHANGED <<pc, copy, required, current>>
    /\ UNCHANGED <<spec, status, attachments, calls, faults, placed>>

----------------------------------------------------------------------------
(* DeleteWorkloadWithContext *)

\* cleanupManagedStorageForWorkload: every attachment goes, errors are ignored ...
cleanup(p) ==
    /\ At(p, "cleanup")
    /\ \E kept \in SUBSET attachmentsOf(copy[p].id) :
         /\ \/ kept = {} /\ UNCHANGED faults
            \/ kept # {} /\ faults < MaxFaults /\ faults' = faults + 1
         /\ attachments' = attachments \ (attachmentsOf(copy[p].id) \ kept)
    /\ current' = [current EXCEPT ![p] = attachmentsOf(copy[p].id)]
    /\ Goto(p, "cleanupList")
    /\ UNCHANGED <<spec, status, volume, copy, required, todo, held, calls, placed>>

\* ... then every volume that has the workload or had one of the attachments is listed.
cleanupList(p) ==
    LET gone(v) == {a \in current[p] : a.volume = v}
        listed == {v \in Volumes : /\ volume[v] # NoRecord
                                   /\ copy[p].id \in volume[v].refs \/ gone(v) # {}}
    IN  /\ At(p, "cleanupList")
        /\ todo' = [todo EXCEPT ![p] = listed]
        /\ held' = [held EXCEPT ![p] =
             [v \in Volumes |-> IF v \in listed
                                THEN [volume[v] EXCEPT !.nodes = @ \ {a.node : a \in gone(v)}]
                                ELSE NoRecord]]
        /\ current' = [current EXCEPT ![p] = NoRecord]
        /\ Goto(p, "cleanupVolumes")
        /\ UNCHANGED <<etcdVars, copy, required, calls, faults, placed>>

cleanupVolume(p) ==
    /\ At(p, "cleanupVolumes")
    /\ \E v \in todo[p] :
         /\ volume' = [volume EXCEPT ![v] = Released(held[p][v], v, copy[p].id, {})]
         /\ todo' = [todo EXCEPT ![p] = @ \ {v}]
         /\ held' = [held EXCEPT ![p][v] = NoRecord]
    /\ UNCHANGED <<spec, status, attachments, pc, copy, required, current, calls, faults, placed>>

\* The agent is asked to delete its part. When it cannot be reached UpdateWorkloadLogs
\* reads the workload again and saves it once more.
cleanedUp(p) ==
    LET w == copy[p].id
    IN  /\ At(p, "cleanupVolumes") /\ todo[p] = {}
        /\ \/ /\ copy[p].node # NoNode /\ spec[w] # NoRecord
              /\ copy' = [copy EXCEPT ![p] = [@ EXCEPT !.desired = spec[w], !.node = storedStatus(w).node,
                                                       !.tracked = storedStatus(w).tracked]]
              /\ Goto(p, "saveSpec")
           \/ Goto(p, "removeSpec") /\ UNCHANGED copy
        /\ UNCHANGED <<etcdVars, required, todo, current, held, calls, faults, placed>>

removeSpec(p) ==
    /\ At(p, "removeSpec")
    /\ spec' = [spec EXCEPT ![copy[p].id] = NoRecord]
    /\ Goto(p, "removeStatus")
    /\ UNCHANGED <<status, volume, attachments, copy, required, todo, current, held, calls, faults, placed>>

\* An error here is ignored: a status without a spec stays.
removeStatus(p) ==
    /\ At(p, "removeStatus")
    /\ \/ status' = [status EXCEPT ![copy[p].id] = NoRecord] /\ UNCHANGED faults
       \/ faults < MaxFaults /\ faults' = faults + 1 /\ UNCHANGED status
    /\ Goto(p, "idle") /\ copy' = [copy EXCEPT ![p] = NoCopy]
    /\ UNCHANGED <<spec, volume, attachments, required, todo, current, held, calls, placed>>

\* A read or a write of etcd fails and the operation returns, or the process dies.
Abort(p) ==
    /\ ~ At(p, "idle") /\ faults < MaxFaults /\ faults' = faults + 1
    /\ Goto(p, "idle") /\ copy' = [copy EXCEPT ![p] = NoCopy]
    /\ required' = [required EXCEPT ![p] = {}] /\ todo' = [todo EXCEPT ![p] = {}]
    /\ current' = [current EXCEPT ![p] = NoRecord] /\ held' = [held EXCEPT ![p] = NoneHeld]
    /\ UNCHANGED <<etcdVars, calls, placed>>

----------------------------------------------------------------------------
Start(p) == \E w \in Workloads : CreateWorkload(p, w) \/ Call(p, w)

Save(p) == readStatus(p) \/ saveSpec(p) \/ saveStatus(p)

Sync(p) ==
    \/ listAttachments(p) \/ detach(p) \/ release(p)
    \/ attach(p) \/ saveVolume(p) \/ saveVolumeAttachmentRecord(p)
    \/ listVolumes(p) \/ prune(p)

Remove(p) ==
    \/ cleanup(p) \/ cleanupList(p) \/ cleanupVolume(p) \/ cleanedUp(p)
    \/ removeSpec(p) \/ removeStatus(p)

Step(p) == Save(p) \/ Sync(p) \/ Remove(p)

Next ==
    \/ \E p \in Callers : Start(p)
    \/ \E p \in Beats, w \in Workloads : UpdateWorkload(p, w)
    \/ \E p \in Procs : Step(p) \/ Abort(p)

Spec == Init /\ [][Next]_vars

\* A goroutine that has begun goes on, and heartbeats go on reporting the usage of
\* every workload that has a record.
FairSpec ==
    /\ Spec
    /\ \A p \in Procs : WF_vars(Step(p))
    /\ \A w \in Workloads : SF_vars(\E p \in Beats : UpdateWorkload(p, w))

----------------------------------------------------------------------------
(* Properties *)

\* The types of the records, of the copies and of what the loops hold.
TypeOK ==
    /\ spec \in [Workloads -> {"Running", "Deleted", NoRecord}]
    /\ status \in [Workloads -> [node : Nodes \union {NoNode}, tracked : BOOLEAN] \union {NoRecord}]
    /\ volume \in [Volumes -> Record \union {NoRecord}]
    /\ attachments \subseteq [node : Nodes, workload : Workloads, volume : Volumes]
    /\ held \in [Procs -> [Volumes -> Record \union {NoRecord}]]
    /\ required \in [Procs -> SUBSET Volumes]
    /\ \A p \in Procs : At(p, "idle") <=> copy[p] = NoCopy

\* The record of a volume whose policy is Retain is never removed, whichever
\* goroutines release it at the same time and from however old a copy.
RetainNeverDeleted ==
    [][\A v \in Volumes : Policy[v] = "Retain" /\ volume[v] # NoRecord => volume'[v] # NoRecord]_vars

\* An attachment names a node the workload was saved with: saveWorkload writes the
\* status before it attaches, so no failure between the two leaves a volume attached
\* to a node that no record ever assigned.
AttachmentFollowsAssignment == \A a \in attachments : a.node \in placed[a.workload]

\* The storage of w is what its record asks for.
Settled(w) ==
    \A v \in Wanted[w] :
        /\ volume[v] # NoRecord /\ w \in volume[v].refs
        /\ {a.node : a \in {b \in attachmentsOf(w) : b.volume = v}} = {status[w].node}
        /\ status[w].node \in volume[v].nodes

\* A VM that has a record and a node sooner or later has its volumes attached to that
\* node and no other, and again after every lost update of a shared volume: the detach
\* of one save, the silent failure to delete a key and the race of two saves are all
\* made up for by a later save.
StorageConverges ==
    \A w \in VMs :
        []<>(spec[w] # "Running" \/ status[w] = NoRecord \/ status[w].node = NoNode \/ Settled(w))
=============================================================================

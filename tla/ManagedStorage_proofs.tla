------------------------ MODULE ManagedStorage_proofs ------------------------
(***************************************************************************)
(* Proofs about ManagedStorage for any workloads, volumes, nodes and       *)
(* goroutines, and any number of operations and failures.                  *)
(*                                                                         *)
(* The invariant says what each goroutine knows at each place: what it     *)
(* holds is a record it has read, and once it has written the status its   *)
(* copy names a node the workload was saved with.                          *)
(***************************************************************************)
EXTENDS ManagedStorage, TLAPS

\* Most leaves are first-order: Zenon is tried unless a leaf names another prover.
USE Zenon

Attachments == [node : Nodes, workload : Workloads, volume : Volumes]
Status == [node : Nodes \union {NoNode}, tracked : BOOLEAN]

Copies == [op : {"create", "update", "assign", "clear", "mark", "delete"}, id : Workloads,
           volumes : SUBSET Volumes, desired : {"Running", "Deleted"},
           node : Nodes \union {NoNode}, tracked : BOOLEAN]

\* No loop of the goroutine has begun.
Quiet == {"idle", "readStatus", "saveSpec", "saveStatus", "list", "cleanup", "cleanupList",
          "removeSpec", "removeStatus"}

\* After saveStatus.
Synced == {"list", "detach", "release", "attach", "saveVolume", "saveAttachment", "prune"}

Shared ==
    /\ spec \in [Workloads -> {"Running", "Deleted", NoRecord}]
    /\ status \in [Workloads -> Status \union {NoRecord}]
    /\ volume \in [Volumes -> Record \union {NoRecord}]
    /\ attachments \subseteq Attachments
    /\ placed \in [Workloads -> SUBSET Nodes]
    /\ DOMAIN pc = Procs /\ DOMAIN copy = Procs /\ DOMAIN required = Procs
    /\ DOMAIN todo = Procs /\ DOMAIN current = Procs /\ DOMAIN held = Procs
    /\ required = [q \in Procs |-> required[q]] /\ held = [q \in Procs |-> held[q]]

Loops(p) ==
    /\ required[p] \subseteq Volumes
    /\ held[p] \in [Volumes -> Record \union {NoRecord}]
    /\ pc[p] \in Quiet => todo[p] = {}
    /\ pc[p] \in {"detach", "release"} => todo[p] \subseteq Attachments
    /\ pc[p] = "release" => current[p] \in Attachments
    /\ pc[p] \in {"attach", "saveVolume", "saveAttachment"} => todo[p] \subseteq Volumes
    /\ pc[p] \in {"saveVolume", "saveAttachment"} => current[p] \in Volumes
    /\ pc[p] = "saveVolume" => held[p][current[p]] \in Record
    /\ pc[p] \in {"prune", "cleanupVolumes"} => \A v \in todo[p] : v \in Volumes /\ held[p][v] \in Record

Copied(p) ==
    /\ pc[p] = "idle" => copy[p] = NoCopy
    /\ pc[p] # "idle" => copy[p] \in Copies
    /\ pc[p] \in Synced => copy[p].node \in placed[copy[p].id] \union {NoNode}
    /\ pc[p] = "saveAttachment" => copy[p].node # NoNode

StorageInv ==
    /\ Shared /\ AttachmentFollowsAssignment
    /\ \A p \in Procs : Loops(p) /\ Copied(p)

\* What a step must not do to a volume.
Retains == \A v \in Volumes : Policy[v] = "Retain" /\ volume[v] # NoRecord => volume'[v] # NoRecord

\* Step of p: the other goroutines stay where they are.
OthersStay(p) ==
    \A q \in Procs \ {p} :
      /\ pc'[q] = pc[q] /\ copy'[q] = copy[q] /\ required'[q] = required[q]
      /\ todo'[q] = todo[q] /\ current'[q] = current[q] /\ held'[q] = held[q]

\* What Released gives is a record or nothing, and nothing only under Delete.
LEMMA ReleasedIsRecord ==
    ASSUME NEW r \in Record, NEW v \in Volumes, NEW w, NEW ns
    PROVE  /\ Released(r, v, w, ns) \in Record \union {NoRecord}
           /\ Policy[v] = "Retain" => Released(r, v, w, ns) # NoRecord
<1> DEFINE rest == [refs |-> r.refs \ {w}, nodes |-> r.nodes \ ns]
<1>1. rest \in Record
    BY DEF Record
<1>2. rest # NoRecord
    BY <1>1, RecordAssumption
<1> QED BY <1>1, <1>2 DEF Released

\* A goroutine that leaves the others alone and keeps the records in order keeps
\* what the others know.
LEMMA OthersKeep ==
    ASSUME StorageInv, NEW p \in Procs, OthersStay(p), Shared', AttachmentFollowsAssignment',
           Loops(p)', Copied(p)', \A w \in Workloads : placed[w] \subseteq placed'[w]
    PROVE  StorageInv'
<1>1. ASSUME NEW q \in Procs, q # p PROVE Loops(q)'
    BY <1>1, ZenonT(30) DEF StorageInv, OthersStay, Loops
<1>2. ASSUME NEW q \in Procs, q # p PROVE Copied(q)'
    <2>1. Copied(q) /\ pc'[q] = pc[q] /\ copy'[q] = copy[q]
        BY <1>2 DEF StorageInv, OthersStay
    <2>2. pc[q] \in Synced => copy[q].id \in Workloads
        BY <2>1 DEF Copied, Synced, Copies
    <2> QED BY <2>1, <2>2, SMT DEF Copied
<1> QED BY <1>1, <1>2 DEF StorageInv
\* The workloads of Existing are attached where they are placed.
LEMMA StorageStarts == Init => StorageInv
<1> SUFFICES ASSUME Init PROVE StorageInv
    OBVIOUS
<1>1. PICK start \in [Existing -> Nodes \union {NoNode}] :
        LET bound == {w \in Existing : start[w] # NoNode}
            users(v) == {w \in Existing : v \in Wanted[w]}
        IN  /\ status = [w \in Workloads |->
                           IF w \in Existing THEN [node |-> start[w], tracked |-> Wanted[w] # {}]
                           ELSE NoRecord]
            /\ volume = [v \in Volumes |->
                           IF users(v) = {} THEN NoRecord
                           ELSE [refs |-> users(v), nodes |-> {start[w] : w \in users(v) \intersect bound}]]
            /\ attachments = UNION {{[node |-> start[w], workload |-> w, volume |-> v] : v \in Wanted[w]} :
                                      w \in bound}
            /\ placed = [w \in Workloads |-> IF w \in bound THEN {start[w]} ELSE {}]
    BY DEF Init
<1> USE StorageAssumption
<1>2. Shared
    <2>1. \A w \in Existing : [node |-> start[w], tracked |-> Wanted[w] # {}] \in Status
        <3>1. \A w \in Existing : (Wanted[w] # {}) \in BOOLEAN
            OBVIOUS
        <3> QED BY <3>1 DEF Status
    <2>2. status \in [Workloads -> Status \union {NoRecord}]
        BY <1>1, <2>1
    <2>3. volume \in [Volumes -> Record \union {NoRecord}]
        BY <1>1, SMT DEF Record
    <2>4. attachments \subseteq Attachments
        BY <1>1, SMT DEF Attachments
    <2>5. placed \in [Workloads -> SUBSET Nodes]
        BY <1>1
    <2> QED BY <2>2, <2>3, <2>4, <2>5 DEF Init, Shared
<1>3. AttachmentFollowsAssignment
    BY <1>1, SMT DEF AttachmentFollowsAssignment
<1>4. \A p \in Procs : Loops(p) /\ Copied(p)
    BY DEF Init, Loops, Copied, NoneHeld, Quiet, Synced
<1> QED BY <1>2, <1>3, <1>4 DEF StorageInv

\* The end of a save.
LEMMA ReturnKeeps ==
    ASSUME StorageInv, NEW p \in Procs, pc[p] # "idle", Return(p)
    PROVE  /\ OthersStay(p) /\ Loops(p)' /\ Copied(p)'
           /\ DOMAIN pc' = Procs /\ DOMAIN copy' = Procs /\ DOMAIN required' = Procs
           /\ DOMAIN todo' = Procs /\ DOMAIN current' = Procs /\ DOMAIN held' = Procs
           /\ required' = [q \in Procs |-> required'[q]] /\ held' = [q \in Procs |-> held'[q]]
<1>1. pc'[p] \in {"removeSpec", "idle"}
    BY DEF Return, Goto, StorageInv, Shared
<1>2. Loops(p)'
    BY <1>1 DEF Return, Goto, StorageInv, Shared, Loops, NoneHeld, Quiet
<1>3. Copied(p)'
    BY <1>1 DEF Return, Goto, StorageInv, Shared, Copied, Synced
<1> QED BY <1>2, <1>3 DEF Return, Goto, StorageInv, Shared, OthersStay

\* Reading a workload and the steps around it: no volume and no attachment changes.
LEMMA ReadsKeep ==
    ASSUME StorageInv, NEW p \in Procs,
           \/ \E w \in Workloads : CreateWorkload(p, w) \/ UpdateWorkload(p, w) \/ Call(p, w)
           \/ readStatus(p) \/ saveSpec(p) \/ cleanedUp(p) \/ removeSpec(p) \/ removeStatus(p)
           \/ Abort(p)
    PROVE  StorageInv' /\ Retains
<1> USE DEF At, Goto, etcdVars
<1>0. volume' = volume /\ attachments' = attachments /\ placed' = placed
    BY DEF CreateWorkload, UpdateWorkload, Call, readStatus, saveSpec, cleanedUp, removeSpec,
           removeStatus, Abort
<1> SUFFICES StorageInv'
    BY <1>0 DEF Retains
<1>1. ASSUME NEW w \in Workloads, CreateWorkload(p, w) PROVE StorageInv'
    <2>1. Shared' /\ OthersStay(p)
        BY <1>1 DEF CreateWorkload, StorageInv, Shared, OthersStay
    <2>2. Loops(p)' /\ Copied(p)'
        BY <1>1, StorageAssumption, ZenonT(30)
           DEF CreateWorkload, StorageInv, Shared, Loops, Copied, Quiet, Synced, Copies
    <2> QED BY <1>0, <2>1, <2>2, OthersKeep DEF StorageInv, AttachmentFollowsAssignment
<1>2. ASSUME NEW w \in Workloads, UpdateWorkload(p, w) \/ Call(p, w) PROVE StorageInv'
    <2>1. PICK op \in {"update", "assign", "clear", "mark", "delete"} : readSpec(p, w, op)
        BY <1>2 DEF UpdateWorkload, Call
    <2>2. spec[w] # NoRecord /\ pc[p] = "idle"
          /\ UNCHANGED <<spec, status, required, todo, current, held>>
        BY <1>2 DEF UpdateWorkload, Call
    <2>3. Shared' /\ OthersStay(p)
        BY <1>0, <2>1, <2>2 DEF readSpec, StorageInv, Shared, OthersStay
    <2>4. Loops(p)'
        BY <2>1, <2>2 DEF readSpec, StorageInv, Shared, Loops, Quiet
    <2>5. Copied(p)'
        <3>1. spec[w] \in {"Running", "Deleted"} /\ Wanted[w] \subseteq Volumes
            BY <2>2, StorageAssumption DEF StorageInv, Shared
        <3> QED BY <2>1, <2>2, <3>1 DEF readSpec, StorageInv, Shared, Copied, Synced, Copies
    <2> QED BY <1>0, <2>3, <2>4, <2>5, OthersKeep DEF StorageInv, AttachmentFollowsAssignment
<1>3. CASE readStatus(p)
    <2>1. storedStatus(copy[p].id) \in Status /\ copy[p] \in Copies
        <3>1. copy[p] \in Copies
            BY <1>3 DEF readStatus, StorageInv, Copied
        <3> QED BY <3>1 DEF storedStatus, NoStatus, StorageInv, Shared, Status, Copies
    <2>2. Shared' /\ OthersStay(p)
        BY <1>3 DEF readStatus, loaded, StorageInv, Shared, OthersStay
    <2>3. /\ pc[p] = "readStatus" /\ pc'[p] \in {"saveSpec", "cleanup", "cleanupVolumes"}
          /\ UNCHANGED <<required, todo, held>>
        BY <1>3 DEF readStatus, loaded, StorageInv, Shared
    <2>4. Loops(p)'
        BY <2>3 DEF StorageInv, Loops, Quiet
    <2>5. copy'[p] \in Copies
        <3>0. PICK st \in Status : loaded(p, st)
            BY <1>3, <2>1 DEF readStatus, NoStatus, Status
        <3> DEFINE read == [copy[p] EXCEPT !.node = st.node, !.tracked = st.tracked]
        <3>1. read \in Copies
            BY <2>1 DEF Copies, Status
        <3>2. \/ copy' = [copy EXCEPT ![p] = read]
              \/ \E n \in Nodes \union {NoNode} : copy' = [copy EXCEPT ![p] = [read EXCEPT !.node = n]]
              \/ copy' = [copy EXCEPT ![p] = [read EXCEPT !.desired = "Deleted"]]
            BY <3>0 DEF loaded
        <3> HIDE DEF read
        <3>3. \/ copy'[p] = read \/ copy'[p] = [read EXCEPT !.desired = "Deleted"]
              \/ \E n \in Nodes \union {NoNode} : copy'[p] = [read EXCEPT !.node = n]
            BY <3>2 DEF StorageInv, Shared
        <3> QED BY <3>1, <3>3 DEF Copies
    <2>6. Copied(p)'
        BY <2>3, <2>5 DEF Copied, Synced
    <2> QED BY <1>0, <2>2, <2>4, <2>6, OthersKeep DEF StorageInv, AttachmentFollowsAssignment
<1>4. CASE saveSpec(p)
    <2>1. copy[p] \in Copies
        BY <1>4 DEF saveSpec, StorageInv, Copied
    <2>2. Shared' /\ OthersStay(p)
        BY <1>4, <2>1 DEF saveSpec, StorageInv, Shared, OthersStay, Copies
    <2>3. Loops(p)' /\ Copied(p)'
        BY <1>4, <2>1 DEF saveSpec, StorageInv, Shared, Loops, Copied, Quiet, Synced
    <2> QED BY <1>0, <2>2, <2>3, OthersKeep DEF StorageInv, AttachmentFollowsAssignment
<1>5. CASE cleanedUp(p)
    <2>1. storedStatus(copy[p].id) \in Status /\ copy[p] \in Copies
        <3>1. copy[p] \in Copies
            BY <1>5 DEF cleanedUp, StorageInv, Copied
        <3> QED BY <3>1 DEF storedStatus, NoStatus, StorageInv, Shared, Status, Copies
    <2>2. Shared' /\ OthersStay(p)
        BY <1>5 DEF cleanedUp, StorageInv, Shared, OthersStay
    <2>3. /\ todo[p] = {} /\ pc'[p] \in {"saveSpec", "removeSpec"}
          /\ UNCHANGED <<required, todo, held>>
        BY <1>5 DEF cleanedUp, StorageInv, Shared
    <2>4. Loops(p)'
        BY <2>3 DEF StorageInv, Loops, Quiet
    <2>5. copy'[p] \in Copies
        <3>1. CASE copy' = copy
            BY <2>1, <3>1
        <3>2. CASE copy' # copy
            <4> DEFINE w == copy[p].id
            <4>1. /\ copy'[p] = [copy[p] EXCEPT !.desired = spec[w], !.node = storedStatus(w).node,
                                                !.tracked = storedStatus(w).tracked]
                  /\ spec[w] # NoRecord
                BY <1>5, <3>2, ZenonT(30) DEF cleanedUp, StorageInv, Shared
            <4>2. spec[w] \in {"Running", "Deleted"} /\ storedStatus(w).node \in Nodes \union {NoNode}
                  /\ storedStatus(w).tracked \in BOOLEAN
                BY <2>1, <4>1, ZenonT(30) DEF StorageInv, Shared, Copies, Status
            <4> QED BY <2>1, <4>1, <4>2 DEF Copies
        <3> QED BY <3>1, <3>2
    <2>6. Copied(p)'
        BY <2>3, <2>5 DEF Copied, Synced
    <2> QED BY <1>0, <2>2, <2>4, <2>6, OthersKeep DEF StorageInv, AttachmentFollowsAssignment
<1>6. CASE removeSpec(p) \/ removeStatus(p)
    <2>1. copy[p] \in Copies
        BY <1>6 DEF removeSpec, removeStatus, StorageInv, Copied
    <2>2. Shared' /\ OthersStay(p)
        BY <1>6, <2>1, ZenonT(30) DEF removeSpec, removeStatus, StorageInv, Shared, OthersStay, Copies
    <2>3. Loops(p)' /\ Copied(p)'
        BY <1>6, <2>1, ZenonT(30) DEF removeSpec, removeStatus, StorageInv, Shared, Loops, Copied, Quiet, Synced
    <2> QED BY <1>0, <2>2, <2>3, OthersKeep DEF StorageInv, AttachmentFollowsAssignment
<1>7. CASE Abort(p)
    <2>1. Shared' /\ OthersStay(p)
        BY <1>7 DEF Abort, StorageInv, Shared, OthersStay
    <2>2. Loops(p)' /\ Copied(p)'
        BY <1>7 DEF Abort, StorageInv, Shared, Loops, Copied, Quiet, Synced, NoneHeld
    <2> QED BY <1>0, <2>1, <2>2, OthersKeep DEF StorageInv, AttachmentFollowsAssignment
<1> QED BY <1>1, <1>2, <1>3, <1>4, <1>5, <1>6, <1>7
\* saveStatus writes the node before anything is attached to it.
LEMMA StatusKeeps ==
    ASSUME StorageInv, NEW p \in Procs, saveStatus(p)
    PROVE  StorageInv' /\ Retains
<1> USE DEF At, Goto
<1> DEFINE w == copy[p].id
           sync == copy[p].volumes # {} \/ copy[p].tracked
<1>1. copy[p] \in Copies /\ pc[p] = "saveStatus"
    BY DEF saveStatus, StorageInv, Copied
<1>2. UNCHANGED <<spec, volume, attachments>>
    BY DEF saveStatus
<1>3. [node |-> copy[p].node, tracked |-> sync] \in Status
    <2>1. sync \in BOOLEAN
        BY <1>1
    <2> QED BY <1>1, <2>1 DEF Copies, Status
<1>4. status' \in [Workloads -> Status \union {NoRecord}]
    <2>1. status' = [status EXCEPT ![w] = [node |-> copy[p].node, tracked |-> sync]]
        BY DEF saveStatus
    <2> HIDE DEF sync
    <2> QED BY <1>1, <1>3, <2>1 DEF StorageInv, Shared, Copies
<1>5. placed' = [placed EXCEPT ![w] = @ \union ({copy[p].node} \ {NoNode})] /\ w \in Workloads
    BY <1>1 DEF saveStatus, Copies
<1>6. /\ placed' \in [Workloads -> SUBSET Nodes]
      /\ \A x \in Workloads : placed[x] \subseteq placed'[x]
      /\ copy[p].node \in placed'[w] \union {NoNode}
    BY <1>1, <1>5 DEF StorageInv, Shared, Copies
<1>7. AttachmentFollowsAssignment'
    BY <1>2, <1>6 DEF StorageInv, Shared, AttachmentFollowsAssignment, Attachments
<1>8. CASE sync
    <2>1. /\ pc' = [pc EXCEPT ![p] = "list"] /\ required' = [required EXCEPT ![p] = copy[p].volumes]
          /\ UNCHANGED <<copy, todo, current, held>>
        BY <1>8 DEF saveStatus
    <2>2. Shared' /\ OthersStay(p)
        BY <1>2, <1>4, <1>6, <2>1 DEF StorageInv, Shared, OthersStay
    <2>3. Loops(p)'
        BY <1>1, <2>1 DEF StorageInv, Shared, Loops, Quiet, Copies
    <2>4. Copied(p)'
        BY <1>1, <1>6, <2>1 DEF StorageInv, Shared, Copied, Synced
    <2> QED BY <1>2, <1>6, <1>7, <2>2, <2>3, <2>4, OthersKeep DEF Retains
<1>9. CASE ~sync
    <2>1. Return(p)
        BY <1>9 DEF saveStatus
    <2>2. Shared' /\ OthersStay(p) /\ Loops(p)' /\ Copied(p)'
        BY <1>1, <1>2, <1>4, <1>6, <2>1, ReturnKeeps DEF StorageInv, Shared
    <2> QED BY <1>2, <1>6, <1>7, <2>2, OthersKeep DEF Retains
<1> QED BY <1>8, <1>9

\* The first loop of syncWorkloadManagedStorage takes attachments away.
LEMMA DetachKeeps ==
    ASSUME StorageInv, NEW p \in Procs, listAttachments(p) \/ detach(p) \/ release(p)
    PROVE  StorageInv' /\ Retains
<1> USE DEF At, Goto
<1>1. UNCHANGED <<spec, status, copy, placed>>
    BY DEF listAttachments, detach, release, etcdVars
<1>2. CASE listAttachments(p)
    <2>1. pc[p] = "list" /\ UNCHANGED <<volume, attachments, required, current, held>>
        BY <1>2 DEF listAttachments, etcdVars
    <2>2. attachmentsOf(copy[p].id) \subseteq Attachments
        BY DEF attachmentsOf, StorageInv, Shared
    <2>3. Shared' /\ OthersStay(p)
        BY <1>1, <1>2, <2>1 DEF listAttachments, Detaching, StorageInv, Shared, OthersStay
    <2>4. Loops(p)'
        BY <1>2, <2>1, <2>2 DEF listAttachments, Detaching, StorageInv, Shared, Loops, Quiet
    <2>5. Copied(p)'
        BY <1>1, <1>2, <2>1 DEF listAttachments, Detaching, StorageInv, Shared, Copied, Synced
    <2> QED BY <1>1, <2>1, <2>3, <2>4, <2>5, OthersKeep
            DEF Retains, StorageInv, AttachmentFollowsAssignment
<1>3. CASE detach(p)
    <2>1. pc[p] = "detach" /\ volume' = volume /\ attachments' \subseteq attachments
        BY <1>3 DEF detach
    <2>2. AttachmentFollowsAssignment'
        BY <1>1, <2>1 DEF StorageInv, AttachmentFollowsAssignment
    <2>3. PICK a \in todo[p] :
            IF stale(p, a)
            THEN /\ required' = [required EXCEPT ![p] = @ \ {a.volume}]
                 /\ todo' = [todo EXCEPT ![p] = @ \ {a}]
                 /\ current' = [current EXCEPT ![p] = a]
                 /\ held' = [held EXCEPT ![p][a.volume] = volume[a.volume]]
                 /\ pc' = [pc EXCEPT ![p] = "release"]
            ELSE Detaching(p, todo[p] \ {a}) /\ UNCHANGED <<required, current, held>>
        BY <1>3 DEF detach
    <2>4. a \in Attachments /\ a.volume \in Volumes
        BY <2>1, <2>3 DEF StorageInv, Loops, Attachments
    <2>5. CASE stale(p, a)
        <3>1. Shared' /\ OthersStay(p)
            BY <1>1, <2>1, <2>3, <2>5 DEF StorageInv, Shared, OthersStay
        <3>2. held'[p] \in [Volumes -> Record \union {NoRecord}]
            BY <2>3, <2>4, <2>5, SMT DEF StorageInv, Shared, Loops
        <3>3. Loops(p)'
            <4>1. /\ pc'[p] = "release" /\ current'[p] = a /\ required'[p] \subseteq required[p]
                  /\ todo'[p] \subseteq todo[p]
                BY <2>3, <2>5, SMT DEF StorageInv, Shared
            <4> QED BY <2>1, <2>4, <3>2, <4>1 DEF StorageInv, Loops, Quiet
        <3>4. Copied(p)'
            BY <1>1, <2>1, <2>3, <2>5 DEF StorageInv, Shared, Copied, Synced
        <3> QED BY <1>1, <2>1, <2>2, <3>1, <3>3, <3>4, OthersKeep DEF Retains
    <2>6. CASE ~ stale(p, a)
        <3>1. Shared' /\ OthersStay(p)
            BY <1>1, <2>1, <2>3, <2>6 DEF Detaching, StorageInv, Shared, OthersStay
        <3>2. Loops(p)'
            <4>1. /\ required'[p] = required[p] /\ held'[p] = held[p]
                  /\ \/ pc'[p] = "attach" /\ todo'[p] = required[p]
                     \/ pc'[p] = "detach" /\ todo'[p] = todo[p] \ {a}
                BY <2>3, <2>6 DEF Detaching, StorageInv, Shared
            <4> QED BY <2>1, <4>1 DEF StorageInv, Loops, Quiet
        <3>3. Copied(p)'
            BY <1>1, <2>1, <2>3, <2>6 DEF Detaching, StorageInv, Shared, Copied, Synced
        <3> QED BY <1>1, <2>1, <2>2, <3>1, <3>2, <3>3, OthersKeep DEF Retains
    <2> QED BY <2>5, <2>6
<1>4. CASE release(p)
    <2> DEFINE v == current[p].volume
    <2>1. pc[p] = "release" /\ v \in Volumes /\ UNCHANGED <<attachments, required>>
        BY <1>4 DEF release, StorageInv, Loops, Attachments
    <2>2. volume' \in [Volumes -> Record \union {NoRecord}] /\ Retains
        <3>1. CASE volume' = volume
            BY <3>1 DEF StorageInv, Shared, Retains
        <3>2. CASE volume' # volume
            <4> DEFINE r == Released(held[p][v], v, copy[p].id, {current[p].node})
            <4>0. held[p][v] # NoRecord
                BY <1>4, <3>2 DEF release
            <4>1. held[p][v] \in Record
                BY <2>1, <4>0 DEF StorageInv, Loops
            <4>2. r \in Record \union {NoRecord} /\ (Policy[v] = "Retain" => r # NoRecord)
                BY <2>1, <4>1, ReleasedIsRecord
            <4>3. volume' = [volume EXCEPT ![v] = r]
                BY <1>4, <3>2, <4>0 DEF release
            <4> HIDE DEF r, v
            <4> QED BY <4>2, <4>3 DEF StorageInv, Shared, Retains
        <3> QED BY <3>1, <3>2
    <2>3. Shared' /\ OthersStay(p)
        BY <1>1, <1>4, <2>1, <2>2, ZenonT(30) DEF release, Detaching, StorageInv, Shared, OthersStay
    <2>4. Loops(p)'
        BY <1>4, <2>1 DEF release, Detaching, StorageInv, Shared, Loops, Quiet, NoneHeld
    <2>5. Copied(p)'
        BY <1>1, <1>4, <2>1 DEF release, Detaching, StorageInv, Shared, Copied, Synced
    <2> QED BY <1>1, <2>1, <2>2, <2>3, <2>4, <2>5, OthersKeep
            DEF StorageInv, AttachmentFollowsAssignment
<1> QED BY <1>2, <1>3, <1>4
\* The second loop attaches the required volumes to the node of the copy.
LEMMA AttachKeeps ==
    ASSUME StorageInv, NEW p \in Procs,
           attach(p) \/ saveVolume(p) \/ saveVolumeAttachmentRecord(p)
    PROVE  StorageInv' /\ Retains
<1> USE DEF At, Goto
<1>1. UNCHANGED <<spec, status, copy, required, placed>> /\ copy[p] \in Copies
    BY DEF attach, saveVolume, saveVolumeAttachmentRecord, etcdVars, StorageInv, Copied
<1>2. CASE attach(p)
    <2>1. pc[p] = "attach" /\ UNCHANGED <<volume, attachments>>
        BY <1>2 DEF attach, etcdVars
    <2>2. PICK v \in todo[p] :
            /\ todo' = [todo EXCEPT ![p] = @ \ {v}]
            /\ current' = [current EXCEPT ![p] = v]
            /\ held' = [held EXCEPT ![p][v] = IF volume[v] = NoRecord THEN Empty ELSE volume[v]]
            /\ pc' = [pc EXCEPT ![p] = "saveVolume"]
        BY <1>2 DEF attach
    <2>3. v \in Volumes /\ (IF volume[v] = NoRecord THEN Empty ELSE volume[v]) \in Record
        BY <2>1, <2>2, ZenonT(30) DEF StorageInv, Shared, Loops, Empty, Record
    <2>4. Shared' /\ OthersStay(p)
        BY <1>1, <2>1, <2>2 DEF StorageInv, Shared, OthersStay
    <2>5. held'[p] \in [Volumes -> Record \union {NoRecord}] /\ held'[p][v] \in Record
        BY <2>2, <2>3 DEF StorageInv, Shared, Loops
    <2>6. Loops(p)'
        BY <1>1, <2>1, <2>2, <2>3, <2>5 DEF StorageInv, Shared, Loops, Quiet
    <2>7. Copied(p)'
        BY <1>1, <2>1, <2>2 DEF StorageInv, Shared, Copied, Synced
    <2> QED BY <1>1, <2>1, <2>4, <2>6, <2>7, OthersKeep
            DEF Retains, StorageInv, AttachmentFollowsAssignment
<1>3. CASE saveVolume(p)
    <2> DEFINE v == current[p]
               w == copy[p].id
               ns == {copy[p].node} \ {NoNode}
               next == IF deleting(p) THEN Released(held[p][v], v, w, ns)
                       ELSE [refs |-> held[p][v].refs \union {w}, nodes |-> held[p][v].nodes \union ns]
    <2>1. /\ pc[p] = "saveVolume" /\ v \in Volumes /\ held[p][v] \in Record
          /\ UNCHANGED <<attachments, todo>>
        BY <1>3 DEF saveVolume, StorageInv, Loops
    <2>2. next \in Record \union {NoRecord} /\ (Policy[v] = "Retain" => next # NoRecord)
        <3>1. CASE deleting(p)
            BY <2>1, <3>1, ReleasedIsRecord
        <3>2. CASE ~ deleting(p)
            <4>1. [refs |-> held[p][v].refs \union {w}, nodes |-> held[p][v].nodes \union ns] \in Record
                BY <1>1, <2>1 DEF Record, Copies
            <4>2. next \in Record
                BY <3>2, <4>1
            <4> HIDE DEF next
            <4> QED BY <4>2, RecordAssumption
        <3> HIDE DEF next
        <3> QED BY <3>1, <3>2
    <2>3. volume' = [volume EXCEPT ![v] = next]
        BY <1>3 DEF saveVolume
    <2>4. volume' \in [Volumes -> Record \union {NoRecord}] /\ Retains
        <3> HIDE DEF next, v
        <3> QED BY <2>2, <2>3 DEF StorageInv, Shared, Retains
    <2>5. /\ DOMAIN pc' = Procs /\ DOMAIN current' = Procs /\ DOMAIN held' = Procs /\ OthersStay(p)
          /\ held' = [q \in Procs |-> held'[q]]
          /\ held'[p] = NoneHeld
          /\ \/ pc'[p] = "attach"
             \/ pc'[p] = "saveAttachment" /\ current'[p] = current[p] /\ copy[p].node # NoNode
        BY <1>1, <1>3, <2>1 DEF saveVolume, StorageInv, Shared, OthersStay
    <2>6. Shared'
        BY <1>1, <2>1, <2>4, <2>5 DEF StorageInv, Shared
    <2>7. Loops(p)'
        BY <1>1, <2>1, <2>5 DEF StorageInv, Loops, Quiet, NoneHeld
    <2>8. Copied(p)'
        BY <1>1, <2>1, <2>5 DEF StorageInv, Copied, Synced
    <2> QED BY <1>1, <2>1, <2>4, <2>5, <2>6, <2>7, <2>8, OthersKeep
            DEF StorageInv, AttachmentFollowsAssignment
<1>4. CASE saveVolumeAttachmentRecord(p)
    <2> DEFINE a == [node |-> copy[p].node, workload |-> copy[p].id, volume |-> current[p]]
    <2>1. /\ pc[p] = "saveAttachment" /\ current[p] \in Volumes
          /\ copy[p].node \in placed[copy[p].id] /\ copy[p].node # NoNode
          /\ UNCHANGED <<volume, todo, held>> /\ attachments' = attachments \union {a}
        BY <1>4 DEF saveVolumeAttachmentRecord, StorageInv, Loops, Copied, Synced
    <2>2. a \in Attachments
        BY <1>1, <2>1 DEF Attachments, Copies
    <2>3. AttachmentFollowsAssignment'
        BY <1>1, <2>1, SMT DEF StorageInv, AttachmentFollowsAssignment
    <2>4. Shared' /\ OthersStay(p)
        BY <1>1, <1>4, <2>1, <2>2 DEF saveVolumeAttachmentRecord, StorageInv, Shared, OthersStay
    <2>5. Loops(p)' /\ Copied(p)'
        BY <1>1, <1>4, <2>1
           DEF saveVolumeAttachmentRecord, StorageInv, Shared, Loops, Copied, Quiet, Synced
    <2> QED BY <1>1, <2>1, <2>3, <2>4, <2>5, OthersKeep DEF Retains
<1> QED BY <1>2, <1>3, <1>4

\* The third loop releases what is no longer required.
LEMMA PruneKeeps ==
    ASSUME StorageInv, NEW p \in Procs, listVolumes(p) \/ prune(p)
    PROVE  StorageInv' /\ Retains
<1> USE DEF At, Goto
<1>1. UNCHANGED <<spec, status, attachments, placed>>
    BY DEF listVolumes, prune, etcdVars
<1>2. AttachmentFollowsAssignment'
    BY <1>1 DEF StorageInv, AttachmentFollowsAssignment
<1>3. CASE listVolumes(p)
    <2> DEFINE listed == {v \in Volumes : /\ volume[v] # NoRecord /\ copy[p].id \in volume[v].refs
                                          /\ v \notin required[p] \/ deleting(p)}
    <2>1. volume' = volume /\ pc[p] = "attach"
        BY <1>3 DEF listVolumes, etcdVars
    <2>2. CASE listed = {}
        <3>1. Return(p)
            BY <1>3, <2>2 DEF listVolumes
        <3>2. Shared' /\ OthersStay(p) /\ Loops(p)' /\ Copied(p)'
            BY <1>1, <2>1, <3>1, ReturnKeeps DEF StorageInv, Shared
        <3> QED BY <1>1, <1>2, <2>1, <3>2, OthersKeep DEF Retains
    <2>3. CASE listed # {}
        <3>1. /\ todo' = [todo EXCEPT ![p] = listed] /\ pc' = [pc EXCEPT ![p] = "prune"]
              /\ held' = [held EXCEPT ![p] =
                            [v \in Volumes |-> IF v \in listed THEN volume[v] ELSE NoRecord]]
              /\ UNCHANGED <<copy, required, current>>
            BY <1>3, <2>3 DEF listVolumes
        <3>2. listed \subseteq Volumes /\ \A v \in listed : volume[v] \in Record
            BY DEF StorageInv, Shared
        <3> HIDE DEF listed
        <3>3. Shared' /\ OthersStay(p)
            BY <1>1, <2>1, <3>1 DEF StorageInv, Shared, OthersStay
        <3>4. Loops(p)'
            BY <2>1, <3>1, <3>2 DEF StorageInv, Shared, Loops, Quiet
        <3>5. Copied(p)'
            BY <1>1, <2>1, <3>1 DEF StorageInv, Shared, Copied, Synced
        <3> QED BY <1>1, <1>2, <2>1, <3>3, <3>4, <3>5, OthersKeep DEF Retains
    <2> QED BY <2>2, <2>3
<1>4. CASE prune(p)
    <2>1. PICK v \in todo[p] :
            /\ volume' = [volume EXCEPT ![v] =
                            Released(held[p][v], v, copy[p].id, {copy[p].node} \ {NoNode})]
            /\ IF todo[p] = {v} THEN Return(p)
               ELSE /\ todo' = [todo EXCEPT ![p] = @ \ {v}]
                    /\ held' = [held EXCEPT ![p][v] = NoRecord]
                    /\ UNCHANGED <<pc, copy, required, current>>
        BY <1>4 DEF prune
    <2>2. pc[p] = "prune" /\ v \in Volumes /\ held[p][v] \in Record
        BY <1>4, <2>1 DEF prune, StorageInv, Loops
    <2>3. volume' \in [Volumes -> Record \union {NoRecord}] /\ Retains
        <3> DEFINE r == Released(held[p][v], v, copy[p].id, {copy[p].node} \ {NoNode})
        <3>1. r \in Record \union {NoRecord} /\ (Policy[v] = "Retain" => r # NoRecord)
            BY <2>2, ReleasedIsRecord
        <3>2. volume' = [volume EXCEPT ![v] = r]
            BY <2>1
        <3> HIDE DEF r
        <3> QED BY <2>2, <3>1, <3>2 DEF StorageInv, Shared, Retains
    <2>4. CASE todo[p] = {v}
        <3>1. Shared' /\ OthersStay(p) /\ Loops(p)' /\ Copied(p)'
            BY <1>1, <2>1, <2>2, <2>3, <2>4, ReturnKeeps DEF StorageInv, Shared
        <3> QED BY <1>1, <1>2, <2>3, <3>1, OthersKeep
    <2>5. CASE todo[p] # {v}
        <3>1. Shared' /\ OthersStay(p)
            BY <1>1, <2>1, <2>3, <2>5 DEF StorageInv, Shared, OthersStay
        <3>2. Loops(p)'
            <4>1. /\ pc'[p] = "prune" /\ required'[p] = required[p] /\ todo'[p] = todo[p] \ {v}
                  /\ held'[p] = [held[p] EXCEPT ![v] = NoRecord]
                BY <2>1, <2>2, <2>5 DEF StorageInv, Shared
            <4> QED BY <2>2, <4>1, SMT DEF StorageInv, Loops, Quiet
        <3>3. Copied(p)'
            BY <1>1, <2>1, <2>2, <2>5 DEF StorageInv, Shared, Copied, Synced
        <3> QED BY <1>1, <1>2, <2>3, <3>1, <3>2, <3>3, OthersKeep
    <2> QED BY <2>4, <2>5
<1> QED BY <1>3, <1>4
\* DeleteWorkload removes attachments and releases volumes from a list it has read.
LEMMA CleanupKeeps ==
    ASSUME StorageInv, NEW p \in Procs, cleanup(p) \/ cleanupList(p) \/ cleanupVolume(p)
    PROVE  StorageInv' /\ Retains
<1> USE DEF At, Goto
<1>1. UNCHANGED <<spec, status, copy, required, placed>> /\ attachments' \subseteq attachments
    BY DEF cleanup, cleanupList, cleanupVolume, etcdVars
<1>2. AttachmentFollowsAssignment'
    BY <1>1 DEF StorageInv, AttachmentFollowsAssignment
<1>3. CASE cleanup(p)
    <2>1. Shared' /\ OthersStay(p) /\ volume' = volume
        BY <1>1, <1>3 DEF cleanup, StorageInv, Shared, OthersStay
    <2>2. Loops(p)' /\ Copied(p)'
        BY <1>1, <1>3 DEF cleanup, StorageInv, Shared, Loops, Copied, Quiet, Synced
    <2> QED BY <1>1, <1>2, <2>1, <2>2, OthersKeep DEF Retains
<1>4. CASE cleanupList(p)
    <2> DEFINE gone(v) == {a \in current[p] : a.volume = v}
               listed == {v \in Volumes : /\ volume[v] # NoRecord
                                          /\ copy[p].id \in volume[v].refs \/ gone(v) # {}}
               read == [v \in Volumes |-> IF v \in listed
                                          THEN [volume[v] EXCEPT !.nodes = @ \ {a.node : a \in gone(v)}]
                                          ELSE NoRecord]
    <2>1. /\ pc[p] = "cleanupList" /\ volume' = volume /\ attachments' = attachments
          /\ todo' = [todo EXCEPT ![p] = listed] /\ held' = [held EXCEPT ![p] = read]
          /\ current' = [current EXCEPT ![p] = NoRecord] /\ pc' = [pc EXCEPT ![p] = "cleanupVolumes"]
        BY <1>4 DEF cleanupList, etcdVars
    <2>2. listed \subseteq Volumes
        OBVIOUS
    <2>3. ASSUME NEW v \in listed PROVE read[v] \in Record
        <3>1. volume[v] \in Record
            BY DEF StorageInv, Shared
        <3>2. read[v] = [volume[v] EXCEPT !.nodes = @ \ {a.node : a \in gone(v)}]
            OBVIOUS
        <3> HIDE DEF gone, listed, read
        <3> QED BY <3>1, <3>2 DEF Record
    <2>4. \A v \in Volumes \ listed : read[v] = NoRecord
        OBVIOUS
    <2>5. read \in [Volumes -> Record \union {NoRecord}]
        <3>1. read = [v \in Volumes |-> read[v]]
            OBVIOUS
        <3> HIDE DEF read, listed
        <3> QED BY <2>3, <2>4, <3>1
    <2> HIDE DEF gone, listed, read
    <2>6. Shared' /\ OthersStay(p)
        BY <1>1, <2>1 DEF StorageInv, Shared, OthersStay
    <2>7. Loops(p)'
        BY <1>1, <2>1, <2>2, <2>3, <2>5 DEF StorageInv, Shared, Loops, Quiet
    <2>8. Copied(p)'
        BY <1>1, <2>1 DEF StorageInv, Shared, Copied, Synced
    <2> QED BY <1>1, <1>2, <2>1, <2>6, <2>7, <2>8, OthersKeep DEF Retains
<1>5. CASE cleanupVolume(p)
    <2>1. PICK v \in todo[p] :
            /\ volume' = [volume EXCEPT ![v] = Released(held[p][v], v, copy[p].id, {})]
            /\ todo' = [todo EXCEPT ![p] = @ \ {v}]
            /\ held' = [held EXCEPT ![p][v] = NoRecord]
        BY <1>5 DEF cleanupVolume
    <2>2. pc[p] = "cleanupVolumes" /\ v \in Volumes /\ held[p][v] \in Record
          /\ UNCHANGED <<pc, current>>
        BY <1>5, <2>1 DEF cleanupVolume, StorageInv, Loops
    <2>3. volume' \in [Volumes -> Record \union {NoRecord}] /\ Retains
        <3> DEFINE r == Released(held[p][v], v, copy[p].id, {})
        <3>1. r \in Record \union {NoRecord} /\ (Policy[v] = "Retain" => r # NoRecord)
            BY <2>2, ReleasedIsRecord
        <3>2. volume' = [volume EXCEPT ![v] = r]
            BY <2>1
        <3> HIDE DEF r
        <3> QED BY <2>2, <3>1, <3>2 DEF StorageInv, Shared, Retains
    <2>4. Shared' /\ OthersStay(p)
        BY <1>1, <2>1, <2>2, <2>3 DEF StorageInv, Shared, OthersStay
    <2>5. Loops(p)'
        BY <1>1, <2>1, <2>2 DEF StorageInv, Shared, Loops, Quiet
    <2>6. Copied(p)'
        BY <1>1, <2>2 DEF StorageInv, Copied, Synced
    <2> QED BY <1>1, <1>2, <2>3, <2>4, <2>5, <2>6, OthersKeep
<1> QED BY <1>3, <1>4, <1>5

\* Every step keeps the invariant and the volumes to be retained.
LEMMA StorageKeeps ==
    ASSUME StorageInv, [Next]_vars PROVE StorageInv' /\ Retains
<1>1. ASSUME NEW p \in Callers, Start(p) PROVE StorageInv' /\ Retains
    BY <1>1, ReadsKeep DEF Start, Procs
<1>2. ASSUME NEW p \in Beats, NEW w \in Workloads, UpdateWorkload(p, w) PROVE StorageInv' /\ Retains
    BY <1>2, ReadsKeep DEF Procs
<1>3. ASSUME NEW p \in Procs, Save(p) PROVE StorageInv' /\ Retains
    BY <1>3, ReadsKeep, StatusKeeps DEF Save
<1>4. ASSUME NEW p \in Procs, Sync(p) PROVE StorageInv' /\ Retains
    BY <1>4, DetachKeeps, AttachKeeps, PruneKeeps DEF Sync
<1>5. ASSUME NEW p \in Procs, Remove(p) PROVE StorageInv' /\ Retains
    BY <1>5, CleanupKeeps, ReadsKeep DEF Remove
<1>6. ASSUME NEW p \in Procs, Abort(p) PROVE StorageInv' /\ Retains
    BY <1>6, ReadsKeep
<1>7. CASE UNCHANGED vars
    BY <1>7, ZenonT(30) DEF vars, etcdVars, StorageInv, Shared, Loops, Copied, AttachmentFollowsAssignment, Retains
<1> QED BY <1>1, <1>2, <1>3, <1>4, <1>5, <1>6, <1>7 DEF Next, Step

\* However many goroutines save the same workload, from however old a copy, and
\* wherever they fail: an attachment names a node the workload was saved with.
THEOREM AttachedWhereAssigned == Spec => []AttachmentFollowsAssignment
<1>1. StorageInv /\ [Next]_vars => StorageInv'
    BY StorageKeeps
<1>2. StorageInv => AttachmentFollowsAssignment
    BY DEF StorageInv
<1> QED BY <1>1, <1>2, StorageStarts, PTL DEF Spec

\* However many goroutines release a volume at the same time: its record stays when
\* its policy is Retain.
THEOREM RetainIsKept == Spec => RetainNeverDeleted
<1>1. StorageInv /\ [Next]_vars => StorageInv'
    BY StorageKeeps
<1>2. StorageInv /\ [Next]_vars
      => [\A v \in Volumes : Policy[v] = "Retain" /\ volume[v] # NoRecord => volume'[v] # NoRecord]_vars
    BY StorageKeeps DEF Retains
<1> QED BY <1>1, <1>2, StorageStarts, PTL DEF Spec, RetainNeverDeleted

\* The records keep their types, whoever writes them and in whatever order.
THEOREM StorageTyped == Spec => []TypeOK
<1>1. StorageInv /\ [Next]_vars => StorageInv'
    BY StorageKeeps
<1>2. StorageInv => TypeOK
    <2> SUFFICES ASSUME StorageInv PROVE TypeOK
        OBVIOUS
    <2>1. held \in [Procs -> [Volumes -> Record \union {NoRecord}]]
        BY DEF StorageInv, Shared, Loops
    <2>2. required \in [Procs -> SUBSET Volumes]
        BY DEF StorageInv, Shared, Loops
    <2>3. \A p \in Procs : At(p, "idle") <=> copy[p] = NoCopy
        <3>1. \A c \in Copies : c.op # "none"
            BY DEF Copies
        <3>2. NoCopy \notin Copies
            BY <3>1 DEF NoCopy
        <3> QED BY <3>2 DEF StorageInv, Copied, At
    <2> QED BY <2>1, <2>2, <2>3 DEF StorageInv, Shared, TypeOK, Status, Attachments
<1> QED BY <1>1, <1>2, StorageStarts, PTL DEF Spec

----------------------------------------------------------------------------
(* What the records of the volumes say *)

\* A record names only workloads that ask for the volume.
Fits(v, r) == r # NoRecord => \A w \in r.refs : v \in Wanted[w]

\* There is no record without a reference under Delete.
Used(v, r) == r # NoRecord /\ Policy[v] = "Delete" => r.refs # {}

\* Whatever updates of a shared record are lost: its references and the attachments
\* are of workloads that ask for the volume, and a volume under Delete that has lost
\* its last reference has lost its record with it.
ReferencesAreWanted ==
    /\ \A v \in Volumes : Fits(v, volume[v]) /\ Used(v, volume[v])
    /\ \A a \in attachments : a.volume \in Wanted[a.workload]

\* What a goroutine carries from one step to the next: volumes its workload asks for,
\* and records as good as the stored ones, except that they may have no reference yet.
Carries(p) ==
    /\ pc[p] # "idle" => copy[p].volumes \subseteq Wanted[copy[p].id]
    /\ pc[p] \in {"list", "detach", "release"} => required[p] \subseteq Wanted[copy[p].id]
    /\ pc[p] \in {"attach", "saveVolume", "saveAttachment"} => todo[p] \subseteq Wanted[copy[p].id]
    /\ pc[p] \in {"saveVolume", "saveAttachment"} => current[p] \in Wanted[copy[p].id]
    /\ \A v \in Volumes : Fits(v, held[p][v])

ReferenceInv == ReferencesAreWanted /\ \A p \in Procs : Carries(p)

\* Nothing and a record without references fit every volume.
LEMMA EmptyFits == ASSUME NEW v PROVE Fits(v, NoRecord) /\ Fits(v, Empty)
BY DEF Fits, Empty

\* A record that a workload leaves still fits, and is gone under Delete when it has
\* no reference left.
LEMMA ReleasedFits ==
    ASSUME NEW r \in Record, NEW v \in Volumes, NEW w, NEW ns, Fits(v, r)
    PROVE  Fits(v, Released(r, v, w, ns)) /\ Used(v, Released(r, v, w, ns))
<1> DEFINE rest == [refs |-> r.refs \ {w}, nodes |-> r.nodes \ ns]
<1>1. rest.refs = r.refs \ {w} /\ r # NoRecord
    BY RecordAssumption
<1>2. Released(r, v, w, ns) = IF rest.refs = {} /\ Policy[v] = "Delete" THEN NoRecord ELSE rest
    BY DEF Released
<1> HIDE DEF rest
<1> QED BY <1>1, <1>2 DEF Fits, Used

\* The others carry what they did.
LEMMA OthersCarry ==
    ASSUME ReferenceInv, NEW p \in Procs, OthersStay(p), ReferencesAreWanted', Carries(p)'
    PROVE  ReferenceInv'
<1>1. ASSUME NEW q \in Procs, q # p PROVE Carries(q)'
    <2>1. /\ pc'[q] = pc[q] /\ copy'[q] = copy[q] /\ required'[q] = required[q]
          /\ todo'[q] = todo[q] /\ current'[q] = current[q] /\ held'[q] = held[q]
        BY <1>1 DEF OthersStay
    <2>2. Carries(q)
        BY DEF ReferenceInv
    <2> QED BY <2>1, <2>2, ZenonT(30) DEF Carries
<1> QED BY <1>1 DEF ReferenceInv

\* One volume gets a record that fits.
LEMMA VolumeFits ==
    ASSUME StorageInv, ReferenceInv, NEW v \in Volumes, NEW r, Fits(v, r), Used(v, r),
           volume' = [volume EXCEPT ![v] = r], attachments' = attachments
    PROVE  ReferencesAreWanted'
<1>1. \A u \in Volumes : volume'[u] = IF u = v THEN r ELSE volume[u]
    BY DEF StorageInv, Shared
<1>2. \A u \in Volumes : Fits(u, volume'[u]) /\ Used(u, volume'[u])
    BY <1>1 DEF ReferenceInv, ReferencesAreWanted
<1> QED BY <1>2 DEF ReferenceInv, ReferencesAreWanted

\* The end of a save drops everything but, for DeleteWorkload, the copy.
LEMMA ReturnCarries ==
    ASSUME StorageInv, ReferenceInv, NEW p \in Procs, pc[p] # "idle", Return(p)
    PROVE  Carries(p)' /\ OthersStay(p)
<1>1. OthersStay(p)
    BY ReturnKeeps
<1>2. /\ held'[p] = NoneHeld
      /\ pc'[p] = "idle" \/ (pc'[p] = "removeSpec" /\ copy'[p] = copy[p])
    BY DEF Return, Goto, StorageInv, Shared
<1>3. \A v \in Volumes : Fits(v, held'[p][v])
    BY <1>2, EmptyFits DEF NoneHeld
<1>4. copy[p].volumes \subseteq Wanted[copy[p].id]
    BY DEF ReferenceInv, Carries
<1> QED BY <1>1, <1>2, <1>3, <1>4 DEF Carries

\* Reading a workload and the steps around it: the copy keeps the volumes it has.
LEMMA ReadsCarry ==
    ASSUME StorageInv, ReferenceInv, NEW p \in Procs,
           \/ \E w \in Workloads : CreateWorkload(p, w) \/ UpdateWorkload(p, w) \/ Call(p, w)
           \/ readStatus(p) \/ saveSpec(p) \/ cleanedUp(p) \/ removeSpec(p) \/ removeStatus(p)
           \/ Abort(p)
    PROVE  ReferenceInv'
<1> USE DEF At, Goto, etcdVars
<1>0. volume' = volume /\ attachments' = attachments
    BY DEF CreateWorkload, UpdateWorkload, Call, readStatus, saveSpec, cleanedUp, removeSpec,
           removeStatus, Abort
<1>1. ReferencesAreWanted'
    BY <1>0 DEF ReferenceInv, ReferencesAreWanted
<1> DEFINE Early == {"readStatus", "saveSpec", "saveStatus", "cleanup", "cleanupVolumes",
                     "removeSpec", "removeStatus"}
<1>2. ASSUME pc'[p] = "idle" \/ (pc'[p] \in Early /\ copy'[p].volumes \subseteq Wanted[copy'[p].id]),
             held'[p] = held[p] \/ held'[p] = NoneHeld
      PROVE  Carries(p)'
    BY <1>2, EmptyFits DEF Carries, ReferenceInv, NoneHeld
<1>3. ASSUME NEW w \in Workloads, CreateWorkload(p, w) PROVE ReferenceInv'
    <2>1. OthersStay(p)
        BY <1>3 DEF CreateWorkload, OthersStay, StorageInv, Shared
    <2>2. /\ pc'[p] = "saveSpec" /\ held'[p] = held[p]
          /\ copy'[p].volumes = Wanted[w] /\ copy'[p].id = w
        BY <1>3 DEF CreateWorkload, StorageInv, Shared
    <2> QED BY <1>1, <1>2, <2>1, <2>2, OthersCarry
<1>4. ASSUME NEW w \in Workloads, UpdateWorkload(p, w) \/ Call(p, w) PROVE ReferenceInv'
    <2>1. PICK op \in {"update", "assign", "clear", "mark", "delete"} : readSpec(p, w, op)
        BY <1>4 DEF UpdateWorkload, Call
    <2>2. UNCHANGED <<required, todo, current, held>>
        BY <1>4 DEF UpdateWorkload, Call
    <2>3. OthersStay(p)
        BY <2>1, <2>2 DEF readSpec, OthersStay, StorageInv, Shared
    <2>4. /\ pc'[p] = "readStatus"
          /\ copy'[p].volumes = (IF w \in VMs THEN Wanted[w] ELSE {}) /\ copy'[p].id = w
        BY <2>1 DEF readSpec, StorageInv, Shared
    <2>5. copy'[p].volumes \subseteq Wanted[copy'[p].id]
        BY <2>4
    <2> QED BY <1>1, <1>2, <2>2, <2>3, <2>4, <2>5, OthersCarry
<1>5. CASE readStatus(p)
    <2>1. PICK st : loaded(p, st)
        BY <1>5 DEF readStatus
    <2>2. UNCHANGED <<required, todo, current, held>> /\ pc[p] = "readStatus"
        BY <1>5 DEF readStatus
    <2>3. copy[p] \in Copies /\ copy[p].volumes \subseteq Wanted[copy[p].id]
        BY <2>2 DEF StorageInv, Copied, ReferenceInv, Carries
    <2>4. OthersStay(p) /\ pc'[p] \in {"saveSpec", "cleanup", "cleanupVolumes"}
        BY <2>1, <2>2 DEF loaded, OthersStay, StorageInv, Shared
    <2>5. copy'[p].volumes = copy[p].volumes /\ copy'[p].id = copy[p].id
        <3> DEFINE read == [copy[p] EXCEPT !.node = st.node, !.tracked = st.tracked]
        <3>1. read.volumes = copy[p].volumes /\ read.id = copy[p].id
              /\ DOMAIN read = DOMAIN copy[p]
            BY <2>3 DEF Copies
        <3>2. \/ copy' = [copy EXCEPT ![p] = read]
              \/ \E n : copy' = [copy EXCEPT ![p] = [read EXCEPT !.node = n]]
              \/ copy' = [copy EXCEPT ![p] = [read EXCEPT !.desired = "Deleted"]]
            BY <2>1 DEF loaded
        <3>3. {"volumes", "id"} \subseteq DOMAIN read
            BY <2>3, <3>1 DEF Copies
        <3> HIDE DEF read
        <3>4. \/ copy'[p] = read \/ copy'[p] = [read EXCEPT !.desired = "Deleted"]
              \/ \E n : copy'[p] = [read EXCEPT !.node = n]
            BY <3>2 DEF StorageInv, Shared
        <3>5. /\ [read EXCEPT !.desired = "Deleted"].volumes = read.volumes
              /\ [read EXCEPT !.desired = "Deleted"].id = read.id
            BY <3>3
        <3>6. \A n : [read EXCEPT !.node = n].volumes = read.volumes /\ [read EXCEPT !.node = n].id = read.id
            BY <3>3
        <3> QED BY <3>1, <3>4, <3>5, <3>6
    <2> QED BY <1>1, <1>2, <2>2, <2>3, <2>4, <2>5, OthersCarry
<1>6. CASE saveSpec(p)
    <2>1. /\ pc[p] = "saveSpec" /\ pc'[p] = "saveStatus" /\ UNCHANGED <<copy, held>> /\ OthersStay(p)
        BY <1>6 DEF saveSpec, OthersStay, StorageInv, Shared
    <2>2. copy[p].volumes \subseteq Wanted[copy[p].id]
        BY <2>1 DEF ReferenceInv, Carries
    <2> QED BY <1>1, <1>2, <2>1, <2>2, OthersCarry
<1>7. CASE cleanedUp(p)
    <2>1. /\ pc[p] = "cleanupVolumes" /\ pc'[p] \in {"saveSpec", "removeSpec"} /\ UNCHANGED held
          /\ OthersStay(p)
        BY <1>7 DEF cleanedUp, OthersStay, StorageInv, Shared
    <2>2. copy[p] \in Copies /\ copy[p].volumes \subseteq Wanted[copy[p].id]
        BY <2>1 DEF StorageInv, Copied, ReferenceInv, Carries
    <2>3. \/ copy' = copy
          \/ copy' = [copy EXCEPT ![p] = [@ EXCEPT !.desired = spec[copy[p].id],
                                                   !.node = storedStatus(copy[p].id).node,
                                                   !.tracked = storedStatus(copy[p].id).tracked]]
        BY <1>7 DEF cleanedUp
    <2>4. copy'[p].volumes = copy[p].volumes /\ copy'[p].id = copy[p].id
        <3> DEFINE d == spec[copy[p].id]  st == storedStatus(copy[p].id)
                   c == [copy[p] EXCEPT !.desired = d, !.node = st.node, !.tracked = st.tracked]
        <3>1. copy'[p] \in {copy[p], c}
            BY <2>3 DEF StorageInv, Shared
        <3> HIDE DEF d, st
        <3>2. c.volumes = copy[p].volumes /\ c.id = copy[p].id
            BY <2>2 DEF Copies
        <3> HIDE DEF c
        <3> QED BY <3>1, <3>2
    <2> QED BY <1>1, <1>2, <2>1, <2>2, <2>4, OthersCarry
<1>8. CASE removeSpec(p)
    <2>1. /\ pc[p] = "removeSpec" /\ pc'[p] = "removeStatus" /\ UNCHANGED <<copy, held>> /\ OthersStay(p)
        BY <1>8 DEF removeSpec, OthersStay, StorageInv, Shared
    <2>2. copy[p].volumes \subseteq Wanted[copy[p].id]
        BY <2>1 DEF ReferenceInv, Carries
    <2> QED BY <1>1, <1>2, <2>1, <2>2, OthersCarry
<1>9. CASE removeStatus(p) \/ Abort(p)
    <2>1. /\ pc'[p] = "idle" /\ (held'[p] = held[p] \/ held'[p] = NoneHeld) /\ OthersStay(p)
        BY <1>9 DEF removeStatus, Abort, OthersStay, StorageInv, Shared
    <2> QED BY <1>1, <1>2, <2>1, OthersCarry
<1> QED BY <1>3, <1>4, <1>5, <1>6, <1>7, <1>8, <1>9

\* saveStatus requires what the copy asks for, and nothing else.
LEMMA StatusCarries ==
    ASSUME StorageInv, ReferenceInv, NEW p \in Procs, saveStatus(p)
    PROVE  ReferenceInv'
<1> USE DEF At, Goto
<1>1. pc[p] = "saveStatus" /\ UNCHANGED <<volume, attachments>>
    BY DEF saveStatus
<1>2. ReferencesAreWanted'
    BY <1>1 DEF ReferenceInv, ReferencesAreWanted
<1>3. copy[p].volumes \subseteq Wanted[copy[p].id]
    BY <1>1 DEF ReferenceInv, Carries
<1>4. CASE Return(p)
    BY <1>1, <1>2, <1>4, ReturnCarries, OthersCarry
<1>5. CASE ~Return(p)
    <2>1. /\ pc' = [pc EXCEPT ![p] = "list"] /\ required' = [required EXCEPT ![p] = copy[p].volumes]
          /\ UNCHANGED <<copy, todo, current, held>>
        BY <1>5 DEF saveStatus
    <2>2. OthersStay(p) /\ pc'[p] = "list" /\ required'[p] = copy[p].volumes
        BY <2>1 DEF OthersStay, StorageInv, Shared
    <2>3. Carries(p)'
        BY <1>3, <2>1, <2>2 DEF Carries, ReferenceInv
    <2> QED BY <1>2, <2>2, <2>3, OthersCarry
<1> QED BY <1>4, <1>5

\* The first loop reads a stored record, and writes back one that fits.
LEMMA DetachCarries ==
    ASSUME StorageInv, ReferenceInv, NEW p \in Procs, listAttachments(p) \/ detach(p) \/ release(p)
    PROVE  ReferenceInv'
<1> USE DEF At, Goto
<1>1. /\ UNCHANGED copy /\ pc[p] \in {"list", "detach", "release"}
      /\ copy[p].volumes \subseteq Wanted[copy[p].id] /\ required[p] \subseteq Wanted[copy[p].id]
    BY DEF listAttachments, detach, release, ReferenceInv, Carries
<1>2. ASSUME (pc'[p] = "attach" /\ todo'[p] = required[p]) \/ pc'[p] = "detach",
             required'[p] = required[p], \A v \in Volumes : Fits(v, held'[p][v])
      PROVE  Carries(p)'
    BY <1>1, <1>2 DEF Carries
<1>3. CASE listAttachments(p)
    <2>1. UNCHANGED <<volume, attachments, required, current, held>>
        BY <1>3 DEF listAttachments, etcdVars
    <2>2. OthersStay(p) /\ ((pc'[p] = "attach" /\ todo'[p] = required[p]) \/ pc'[p] = "detach")
        BY <1>1, <1>3, <2>1 DEF listAttachments, Detaching, OthersStay, StorageInv, Shared
    <2>3. Carries(p)'
        BY <1>2, <2>1, <2>2 DEF ReferenceInv, Carries
    <2>4. ReferencesAreWanted'
        BY <2>1 DEF ReferenceInv, ReferencesAreWanted
    <2> QED BY <2>2, <2>3, <2>4, OthersCarry
<1>4. CASE detach(p)
    <2>1. pc[p] = "detach" /\ volume' = volume /\ attachments' \subseteq attachments
        BY <1>4 DEF detach
    <2>2. ReferencesAreWanted'
        BY <2>1 DEF ReferenceInv, ReferencesAreWanted
    <2>3. PICK a \in todo[p] :
            IF stale(p, a)
            THEN /\ required' = [required EXCEPT ![p] = @ \ {a.volume}]
                 /\ todo' = [todo EXCEPT ![p] = @ \ {a}]
                 /\ current' = [current EXCEPT ![p] = a]
                 /\ held' = [held EXCEPT ![p][a.volume] = volume[a.volume]]
                 /\ pc' = [pc EXCEPT ![p] = "release"]
            ELSE Detaching(p, todo[p] \ {a}) /\ UNCHANGED <<required, current, held>>
        BY <1>4 DEF detach
    <2>4. a \in Attachments /\ a.volume \in Volumes
        BY <2>1, <2>3 DEF StorageInv, Loops, Attachments
    <2>5. CASE stale(p, a)
        <3>1. OthersStay(p)
            BY <1>1, <2>3, <2>5 DEF OthersStay, StorageInv, Shared
        <3>2. /\ pc'[p] = "release" /\ required'[p] \subseteq required[p]
              /\ held'[p] = [held[p] EXCEPT ![a.volume] = volume[a.volume]]
            <4>1. /\ required' = [required EXCEPT ![p] = @ \ {a.volume}]
                  /\ held' = [held EXCEPT ![p][a.volume] = volume[a.volume]]
                  /\ pc' = [pc EXCEPT ![p] = "release"]
                BY <2>3, <2>5
            <4>2. pc'[p] = "release" /\ required'[p] = required[p] \ {a.volume}
                BY <4>1 DEF StorageInv, Shared
            <4>3. held'[p] = [held[p] EXCEPT ![a.volume] = volume[a.volume]]
                BY <4>1 DEF StorageInv, Shared
            <4> QED BY <4>2, <4>3
        <3>3. ASSUME NEW v \in Volumes PROVE Fits(v, held'[p][v])
            <4>1. held'[p][v] = IF v = a.volume THEN volume[v] ELSE held[p][v]
                BY <2>4, <3>2 DEF StorageInv, Loops
            <4> QED BY <4>1 DEF ReferenceInv, ReferencesAreWanted, Carries
        <3>4. Carries(p)'
            BY <1>1, <3>2, <3>3 DEF Carries
        <3> QED BY <2>2, <3>1, <3>4, OthersCarry
    <2>6. CASE ~ stale(p, a)
        <3>0. Detaching(p, todo[p] \ {a}) /\ UNCHANGED <<required, current, held>>
            BY <2>3, <2>6
        <3>1. /\ OthersStay(p) /\ ((pc'[p] = "attach" /\ todo'[p] = required[p]) \/ pc'[p] = "detach")
              /\ UNCHANGED <<required, held>>
            BY <1>1, <3>0, ZenonT(30) DEF Detaching, OthersStay, StorageInv, Shared
        <3>2. Carries(p)'
            BY <1>2, <3>1 DEF ReferenceInv, Carries
        <3> QED BY <2>2, <3>1, <3>2, OthersCarry
    <2> QED BY <2>5, <2>6
<1>5. CASE release(p)
    <2> DEFINE v == current[p].volume
    <2>1. pc[p] = "release" /\ v \in Volumes /\ UNCHANGED <<attachments, required>>
        BY <1>5 DEF release, StorageInv, Loops, Attachments
    <2>2. ReferencesAreWanted'
        <3>1. CASE volume' = volume
            BY <2>1, <3>1 DEF ReferenceInv, ReferencesAreWanted
        <3>2. CASE volume' # volume
            <4> DEFINE r == Released(held[p][v], v, copy[p].id, {current[p].node})
            <4>0. held[p][v] # NoRecord
                BY <1>5, <3>2 DEF release
            <4>1. held[p][v] \in Record /\ Fits(v, held[p][v])
                <5>1. held[p] \in [Volumes -> Record \union {NoRecord}]
                    BY DEF StorageInv, Loops
                <5>2. Fits(v, held[p][v])
                    BY <2>1 DEF ReferenceInv, Carries
                <5> HIDE DEF v
                <5> QED BY <2>1, <4>0, <5>1, <5>2
            <4>2. Fits(v, r) /\ Used(v, r)
                BY <2>1, <4>1, ReleasedFits
            <4>3. volume' = [volume EXCEPT ![v] = r]
                BY <1>5, <3>2, <4>0 DEF release
            <4> HIDE DEF r, v
            <4> QED BY <2>1, <4>2, <4>3, VolumeFits
        <3> QED BY <3>1, <3>2
    <2>3. /\ OthersStay(p) /\ ((pc'[p] = "attach" /\ todo'[p] = required[p]) \/ pc'[p] = "detach")
          /\ held'[p] = NoneHeld
        <3>1. /\ Detaching(p, todo[p]) /\ held' = [held EXCEPT ![p] = NoneHeld]
              /\ current' = [current EXCEPT ![p] = NoRecord]
            BY <1>5 DEF release
        <3> QED BY <1>1, <2>1, <3>1, ZenonT(30) DEF Detaching, OthersStay, StorageInv, Shared
    <2>4. Carries(p)'
        BY <1>2, <2>1, <2>3, EmptyFits DEF NoneHeld
    <2> QED BY <2>2, <2>3, <2>4, OthersCarry
<1> QED BY <1>3, <1>4, <1>5

\* The second loop adds the workload to records of volumes it asks for.
LEMMA AttachCarries ==
    ASSUME StorageInv, ReferenceInv, NEW p \in Procs,
           attach(p) \/ saveVolume(p) \/ saveVolumeAttachmentRecord(p)
    PROVE  ReferenceInv'
<1> USE DEF At, Goto
<1>1. /\ UNCHANGED <<copy, required>> /\ pc[p] \in {"attach", "saveVolume", "saveAttachment"}
      /\ copy[p].volumes \subseteq Wanted[copy[p].id] /\ todo[p] \subseteq Wanted[copy[p].id]
    BY DEF attach, saveVolume, saveVolumeAttachmentRecord, etcdVars, ReferenceInv, Carries
<1>2. ASSUME pc'[p] \in {"attach", "saveVolume", "saveAttachment"},
             pc'[p] # "attach" => current'[p] \in Wanted[copy[p].id],
             todo'[p] \subseteq todo[p], \A v \in Volumes : Fits(v, held'[p][v])
      PROVE  Carries(p)'
    BY <1>1, <1>2 DEF Carries
<1>3. CASE attach(p)
    <2>1. pc[p] = "attach" /\ UNCHANGED <<volume, attachments>>
        BY <1>3 DEF attach, etcdVars
    <2>2. PICK v \in todo[p] :
            /\ todo' = [todo EXCEPT ![p] = @ \ {v}]
            /\ current' = [current EXCEPT ![p] = v]
            /\ held' = [held EXCEPT ![p][v] = IF volume[v] = NoRecord THEN Empty ELSE volume[v]]
            /\ pc' = [pc EXCEPT ![p] = "saveVolume"]
        BY <1>3 DEF attach
    <2>3. v \in Volumes
        BY <2>1, <2>2 DEF StorageInv, Loops
    <2> DEFINE r == IF volume[v] = NoRecord THEN Empty ELSE volume[v]
    <2>4. Fits(v, r)
        BY <2>3, EmptyFits DEF ReferenceInv, ReferencesAreWanted
    <2>5. held' = [held EXCEPT ![p][v] = r]
        BY <2>2
    <2> HIDE DEF r
    <2>6. /\ OthersStay(p) /\ pc'[p] = "saveVolume" /\ current'[p] = v /\ todo'[p] \subseteq todo[p]
          /\ held'[p] = [held[p] EXCEPT ![v] = r]
        BY <1>1, <2>2, <2>5 DEF OthersStay, StorageInv, Shared
    <2>7. ASSUME NEW u \in Volumes PROVE Fits(u, held'[p][u])
        <3>1. held'[p][u] = IF u = v THEN r ELSE held[p][u]
            BY <2>3, <2>6 DEF StorageInv, Loops
        <3> QED BY <2>4, <3>1 DEF ReferenceInv, Carries
    <2>8. Carries(p)'
        BY <1>1, <1>2, <2>2, <2>6, <2>7
    <2>9. ReferencesAreWanted'
        BY <2>1 DEF ReferenceInv, ReferencesAreWanted
    <2> QED BY <2>6, <2>8, <2>9, OthersCarry
<1>4. CASE saveVolume(p)
    <2> DEFINE v == current[p]
               w == copy[p].id
               ns == {copy[p].node} \ {NoNode}
               more == [refs |-> held[p][v].refs \union {w}, nodes |-> held[p][v].nodes \union ns]
               next == IF deleting(p) THEN Released(held[p][v], v, w, ns) ELSE more
    <2>1. /\ pc[p] = "saveVolume" /\ v \in Volumes /\ held[p][v] \in Record /\ v \in Wanted[w]
          /\ Fits(v, held[p][v]) /\ UNCHANGED <<attachments, todo>>
        BY <1>4 DEF saveVolume, StorageInv, Loops, ReferenceInv, Carries
    <2>2. Fits(v, next) /\ Used(v, next)
        <3>1. CASE deleting(p)
            BY <2>1, <3>1, ReleasedFits
        <3>2. CASE ~ deleting(p)
            <4>1. next = more /\ more.refs = held[p][v].refs \union {w} /\ held[p][v] # NoRecord
                BY <2>1, <3>2, RecordAssumption
            <4> HIDE DEF next, more
            <4> QED BY <2>1, <4>1 DEF Fits, Used
        <3> HIDE DEF next
        <3> QED BY <3>1, <3>2
    <2>3. volume' = [volume EXCEPT ![v] = next]
        BY <1>4 DEF saveVolume
    <2>4. ReferencesAreWanted'
        <3> HIDE DEF next, v
        <3> QED BY <2>1, <2>2, <2>3, VolumeFits
    <2>5. /\ OthersStay(p) /\ held'[p] = NoneHeld
          /\ pc'[p] = "attach" \/ (pc'[p] = "saveAttachment" /\ current'[p] = current[p])
        BY <1>1, <1>4, <2>1 DEF saveVolume, OthersStay, StorageInv, Shared
    <2>6. Carries(p)'
        BY <1>2, <2>1, <2>5, EmptyFits DEF NoneHeld
    <2> QED BY <2>4, <2>5, <2>6, OthersCarry
<1>5. CASE saveVolumeAttachmentRecord(p)
    <2> DEFINE a == [node |-> copy[p].node, workload |-> copy[p].id, volume |-> current[p]]
    <2>1. /\ pc[p] = "saveAttachment" /\ current[p] \in Wanted[copy[p].id]
          /\ UNCHANGED <<volume, todo, held>> /\ attachments' = attachments \union {a}
        BY <1>5 DEF saveVolumeAttachmentRecord, ReferenceInv, Carries
    <2>2. a.volume \in Wanted[a.workload]
        BY <2>1
    <2> HIDE DEF a
    <2>3. ReferencesAreWanted'
        BY <2>1, <2>2 DEF ReferenceInv, ReferencesAreWanted
    <2>4. OthersStay(p) /\ pc'[p] = "attach"
        BY <1>1, <1>5, <2>1 DEF saveVolumeAttachmentRecord, OthersStay, StorageInv, Shared
    <2>5. Carries(p)'
        BY <1>2, <2>1, <2>4 DEF ReferenceInv, Carries
    <2> QED BY <2>3, <2>4, <2>5, OthersCarry
<1> QED BY <1>3, <1>4, <1>5

\* The third loop takes the workload out of records it has listed.
LEMMA PruneCarries ==
    ASSUME StorageInv, ReferenceInv, NEW p \in Procs, listVolumes(p) \/ prune(p)
    PROVE  ReferenceInv'
<1> USE DEF At, Goto
<1>1. /\ attachments' = attachments /\ pc[p] \in {"attach", "prune"}
      /\ copy[p].volumes \subseteq Wanted[copy[p].id]
    BY DEF listVolumes, prune, etcdVars, ReferenceInv, Carries
<1>2. CASE listVolumes(p)
    <2> DEFINE listed == {v \in Volumes : /\ volume[v] # NoRecord /\ copy[p].id \in volume[v].refs
                                          /\ v \notin required[p] \/ deleting(p)}
               read == [v \in Volumes |-> IF v \in listed THEN volume[v] ELSE NoRecord]
    <2>1. volume' = volume
        BY <1>2 DEF listVolumes, etcdVars
    <2>2. ReferencesAreWanted'
        BY <1>1, <2>1 DEF ReferenceInv, ReferencesAreWanted
    <2>3. CASE Return(p)
        BY <1>1, <2>2, <2>3, ReturnCarries, OthersCarry
    <2>4. CASE ~Return(p)
        <3>1. /\ todo' = [todo EXCEPT ![p] = listed] /\ pc' = [pc EXCEPT ![p] = "prune"]
              /\ held' = [held EXCEPT ![p] = read] /\ UNCHANGED <<copy, required, current>>
            BY <1>2, <2>4 DEF listVolumes
        <3>2. ASSUME NEW v \in Volumes PROVE Fits(v, read[v])
            BY EmptyFits DEF ReferenceInv, ReferencesAreWanted
        <3> HIDE DEF listed, read
        <3>3. OthersStay(p) /\ pc'[p] = "prune" /\ held'[p] = read
            BY <3>1 DEF OthersStay, StorageInv, Shared
        <3>4. Carries(p)'
            BY <1>1, <3>1, <3>2, <3>3 DEF Carries
        <3> QED BY <2>2, <3>3, <3>4, OthersCarry
    <2> QED BY <2>3, <2>4
<1>3. CASE prune(p)
    <2>1. PICK v \in todo[p] :
            /\ volume' = [volume EXCEPT ![v] =
                            Released(held[p][v], v, copy[p].id, {copy[p].node} \ {NoNode})]
            /\ IF todo[p] = {v} THEN Return(p)
               ELSE /\ todo' = [todo EXCEPT ![p] = @ \ {v}]
                    /\ held' = [held EXCEPT ![p][v] = NoRecord]
                    /\ UNCHANGED <<pc, copy, required, current>>
        BY <1>3 DEF prune
    <2>2. pc[p] = "prune" /\ v \in Volumes /\ held[p][v] \in Record /\ Fits(v, held[p][v])
        BY <1>3, <2>1 DEF prune, StorageInv, Loops, ReferenceInv, Carries
    <2>3. ReferencesAreWanted'
        <3> DEFINE r == Released(held[p][v], v, copy[p].id, {copy[p].node} \ {NoNode})
        <3>1. Fits(v, r) /\ Used(v, r)
            BY <2>2, ReleasedFits
        <3>2. volume' = [volume EXCEPT ![v] = r]
            BY <2>1
        <3> HIDE DEF r
        <3> QED BY <1>1, <2>2, <3>1, <3>2, VolumeFits
    <2>4. CASE Return(p)
        BY <1>1, <2>3, <2>4, ReturnCarries, OthersCarry
    <2>5. CASE ~Return(p)
        <3>1. /\ todo' = [todo EXCEPT ![p] = @ \ {v}] /\ held' = [held EXCEPT ![p][v] = NoRecord]
              /\ UNCHANGED <<pc, copy, required, current>>
            BY <2>1, <2>5
        <3>2. OthersStay(p) /\ held'[p] = [held[p] EXCEPT ![v] = NoRecord]
            BY <3>1 DEF OthersStay, StorageInv, Shared
        <3>3. ASSUME NEW u \in Volumes PROVE Fits(u, held'[p][u])
            <4>1. held'[p][u] = IF u = v THEN NoRecord ELSE held[p][u]
                BY <2>2, <3>2 DEF StorageInv, Loops
            <4> QED BY <4>1, EmptyFits DEF ReferenceInv, Carries
        <3>4. Carries(p)'
            BY <1>1, <2>2, <3>1, <3>3 DEF Carries
        <3> QED BY <2>3, <3>2, <3>4, OthersCarry
    <2> QED BY <2>4, <2>5
<1> QED BY <1>2, <1>3

\* DeleteWorkload takes the workload out of records it has listed.
LEMMA CleanupCarries ==
    ASSUME StorageInv, ReferenceInv, NEW p \in Procs, cleanup(p) \/ cleanupList(p) \/ cleanupVolume(p)
    PROVE  ReferenceInv'
<1> USE DEF At, Goto
<1>1. /\ UNCHANGED <<copy, required>> /\ attachments' \subseteq attachments
      /\ pc[p] \in {"cleanup", "cleanupList", "cleanupVolumes"}
      /\ copy[p].volumes \subseteq Wanted[copy[p].id]
    BY DEF cleanup, cleanupList, cleanupVolume, etcdVars, ReferenceInv, Carries
<1>2. ASSUME pc'[p] \in {"cleanupList", "cleanupVolumes"}, \A v \in Volumes : Fits(v, held'[p][v])
      PROVE  Carries(p)'
    BY <1>1, <1>2 DEF Carries
<1>3. CASE cleanup(p)
    <2>1. UNCHANGED <<volume, held>> /\ OthersStay(p) /\ pc'[p] = "cleanupList"
        BY <1>1, <1>3 DEF cleanup, OthersStay, StorageInv, Shared
    <2>2. Carries(p)'
        BY <1>2, <2>1 DEF ReferenceInv, Carries
    <2>3. ReferencesAreWanted'
        BY <1>1, <2>1 DEF ReferenceInv, ReferencesAreWanted
    <2> QED BY <2>1, <2>2, <2>3, OthersCarry
<1>4. CASE cleanupList(p)
    <2> DEFINE gone(v) == {a \in current[p] : a.volume = v}
               listed == {v \in Volumes : /\ volume[v] # NoRecord
                                          /\ copy[p].id \in volume[v].refs \/ gone(v) # {}}
               read == [v \in Volumes |-> IF v \in listed
                                          THEN [volume[v] EXCEPT !.nodes = @ \ {a.node : a \in gone(v)}]
                                          ELSE NoRecord]
    <2>1. /\ volume' = volume /\ attachments' = attachments
          /\ todo' = [todo EXCEPT ![p] = listed] /\ held' = [held EXCEPT ![p] = read]
          /\ current' = [current EXCEPT ![p] = NoRecord] /\ pc' = [pc EXCEPT ![p] = "cleanupVolumes"]
        BY <1>4 DEF cleanupList, etcdVars
    <2>2. ASSUME NEW v \in listed PROVE Fits(v, read[v])
        <3>1. volume[v] \in Record /\ volume[v] # NoRecord /\ v \in Volumes
            BY DEF StorageInv, Shared
        <3>2. read[v] = [volume[v] EXCEPT !.nodes = @ \ {a.node : a \in gone(v)}]
            OBVIOUS
        <3> HIDE DEF gone, listed, read
        <3>3. read[v].refs = volume[v].refs
            BY <3>1, <3>2 DEF Record
        <3> QED BY <3>1, <3>3 DEF Fits, ReferenceInv, ReferencesAreWanted
    <2>3. \A v \in Volumes \ listed : read[v] = NoRecord
        OBVIOUS
    <2> HIDE DEF gone, listed, read
    <2>4. \A v \in Volumes : Fits(v, read[v])
        BY <2>2, <2>3, EmptyFits
    <2>5. OthersStay(p) /\ held'[p] = read /\ pc'[p] = "cleanupVolumes"
        BY <1>1, <2>1 DEF OthersStay, StorageInv, Shared
    <2>6. Carries(p)'
        BY <1>2, <2>4, <2>5
    <2>7. ReferencesAreWanted'
        BY <2>1 DEF ReferenceInv, ReferencesAreWanted
    <2> QED BY <2>5, <2>6, <2>7, OthersCarry
<1>5. CASE cleanupVolume(p)
    <2>1. PICK v \in todo[p] :
            /\ volume' = [volume EXCEPT ![v] = Released(held[p][v], v, copy[p].id, {})]
            /\ todo' = [todo EXCEPT ![p] = @ \ {v}]
            /\ held' = [held EXCEPT ![p][v] = NoRecord]
        BY <1>5 DEF cleanupVolume
    <2>2. /\ pc[p] = "cleanupVolumes" /\ v \in Volumes /\ held[p][v] \in Record /\ Fits(v, held[p][v])
          /\ UNCHANGED <<pc, current, attachments>>
        BY <1>5, <2>1 DEF cleanupVolume, StorageInv, Loops, ReferenceInv, Carries
    <2>3. ReferencesAreWanted'
        <3> DEFINE r == Released(held[p][v], v, copy[p].id, {})
        <3>1. Fits(v, r) /\ Used(v, r)
            BY <2>2, ReleasedFits
        <3>2. volume' = [volume EXCEPT ![v] = r]
            BY <2>1
        <3> HIDE DEF r
        <3> QED BY <2>2, <3>1, <3>2, VolumeFits
    <2>4. OthersStay(p) /\ held'[p] = [held[p] EXCEPT ![v] = NoRecord]
        BY <1>1, <2>1, <2>2 DEF OthersStay, StorageInv, Shared
    <2>5. ASSUME NEW u \in Volumes PROVE Fits(u, held'[p][u])
        <3>1. held'[p][u] = IF u = v THEN NoRecord ELSE held[p][u]
            BY <2>2, <2>4 DEF StorageInv, Loops
        <3> QED BY <3>1, EmptyFits DEF ReferenceInv, Carries
    <2>6. Carries(p)'
        BY <1>2, <2>2, <2>5
    <2> QED BY <2>3, <2>4, <2>6, OthersCarry
<1> QED BY <1>3, <1>4, <1>5

\* Every step keeps the records and what the goroutines carry.
LEMMA ReferencesKeep == StorageInv /\ ReferenceInv /\ [Next]_vars => ReferenceInv'
<1> SUFFICES ASSUME StorageInv, ReferenceInv, [Next]_vars PROVE ReferenceInv'
    OBVIOUS
<1>1. ASSUME NEW p \in Callers, Start(p) PROVE ReferenceInv'
    BY <1>1, ReadsCarry DEF Start, Procs
<1>2. ASSUME NEW p \in Beats, NEW w \in Workloads, UpdateWorkload(p, w) PROVE ReferenceInv'
    BY <1>2, ReadsCarry DEF Procs
<1>3. ASSUME NEW p \in Procs, Save(p) PROVE ReferenceInv'
    BY <1>3, ReadsCarry, StatusCarries DEF Save
<1>4. ASSUME NEW p \in Procs, Sync(p) PROVE ReferenceInv'
    BY <1>4, DetachCarries, AttachCarries, PruneCarries DEF Sync
<1>5. ASSUME NEW p \in Procs, Remove(p) PROVE ReferenceInv'
    BY <1>5, CleanupCarries, ReadsCarry DEF Remove
<1>6. ASSUME NEW p \in Procs, Abort(p) PROVE ReferenceInv'
    BY <1>6, ReadsCarry
<1>7. CASE UNCHANGED vars
    BY <1>7, ZenonT(30) DEF vars, etcdVars, ReferenceInv, ReferencesAreWanted, Carries
<1> QED BY <1>1, <1>2, <1>3, <1>4, <1>5, <1>6, <1>7 DEF Next, Step

\* The records of the workloads of Existing name exactly those that ask for the volume.
LEMMA ReferencesStart == Init => ReferenceInv
<1> SUFFICES ASSUME Init PROVE ReferenceInv
    OBVIOUS
<1> DEFINE users(v) == {w \in Existing : v \in Wanted[w]}
<1>1. PICK start \in [Existing -> Nodes \union {NoNode}] :
        LET bound == {w \in Existing : start[w] # NoNode}
        IN  /\ volume = [v \in Volumes |->
                           IF users(v) = {} THEN NoRecord
                           ELSE [refs |-> users(v), nodes |-> {start[w] : w \in users(v) \intersect bound}]]
            /\ attachments = UNION {{[node |-> start[w], workload |-> w, volume |-> v] : v \in Wanted[w]} :
                                      w \in bound}
    BY DEF Init
<1>2. ASSUME NEW v \in Volumes PROVE Fits(v, volume[v]) /\ Used(v, volume[v])
    <2>1. volume[v] = NoRecord \/ (users(v) # {} /\ volume[v].refs = users(v))
        BY <1>1
    <2> QED BY <2>1 DEF Fits, Used
<1>3. ASSUME NEW a \in attachments PROVE a.volume \in Wanted[a.workload]
    <2>1. PICK w \in Existing :
              a \in {[node |-> start[w], workload |-> w, volume |-> v] : v \in Wanted[w]}
        BY <1>1
    <2>2. PICK v \in Wanted[w] : a = [node |-> start[w], workload |-> w, volume |-> v]
        BY <2>1
    <2> QED BY <2>2
<1>4. \A p \in Procs : Carries(p)
    BY EmptyFits DEF Init, Carries, NoneHeld
<1> QED BY <1>2, <1>3, <1>4 DEF ReferenceInv, ReferencesAreWanted

\* Lost updates of a shared volume can take references away but never invent one, and
\* never leave a volume under Delete behind without a reference.
THEOREM NoStrayReference == Spec => []ReferencesAreWanted
<1>1. StorageInv /\ [Next]_vars => StorageInv'
    BY StorageKeeps
<1>2. ReferenceInv => ReferencesAreWanted
    BY DEF ReferenceInv
<1> QED BY <1>1, <1>2, StorageStarts, ReferencesStart, ReferencesKeep, PTL DEF Spec
=============================================================================

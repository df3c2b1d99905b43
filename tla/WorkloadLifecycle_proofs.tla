---------------------- MODULE WorkloadLifecycle_proofs ----------------------
(***************************************************************************)
(* Proofs about WorkloadLifecycle, for any nodes, callers, calls, daemons  *)
(* and faults. The inductive invariant IInv adds to the type invariant     *)
(* where a goroutine has a copy of the record to work on, and that the     *)
(* node and the revision of every copy have been in the record in etcd.    *)
(* On top of it, LiveInv shows that a workload is kept until a call asks   *)
(* for its deletion.                                                       *)
(***************************************************************************)
EXTENDS WorkloadLifecycle, TLAPS

\* Most leaves are first-order: Zenon is tried unless a leaf names another prover.
USE Zenon

\* The places where a goroutine serves a call, has a copy of the record, where the copy has a
\* node, and where the drift detector is visiting a node.
CallPlaces == {"exists", "read", "create", "write"}
CopyPlaces == {"write", "gate"}
NodePlaces == {"due", "failover", "failoverAgain", "probe", "probeAgain", "decide", "precheck",
               "reset", "apply", "persist", "delete", "deleteOnNode", "syncProbe"}
ScanPlaces == {"compare", "reapply", "orphan", "owner", "deleteOrphan", "adopt"}
FoundPlaces == {"orphan", "owner", "deleteOrphan", "adopt"}

MaybeRecord == Records \cup {NoRecord}
Observed == AgentStates \cup {"Missing", "None"}

\* The goroutine p has the copies it needs where it is.
Holds(p) ==
    /\ pc[p] \in CopyPlaces => w[p] \in Records
    /\ pc[p] \in NodePlaces => w[p] \in Records /\ w[p].node \in Nodes
    /\ pc[p] \in CallPlaces => call[p] \in AllCalls

ScanHeld ==
    "drift" \in Daemons =>
        /\ pc["drift"] \in ScanPlaces => scan.cur \in Nodes
        /\ pc["drift"] \in FoundPlaces => scan.found \in Instances
        /\ pc["drift"] = "reapply" => scan.exp \in Records /\ scan.exp.node = scan.cur
        /\ pc["drift"] \in {"owner", "adopt"} => scan.snap \in Records

\* The node and the revision of a copy have been in the record.
Known(r) == r # NoRecord => r.node \in placed \cup {NoNode} /\ r.rev \in revs

CopiesKnown ==
    /\ Known(store) /\ Known(scan.exp) /\ Known(scan.snap)
    /\ \A p \in Procs : Known(w[p]) /\ Known(tmp[p])

IInv == TypeOK /\ (\A p \in Procs : Holds(p)) /\ ScanHeld /\ CopiesKnown /\ PersistedBeforeExecution

\* What a step does to the record and the history ...
Grows ==
    /\ store' \in MaybeRecord /\ Known(store)'
    /\ placed \subseteq placed' /\ placed' \subseteq Nodes
    /\ revs \subseteq revs' /\ revs' \subseteq Revs

\* ... to nodes and agents ...
NodesOK ==
    /\ link' \in [Nodes -> BOOLEAN] /\ supports' \in [Nodes -> BOOLEAN]
    /\ health' \in [Nodes -> {"Ready", "Stale", "NotReady"}]
    /\ agent' \in [Nodes -> Instances \cup {Absent}] /\ PersistedBeforeExecution'

\* ... and to the goroutine that takes it.
Moves(p) ==
    /\ pc' = [pc EXCEPT ![p] = pc'[p]] /\ pc'[p] \in Places
    /\ call' = [call EXCEPT ![p] = call'[p]] /\ call'[p] \in AllCalls \cup {NoRecord}
    /\ w' = [w EXCEPT ![p] = w'[p]] /\ w'[p] \in MaybeRecord
    /\ seen' = [seen EXCEPT ![p] = seen'[p]] /\ seen'[p] \in Observed
    /\ todo' = [todo EXCEPT ![p] = todo'[p]] /\ todo'[p] \in Seq(Updates)
    /\ tmp' = [tmp EXCEPT ![p] = tmp'[p]] /\ tmp'[p] \in MaybeRecord
    /\ Holds(p)' /\ Known(w[p])' /\ Known(tmp[p])'

Counts == calls' \in 0..MaxCalls /\ faults' \in 0..MaxFaults

\* A step of p that leaves the other goroutines alone preserves the invariant.
LEMMA Moved ==
    ASSUME IInv, NEW p \in Procs, Moves(p), Grows, NodesOK, Counts,
           scan' \in Scans, Known(scan.exp)', Known(scan.snap)', ScanHeld'
    PROVE  IInv'
<1>1. TypeOK'
  <2>1. pc' \in [Procs -> Places] /\ call' \in [Procs -> AllCalls \cup {NoRecord}]
    BY DEF IInv, TypeOK, Moves
  <2>2. w' \in [Procs -> MaybeRecord] /\ tmp' \in [Procs -> MaybeRecord]
    BY DEF IInv, TypeOK, Moves, MaybeRecord
  <2>3. seen' \in [Procs -> Observed]
    BY DEF IInv, TypeOK, Moves, Observed
  <2>4. todo' \in [Procs -> Seq(Updates)]
    BY DEF IInv, TypeOK, Moves
  <2>5. QED
    BY <2>1, <2>2, <2>3, <2>4 DEF TypeOK, MaybeRecord, Observed, Grows, NodesOK, Counts
<1>2. \A q \in Procs : Holds(q)'
  BY DEF IInv, TypeOK, Moves, Holds
<1>3. CopiesKnown'
  <2>1. ASSUME NEW q \in Procs PROVE Known(w[q])' /\ Known(tmp[q])'
    <3>1. CASE q = p
      BY <3>1 DEF Moves
    <3>2. CASE q # p
      <4>1. w'[q] = w[q] /\ tmp'[q] = tmp[q]
        BY <3>2 DEF IInv, TypeOK, Moves
      <4>2. Known(w[q]) /\ Known(tmp[q])
        BY DEF IInv, CopiesKnown
      <4>3. QED
        BY <4>1, <4>2 DEF Known, Grows
    <3>3. QED
      BY <3>1, <3>2
  <2>2. QED
    BY <2>1 DEF CopiesKnown, Grows
<1>4. QED
  BY <1>1, <1>2, <1>3 DEF IInv, NodesOK

\* A goroutine that does not visit a node leaves the drift detector's view as it is.
LEMMA ScanKept ==
    ASSUME IInv, NEW p \in Procs, Moves(p), Grows, UNCHANGED scan,
           pc'[p] \notin ScanPlaces
    PROVE  scan' \in Scans /\ Known(scan.exp)' /\ Known(scan.snap)' /\ ScanHeld'
<1>1. scan' \in Scans
  BY DEF IInv, TypeOK
<1>2. Known(scan.exp)' /\ Known(scan.snap)'
  BY DEF IInv, CopiesKnown, Known, Grows
<1>3. ScanHeld'
  BY DEF IInv, TypeOK, Moves, ScanHeld, ScanPlaces, FoundPlaces, Procs
<1>4. QED
  BY <1>1, <1>2, <1>3

\* Moved, for a goroutine that is not visiting a node.
LEMMA MovedOn ==
    ASSUME IInv, NEW p \in Procs, Moves(p), Grows, NodesOK, Counts, UNCHANGED scan,
           pc'[p] \notin ScanPlaces
    PROVE  IInv'
BY Moved, ScanKept

\* A step that saves nothing leaves record and history well.
LEMMA RecordKept ==
    ASSUME IInv, UNCHANGED <<store, history>>
    PROVE  Grows
BY DEF IInv, TypeOK, CopiesKnown, Known, Grows, MaybeRecord, history

\* saveWorkload of a record makes its node and its revision known.
LEMMA RecordSaved ==
    ASSUME IInv, NEW r \in Records, saveWorkload(r)
    PROVE  Grows /\ r.node \in placed' \cup {NoNode} /\ r.rev \in revs'
BY DEF IInv, TypeOK, Known, Grows, MaybeRecord, saveWorkload, Records

\* A step that touches neither nodes nor agents leaves them well.
LEMMA NodesKept ==
    ASSUME IInv, Grows, UNCHANGED <<agent, nodeVars>>
    PROVE  NodesOK
BY DEF IInv, TypeOK, PersistedBeforeExecution, Grows, NodesOK, nodeVars

\* A step that is neither a call nor a fault keeps the counters.
LEMMA CountsKept ==
    ASSUME IInv, UNCHANGED <<calls, faults>>
    PROVE  Counts
BY DEF IInv, TypeOK, Counts

\* What the invariant says of one goroutine.
LEMMA AtP ==
    ASSUME IInv, NEW p \in Procs
    PROVE  /\ pc[p] \in Places /\ call[p] \in AllCalls \cup {NoRecord} /\ w[p] \in MaybeRecord
           /\ seen[p] \in Observed /\ todo[p] \in Seq(Updates) /\ tmp[p] \in MaybeRecord
           /\ Holds(p) /\ Known(w[p]) /\ Known(tmp[p])
BY DEF IInv, TypeOK, CopiesKnown, MaybeRecord, Observed

\* The lists of record updates that the code queues are lists of updates.
LEMMA UpdateSeqs ==
    /\ <<>> \in Seq(Updates) /\ Touches \in Seq(Updates) /\ RecordResult \in Seq(Updates)
    /\ <<UpdateWorkloadRetryOnFailure>> \in Seq(Updates)
    /\ <<UpdateWorkloadRetryOnFailure>> \o RecordResult \in Seq(Updates)
    /\ Touches \o RecordResult \in Seq(Updates)
    /\ \A s \in Statuses : /\ <<UpdateWorkloadStatus(s)>> \in Seq(Updates)
                           /\ <<UpdateWorkloadStatus(s)>> \o Touches \in Seq(Updates)
<1>1. Touch \in Updates /\ UpdateWorkloadRetryOnFailure \in Updates
  BY DEF Touch, Updates, Helpers, Statuses, AgentStates, UpdateWorkloadRetryOnFailure
<1>2. \A s \in Statuses : UpdateWorkloadStatus(s) \in Updates
  BY DEF Updates, Helpers, UpdateWorkloadStatus
<1>3. \A u \in Updates : <<u>> \in Seq(Updates)
  BY SMT
<1>4. <<>> \in Seq(Updates)
  BY SMT
<1>5. Touches \in Seq(Updates)
  BY <1>1, <1>3, <1>4 DEF Touches
<1>6. RecordResult \in Seq(Updates)
  BY <1>4, <1>5 DEF RecordResult
<1>7. \A s, t \in Seq(Updates) : s \o t \in Seq(Updates)
  BY SMT
<1>8. QED
  BY <1>1, <1>2, <1>3, <1>4, <1>5, <1>6, <1>7

\* The statuses the code writes are statuses.
LEMMA StatusNames ==
    /\ AgentStates \subseteq Statuses
    /\ "Scheduled" \in Statuses /\ "Pending" \in Statuses /\ "Failed" \in Statuses
    /\ "RetryPending" \in Statuses /\ "Deleted" \in Statuses /\ "Deleting" \in Statuses
    /\ "Updating" \in Statuses
BY DEF Statuses, AgentStates

\* The pass of p ends.
LEMMA Returns ==
    ASSUME IInv, Grows, NodesOK, Counts, NEW p \in Procs, NEW us \in Seq(Updates),
           Return(p, us), UNCHANGED <<call, tmp, scan>>
    PROVE  IInv'
<1> USE AtP DEF Return, Goto, Queue, Copy, Caller
<1>1. pc'[p] \in {"idle", "drift"}
  BY DEF IInv, TypeOK
<1>2. pc'[p] \in Places \ ScanPlaces /\ pc' = [pc EXCEPT ![p] = pc'[p]]
  BY <1>1 DEF Places, ScanPlaces, IInv, TypeOK
<1>3. w'[p] = NoRecord /\ w' = [w EXCEPT ![p] = w'[p]] /\ w'[p] \in MaybeRecord
  BY DEF IInv, TypeOK, MaybeRecord
<1>4. seen' = [seen EXCEPT ![p] = seen'[p]] /\ seen'[p] \in Observed
  BY DEF IInv, TypeOK, Observed
<1>5. todo' = [todo EXCEPT ![p] = todo'[p]] /\ todo'[p] \in Seq(Updates)
  BY DEF IInv, TypeOK
<1>6. /\ call' = [call EXCEPT ![p] = call'[p]] /\ call'[p] \in AllCalls \cup {NoRecord}
      /\ tmp' = [tmp EXCEPT ![p] = tmp'[p]] /\ tmp'[p] \in MaybeRecord
  BY DEF IInv, TypeOK
<1>7. Holds(p)'
  BY <1>1 DEF Holds, CallPlaces, CopyPlaces, NodePlaces
<1>8. Known(w[p])' /\ Known(tmp[p])'
  BY <1>3 DEF Known, Grows
<1>9. QED
  <2>1. Moves(p)
    BY <1>2, <1>3, <1>4, <1>5, <1>6, <1>7, <1>8 DEF Moves
  <2>2. QED
    BY <1>2, <2>1, MovedOn

\* The slots of p that a step may leave alone.
LEMMA SlotsKept ==
    ASSUME IInv, NEW p \in Procs
    PROVE  /\ UNCHANGED call => call' = [call EXCEPT ![p] = call'[p]] /\ call'[p] \in AllCalls \cup {NoRecord}
           /\ UNCHANGED seen => seen' = [seen EXCEPT ![p] = seen'[p]] /\ seen'[p] \in Observed
           /\ UNCHANGED todo => todo' = [todo EXCEPT ![p] = todo'[p]] /\ todo'[p] \in Seq(Updates)
           /\ UNCHANGED w => w' = [w EXCEPT ![p] = w[p]] /\ w[p] \in MaybeRecord
           /\ UNCHANGED tmp => tmp' = [tmp EXCEPT ![p] = tmp'[p]] /\ tmp'[p] \in MaybeRecord
BY DEF IInv, TypeOK, Observed, MaybeRecord

\* The updates p has to do, when a step leaves them alone or queues new ones.
LEMMA Queued ==
    ASSUME IInv, NEW p \in Procs, UNCHANGED todo \/ (\E us \in Seq(Updates) : Queue(p, us))
    PROVE  todo' = [todo EXCEPT ![p] = todo'[p]] /\ todo'[p] \in Seq(Updates)
<1>1. CASE UNCHANGED todo
  BY <1>1, SlotsKept
<1>2. ASSUME NEW us \in Seq(Updates), Queue(p, us)
      PROVE  todo' = [todo EXCEPT ![p] = todo'[p]] /\ todo'[p] \in Seq(Updates)
  <2>1. todo \in [Procs -> Seq(Updates)] /\ todo' = [todo EXCEPT ![p] = us]
    BY <1>2 DEF IInv, TypeOK, Queue
  <2>2. todo'[p] = us
    BY <2>1
  <2>3. QED
    BY <2>1, <2>2
<1>3. QED
  BY <1>1, <1>2

\* p goes to place with the copy r.
LEMMA Moving ==
    ASSUME IInv, Grows, NEW p \in Procs, NEW place \in Places, NEW r \in MaybeRecord,
           Goto(p, place), w' = [w EXCEPT ![p] = r],
           r # NoRecord => r.node \in placed' \cup {NoNode} /\ r.rev \in revs',
           place \in CopyPlaces => r \in Records,
           place \in NodePlaces => r \in Records /\ r.node \in Nodes,
           call' = [call EXCEPT ![p] = call'[p]], call'[p] \in AllCalls \cup {NoRecord},
           place \in CallPlaces => call'[p] \in AllCalls,
           seen' = [seen EXCEPT ![p] = seen'[p]], seen'[p] \in Observed,
           todo' = [todo EXCEPT ![p] = todo'[p]], todo'[p] \in Seq(Updates),
           UNCHANGED tmp
    PROVE  Moves(p) /\ pc'[p] = place
<1> USE AtP DEF Goto
<1>1. pc'[p] = place /\ pc'[p] \in Places /\ pc' = [pc EXCEPT ![p] = pc'[p]]
  BY DEF IInv, TypeOK
<1>2. w'[p] = r /\ w' = [w EXCEPT ![p] = w'[p]] /\ w'[p] \in MaybeRecord
  BY DEF IInv, TypeOK, MaybeRecord
<1>3. tmp' = [tmp EXCEPT ![p] = tmp'[p]] /\ tmp'[p] \in MaybeRecord
  BY SlotsKept
<1>4. Holds(p)'
  BY <1>1, <1>2 DEF Holds
<1>5. Known(w[p])' /\ Known(tmp[p])'
  BY <1>2 DEF Known, Grows
<1>6. QED
  BY <1>1, <1>2, <1>3, <1>4, <1>5 DEF Moves

\* p goes to place with the copy it has, and with updates to do or without.
LEMMA GoesTo ==
    ASSUME IInv, Grows, NodesOK, Counts, NEW p \in Procs, NEW place \in Places \ ScanPlaces,
           Goto(p, place), UNCHANGED <<call, w, seen, tmp, scan>>,
           UNCHANGED todo \/ (\E us \in Seq(Updates) : Queue(p, us)),
           place \in CopyPlaces => w[p] \in Records,
           place \in NodePlaces => w[p] \in Records /\ w[p].node \in Nodes,
           place \notin CallPlaces
    PROVE  IInv'
<1>1. todo' = [todo EXCEPT ![p] = todo'[p]] /\ todo'[p] \in Seq(Updates)
  BY Queued
<1>2. w[p] # NoRecord => w[p].node \in placed' \cup {NoNode} /\ w[p].rev \in revs'
  BY AtP DEF Known, Grows
<1>3. Moves(p) /\ pc'[p] = place
  BY <1>1, <1>2, SlotsKept, Moving
<1>4. QED
  BY <1>3, MovedOn

\* p saves r and goes to place with it.
LEMMA GoesSaved ==
    ASSUME IInv, NodesOK, Counts, NEW p \in Procs, NEW place \in Places \ ScanPlaces,
           NEW r \in Records, saveWorkload(r), Goto(p, place), Copy(p, r),
           UNCHANGED todo \/ (\E us \in Seq(Updates) : Queue(p, us)),
           place \in NodePlaces => r.node \in Nodes,
           place \notin CallPlaces,
           UNCHANGED <<call, seen, tmp, scan>>
    PROVE  IInv'
<1>1. Grows /\ r.node \in placed' \cup {NoNode} /\ r.rev \in revs' /\ r \in MaybeRecord
  BY RecordSaved DEF MaybeRecord
<1>2. todo' = [todo EXCEPT ![p] = todo'[p]] /\ todo'[p] \in Seq(Updates)
  BY Queued
<1>3. Moves(p) /\ pc'[p] = place
  BY <1>1, <1>2, SlotsKept, Moving DEF Copy
<1>4. QED
  BY <1>1, <1>3, MovedOn

\* p works on its updates: place and copy stay.
LEMMA InPlace ==
    ASSUME IInv, Grows, NodesOK, Counts, NEW p \in Procs, UNCHANGED <<pc, call, w, seen, scan>>,
           todo' = [todo EXCEPT ![p] = todo'[p]], todo'[p] \in Seq(Updates),
           tmp' = [tmp EXCEPT ![p] = tmp'[p]], tmp'[p] \in MaybeRecord, Known(tmp[p])'
    PROVE  IInv'
<1>1. pc' = [pc EXCEPT ![p] = pc'[p]] /\ pc'[p] \in Places
  BY DEF IInv, TypeOK
<1>2. w' = [w EXCEPT ![p] = w'[p]] /\ w'[p] \in MaybeRecord
  BY SlotsKept
<1>3. Holds(p)' /\ Known(w[p])'
  BY AtP DEF Holds, Known, Grows
<1>4. Moves(p)
  BY <1>1, <1>2, <1>3, SlotsKept DEF Moves
<1>5. scan' \in Scans /\ Known(scan.exp)' /\ Known(scan.snap)' /\ ScanHeld'
  BY DEF IInv, TypeOK, CopiesKnown, Known, Grows, ScanHeld
<1>6. QED
  BY <1>4, <1>5, Moved

\* EnsureWorkloadAssigned preserves the invariant: a node is saved before it is used.
LEMMA StepEnsure ==
    ASSUME IInv, NEW p \in Procs, EnsureWorkloadAssigned(p) PROVE IInv'
<1> USE DEF EnsureWorkloadAssigned
<1>1. /\ pc[p] = "gate" /\ w[p] \in Records /\ Counts /\ UNCHANGED <<call, tmp, scan>>
      /\ Grows => NodesOK
  BY AtP, CountsKept, NodesKept DEF Holds, CopyPlaces, At
<1>2. CASE Goto(p, "deleteRead") /\ UNCHANGED <<store, history, w, seen, todo>>
  BY <1>1, <1>2, RecordKept, GoesTo DEF Places, ScanPlaces, CallPlaces, CopyPlaces, NodePlaces
<1>3. CASE Return(p, RecordResult) /\ UNCHANGED <<store, history>>
  BY <1>1, <1>3, RecordKept, Returns, UpdateSeqs
<1>4. ASSUME NEW n \in Candidates, Goto(p, "due"), UNCHANGED <<seen, todo>>,
             assignWorkload(p, [w[p] EXCEPT !.node = n, !.status = "Scheduled"])
      PROVE  IInv'
  <2> DEFINE r == [w[p] EXCEPT !.node = n, !.status = "Scheduled"]
  <2>1. r \in Records /\ r.node \in Nodes
    BY <1>1, StatusNames DEF Records, Candidates
  <2>2. saveWorkload(r) /\ Copy(p, r) /\ Grows
    BY <1>4, <2>1, RecordSaved DEF assignWorkload
  <2> HIDE DEF r
  <2>3. QED
    BY <1>1, <1>4, <2>1, <2>2, GoesSaved DEF Places, ScanPlaces, CallPlaces
<1>5. CASE w[p].node # NoNode /\ Goto(p, "due") /\ UNCHANGED <<store, history, w, seen, todo>>
  <2>1. w[p].node \in Nodes
    BY <1>1, <1>5 DEF Records
  <2>2. QED
    BY <1>1, <1>5, <2>1, RecordKept, GoesTo
       DEF Places, ScanPlaces, CallPlaces, CopyPlaces, NodePlaces
<1>6. QED
  BY <1>2, <1>3, <1>4, <1>5

\* The record updates (status, retry, logs, metadata) preserve the invariant.
LEMMA StepUpdate ==
    ASSUME IInv, NEW p \in Procs, UpdateStep(p) PROVE IInv'
<1>1. /\ UNCHANGED <<agent, nodeVars, pc, call, w, seen, scan, calls, faults>> /\ Counts
      /\ todo[p] \in Seq(Updates) /\ todo[p] # <<>>
  BY AtP, CountsKept DEF UpdateStep, UpdateRead, UpdateSkip, UpdateWrite, Busy
<1>2. Head(todo[p]) \in Updates /\ Tail(todo[p]) \in Seq(Updates)
  BY <1>1, SMT
<1>3. CASE UpdateRead(p)
  <2>1. Grows /\ NodesOK
    BY <1>1, <1>3, RecordKept, NodesKept DEF UpdateRead
  <2>2. tmp' = [tmp EXCEPT ![p] = tmp'[p]] /\ tmp'[p] = store
    BY <1>3 DEF UpdateRead, IInv, TypeOK
  <2>3. tmp'[p] \in MaybeRecord /\ Known(tmp[p])'
    BY <1>3, <2>1, <2>2 DEF UpdateRead, Grows, IInv, TypeOK, MaybeRecord, CopiesKnown, Known
  <2>4. QED
    BY <1>1, <1>3, <2>1, <2>2, <2>3, SlotsKept, InPlace DEF UpdateRead
<1>4. CASE UpdateSkip(p)
  <2>1. Grows /\ NodesOK
    BY <1>1, <1>4, RecordKept, NodesKept DEF UpdateSkip
  <2>2. todo' = [todo EXCEPT ![p] = todo'[p]] /\ todo'[p] \in Seq(Updates)
    BY <1>2, <1>4 DEF UpdateSkip, IInv, TypeOK
  <2>3. Known(tmp[p])'
    BY <1>4, <2>1, AtP DEF UpdateSkip, Grows, Known
  <2>4. QED
    BY <1>1, <1>4, <2>1, <2>2, <2>3, SlotsKept, InPlace DEF UpdateSkip
<1>5. CASE UpdateWrite(p)
  <2> DEFINE r == IF Head(todo[p]).f \in Split THEN tmp[p] ELSE store
  <2>1. r \in Records
    BY <1>5, AtP DEF UpdateWrite, IInv, TypeOK, MaybeRecord
  <2>2. Updated(Head(todo[p]), r) \subseteq Records
    <3>1. Head(todo[p]).status \in Statuses
      BY <1>2 DEF Updates
    <3> HIDE DEF r
    <3>2. [r EXCEPT !.status = Head(todo[p]).status] \in Records
      BY <2>1, <3>1 DEF Records
    <3>3. [r EXCEPT !.status = "Failed", !.retry = "exhausted"] \in Records
      BY <2>1, StatusNames DEF Records, Retries
    <3>4. [r EXCEPT !.status = "RetryPending", !.retry = IF @ = "exhausted" THEN @ ELSE "armed"] \in Records
      BY <2>1, StatusNames DEF Records, Retries
    <3>5. QED
      BY <2>1, <3>2, <3>3, <3>4 DEF Updated
  <2>3. UNCHANGED <<store, history>> \/ (\E rec \in Records : saveWorkload(rec))
    BY <1>5, <2>2 DEF UpdateWrite
  <2>4. Grows /\ NodesOK
    BY <1>1, <2>3, RecordKept, RecordSaved, NodesKept
  <2>5. todo' = [todo EXCEPT ![p] = todo'[p]] /\ todo'[p] \in Seq(Updates)
    BY <1>2, <1>5 DEF UpdateWrite, IInv, TypeOK
  <2>6. tmp' = [tmp EXCEPT ![p] = tmp'[p]] /\ tmp'[p] = NoRecord
    BY <1>5 DEF UpdateWrite, IInv, TypeOK
  <2>7. tmp'[p] \in MaybeRecord /\ Known(tmp[p])'
    BY <2>6 DEF MaybeRecord, Known
  <2>8. QED
    BY <1>1, <2>4, <2>5, <2>6, <2>7, InPlace
<1>6. QED
  BY <1>3, <1>4, <1>5, UpdateStep(p) DEF UpdateStep

\* A pass that ends in a backoff window preserves the invariant.
LEMMA StepBackoff ==
    ASSUME IInv, NEW p \in Procs, BackoffWait(p) \/ reapplyStillGuarded(p) PROVE IInv'
<1>1. Grows /\ NodesOK /\ Counts /\ UNCHANGED <<call, tmp, scan>>
  BY RecordKept, NodesKept, CountsKept DEF BackoffWait, reapplyStillGuarded
<1>2. \E us \in Seq(Updates) : Return(p, us)
  BY UpdateSeqs DEF BackoffWait, reapplyStillGuarded
<1>3. QED
  BY <1>1, <1>2, Returns

\* Clearing a retry that is due preserves the invariant.
LEMMA StepDue ==
    ASSUME IInv, NEW p \in Procs, dueForRetry(p) PROVE IInv'
<1> USE DEF dueForRetry
<1>1. /\ w[p] \in Records /\ w[p].node \in Nodes /\ Counts /\ (Grows => NodesOK)
      /\ UNCHANGED <<call, seen, todo, tmp, scan>>
  BY AtP, CountsKept, NodesKept DEF Holds, NodePlaces, At
<1>2. PICK place \in {"probe", "failover"} : Goto(p, place)
  OBVIOUS
<1>3. CASE w[p].retry = "armed"
  <2> DEFINE r == [w[p] EXCEPT !.retry = "idle", !.status = "Pending"]
  <2>1. r \in Records /\ r.node \in Nodes
    BY <1>1, StatusNames DEF Records, Retries
  <2>2. saveWorkload(r) /\ Copy(p, r)
    BY <1>3
  <2> HIDE DEF r
  <2>3. QED
    BY <1>1, <1>2, <2>1, <2>2, RecordSaved, GoesSaved DEF Places, ScanPlaces, CallPlaces
<1>4. CASE w[p].retry # "armed"
  BY <1>1, <1>2, <1>4, RecordKept, GoesTo DEF Places, ScanPlaces, CallPlaces, CopyPlaces
<1>5. QED
  BY <1>3, <1>4

\* handleUnavailableAssignedNode preserves the invariant.
LEMMA StepFailover ==
    ASSUME IInv, NEW p \in Procs, handleUnavailableAssignedNode(p) PROVE IInv'
<1> USE DEF handleUnavailableAssignedNode
<1> DEFINE probe == IF pc[p] = "failover" THEN "probe" ELSE "probeAgain"
<1>1. /\ w[p] \in Records /\ w[p].node \in Nodes /\ Counts /\ (Grows => NodesOK)
      /\ UNCHANGED <<call, tmp, scan>>
  BY AtP, CountsKept, NodesKept DEF Holds, NodePlaces, At
<1>2. probe \in {"probe", "probeAgain"}
  OBVIOUS
<1>3. CASE Goto(p, probe) /\ UNCHANGED <<store, history, w, seen, todo>>
  BY <1>1, <1>2, <1>3, RecordKept, GoesTo DEF Places, ScanPlaces, CallPlaces, CopyPlaces
<1>4. ASSUME NEW n \in Candidates,
             assignWorkload(p, [w[p] EXCEPT !.node = n, !.status = "Scheduled", !.retry = "idle"]),
             Queue(p, Touches), Goto(p, probe), UNCHANGED seen
      PROVE  IInv'
  <2> DEFINE r == [w[p] EXCEPT !.node = n, !.status = "Scheduled", !.retry = "idle"]
  <2>1. r \in Records /\ r.node \in Nodes
    BY <1>1, StatusNames DEF Records, Candidates, Retries
  <2>2. saveWorkload(r) /\ Copy(p, r) /\ Grows
    BY <1>4, <2>1, RecordSaved DEF assignWorkload
  <2> HIDE DEF r
  <2>3. QED
    BY <1>1, <1>2, <1>4, <2>1, <2>2, UpdateSeqs, GoesSaved DEF Places, ScanPlaces, CallPlaces
<1>5. CASE Return(p, <<UpdateWorkloadRetryOnFailure>> \o RecordResult) /\ UNCHANGED <<store, history>>
  BY <1>1, <1>5, RecordKept, UpdateSeqs, Returns
<1>6. QED
  BY <1>3, <1>4, <1>5

\* getActualWorkloadState preserves the invariant.
LEMMA StepProbe ==
    ASSUME IInv, NEW p \in Procs, getActualWorkloadState(p) PROVE IInv'
<1> USE DEF getActualWorkloadState
<1>1. /\ w[p] \in Records /\ w[p].node \in Nodes /\ Counts /\ Grows
      /\ UNCHANGED <<call, tmp, scan>>
  BY AtP, CountsKept, RecordKept DEF Holds, NodePlaces, At
<1>2. NodesOK
  <2>1. health' \in [Nodes -> {"Ready", "Stale", "NotReady"}]
    BY DEF IInv, TypeOK
  <2>2. UNCHANGED <<agent, link, supports>>
    OBVIOUS
  <2>3. QED
    BY <1>1, <2>1, <2>2 DEF IInv, TypeOK, PersistedBeforeExecution, Grows, NodesOK
<1>3. CASE /\ seen' = [seen EXCEPT ![p] = IF agent[w[p].node] = Absent THEN "Missing"
                                       ELSE agent[w[p].node].state]
           /\ Queue(p, IF agent[w[p].node] = Absent THEN <<>> ELSE Touches)
           /\ Goto(p, "decide") /\ UNCHANGED w
  <2>1. seen' = [seen EXCEPT ![p] = seen'[p]] /\ seen'[p] \in Observed
    BY <1>1, <1>3 DEF IInv, TypeOK, Observed, Instances
  <2>2. todo' = [todo EXCEPT ![p] = todo'[p]] /\ todo'[p] \in Seq(Updates)
    BY <1>3, UpdateSeqs DEF IInv, TypeOK, Queue
  <2>3. w[p].node \in placed' \cup {NoNode} /\ w[p].rev \in revs' /\ w[p] \in MaybeRecord
    BY <1>1, AtP, NamesAssumption DEF Known, Grows
  <2>4. Moves(p) /\ pc'[p] = "decide"
    BY <1>1, <1>3, <2>1, <2>2, <2>3, SlotsKept, Moving, ZenonT(30) DEF Places, CallPlaces, CopyPlaces
  <2>5. QED
    BY <1>1, <1>2, <2>4, MovedOn DEF ScanPlaces
<1>4. CASE Goto(p, "failoverAgain") /\ UNCHANGED <<w, seen, todo>>
  BY <1>1, <1>2, <1>4, GoesTo DEF Places, ScanPlaces, CallPlaces, CopyPlaces
<1>5. CASE Return(p, RecordResult)
  BY <1>1, <1>2, <1>5, UpdateSeqs, Returns
<1>6. QED
  BY <1>3, <1>4, <1>5

\* performReconciliation preserves the invariant.
LEMMA StepDecide ==
    ASSUME IInv, NEW p \in Procs, performReconciliation(p) PROVE IInv'
<1> USE DEF performReconciliation
<1>1. /\ w[p] \in Records /\ w[p].node \in Nodes /\ Counts /\ (Grows => NodesOK)
      /\ UNCHANGED <<call, tmp, scan>>
  BY AtP, CountsKept, NodesKept DEF Holds, NodePlaces, At
<1>2. CASE UNCHANGED <<store, history>> /\ (\E us \in Seq(Updates) : Return(p, us))
  BY <1>1, <1>2, RecordKept, Returns
<1>3. CASE saveWorkload([w[p] EXCEPT !.status = "Failed"]) /\ Return(p, Touches)
  <2>1. [w[p] EXCEPT !.status = "Failed"] \in Records
    BY <1>1, StatusNames DEF Records
  <2>2. QED
    BY <1>1, <1>3, <2>1, RecordSaved, UpdateSeqs, Returns
<1>4. CASE /\ Goto(p, "precheck") \/ Goto(p, "delete")
           /\ UNCHANGED <<store, history, w, seen, todo>>
  BY <1>1, <1>4, RecordKept, GoesTo DEF Places, ScanPlaces, CallPlaces, CopyPlaces
<1>5. QED
  BY <1>2, <1>3, <1>4, UpdateSeqs

\* What happens to the agents: the workload is removed from one ...
LEMMA AgentGone ==
    ASSUME IInv, Grows, NEW n \in Nodes, UNCHANGED nodeVars,
           UNCHANGED agent \/ agent' = [agent EXCEPT ![n] = Absent]
    PROVE  NodesOK
BY DEF IInv, TypeOK, PersistedBeforeExecution, Grows, NodesOK, nodeVars

\* ... the one it is on changes its state ...
LEMMA AgentChanged ==
    ASSUME IInv, Grows, NEW n \in Nodes, UNCHANGED nodeVars, agent[n] # Absent,
           NEW s \in AgentStates, agent' = [agent EXCEPT ![n].state = s]
    PROVE  NodesOK
<1>1. agent \in [Nodes -> Instances \cup {Absent}] /\ agent[n] \in Instances
  BY DEF IInv, TypeOK
<1>2. [agent[n] EXCEPT !.state = s] \in Instances /\ [agent[n] EXCEPT !.state = s].rev = agent[n].rev
  BY <1>1 DEF Instances
<1>3. agent' = [agent EXCEPT ![n] = [agent[n] EXCEPT !.state = s]]
  BY <1>1
<1>4. QED
  BY <1>1, <1>2, <1>3, ZenonT(30) DEF IInv, TypeOK, PersistedBeforeExecution, Grows, NodesOK, nodeVars

\* ... or one is sent a record whose node and revision are known.
LEMMA AgentApplied ==
    ASSUME IInv, Grows, NEW n \in Nodes, UNCHANGED nodeVars, NEW r \in Records, r.node = n, Known(r),
           UNCHANGED agent \/ agent' = [agent EXCEPT ![n] = Applied(n, r)]
    PROVE  NodesOK
<1>1. n \in placed /\ r.rev \in revs /\ r.rev \in Revs
  BY NamesAssumption DEF Known, Records
<1>2. agent \in [Nodes -> Instances \cup {Absent}] /\ agent[n] \in Instances \cup {Absent}
  BY DEF IInv, TypeOK
<1>3. Applied(n, r) \in Instances
  BY <1>1, <1>2 DEF Applied, Instances, AgentStates
<1>4. Applied(n, r).rev \in revs
  BY <1>1, <1>2 DEF Applied, IInv, PersistedBeforeExecution
<1>5. agent' \in [Nodes -> Instances \cup {Absent}]
  BY <1>2, <1>3
<1>6. PersistedBeforeExecution'
  BY <1>1, <1>2, <1>4 DEF IInv, PersistedBeforeExecution, Grows
<1>7. QED
  BY <1>5, <1>6 DEF IInv, TypeOK, NodesOK, nodeVars

\* applyDesiredState preserves the invariant: the copy it applies is a known one.
LEMMA StepApply ==
    ASSUME IInv, NEW p \in Procs, ApplyStep(p) PROVE IInv'
<1> DEFINE n == w[p].node
<1>1. /\ w[p] \in Records /\ n \in Nodes /\ Counts /\ Known(w[p])
      /\ UNCHANGED <<call, tmp, scan, nodeVars>>
  BY AtP, CountsKept DEF Holds, NodePlaces, At, ApplyStep, preApplyStatusCheck,
     resetReapplyBackoff, applyWorkloadOnNode, persistApplyMetadata
<1>2. CASE preApplyStatusCheck(p)
  <2>1. Grows /\ NodesOK
    BY <1>2, RecordKept, NodesKept DEF preApplyStatusCheck
  <2>2. CASE Return(p, <<UpdateWorkloadRetryOnFailure>> \o RecordResult)
    BY <1>1, <2>1, <2>2, UpdateSeqs, Returns
  <2>3. CASE /\ agent[n] # Absent /\ Queue(p, <<UpdateWorkloadStatus(agent[n].state)>>)
             /\ Goto(p, "reset") /\ UNCHANGED <<w, seen>>
    <3>1. agent[n].state \in Statuses
      BY <1>1, <2>3, StatusNames DEF IInv, TypeOK, Instances
    <3>2. QED
      BY <1>1, <2>1, <2>3, <3>1, UpdateSeqs, GoesTo
         DEF Places, ScanPlaces, CallPlaces, CopyPlaces
  <2>4. CASE Goto(p, "apply") /\ UNCHANGED <<w, seen, todo>>
    BY <1>1, <2>1, <2>4, GoesTo DEF Places, ScanPlaces, CallPlaces, CopyPlaces
  <2>5. QED
    BY <1>2, <2>2, <2>3, <2>4 DEF preApplyStatusCheck
<1>3. CASE resetReapplyBackoff(p) \/ persistApplyMetadata(p)
  <2>1. Grows /\ NodesOK
    BY <1>1, <1>3, RecordKept, RecordSaved, NodesKept DEF resetReapplyBackoff, persistApplyMetadata
  <2>2. QED
    BY <1>1, <1>3, <2>1, UpdateSeqs, Returns DEF resetReapplyBackoff, persistApplyMetadata
<1>4. CASE applyWorkloadOnNode(p)
  <2>1. Grows
    BY <1>4, RecordKept DEF applyWorkloadOnNode
  <2>2. NodesOK
    BY <1>1, <1>4, <2>1, AgentApplied DEF applyWorkloadOnNode
  <2>3. CASE Return(p, <<UpdateWorkloadRetryOnFailure>> \o RecordResult)
    BY <1>1, <2>1, <2>2, <2>3, UpdateSeqs, Returns
  <2>4. CASE /\ Queue(p, <<UpdateWorkloadStatus(Applied(n, w[p]).state)>> \o Touches)
             /\ Goto(p, "persist") /\ UNCHANGED <<w, seen>>
    <3>1. Applied(n, w[p]).state \in Statuses
      <4>1. agent[n] # Absent => agent[n].state \in AgentStates
        BY <1>1 DEF IInv, TypeOK, Instances
      <4>2. QED
        BY <4>1 DEF Applied, AgentStates, Statuses
    <3>2. QED
      BY <1>1, <2>1, <2>2, <2>4, <3>1, UpdateSeqs, GoesTo
         DEF Places, ScanPlaces, CallPlaces, CopyPlaces
  <2>5. QED
    BY <1>4, <2>3, <2>4 DEF applyWorkloadOnNode
<1>5. QED
  BY <1>2, <1>3, <1>4 DEF ApplyStep

\* A failed apply and handleRuntimeUnavailable preserve the invariant.
LEMMA StepApplyFails ==
    ASSUME IInv, NEW p \in Procs, applyFails(p) \/ handleRuntimeUnavailable(p) PROVE IInv'
<1>1. /\ w[p] \in Records /\ w[p].node \in Nodes /\ Counts /\ Known(w[p])
      /\ UNCHANGED <<call, tmp, scan>>
  <2>1. Counts
    BY BoundsAssumption, SMT DEF IInv, TypeOK, Counts, applyFails, handleRuntimeUnavailable
  <2>2. QED
    BY <2>1, AtP DEF Holds, NodePlaces, At, applyFails, handleRuntimeUnavailable
<1>2. CASE applyFails(p)
  <2>1. Grows
    BY <1>2, RecordKept DEF applyFails
  <2>2. NodesOK
    BY <1>1, <1>2, <2>1, AgentApplied DEF applyFails
  <2>3. QED
    BY <1>1, <1>2, <2>1, <2>2, UpdateSeqs, Returns DEF applyFails
<1>3. CASE handleRuntimeUnavailable(p)
  <2>1. [w[p] EXCEPT !.node = NoNode, !.status = "Pending"] \in Records
    BY <1>1, StatusNames DEF Records
  <2>2. Grows
    BY <1>3, <2>1, RecordSaved DEF handleRuntimeUnavailable
  <2>3. supports' \in [Nodes -> BOOLEAN] /\ UNCHANGED <<agent, link, health>>
    BY <1>3 DEF handleRuntimeUnavailable, IInv, TypeOK
  <2>4. NodesOK
    BY <2>2, <2>3 DEF IInv, TypeOK, PersistedBeforeExecution, Grows, NodesOK
  <2>5. QED
    BY <1>1, <1>3, <2>2, <2>4, UpdateSeqs, Returns DEF handleRuntimeUnavailable
<1>4. QED
  BY <1>2, <1>3

\* Removing the record leaves record and history well.
LEMMA RecordRemoved ==
    ASSUME IInv, store' = NoRecord, UNCHANGED history
    PROVE  Grows
BY DEF IInv, TypeOK, Known, Grows, MaybeRecord, history

\* What is read from etcd is a known record or none.
LEMMA RecordRead ==
    ASSUME IInv, Grows
    PROVE  store \in MaybeRecord /\ (store # NoRecord => store.node \in placed' \cup {NoNode} /\ store.rev \in revs')
BY DEF IInv, TypeOK, Known, Grows, MaybeRecord, CopiesKnown

\* deleteDesiredWorkload and DeleteWorkloadWithContext preserve the invariant.
LEMMA StepDelete ==
    ASSUME IInv, NEW p \in Procs, DeleteStep(p) PROVE IInv'
<1>1. Counts /\ UNCHANGED <<call, tmp, scan, nodeVars>>
  BY CountsKept
     DEF DeleteStep, deleteDesiredWorkload, deleteRead, deleteWorkloadFromNode, deleteKeys
<1>2. CASE deleteDesiredWorkload(p)
  <2>1. Grows /\ w[p].node \in Nodes
    BY <1>2, AtP, RecordKept DEF deleteDesiredWorkload, At, Holds, NodePlaces
  <2>2. NodesOK
    BY <1>1, <1>2, <2>1, AgentGone DEF deleteDesiredWorkload
  <2>3. CASE Goto(p, "deleteRead") /\ UNCHANGED <<w, seen, todo>>
    BY <1>1, <2>1, <2>2, <2>3, GoesTo DEF Places, ScanPlaces, CallPlaces, CopyPlaces, NodePlaces
  <2>4. CASE Return(p, <<UpdateWorkloadRetryOnFailure>> \o RecordResult)
    BY <1>1, <2>1, <2>2, <2>4, UpdateSeqs, Returns
  <2>5. QED
    BY <1>2, <2>3, <2>4 DEF deleteDesiredWorkload
<1>3. CASE deleteRead(p)
  <2>1. Grows /\ NodesOK
    BY <1>3, RecordKept, NodesKept DEF deleteRead
  <2> DEFINE place == IF store = NoRecord \/ store.node = NoNode THEN "deleteKeys" ELSE "deleteOnNode"
  <2>2. /\ place \in Places \ ScanPlaces /\ place \notin CopyPlaces
        /\ place \notin CallPlaces
    BY DEF Places, ScanPlaces, CallPlaces, CopyPlaces
  <2>3. place \in NodePlaces => store \in Records /\ store.node \in Nodes
    BY <2>1, RecordRead DEF NodePlaces, MaybeRecord, Records
  <2>4. w' = [w EXCEPT ![p] = store] /\ Goto(p, place) /\ UNCHANGED <<seen, todo>>
    BY <1>3 DEF deleteRead, Copy
  <2> HIDE DEF place
  <2>5. Moves(p) /\ pc'[p] = place
    BY <1>1, <2>1, <2>2, <2>3, <2>4, RecordRead, SlotsKept, Moving
  <2>6. QED
    BY <1>1, <2>1, <2>2, <2>5, MovedOn
<1>4. CASE deleteWorkloadFromNode(p)
  <2>1. Grows /\ w[p].node \in Nodes
    BY <1>4, AtP, RecordKept DEF deleteWorkloadFromNode, At, Holds, NodePlaces
  <2>2. NodesOK
    BY <1>1, <1>4, <2>1, AgentGone DEF deleteWorkloadFromNode
  <2>3. Goto(p, "deleteKeys") /\ UNCHANGED <<w, seen>> /\ (\E us \in Seq(Updates) : Queue(p, us))
    BY <1>4, UpdateSeqs DEF deleteWorkloadFromNode
  <2>4. QED
    BY <1>1, <2>1, <2>2, <2>3, GoesTo DEF Places, ScanPlaces, CallPlaces, CopyPlaces, NodePlaces
<1>5. CASE deleteKeys(p)
  <2>1. Grows
    BY <1>5, RecordRemoved DEF deleteKeys
  <2>2. NodesOK /\ (\E us \in Seq(Updates) : Return(p, us))
    BY <1>5, <2>1, NodesKept, UpdateSeqs DEF deleteKeys
  <2>3. QED
    BY <1>1, <2>1, <2>2, Returns
<1>6. QED
  BY <1>2, <1>3, <1>4, <1>5 DEF DeleteStep

\* syncWorkloadStatus preserves the invariant.
LEMMA StepMonitor ==
    ASSUME IInv, NEW p \in Procs, MonitorStep(p) PROVE IInv'
<1>1. Counts /\ UNCHANGED <<call, tmp, scan>> /\ Grows /\ NodesOK
  BY CountsKept, RecordKept, NodesKept DEF MonitorStep, syncRead, syncWorkloadStatus
<1>2. CASE syncRead(p)
  <2>1. CASE Goto(p, "idle") /\ UNCHANGED w
    BY <1>1, <1>2, <2>1, GoesTo DEF syncRead, Places, ScanPlaces, CallPlaces, CopyPlaces, NodePlaces
  <2>2. CASE store # NoRecord /\ store.node # NoNode /\ Goto(p, "syncProbe") /\ Copy(p, store)
    <3>1. store \in Records /\ store.node \in Nodes
      BY <1>1, <2>2, RecordRead DEF MaybeRecord, Records
    <3>2. Moves(p) /\ pc'[p] = "syncProbe"
      BY <1>1, <1>2, <2>2, <3>1, RecordRead, SlotsKept, Moving, ZenonT(30)
         DEF syncRead, Copy, Places, CallPlaces, CopyPlaces
    <3>3. QED
      BY <1>1, <3>2, MovedOn DEF ScanPlaces
  <2>3. QED
    BY <1>2, <2>1, <2>2 DEF syncRead
<1>3. CASE syncWorkloadStatus(p)
  <2> DEFINE state == reportedState(w[p].node)
  <2>1. state \in Statuses
    BY <1>3, AtP, StatusNames
       DEF syncWorkloadStatus, At, Holds, NodePlaces, IInv, TypeOK, Instances, reportedState
  <2> DEFINE us == IF state = w[p].status THEN <<>> ELSE <<UpdateWorkloadStatus(state)>>
  <2>2. us \in Seq(Updates) /\ us \o Touches \in Seq(Updates)
    <3>1. us \in Seq(Updates) /\ Touches \in Seq(Updates)
      BY <2>1, UpdateSeqs
    <3> HIDE DEF us
    <3>2. QED
      BY <3>1, SMT
  <2>3. Return(p, <<>>) \/ Return(p, us) \/ Return(p, us \o Touches)
    BY <1>3 DEF syncWorkloadStatus
  <2> HIDE DEF us
  <2>4. QED
    BY <1>1, <2>2, <2>3, UpdateSeqs, Returns
<1>4. QED
  BY <1>2, <1>3 DEF MonitorStep

\* The tickers of the reconciliation loop and the monitor preserve the invariant.
LEMMA StepTick ==
    ASSUME IInv, ReconcileAllWorkloads \/ MonitorWorkloads PROVE IInv'
<1>1. Counts /\ UNCHANGED <<call, seen, todo, tmp, scan>> /\ Grows /\ NodesOK
  BY CountsKept, RecordKept, NodesKept DEF ReconcileAllWorkloads, MonitorWorkloads
<1>2. CASE ReconcileAllWorkloads
  <2>1. "loop" \in Procs /\ store \in Records /\ Goto("loop", "gate") /\ Copy("loop", store)
    BY <1>1, <1>2, RecordRead DEF ReconcileAllWorkloads, Procs, MaybeRecord
  <2>2. Moves("loop") /\ pc'["loop"] = "gate"
    BY <1>1, <2>1, RecordRead, SlotsKept, Moving DEF Copy, Places, CallPlaces, NodePlaces
  <2>3. QED
    BY <1>1, <2>1, <2>2, MovedOn DEF ScanPlaces
<1>3. CASE MonitorWorkloads
  <2>1. "monitor" \in Procs /\ Goto("monitor", "sync") /\ UNCHANGED w
    BY <1>3 DEF MonitorWorkloads, Procs
  <2>2. QED
    BY <1>1, <2>1, GoesTo DEF Places, ScanPlaces, CallPlaces, CopyPlaces, NodePlaces
<1>4. QED
  BY <1>2, <1>3

\* The API handlers preserve the invariant.
LEMMA StepCall ==
    ASSUME IInv, NEW p \in Procs, ServeCall(p) \/ CallStep(p) PROVE IInv'
<1> USE DEF CallStep
<1>1. /\ UNCHANGED <<agent, nodeVars, seen, todo, tmp, scan>> /\ Counts
      /\ (Grows => NodesOK)
  <2>1. /\ UNCHANGED <<agent, nodeVars, seen, todo, tmp, scan, faults>>
        /\ UNCHANGED calls \/ (calls < MaxCalls /\ calls' = calls + 1)
    BY DEF ServeCall, ApplyWorkload, CreateWorkload, ReadForCall, WriteForCall
  <2>2. Counts
    BY <2>1, BoundsAssumption, SMT DEF Counts, IInv, TypeOK
  <2>3. QED
    BY <2>1, <2>2, NodesKept
<1>2. ASSUME NEW place \in {"idle", "exists", "create", "read", "write", "gate"}, Goto(p, place),
             Grows, call' = [call EXCEPT ![p] = call'[p]], w' = [w EXCEPT ![p] = w'[p]],
             call'[p] \in AllCalls \cup {NoRecord}, w'[p] \in MaybeRecord,
             w'[p] # NoRecord => w'[p].node \in placed' \cup {NoNode} /\ w'[p].rev \in revs',
             place \in {"gate", "write"} => w'[p] \in Records,
             place \in CallPlaces => call'[p] \in AllCalls
      PROVE  IInv'
  <2>1. place \in Places /\ place \notin ScanPlaces /\ place \notin NodePlaces
    BY DEF Places, ScanPlaces, NodePlaces
  <2>2. Moves(p) /\ pc'[p] = place
    BY <1>1, <1>2, <2>1, SlotsKept, Moving DEF CopyPlaces
  <2>3. QED
    BY <1>1, <1>2, <2>1, <2>2, MovedOn
<1>3. Grows /\ UNCHANGED w =>
        /\ w' = [w EXCEPT ![p] = w'[p]] /\ w'[p] \in MaybeRecord
        /\ w'[p] # NoRecord => w'[p].node \in placed' \cup {NoNode} /\ w'[p].rev \in revs'
  BY AtP, SlotsKept DEF Known, Grows
<1>4. ASSUME NEW c, call' = [call EXCEPT ![p] = c] PROVE call' = [call EXCEPT ![p] = call'[p]] /\ call'[p] = c
  BY <1>4 DEF IInv, TypeOK
<1>5. ASSUME NEW r, Copy(p, r) PROVE w' = [w EXCEPT ![p] = w'[p]] /\ w'[p] = r
  BY <1>5 DEF IInv, TypeOK, Copy
<1>6. ASSUME ServeCall(p) PROVE IInv'
  <2>1. PICK c \in Calls : /\ call' = [call EXCEPT ![p] = c]
                           /\ Goto(p, IF c.op = "apply" THEN "exists" ELSE "read")
    BY <1>6 DEF ServeCall
  <2>2. Grows /\ UNCHANGED w /\ c \in AllCalls
    BY <1>6, RecordKept, CallsAssumption DEF ServeCall
  <2>3. call' = [call EXCEPT ![p] = call'[p]] /\ call'[p] \in AllCalls
    BY <1>4, <2>1, <2>2
  <2>4. QED
    BY <1>2, <1>3, <2>1, <2>2, <2>3
<1>7. ASSUME ApplyWorkload(p) PROVE IInv'
  <2>1. Grows /\ UNCHANGED <<w, call>> /\ (Goto(p, "create") \/ Goto(p, "read"))
    BY <1>7, RecordKept DEF ApplyWorkload
  <2>2. call' = [call EXCEPT ![p] = call'[p]] /\ call'[p] \in AllCalls
    BY <1>7, <2>1, AtP, SlotsKept DEF ApplyWorkload, At, Holds, CallPlaces
  <2>3. QED
    BY <1>2, <1>3, <2>1, <2>2
<1>8. ASSUME CreateWorkload(p) PROVE IInv'
  <2> DEFINE r == [desired |-> call[p].desired, rev |-> call[p].rev, status |-> "Pending",
                   node |-> NoNode, retry |-> "idle"]
  <2>1. call[p] \in AllCalls
    BY <1>8, AtP DEF CreateWorkload, At, Holds, CallPlaces
  <2>2. r \in Records
    BY <2>1, StatusNames DEF AllCalls, Records, Desired, Retries
  <2>3. saveWorkload(r) /\ Copy(p, r) /\ Goto(p, "gate") /\ call' = [call EXCEPT ![p] = NoRecord]
    BY <1>8 DEF CreateWorkload
  <2> HIDE DEF r
  <2>4. Grows /\ r.node \in placed' \cup {NoNode} /\ r.rev \in revs'
    BY <2>2, <2>3, RecordSaved
  <2>5. QED
    BY <1>2, <1>4, <1>5, <2>2, <2>3, <2>4 DEF MaybeRecord, CallPlaces
<1>9. ASSUME ReadForCall(p) PROVE IInv'
  <2>1. Grows /\ Copy(p, store) /\ call[p] \in AllCalls
    BY <1>9, RecordKept, AtP DEF ReadForCall, At, Holds, CallPlaces
  <2>2. CASE store = NoRecord
    <3>1. Goto(p, "idle") /\ call' = [call EXCEPT ![p] = NoRecord]
      BY <1>9, <2>2 DEF ReadForCall
    <3>2. QED
      BY <1>2, <1>4, <1>5, <2>1, <2>2, <3>1 DEF MaybeRecord, CallPlaces
  <2>3. CASE store # NoRecord
    <3>1. Goto(p, "write") /\ UNCHANGED call
      BY <1>9, <2>3 DEF ReadForCall
    <3>2. store \in Records /\ store.node \in placed' \cup {NoNode} /\ store.rev \in revs'
      BY <2>1, <2>3, RecordRead DEF MaybeRecord
    <3>3. QED
      BY <1>2, <1>5, <2>1, <3>1, <3>2, SlotsKept DEF MaybeRecord
  <2>4. QED
    BY <2>2, <2>3
<1>10. ASSUME WriteForCall(p) PROVE IInv'
  <2> DEFINE r == IF call[p].op = "delete" THEN MarkWorkloadDeleted(w[p])
                  ELSE IF call[p].op = "retry" THEN TriggerWorkloadRetry(w[p])
                  ELSE UpdateWorkloadSpec(call[p], w[p])
  <2>1. call[p] \in AllCalls /\ w[p] \in Records
    BY <1>10, AtP DEF WriteForCall, At, Holds, CopyPlaces, CallPlaces
  <2>2. r \in Records
    <3>1. MarkWorkloadDeleted(w[p]) \in Records
      BY <2>1, StatusNames DEF MarkWorkloadDeleted, Records, Desired
    <3>2. TriggerWorkloadRetry(w[p]) \in Records
      BY <2>1 DEF TriggerWorkloadRetry, Records, Retries
    <3>3. UpdateWorkloadSpec(call[p], w[p]) \in Records
      BY <2>1, StatusNames DEF UpdateWorkloadSpec, Records, AllCalls, Desired
    <3>4. QED
      BY <3>1, <3>2, <3>3
  <2>3. /\ saveWorkload(r) /\ call' = [call EXCEPT ![p] = NoRecord]
        /\ (Goto(p, "gate") /\ Copy(p, r)) \/ (Goto(p, "idle") /\ Copy(p, NoRecord))
    BY <1>10 DEF WriteForCall
  <2> HIDE DEF r
  <2>4. Grows /\ r.node \in placed' \cup {NoNode} /\ r.rev \in revs'
    BY <2>2, <2>3, RecordSaved
  <2>5. CASE Goto(p, "gate") /\ Copy(p, r)
    BY <1>2, <1>4, <1>5, <2>2, <2>3, <2>4, <2>5 DEF MaybeRecord, CallPlaces
  <2>6. CASE Goto(p, "idle") /\ Copy(p, NoRecord)
    BY <1>2, <1>4, <1>5, <2>3, <2>4, <2>6 DEF MaybeRecord, CallPlaces
  <2>7. QED
    BY <2>3, <2>5, <2>6
<1>11. QED
  BY <1>6, <1>7, <1>8, <1>9, <1>10

\* The drift detector goes to place, with the view of the cluster it needs there.
LEMMA DriftGoes ==
    ASSUME IInv, "drift" \in Daemons, Grows, NodesOK, Counts,
           NEW place \in ScanPlaces \cup {"idle", "drift"}, Goto("drift", place),
           UNCHANGED <<call, w, seen, tmp>>,
           UNCHANGED todo \/ (\E us \in Seq(Updates) : Queue("drift", us)),
           scan' \in Scans, Known(scan.exp)', Known(scan.snap)',
           place \in ScanPlaces => scan'.cur \in Nodes,
           place \in FoundPlaces => scan'.found \in Instances,
           place = "reapply" => scan'.exp \in Records /\ scan'.exp.node = scan'.cur,
           place \in {"owner", "adopt"} => scan'.snap \in Records
    PROVE  IInv'
<1> DEFINE p == "drift"
<1>1. p \in Procs
  BY DEF Procs
<1>2. place \in Places /\ place \notin CopyPlaces /\ place \notin NodePlaces /\ place \notin CallPlaces
  BY DEF Places, ScanPlaces, CopyPlaces, NodePlaces, CallPlaces
<1>3. todo' = [todo EXCEPT ![p] = todo'[p]] /\ todo'[p] \in Seq(Updates)
  BY <1>1, Queued
<1>4. w[p] # NoRecord => w[p].node \in placed' \cup {NoNode} /\ w[p].rev \in revs'
  BY <1>1, AtP DEF Known, Grows
<1>5. Moves(p) /\ pc'[p] = place
  BY <1>1, <1>2, <1>3, <1>4, SlotsKept, Moving
<1>6. ScanHeld'
  BY <1>5 DEF ScanHeld
<1>7. QED
  BY <1>1, <1>5, <1>6, Moved

\* What the drift detector knows.
LEMMA ScanFacts ==
    ASSUME IInv, "drift" \in Daemons
    PROVE  /\ scan \in Scans /\ ScanHeld
           /\ scan.exp \in MaybeRecord /\ scan.snap \in MaybeRecord
           /\ Grows => /\ UNCHANGED scan.exp => Known(scan.exp)'
                       /\ UNCHANGED scan.snap => Known(scan.snap)'
BY DEF IInv, TypeOK, CopiesKnown, Known, Grows, Scans, MaybeRecord

\* Steps of the drift detector that only look.
LEMMA StepDriftScan ==
    ASSUME IInv, detectDriftOnce \/ driftDone \/ listWorkloadsFromNode
    PROVE  IInv'
<1>1. /\ "drift" \in Daemons /\ Grows /\ NodesOK /\ Counts
      /\ UNCHANGED <<store, history, call, w, seen, todo, tmp>>
  BY RecordKept, NodesKept, CountsKept DEF detectDriftOnce, driftDone, listWorkloadsFromNode
<1>2. CASE detectDriftOnce
  <2>1. scan' \in Scans /\ scan'.exp = store /\ scan'.snap = store /\ Goto("drift", "drift")
    BY <1>2 DEF detectDriftOnce, Scans, IInv, TypeOK
  <2>2. Known(scan.exp)' /\ Known(scan.snap)'
    BY <1>1, <2>1 DEF Grows, Known
  <2>3. QED
    BY <1>1, <2>1, <2>2, DriftGoes DEF ScanPlaces, FoundPlaces
<1>3. CASE driftDone
  <2>1. scan' \in Scans /\ scan'.exp = NoRecord /\ scan'.snap = NoRecord /\ Goto("drift", "idle")
    BY <1>3 DEF driftDone, Scans, NoScan
  <2>2. Known(scan.exp)' /\ Known(scan.snap)'
    BY <2>1 DEF Known
  <2>3. QED
    BY <1>1, <2>1, <2>2, DriftGoes DEF ScanPlaces, FoundPlaces
<1>4. CASE listWorkloadsFromNode
  <2>1. PICK n \in scan.left :
           \/ /\ scan' = [scan EXCEPT !.left = @ \ {n}, !.cur = n, !.found = agent[n]]
              /\ Goto("drift", "compare")
           \/ scan' = [scan EXCEPT !.left = @ \ {n}] /\ UNCHANGED pc
    BY <1>4 DEF listWorkloadsFromNode
  <2>2. n \in Nodes /\ agent[n] \in Instances \cup {Absent} /\ scan \in Scans
    BY DEF IInv, TypeOK, Scans
  <2>3. scan' \in Scans /\ UNCHANGED <<scan.exp, scan.snap>>
    BY <2>1, <2>2 DEF Scans
  <2>4. Known(scan.exp)' /\ Known(scan.snap)'
    BY <1>1, <2>3, ScanFacts
  <2>5. CASE Goto("drift", "compare") /\ scan'.cur = n
    BY <1>1, <2>2, <2>3, <2>4, <2>5, DriftGoes DEF ScanPlaces, FoundPlaces
  <2>6. CASE UNCHANGED pc
    <3>1. Goto("drift", "drift")
      BY <1>1, <1>4, <2>6 DEF listWorkloadsFromNode, At, Goto, IInv, TypeOK
    <3>2. QED
      BY <1>1, <2>3, <2>4, <3>1, DriftGoes DEF ScanPlaces, FoundPlaces
  <2>7. QED
    BY <2>1, <2>2, <2>5, <2>6 DEF Scans
<1>5. QED
  BY <1>2, <1>3, <1>4

\* The comparison of the agent's list with the record.
LEMMA StepDriftCompare ==
    ASSUME IInv, compareNodeDrift
    PROVE  IInv'
<1>1. /\ "drift" \in Daemons /\ Grows /\ NodesOK /\ Counts
      /\ UNCHANGED <<store, history, call, seen, tmp, scan>>
  BY RecordKept, NodesKept, CountsKept DEF compareNodeDrift
<1>2. /\ scan' \in Scans /\ Known(scan.exp)' /\ Known(scan.snap)' /\ scan'.cur \in Nodes
      /\ scan'.found \in Instances \cup {Absent} /\ scan'.exp \in MaybeRecord
  <2>1. pc["drift"] = "compare"
    BY DEF compareNodeDrift, At
  <2>2. scan.cur \in Nodes /\ scan.found \in Instances \cup {Absent}
    BY <1>1, <2>1, ScanFacts DEF ScanHeld, ScanPlaces, Scans
  <2>3. QED
    BY <1>1, <2>2, ScanFacts
<1>3. ASSUME scan.found # Absent, scan.exp # NoRecord, scan.exp.node = scan.cur,
             Queue("drift", IF scan.found.state = scan.exp.status THEN <<>>
                            ELSE <<UpdateWorkloadStatus(scan.found.state)>> \o Touches),
             Goto("drift", IF revisionMismatch THEN "reapply" ELSE "drift"), UNCHANGED w
      PROVE  IInv'
  <2>1. scan.found.state \in Statuses
    BY <1>1, <1>2, <1>3, StatusNames DEF Instances
  <2>2. \E us \in Seq(Updates) : Queue("drift", us)
    BY <1>3, <2>1, UpdateSeqs
  <2>3. scan'.exp \in Records /\ scan'.exp.node = scan'.cur
    BY <1>1, <1>2, <1>3 DEF MaybeRecord
  <2>4. CASE revisionMismatch
    BY <1>1, <1>2, <1>3, <2>2, <2>3, <2>4, DriftGoes DEF ScanPlaces, FoundPlaces
  <2>5. CASE ~revisionMismatch
    BY <1>1, <1>2, <1>3, <2>2, <2>5, DriftGoes DEF ScanPlaces, FoundPlaces
  <2>6. QED
    BY <2>4, <2>5
<1>4. ASSUME scan.found # Absent, Goto("drift", "orphan"), UNCHANGED <<todo, w>>
      PROVE  IInv'
  BY <1>1, <1>2, <1>4, DriftGoes DEF ScanPlaces, FoundPlaces
<1>5. ASSUME scan.exp # NoRecord, Queue("drift", <<UpdateWorkloadRetryOnFailure>>),
             Copy("drift", scan.exp), Goto("drift", "gate")
      PROVE  IInv'
  <2> DEFINE r == scan.exp
  <2>1. r \in Records /\ r \in MaybeRecord /\ "drift" \in Procs
    BY <1>1, <1>2, <1>5 DEF MaybeRecord, Procs
  <2>2. r.node \in placed' \cup {NoNode} /\ r.rev \in revs'
    BY <1>1, <1>2, <1>5 DEF Known
  <2>3. todo' = [todo EXCEPT !["drift"] = todo'["drift"]] /\ todo'["drift"] \in Seq(Updates)
    BY <1>5, <2>1, UpdateSeqs DEF Queue, IInv, TypeOK
  <2>4. w' = [w EXCEPT !["drift"] = r] /\ Goto("drift", "gate")
    BY <1>5 DEF Copy
  <2> HIDE DEF r
  <2>5. "gate" \in Places /\ "gate" \notin CallPlaces /\ "gate" \notin NodePlaces
    BY DEF Places, CallPlaces, NodePlaces
  <2>6. Moves("drift") /\ pc'["drift"] = "gate"
    BY <1>1, <2>1, <2>2, <2>3, <2>4, <2>5, SlotsKept, Moving
  <2>7. QED
    BY <1>1, <2>1, <2>6, MovedOn DEF ScanPlaces
<1>6. ASSUME Goto("drift", "drift"), UNCHANGED <<todo, w>>
      PROVE  IInv'
  BY <1>1, <1>2, <1>6, DriftGoes DEF ScanPlaces, FoundPlaces
<1>7. QED
  BY <1>3, <1>4, <1>5, <1>6 DEF compareNodeDrift

\* The remediations.
LEMMA StepDriftRemedy ==
    ASSUME IInv,
           \/ remediateRevisionMismatch \/ remediateOrphanOnAgent \/ checkOwner
           \/ deleteOrphanFromNode \/ adoptOrphanedWorkload
    PROVE  IInv'
<1>1. "drift" \in Daemons /\ Counts /\ UNCHANGED <<call, w, seen, tmp, nodeVars>>
  BY CountsKept DEF remediateRevisionMismatch, remediateOrphanOnAgent, checkOwner,
     deleteOrphanFromNode, adoptOrphanedWorkload
<1>2. /\ scan \in Scans /\ ScanHeld /\ scan.cur \in Nodes
      /\ scan.exp \in MaybeRecord /\ scan.snap \in MaybeRecord
  <2>1. pc["drift"] \in ScanPlaces
    BY DEF remediateRevisionMismatch, remediateOrphanOnAgent, checkOwner,
       deleteOrphanFromNode, adoptOrphanedWorkload, At, ScanPlaces
  <2>2. QED
    BY <1>1, <2>1, ScanFacts DEF ScanHeld
<1>3. CASE remediateRevisionMismatch
  <2>1. scan.exp \in Records /\ scan.exp.node = scan.cur /\ Known(scan.exp)
    BY <1>1, <1>2, <1>3 DEF remediateRevisionMismatch, At, ScanHeld, IInv, CopiesKnown
  <2>2. Grows /\ UNCHANGED scan /\ Goto("drift", "drift")
    BY <1>3, RecordKept DEF remediateRevisionMismatch
  <2>3. NodesOK
    BY <1>1, <1>2, <1>3, <2>1, <2>2, AgentApplied DEF remediateRevisionMismatch
  <2>4. \E us \in Seq(Updates) : Queue("drift", us)
    BY <1>3, UpdateSeqs DEF remediateRevisionMismatch
  <2>5. scan' \in Scans /\ Known(scan.exp)' /\ Known(scan.snap)'
    BY <1>1, <1>2, <2>2, ScanFacts
  <2>6. QED
    BY <1>1, <2>2, <2>3, <2>4, <2>5, DriftGoes DEF ScanPlaces, FoundPlaces
<1>4. CASE remediateOrphanOnAgent
  <2> DEFINE snap == IF scan.snap = NoRecord THEN store ELSE scan.snap
  <2>1. Grows /\ UNCHANGED <<todo, store>>
    BY <1>4, RecordKept DEF remediateOrphanOnAgent
  <2>2. snap \in MaybeRecord
    BY <1>2 DEF IInv, TypeOK, MaybeRecord
  <2>3. snap # NoRecord => snap.node \in placed' \cup {NoNode} /\ snap.rev \in revs'
    BY <2>1 DEF IInv, CopiesKnown, Known, Grows
  <2>4. NodesOK
    BY <1>4, <2>1, NodesKept DEF remediateOrphanOnAgent
  <2>5. /\ scan' = [scan EXCEPT !.snap = snap]
        /\ Goto("drift", IF snap = NoRecord \/ snap.desired = "Deleted" THEN "deleteOrphan"
                         ELSE IF snap.node \in {NoNode, scan.cur} THEN "adopt" ELSE "owner")
    BY <1>4 DEF remediateOrphanOnAgent
  <2> HIDE DEF snap
  <2>6. scan' \in Scans /\ scan'.snap = snap /\ UNCHANGED <<scan.exp, scan.cur, scan.found>>
    BY <1>2, <2>2, <2>5 DEF Scans, MaybeRecord
  <2>7. Known(scan.exp)' /\ Known(scan.snap)'
    BY <1>1, <2>1, <2>3, <2>6, ScanFacts DEF Known
  <2>8. scan'.cur \in Nodes /\ scan'.found \in Instances
    BY <1>1, <1>2, <1>4, <2>6 DEF remediateOrphanOnAgent, At, ScanHeld, FoundPlaces
  <2>9. CASE Goto("drift", "deleteOrphan")
    BY <1>1, <2>1, <2>4, <2>6, <2>7, <2>8, <2>9, DriftGoes DEF ScanPlaces
  <2>10. CASE snap # NoRecord /\ Goto("drift", "adopt")
    BY <1>1, <2>1, <2>2, <2>4, <2>6, <2>7, <2>8, <2>10, DriftGoes DEF ScanPlaces, MaybeRecord
  <2>11. CASE snap # NoRecord /\ Goto("drift", "owner")
    BY <1>1, <2>1, <2>2, <2>4, <2>6, <2>7, <2>8, <2>11, DriftGoes DEF ScanPlaces, MaybeRecord
  <2>12. QED
    BY <2>5, <2>9, <2>10, <2>11
<1>5. CASE checkOwner
  <2>1. Grows /\ NodesOK /\ UNCHANGED <<todo, scan>>
    BY <1>5, RecordKept, NodesKept DEF checkOwner
  <2>2. scan' \in Scans /\ Known(scan.exp)' /\ Known(scan.snap)'
    BY <1>1, <1>2, <2>1, ScanFacts
  <2>3. scan'.cur \in Nodes /\ scan'.found \in Instances /\ scan'.snap \in Records
    BY <1>1, <1>2, <1>5, <2>1 DEF checkOwner, At, ScanHeld, FoundPlaces
  <2>4. ASSUME NEW place \in {"deleteOrphan", "adopt", "drift"}, Goto("drift", place) PROVE IInv'
    BY <1>1, <2>1, <2>2, <2>3, <2>4, DriftGoes DEF ScanPlaces
  <2>5. Goto("drift", "deleteOrphan") \/ Goto("drift", "adopt") \/ Goto("drift", "drift")
    BY <1>5 DEF checkOwner
  <2>6. QED
    BY <2>4, <2>5
<1>6. CASE deleteOrphanFromNode
  <2>1. Grows /\ UNCHANGED <<todo, scan>> /\ Goto("drift", "drift")
    BY <1>6, RecordKept DEF deleteOrphanFromNode
  <2>2. NodesOK
    BY <1>1, <1>2, <1>6, <2>1, AgentGone DEF deleteOrphanFromNode
  <2>3. scan' \in Scans /\ Known(scan.exp)' /\ Known(scan.snap)'
    BY <1>1, <1>2, <2>1, ScanFacts
  <2>4. QED
    BY <1>1, <2>1, <2>2, <2>3, DriftGoes DEF ScanPlaces, FoundPlaces
<1>7. CASE adoptOrphanedWorkload
  <2> DEFINE r == [scan.snap EXCEPT !.node = scan.cur, !.status = scan.found.state]
  <2>1. scan.snap \in Records /\ scan.found \in Instances
    BY <1>1, <1>2, <1>7 DEF adoptOrphanedWorkload, At, ScanHeld, FoundPlaces
  <2>2. r \in Records
    BY <1>2, <2>1, StatusNames DEF Records, Instances
  <2>3. /\ saveWorkload(r) /\ scan' = [scan EXCEPT !.snap = r] /\ Goto("drift", "drift")
        /\ Queue("drift", Touches) /\ UNCHANGED <<agent, nodeVars>>
    BY <1>7 DEF adoptOrphanedWorkload
  <2> HIDE DEF r
  <2>4. Grows /\ r.node \in placed' \cup {NoNode} /\ r.rev \in revs'
    BY <2>2, <2>3, RecordSaved
  <2>5. NodesOK
    BY <2>3, <2>4, NodesKept
  <2>6. scan' \in Scans /\ scan'.snap = r /\ UNCHANGED scan.exp
    BY <1>2, <2>2, <2>3 DEF Scans
  <2>7. Known(scan.exp)' /\ Known(scan.snap)'
    BY <1>1, <2>4, <2>6, ScanFacts DEF Known
  <2>8. QED
    BY <1>1, <2>3, <2>4, <2>5, <2>6, <2>7, UpdateSeqs, DriftGoes DEF ScanPlaces, FoundPlaces
<1>8. QED
  BY <1>3, <1>4, <1>5, <1>6, <1>7

\* A step outside the goroutines.
LEMMA NobodyMoves ==
    ASSUME IInv, Grows, NodesOK, Counts, UNCHANGED <<procVars, scan>>
    PROVE  IInv'
<1>1. TypeOK'
  BY DEF IInv, TypeOK, Grows, NodesOK, Counts, MaybeRecord, procVars
<1>2. (\A p \in Procs : Holds(p)') /\ ScanHeld'
  BY DEF IInv, Holds, ScanHeld, procVars
<1>3. CopiesKnown'
  BY DEF IInv, CopiesKnown, Known, Grows, procVars
<1>4. QED
  BY <1>1, <1>2, <1>3 DEF IInv, NodesOK

\* Heartbeats, the node monitor and the agents.
LEMMA StepNode ==
    ASSUME IInv, NEW n \in Nodes, NodeStep(n) \/ LinkUp(n) \/ NodeFault(n)
    PROVE  IInv'
<1>1. Grows
  BY RecordKept DEF NodeStep, Heartbeat, HeartbeatStale, MonitorNodes, AgentStarts, LinkUp, NodeFault
<1>2. CASE Heartbeat(n)
  <2>1. NodesOK
    BY <1>1, <1>2 DEF Heartbeat, IInv, TypeOK, PersistedBeforeExecution, Grows, NodesOK
  <2>2. Counts
    BY <1>2, CountsKept DEF Heartbeat
  <2>3. CASE UNCHANGED todo
    BY <1>1, <1>2, <2>1, <2>2, <2>3, NobodyMoves DEF Heartbeat, procVars
  <2>4. CASE /\ n \in Reporters /\ agent[n] # Absent
             /\ Queue(n, <<UpdateWorkloadStatus(agent[n].state)>> \o Touches)
    <3>1. n \in Procs
      BY <2>4 DEF Procs
    <3>2. agent[n].state \in Statuses
      BY <2>4, StatusNames DEF IInv, TypeOK, Instances
    <3>3. todo' = [todo EXCEPT ![n] = todo'[n]] /\ todo'[n] \in Seq(Updates)
      BY <2>4, <3>1, <3>2, UpdateSeqs DEF Queue, IInv, TypeOK
    <3>4. UNCHANGED <<pc, call, w, seen, tmp, scan>>
      BY <1>2 DEF Heartbeat
    <3>5. Known(tmp[n])'
      BY <1>1, <3>1, <3>4, AtP DEF Known, Grows
    <3>6. QED
      BY <1>1, <2>1, <2>2, <3>1, <3>3, <3>4, <3>5, SlotsKept, InPlace
  <2>5. QED
    BY <1>2, <2>3, <2>4 DEF Heartbeat
<1>3. CASE HeartbeatStale(n) \/ MonitorNodes(n)
  <2>1. NodesOK
    BY <1>1, <1>3
       DEF HeartbeatStale, MonitorNodes, IInv, TypeOK, PersistedBeforeExecution, Grows, NodesOK
  <2>2. Counts /\ UNCHANGED <<procVars, scan>>
    BY <1>3, CountsKept DEF HeartbeatStale, MonitorNodes
  <2>3. QED
    BY <1>1, <2>1, <2>2, NobodyMoves
<1>4. CASE AgentStarts(n)
  <2>1. NodesOK
    BY <1>1, <1>4, AgentChanged DEF AgentStarts, AgentStates
  <2>2. Counts /\ UNCHANGED <<procVars, scan>>
    BY <1>4, CountsKept DEF AgentStarts
  <2>3. QED
    BY <1>1, <2>1, <2>2, NobodyMoves
<1>5. CASE LinkUp(n)
  <2>1. NodesOK
    BY <1>1, <1>5 DEF LinkUp, IInv, TypeOK, PersistedBeforeExecution, Grows, NodesOK
  <2>2. Counts /\ UNCHANGED <<procVars, scan>>
    BY <1>5, CountsKept DEF LinkUp
  <2>3. QED
    BY <1>1, <2>1, <2>2, NobodyMoves
<1>6. CASE NodeFault(n)
  <2>1. Counts /\ UNCHANGED <<procVars, scan>>
    BY <1>6, BoundsAssumption, SMT DEF NodeFault, Counts, IInv, TypeOK
  <2>2. CASE link' = [link EXCEPT ![n] = FALSE] /\ UNCHANGED agent
    BY <1>1, <1>6, <2>1, <2>2, NobodyMoves
       DEF NodeFault, IInv, TypeOK, PersistedBeforeExecution, Grows, NodesOK
  <2>3. CASE agent' = [agent EXCEPT ![n] = Absent] /\ UNCHANGED link
    BY <1>1, <1>6, <2>1, <2>3, AgentGone, NobodyMoves DEF NodeFault, nodeVars
  <2>4. ASSUME agent[n] # Absent, NEW s \in AgentStates, agent' = [agent EXCEPT ![n].state = s],
               UNCHANGED link
        PROVE  IInv'
    <3>1. NodesOK
      BY <1>1, <1>6, <2>4, AgentChanged DEF NodeFault, nodeVars
    <3>2. QED
      BY <1>1, <2>1, <3>1, NobodyMoves
  <2>5. QED
    BY <1>6, <2>2, <2>3, <2>4 DEF NodeFault
<1>7. QED
  BY <1>2, <1>3, <1>4, <1>5, <1>6 DEF NodeStep

\* No goroutine has anything in hand, as after the scheduler has started.
AtRest ==
    /\ pc = [p \in Procs |-> "idle"] /\ call = [p \in Procs |-> NoRecord]
    /\ w = [p \in Procs |-> NoRecord] /\ seen = [p \in Procs |-> "None"]
    /\ todo = [p \in Procs |-> <<>>] /\ tmp = [p \in Procs |-> NoRecord] /\ scan = NoScan

\* What the invariant says of goroutines.
GoroutinesOK ==
    /\ pc \in [Procs -> Places] /\ call \in [Procs -> AllCalls \cup {NoRecord}]
    /\ w \in [Procs -> MaybeRecord] /\ seen \in [Procs -> Observed]
    /\ todo \in [Procs -> Seq(Updates)] /\ tmp \in [Procs -> MaybeRecord]
    /\ scan \in Scans /\ (\A p \in Procs : Holds(p)) /\ ScanHeld
    /\ Known(store) => CopiesKnown

\* Goroutines at rest satisfy their part of the invariant.
LEMMA RestIsOK == AtRest => GoroutinesOK
<1> SUFFICES ASSUME AtRest PROVE GoroutinesOK
  OBVIOUS
<1> USE DEF AtRest
<1>1. /\ pc \in [Procs -> Places] /\ call \in [Procs -> AllCalls \cup {NoRecord}]
      /\ w \in [Procs -> MaybeRecord] /\ seen \in [Procs -> Observed]
      /\ tmp \in [Procs -> MaybeRecord]
  BY DEF Places, MaybeRecord, Observed
<1>2. todo \in [Procs -> Seq(Updates)]
  BY UpdateSeqs
<1>3. scan \in Scans
  BY DEF Scans, NoScan
<1>4. \A p \in Procs : Holds(p)
  BY DEF Holds, CallPlaces, CopyPlaces, NodePlaces
<1>5. ScanHeld
  BY DEF ScanHeld, ScanPlaces, FoundPlaces, Procs
<1>6. Known(store) => CopiesKnown
  BY DEF CopiesKnown, Known, NoScan
<1>7. QED
  BY <1>1, <1>2, <1>3, <1>4, <1>5, <1>6 DEF GoroutinesOK

\* A restart of the scheduler.
LEMMA StepRestart ==
    ASSUME IInv, Restart
    PROVE  IInv'
<1>1. Grows /\ NodesOK /\ Counts
  BY RecordKept, NodesKept, BoundsAssumption, SMT DEF Restart, Counts, IInv, TypeOK
<1>2. AtRest'
  BY DEF Restart, AtRest
<1>3. GoroutinesOK'
  BY <1>2, RestIsOK, PTL
<1>4. QED
  BY <1>1, <1>3 DEF GoroutinesOK, IInv, TypeOK, Grows, NodesOK, Counts, MaybeRecord, Observed

\* The invariant holds when the scheduler is first started ...
LEMMA InitIInv == Init => IInv
<1> SUFFICES ASSUME Init PROVE IInv
  OBVIOUS
<1>1. GoroutinesOK
  BY RestIsOK DEF Init, AtRest
<1>2. Known(store) /\ PersistedBeforeExecution
  BY DEF Init, Known, PersistedBeforeExecution
<1>3. QED
  BY <1>1, <1>2, BoundsAssumption, SMT DEF Init, GoroutinesOK, IInv, TypeOK, MaybeRecord, Observed

\* ... and every step preserves it.
LEMMA NextIInv == IInv /\ [Next]_vars => IInv'
<1> SUFFICES ASSUME IInv, [Next]_vars PROVE IInv'
  OBVIOUS
<1>1. ASSUME NEW p \in Procs,
             \/ ServeCall(p) \/ Step(p) \/ BackoffWait(p) \/ reapplyStillGuarded(p)
             \/ applyFails(p) \/ handleRuntimeUnavailable(p)
      PROVE  IInv'
  BY <1>1, StepCall, StepUpdate, StepEnsure, StepDue, StepFailover, StepProbe, StepDecide,
     StepApply, StepDelete, StepMonitor, StepBackoff, StepApplyFails DEF Step, ReconcileStep
<1>2. CASE ReconcileAllWorkloads \/ MonitorWorkloads
  BY <1>2, StepTick
<1>3. CASE DriftStep
  BY <1>3, StepDriftScan, StepDriftCompare, StepDriftRemedy DEF DriftStep
<1>4. ASSUME NEW n \in Nodes, NodeStep(n) \/ LinkUp(n) \/ NodeFault(n)
      PROVE  IInv'
  BY <1>4, StepNode
<1>5. CASE Restart
  BY <1>5, StepRestart
<1>6. CASE UNCHANGED vars
  <2>1. Grows /\ NodesOK /\ Counts
    BY <1>6, RecordKept, NodesKept, CountsKept DEF vars
  <2>2. QED
    BY <1>6, <2>1, NobodyMoves DEF vars
<1>7. QED
  BY <1>1, <1>2, <1>3, <1>4, <1>5, <1>6 DEF Next

\* In every behaviour of the scheduler the inductive invariant holds.
THEOREM Invariance == Spec => []IInv
BY InitIInv, NextIInv, PTL DEF Spec

\* Every variable keeps its type, whatever the goroutines interleave: no status
\* outside models.WorkloadStatus is saved, no pass works without a record or node.
THEOREM TypeCorrect == Spec => []TypeOK
<1>1. IInv => TypeOK
  BY DEF IInv
<1>2. QED
  BY <1>1, Invariance, PTL

\* Every instance an agent holds is on a node, and of a revision, that was in the
\* record before: assignWorkload saves before the reconciler applies, and the copy
\* the drift detector applies comes from the record.
THEOREM PersistedFirst == Spec => []PersistedBeforeExecution
<1>1. IInv => PersistedBeforeExecution
  BY DEF IInv
<1>2. QED
  BY <1>1, Invariance, PTL

----------------------------------------------------------------------------
(* A workload nobody asked to delete is kept. The invariant LiveInv says that *)
(* no record and no copy is marked as deleted, so that no pass gets to where  *)
(* the code deletes; that a record is there once one was saved, so that the   *)
(* drift detector finds it when it looks an orphan up; and that what it then  *)
(* takes for a duplicate has another node for its owner.                      *)

DeletePlaces == {"delete", "deleteRead", "deleteOnNode", "deleteKeys"}

Live(r) == r # NoRecord => r.desired # "Deleted"

\* What the goroutine p is doing is for a workload that is wanted.
Wanted(p) ==
    /\ pc[p] \notin DeletePlaces /\ (pc[p] \in CallPlaces => call[p].op # "delete")
    /\ Live(w[p]) /\ Live(tmp[p])

ScanLive ==
    /\ Live(scan.exp) /\ Live(scan.snap)
    /\ scan.found # Absent => store # NoRecord
    /\ "drift" \in Daemons /\ pc["drift"] \in {"owner", "deleteOrphan"} =>
          scan.snap # NoRecord /\ scan.snap.node \in Nodes \ {scan.cur}

LiveInv ==
    /\ Live(store) /\ (revs # {} => store # NoRecord)
    /\ ScanLive /\ \A p \in Procs : Wanted(p)

\* What a step does to the record, to the agents and to the goroutines other than p.
Stored == UNCHANGED <<store, history>> \/ \E r \in Records : Live(r) /\ saveWorkload(r)

AgentsStay == \A n \in Nodes : agent[n] # Absent => agent'[n] # Absent

Others(p) ==
    \A q \in Procs \ {p} :
        pc'[q] = pc[q] /\ call'[q] = call[q] /\ w'[q] = w[q] /\ tmp'[q] = tmp[q]

\* A step that stores no record to be deleted leaves a record that is wanted.
LEMMA RecordStays ==
    ASSUME LiveInv, Stored
    PROVE  /\ Live(store)' /\ (revs # {} => store # NoRecord)'
           /\ store # NoRecord => store' # NoRecord
<1>1. CASE UNCHANGED <<store, history>>
  BY <1>1 DEF LiveInv, Live, history
<1>2. ASSUME NEW r \in Records, Live(r), saveWorkload(r)
      PROVE  /\ Live(store)' /\ (revs # {} => store # NoRecord)'
             /\ store # NoRecord => store' # NoRecord
  BY <1>2, NamesAssumption DEF Live, saveWorkload
<1>3. QED
  BY <1>1, <1>2 DEF Stored

\* A step of p for a wanted workload preserves LiveInv.
LEMMA LiveStep ==
    ASSUME LiveInv, NEW p \in Procs, Others(p), Wanted(p)', Stored, ScanLive'
    PROVE  LiveInv'
<1>1. ASSUME NEW q \in Procs PROVE Wanted(q)'
  BY DEF LiveInv, Others, Wanted, Live
<1>2. QED
  BY <1>1, RecordStays DEF LiveInv

\* The drift detector's view, when a step leaves it alone.
LEMMA ScanStays ==
    ASSUME LiveInv, NEW p \in Procs, Others(p), Stored, UNCHANGED scan,
           pc'[p] \notin {"owner", "deleteOrphan"} \/ UNCHANGED pc
    PROVE  ScanLive'
<1>1. Live(scan.exp)' /\ Live(scan.snap)'
  BY DEF LiveInv, ScanLive, Live
<1>2. (scan.found # Absent => store # NoRecord)'
  BY RecordStays DEF LiveInv, ScanLive
<1>3. ASSUME "drift" \in Daemons, pc'["drift"] \in {"owner", "deleteOrphan"}
      PROVE  scan.snap # NoRecord /\ scan.snap.node \in Nodes \ {scan.cur}
  <2>1. pc'["drift"] = pc["drift"]
    BY <1>3 DEF Others, Procs
  <2>2. QED
    BY <1>3, <2>1 DEF LiveInv, ScanLive
<1>4. QED
  BY <1>1, <1>2, <1>3 DEF ScanLive

\* A step of p that stores only what is wanted and removes nothing but by a fault.
LEMMA LivePass ==
    ASSUME LiveInv, NEW p \in Procs, Others(p), Wanted(p)', Stored, UNCHANGED scan,
           pc'[p] \notin {"owner", "deleteOrphan"} \/ UNCHANGED pc,
           AgentsStay \/ faults' # faults
    PROVE  LiveInv' /\ Stays
<1>1. LiveInv'
  BY ScanStays, LiveStep
<1>2. Stays
  BY RecordStays DEF Stays, AgentsStay
<1>3. QED
  BY <1>1, <1>2

\* p goes to place, with the copy it has or with a copy that is wanted.
LEMMA LiveGoes ==
    ASSUME IInv, LiveInv, NEW p \in Procs, NEW place, Goto(p, place),
           place \notin DeletePlaces \cup CallPlaces \cup {"owner", "deleteOrphan"},
           UNCHANGED w \/ (\E r : Live(r) /\ Copy(p, r)),
           UNCHANGED <<call, tmp, scan>>, Stored, AgentsStay \/ faults' # faults
    PROVE  LiveInv' /\ Stays
<1>1. pc'[p] = place /\ \A q \in Procs \ {p} : pc'[q] = pc[q]
  BY DEF Goto, IInv, TypeOK
<1>2. Live(w'[p]) /\ \A q \in Procs \ {p} : w'[q] = w[q]
  BY DEF Copy, IInv, TypeOK, LiveInv, Wanted
<1>3. Others(p)
  BY <1>1, <1>2 DEF Others
<1>4. Wanted(p)'
  BY <1>1, <1>2 DEF Wanted, LiveInv, Live
<1>5. QED
  BY <1>1, <1>3, <1>4, LivePass

\* The pass of p ends.
LEMMA LiveReturns ==
    ASSUME IInv, LiveInv, NEW p \in Procs, NEW us, Return(p, us),
           UNCHANGED <<call, tmp, scan>>, Stored, AgentsStay \/ faults' # faults
    PROVE  LiveInv' /\ Stays
<1>1. Goto(p, Caller(p)) /\ Caller(p) \notin DeletePlaces \cup CallPlaces \cup {"owner", "deleteOrphan"}
  BY DEF Return, Caller, DeletePlaces, CallPlaces
<1>2. Live(NoRecord) /\ Copy(p, NoRecord)
  BY DEF Live, Return
<1>3. QED
  BY <1>1, <1>2, LiveGoes

\* What the goroutine p has in hand is wanted.
LEMMA LiveAt ==
    ASSUME LiveInv, NEW p \in Procs
    PROVE  /\ Wanted(p) /\ Live(w[p]) /\ Live(tmp[p]) /\ pc[p] \notin DeletePlaces
           /\ pc[p] \in CallPlaces => call[p].op # "delete"
BY DEF LiveInv, Wanted

\* An agent that is sent a record holds an instance.
LEMMA AppliedStays ==
    ASSUME IInv, NEW n \in Nodes, NEW r \in Records,
           UNCHANGED agent \/ agent' = [agent EXCEPT ![n] = Applied(n, r)]
    PROVE  AgentsStay
<1>1. agent \in [Nodes -> Instances \cup {Absent}]
  BY DEF IInv, TypeOK
<1>2. [state |-> "Stopped", rev |-> r.rev] \in Instances /\ [state |-> "Pending", rev |-> r.rev] \in Instances
  BY DEF Instances, AgentStates, Records
<1>3. Applied(n, r) # Absent
  BY <1>2, NamesAssumption DEF Applied
<1>4. QED
  BY <1>1, <1>3 DEF AgentsStay

\* The record updates keep what is wanted.
LEMMA LiveUpdate ==
    ASSUME IInv, LiveInv, NEW p \in Procs, UpdateStep(p) PROVE LiveInv' /\ Stays
<1>1. UNCHANGED <<agent, pc, call, w, scan>> /\ AgentsStay
  BY DEF UpdateStep, UpdateRead, UpdateSkip, UpdateWrite, AgentsStay
<1>2. ASSUME NEW r, tmp' = [tmp EXCEPT ![p] = r], Live(r), Stored PROVE LiveInv' /\ Stays
  <2>1. tmp'[p] = r /\ \A q \in Procs \ {p} : tmp'[q] = tmp[q]
    BY <1>2 DEF IInv, TypeOK
  <2>2. Others(p)
    BY <1>1, <2>1 DEF Others
  <2>3. Wanted(p)'
    BY <1>1, <1>2, <2>1, LiveAt DEF Wanted
  <2>4. QED
    BY <1>1, <1>2, <2>2, <2>3, LivePass
<1>3. CASE UpdateRead(p)
  BY <1>2, <1>3 DEF UpdateRead, Stored, LiveInv
<1>4. CASE UpdateSkip(p)
  <2>1. Stored /\ UNCHANGED tmp
    BY <1>4 DEF UpdateSkip, Stored
  <2>2. tmp' = [tmp EXCEPT ![p] = tmp[p]]
    BY <2>1 DEF IInv, TypeOK
  <2>3. QED
    BY <1>2, <2>1, <2>2, LiveAt
<1>5. CASE UpdateWrite(p)
  <2> DEFINE r == IF Head(todo[p]).f \in Split THEN tmp[p] ELSE store
  <2>1. r \in Records /\ Live(r)
    BY <1>5, AtP, LiveAt DEF UpdateWrite, IInv, TypeOK, MaybeRecord, LiveInv
  <2>2. \A rec \in Updated(Head(todo[p]), r) : rec \in Records /\ Live(rec)
    <3>1. Head(todo[p]).status \in Statuses
      <4>1. todo[p] \in Seq(Updates) /\ todo[p] # <<>>
        BY <1>5, AtP DEF UpdateWrite, Busy
      <4>2. Head(todo[p]) \in Updates
        BY <4>1, SMT
      <4>3. QED
        BY <4>2 DEF Updates
    <3>2. r.desired # "Deleted"
      BY <2>1, NamesAssumption DEF Live
    <3> HIDE DEF r
    <3>3. ASSUME NEW s \in Statuses, NEW t \in Retries
          PROVE  /\ [r EXCEPT !.status = s] \in Records /\ [r EXCEPT !.status = s].desired = r.desired
                 /\ [r EXCEPT !.status = s, !.retry = t] \in Records
                 /\ [r EXCEPT !.status = s, !.retry = t].desired = r.desired
      BY <2>1 DEF Records
    <3>4. r.retry \in Retries /\ "exhausted" \in Retries /\ "armed" \in Retries
      BY <2>1 DEF Records, Retries
    <3>5. ASSUME NEW rec \in Updated(Head(todo[p]), r) PROVE rec \in Records /\ rec.desired # "Deleted"
      <4>1. \/ rec = r \/ rec = [r EXCEPT !.status = Head(todo[p]).status]
            \/ rec = [r EXCEPT !.status = "Failed", !.retry = "exhausted"]
            \/ rec = [r EXCEPT !.status = "RetryPending",
                               !.retry = IF r.retry = "exhausted" THEN r.retry ELSE "armed"]
        BY <3>5 DEF Updated
      <4>2. CASE rec = r
        BY <2>1, <3>2, <4>2
      <4>6. CASE rec = [r EXCEPT !.status = Head(todo[p]).status]
        <5> DEFINE s == Head(todo[p]).status
        <5>1. s \in Statuses /\ rec = [r EXCEPT !.status = s]
          BY <3>1, <4>6
        <5> HIDE DEF s
        <5>2. QED
          BY <3>2, <3>3, <3>4, <5>1
      <4>3. CASE rec = [r EXCEPT !.status = "Failed", !.retry = "exhausted"]
        BY <3>2, <3>3, <3>4, <4>3, StatusNames
      <4>4. CASE rec = [r EXCEPT !.status = "RetryPending",
                                 !.retry = IF r.retry = "exhausted" THEN r.retry ELSE "armed"]
        <5> DEFINE t == IF r.retry = "exhausted" THEN r.retry ELSE "armed"
        <5>1. t \in Retries /\ rec = [r EXCEPT !.status = "RetryPending", !.retry = t]
          BY <3>4, <4>4
        <5> HIDE DEF t
        <5>2. QED
          BY <3>2, <3>3, <5>1, StatusNames
      <4>5. QED
        BY <4>1, <4>2, <4>3, <4>4, <4>6
    <3>6. QED
      BY <3>5 DEF Live
  <2>3. Stored
    BY <1>5, <2>2 DEF UpdateWrite, Stored
  <2>4. tmp' = [tmp EXCEPT ![p] = NoRecord] /\ Live(NoRecord)
    BY <1>5 DEF UpdateWrite, Live
  <2>5. QED
    BY <1>2, <2>3, <2>4
<1>6. QED
  BY <1>3, <1>4, <1>5, UpdateStep(p) DEF UpdateStep

\* The API handlers keep what is wanted: no call asks for a deletion.
LEMMA LiveCall ==
    ASSUME IInv, LiveInv, NoDeletes, NEW p \in Procs, ServeCall(p) \/ CallStep(p)
    PROVE  LiveInv' /\ Stays
<1>1. UNCHANGED <<agent, tmp, scan>> /\ AgentsStay
  BY DEF CallStep, ServeCall, ApplyWorkload, CreateWorkload, ReadForCall, WriteForCall, AgentsStay
<1>2. ASSUME NEW place \in {"idle", "exists", "create", "read", "write", "gate"}, Goto(p, place),
             NEW c, call' = [call EXCEPT ![p] = c], place \in CallPlaces => c.op # "delete",
             NEW r, Copy(p, r), Live(r), Stored
      PROVE  LiveInv' /\ Stays
  <2>1. pc'[p] = place /\ \A q \in Procs \ {p} : pc'[q] = pc[q]
    BY <1>2 DEF Goto, IInv, TypeOK
  <2>2. call'[p] = c /\ \A q \in Procs \ {p} : call'[q] = call[q]
    BY <1>2 DEF IInv, TypeOK
  <2>3. w'[p] = r /\ \A q \in Procs \ {p} : w'[q] = w[q]
    BY <1>2 DEF Copy, IInv, TypeOK
  <2>4. Others(p)
    BY <1>1, <2>1, <2>2, <2>3 DEF Others
  <2>5. pc'[p] \notin DeletePlaces \cup {"owner", "deleteOrphan"}
    BY <2>1 DEF DeletePlaces
  <2>6. Wanted(p)'
    BY <1>1, <1>2, <2>1, <2>2, <2>3, <2>5, LiveAt DEF Wanted
  <2>7. QED
    BY <1>1, <1>2, <2>4, <2>5, <2>6, LivePass
<1>3. UNCHANGED w => Copy(p, w[p])
  BY DEF Copy, IInv, TypeOK
<1>4. UNCHANGED call => call' = [call EXCEPT ![p] = call[p]]
  BY DEF IInv, TypeOK
<1>5. Live(NoRecord) /\ Live(store) /\ Live(w[p]) /\ (pc[p] \in CallPlaces => call[p].op # "delete")
  BY LiveAt DEF Live, LiveInv
<1>6. CASE ServeCall(p)
  <2>1. PICK c \in Calls : /\ call' = [call EXCEPT ![p] = c]
                           /\ Goto(p, IF c.op = "apply" THEN "exists" ELSE "read")
    BY <1>6 DEF ServeCall
  <2>2. c.op # "delete"
    BY DEF NoDeletes
  <2>3. UNCHANGED w /\ Stored
    BY <1>6 DEF ServeCall, Stored
  <2>4. Goto(p, "exists") \/ Goto(p, "read")
    BY <2>1
  <2>5. QED
    BY <1>2, <1>3, <1>5, <2>1, <2>2, <2>3, <2>4
<1>7. CASE ApplyWorkload(p)
  <2>1. (Goto(p, "create") \/ Goto(p, "read")) /\ UNCHANGED <<call, w>> /\ Stored
    BY <1>7 DEF ApplyWorkload, Stored
  <2>2. pc[p] \in CallPlaces
    BY <1>7 DEF ApplyWorkload, At, CallPlaces
  <2>3. QED
    BY <1>2, <1>3, <1>4, <1>5, <2>1, <2>2
<1>8. CASE CreateWorkload(p)
  <2> DEFINE r == [desired |-> call[p].desired, rev |-> call[p].rev, status |-> "Pending",
                   node |-> NoNode, retry |-> "idle"]
  <2>1. call[p] \in AllCalls
    BY <1>8, AtP DEF CreateWorkload, At, Holds, CallPlaces
  <2>2. r \in Records /\ r.desired # "Deleted"
    BY <2>1, StatusNames DEF AllCalls, Records, Desired, Retries
  <2>3. saveWorkload(r) /\ Copy(p, r) /\ Goto(p, "gate") /\ call' = [call EXCEPT ![p] = NoRecord]
    BY <1>8 DEF CreateWorkload
  <2> HIDE DEF r
  <2>4. Live(r) /\ Stored
    BY <2>2, <2>3 DEF Live, Stored
  <2>5. QED
    BY <1>2, <2>3, <2>4 DEF CallPlaces
<1>9. CASE ReadForCall(p)
  <2>1. Copy(p, store) /\ Stored /\ pc[p] \in CallPlaces
    BY <1>9 DEF ReadForCall, Stored, At, CallPlaces
  <2>2. CASE Goto(p, "idle") /\ call' = [call EXCEPT ![p] = NoRecord]
    BY <1>2, <1>5, <2>1, <2>2 DEF CallPlaces
  <2>3. CASE Goto(p, "write") /\ UNCHANGED call
    BY <1>2, <1>4, <1>5, <2>1, <2>3
  <2>4. QED
    BY <1>9, <2>2, <2>3 DEF ReadForCall
<1>10. CASE WriteForCall(p)
  <2> DEFINE r == IF call[p].op = "retry" THEN TriggerWorkloadRetry(w[p])
                  ELSE UpdateWorkloadSpec(call[p], w[p])
  <2>1. call[p] \in AllCalls /\ w[p] \in Records /\ call[p].op # "delete"
    BY <1>5, <1>10, AtP DEF WriteForCall, At, Holds, CopyPlaces, CallPlaces
  <2>2. r \in Records /\ r.desired # "Deleted"
    <3>1. w[p].desired # "Deleted" /\ call[p].desired \in {"Running", "Stopped"} /\ call[p].rev \in Revs
      BY <1>5, <2>1, NamesAssumption DEF Live, AllCalls
    <3>2. TriggerWorkloadRetry(w[p]) \in Records /\ TriggerWorkloadRetry(w[p]).desired # "Deleted"
      BY <2>1, <3>1 DEF TriggerWorkloadRetry, Records, Retries
    <3>3. /\ UpdateWorkloadSpec(call[p], w[p]) \in Records
          /\ UpdateWorkloadSpec(call[p], w[p]).desired = call[p].desired
      BY <2>1, <3>1, StatusNames DEF UpdateWorkloadSpec, Records, Desired
    <3>4. QED
      BY <3>1, <3>2, <3>3
  <2>3. /\ saveWorkload(r) /\ call' = [call EXCEPT ![p] = NoRecord]
        /\ (Goto(p, "gate") /\ Copy(p, r)) \/ (Goto(p, "idle") /\ Copy(p, NoRecord))
    BY <1>10, <2>1 DEF WriteForCall
  <2> HIDE DEF r
  <2>4. Live(r) /\ Stored
    BY <2>2, <2>3 DEF Live, Stored
  <2>5. QED
    BY <1>2, <1>5, <2>3, <2>4 DEF CallPlaces
<1>11. QED
  BY <1>6, <1>7, <1>8, <1>9, <1>10 DEF CallStep

\* A copy p works on, when it has one, and what it looks like after a change that
\* leaves the desired state alone.
LEMMA LiveCopy ==
    ASSUME LiveInv, NEW p \in Procs, w[p] \in Records, NEW n \in Nodes \cup {NoNode}, NEW s \in Statuses,
           NEW t \in Retries, NEW r,
           \/ r = w[p] \/ r = [w[p] EXCEPT !.status = s]
           \/ r = [w[p] EXCEPT !.node = n, !.status = s] \/ r = [w[p] EXCEPT !.retry = t, !.status = s]
           \/ r = [w[p] EXCEPT !.node = n, !.status = s, !.retry = t]
    PROVE  r \in Records /\ Live(r) /\ w[p].desired # "Deleted"
<1>1. w[p].desired # "Deleted"
  BY LiveAt, NamesAssumption DEF Live
<1>2. CASE r = w[p] \/ r = [w[p] EXCEPT !.status = s]
  BY <1>1, <1>2 DEF Live, Records
<1>3. CASE r = [w[p] EXCEPT !.node = n, !.status = s]
  BY <1>1, <1>3 DEF Live, Records
<1>4. CASE r = [w[p] EXCEPT !.retry = t, !.status = s]
  BY <1>1, <1>4 DEF Live, Records
<1>5. CASE r = [w[p] EXCEPT !.node = n, !.status = s, !.retry = t]
  BY <1>1, <1>5 DEF Live, Records
<1>6. QED
  BY <1>1, <1>2, <1>3, <1>4, <1>5

\* A pass up to its decision keeps what is wanted.
LEMMA LiveReconcile ==
    ASSUME IInv, LiveInv, NEW p \in Procs,
           \/ EnsureWorkloadAssigned(p) \/ dueForRetry(p) \/ handleUnavailableAssignedNode(p)
           \/ getActualWorkloadState(p) \/ performReconciliation(p)
           \/ BackoffWait(p) \/ reapplyStillGuarded(p)
    PROVE  LiveInv' /\ Stays
<1>1. UNCHANGED <<agent, call, tmp, scan>> /\ AgentsStay
  BY DEF EnsureWorkloadAssigned, dueForRetry, handleUnavailableAssignedNode, getActualWorkloadState,
     performReconciliation, BackoffWait, reapplyStillGuarded, AgentsStay
<1>2. w[p] \in Records
  BY AtP DEF EnsureWorkloadAssigned, dueForRetry, handleUnavailableAssignedNode, getActualWorkloadState,
     performReconciliation, BackoffWait, reapplyStillGuarded, At, Holds, CopyPlaces, NodePlaces
<1>3. w[p].desired # "Deleted"
  BY <1>2, LiveAt, NamesAssumption DEF Live
<1>4. ASSUME NEW us, Return(p, us), Stored PROVE LiveInv' /\ Stays
  BY <1>1, <1>4, LiveReturns
<1>5. ASSUME NEW place \in {"due", "failover", "failoverAgain", "probe", "probeAgain", "decide", "precheck"},
             Goto(p, place), Stored, UNCHANGED w \/ (\E r : Live(r) /\ Copy(p, r))
      PROVE  LiveInv' /\ Stays
  <2>1. place \notin DeletePlaces \cup CallPlaces \cup {"owner", "deleteOrphan"}
    BY DEF DeletePlaces, CallPlaces
  <2>2. QED
    BY <1>1, <1>5, <2>1, LiveGoes
<1>6. UNCHANGED <<store, history>> => Stored
  BY DEF Stored
<1>7. ASSUME NEW r \in Records, Live(r), saveWorkload(r) PROVE Stored
  BY <1>7 DEF Stored
<1>8. CASE BackoffWait(p) \/ reapplyStillGuarded(p)
  BY <1>4, <1>6, <1>8 DEF BackoffWait, reapplyStillGuarded
<1>9. CASE EnsureWorkloadAssigned(p)
  <2>1. ASSUME NEW n \in Candidates, Goto(p, "due"),
               assignWorkload(p, [w[p] EXCEPT !.node = n, !.status = "Scheduled"])
        PROVE  LiveInv' /\ Stays
    <3> DEFINE r == [w[p] EXCEPT !.node = n, !.status = "Scheduled"]
    <3>1. saveWorkload(r) /\ Copy(p, r)
      BY <2>1 DEF assignWorkload
    <3>2. r \in Records /\ Live(r)
      BY <1>2, <2>1, LiveCopy, StatusNames DEF Candidates, Retries
    <3> HIDE DEF r
    <3>3. QED
      BY <1>5, <1>7, <2>1, <3>1, <3>2
  <2>2. CASE Return(p, RecordResult) /\ UNCHANGED <<store, history>>
    BY <1>4, <1>6, <2>2
  <2>3. CASE Goto(p, "due") /\ UNCHANGED <<store, history, w, seen, todo>>
    BY <1>5, <1>6, <2>3
  <2>4. QED
    BY <1>3, <1>9, <2>1, <2>2, <2>3 DEF EnsureWorkloadAssigned
<1>10. CASE dueForRetry(p)
  <2>1. Goto(p, "failover")
    BY <1>3, <1>10 DEF dueForRetry
  <2>2. CASE w[p].retry = "armed"
    <3> DEFINE r == [w[p] EXCEPT !.retry = "idle", !.status = "Pending"]
    <3>1. saveWorkload(r) /\ Copy(p, r)
      BY <1>10, <2>2 DEF dueForRetry
    <3>2. r \in Records /\ Live(r)
      BY <1>2, LiveCopy, StatusNames DEF Retries
    <3> HIDE DEF r
    <3>3. QED
      BY <1>5, <1>7, <2>1, <3>1, <3>2
  <2>3. CASE w[p].retry # "armed"
    BY <1>5, <1>6, <1>10, <2>1, <2>3 DEF dueForRetry
  <2>4. QED
    BY <2>2, <2>3
<1>11. CASE handleUnavailableAssignedNode(p)
  <2> DEFINE probe == IF pc[p] = "failover" THEN "probe" ELSE "probeAgain"
  <2>1. probe \in {"probe", "probeAgain"}
    OBVIOUS
  <2>2. ASSUME NEW n \in Candidates, Goto(p, probe),
               assignWorkload(p, [w[p] EXCEPT !.node = n, !.status = "Scheduled", !.retry = "idle"])
        PROVE  LiveInv' /\ Stays
    <3> DEFINE r == [w[p] EXCEPT !.node = n, !.status = "Scheduled", !.retry = "idle"]
    <3>1. saveWorkload(r) /\ Copy(p, r)
      BY <2>2 DEF assignWorkload
    <3>2. r \in Records /\ Live(r)
      BY <1>2, <2>2, LiveCopy, StatusNames DEF Candidates, Retries
    <3> HIDE DEF r, probe
    <3>3. QED
      BY <1>5, <1>7, <2>1, <2>2, <3>1, <3>2
  <2>3. CASE Goto(p, probe) /\ UNCHANGED <<store, history, w, seen, todo>>
    BY <1>5, <1>6, <2>1, <2>3
  <2>4. CASE Return(p, <<UpdateWorkloadRetryOnFailure>> \o RecordResult) /\ UNCHANGED <<store, history>>
    BY <1>4, <1>6, <2>4
  <2>5. QED
    BY <1>11, <2>2, <2>3, <2>4 DEF handleUnavailableAssignedNode
<1>12. CASE getActualWorkloadState(p)
  <2>1. Stored
    BY <1>6, <1>12 DEF getActualWorkloadState
  <2>2. \/ Goto(p, "decide") /\ UNCHANGED w
        \/ Goto(p, "failoverAgain") /\ UNCHANGED w
        \/ Return(p, RecordResult)
    BY <1>12 DEF getActualWorkloadState
  <2>3. QED
    BY <1>4, <1>5, <2>1, <2>2
<1>13. CASE performReconciliation(p)
  <2>1. Decision(w[p].desired, seen[p]) # "delete"
    BY <1>3 DEF Decision
  <2>2. [w[p] EXCEPT !.status = "Failed"] \in Records /\ Live([w[p] EXCEPT !.status = "Failed"])
    BY <1>2, LiveCopy, StatusNames DEF Retries
  <2>3. CASE saveWorkload([w[p] EXCEPT !.status = "Failed"]) /\ Return(p, Touches)
    BY <1>4, <1>7, <2>2, <2>3
  <2>4. CASE UNCHANGED <<store, history>> /\ (\E us : Return(p, us))
    BY <1>4, <1>6, <2>4
  <2>5. CASE Goto(p, "precheck") /\ UNCHANGED <<store, history, w, seen, todo>>
    BY <1>5, <1>6, <2>5
  <2>6. QED
    BY <1>13, <2>1, <2>3, <2>4, <2>5 DEF performReconciliation
<1>14. QED
  BY <1>8, <1>9, <1>10, <1>11, <1>12, <1>13

\* applyDesiredState, deletions that nobody asked for and the monitor.
LEMMA LiveApply ==
    ASSUME IInv, LiveInv, NEW p \in Procs,
           \/ ApplyStep(p) \/ applyFails(p) \/ handleRuntimeUnavailable(p) \/ DeleteStep(p) \/ MonitorStep(p)
    PROVE  LiveInv' /\ Stays
<1>1. ~DeleteStep(p)
  BY LiveAt DEF DeleteStep, deleteDesiredWorkload, deleteRead, deleteWorkloadFromNode, deleteKeys,
     At, DeletePlaces
<1>2. UNCHANGED <<call, tmp, scan>>
  BY <1>1 DEF ApplyStep, preApplyStatusCheck, resetReapplyBackoff, applyWorkloadOnNode, persistApplyMetadata,
     applyFails, handleRuntimeUnavailable, MonitorStep, syncRead, syncWorkloadStatus
<1>3. UNCHANGED agent => AgentsStay
  BY DEF AgentsStay
<1>4. UNCHANGED <<store, history>> => Stored
  BY DEF Stored
<1>5. ASSUME NEW us, Return(p, us), Stored, AgentsStay PROVE LiveInv' /\ Stays
  BY <1>2, <1>5, LiveReturns
<1>6. ASSUME NEW place \in {"idle", "reset", "apply", "persist", "syncProbe"}, Goto(p, place),
             Stored, AgentsStay, UNCHANGED w \/ (\E r : Live(r) /\ Copy(p, r))
      PROVE  LiveInv' /\ Stays
  <2>1. place \notin DeletePlaces \cup CallPlaces \cup {"owner", "deleteOrphan"}
    BY DEF DeletePlaces, CallPlaces
  <2>2. QED
    BY <1>2, <1>6, <2>1, LiveGoes
<1>7. CASE MonitorStep(p)
  <2>1. CASE syncRead(p)
    <3>1. Stored /\ AgentsStay /\ Live(store)
      BY <1>3, <1>4, <2>1 DEF syncRead, LiveInv
    <3>2. (Goto(p, "idle") /\ UNCHANGED w) \/ (Goto(p, "syncProbe") /\ Copy(p, store))
      BY <2>1 DEF syncRead
    <3>3. QED
      BY <1>6, <3>1, <3>2
  <2>2. CASE syncWorkloadStatus(p)
    <3>1. Stored /\ AgentsStay
      BY <1>3, <1>4, <2>2 DEF syncWorkloadStatus
    <3>2. \E us : Return(p, us)
      BY <2>2 DEF syncWorkloadStatus
    <3>3. QED
      BY <1>5, <3>1, <3>2
  <2>3. QED
    BY <1>7, <2>1, <2>2 DEF MonitorStep
<1>8. ASSUME ApplyStep(p) \/ applyFails(p) \/ handleRuntimeUnavailable(p)
      PROVE  w[p] \in Records /\ w[p].node \in Nodes /\ Live(w[p])
  BY <1>8, AtP, LiveAt DEF ApplyStep, preApplyStatusCheck, resetReapplyBackoff, applyWorkloadOnNode,
     persistApplyMetadata, applyFails, handleRuntimeUnavailable, At, Holds, NodePlaces
<1>9. CASE preApplyStatusCheck(p)
  <2>1. Stored /\ AgentsStay
    BY <1>3, <1>4, <1>9 DEF preApplyStatusCheck
  <2>2. (\E us : Return(p, us)) \/ (Goto(p, "reset") /\ UNCHANGED w) \/ (Goto(p, "apply") /\ UNCHANGED w)
    BY <1>9 DEF preApplyStatusCheck
  <2>3. QED
    BY <1>5, <1>6, <2>1, <2>2
<1>10. CASE resetReapplyBackoff(p) \/ persistApplyMetadata(p)
  <2>1. w[p] \in Records /\ Live(w[p])
    BY <1>8, <1>10 DEF ApplyStep
  <2>2. Stored /\ AgentsStay
    BY <1>3, <1>4, <1>10, <2>1 DEF resetReapplyBackoff, persistApplyMetadata, Stored
  <2>3. QED
    BY <1>5, <1>10, <2>2 DEF resetReapplyBackoff, persistApplyMetadata
<1>11. CASE applyWorkloadOnNode(p)
  <2>1. w[p] \in Records /\ w[p].node \in Nodes /\ Stored
    BY <1>4, <1>8, <1>11 DEF ApplyStep, applyWorkloadOnNode
  <2>2. AgentsStay
    BY <1>11, <2>1, AppliedStays DEF applyWorkloadOnNode
  <2>3. (\E us : Return(p, us)) \/ (Goto(p, "persist") /\ UNCHANGED w)
    BY <1>11 DEF applyWorkloadOnNode
  <2>4. QED
    BY <1>5, <1>6, <2>1, <2>2, <2>3
<1>12. CASE applyFails(p)
  <2>1. w[p] \in Records /\ w[p].node \in Nodes /\ Stored
    BY <1>4, <1>8, <1>12 DEF applyFails
  <2>2. AgentsStay
    BY <1>12, <2>1, AppliedStays DEF applyFails
  <2>3. QED
    BY <1>5, <1>12, <2>1, <2>2 DEF applyFails
<1>13. CASE handleRuntimeUnavailable(p)
  <2> DEFINE r == [w[p] EXCEPT !.node = NoNode, !.status = "Pending"]
  <2>1. w[p] \in Records
    BY <1>8, <1>13
  <2>2. r \in Records /\ Live(r)
    BY <2>1, LiveCopy, StatusNames DEF Retries
  <2>3. saveWorkload(r) /\ UNCHANGED agent /\ (\E us : Return(p, us))
    BY <1>13 DEF handleRuntimeUnavailable
  <2> HIDE DEF r
  <2>4. QED
    BY <1>3, <1>5, <2>2, <2>3 DEF Stored
<1>14. QED
  BY <1>1, <1>7, <1>9, <1>10, <1>11, <1>12, <1>13 DEF ApplyStep

\* The tickers.
LEMMA LiveTick ==
    ASSUME IInv, LiveInv, ReconcileAllWorkloads \/ MonitorWorkloads PROVE LiveInv' /\ Stays
<1>1. UNCHANGED <<call, tmp, scan>> /\ Stored /\ AgentsStay /\ Live(store)
  BY DEF ReconcileAllWorkloads, MonitorWorkloads, Stored, AgentsStay, LiveInv
<1>2. \A place \in {"gate", "sync"} : place \notin DeletePlaces \cup CallPlaces \cup {"owner", "deleteOrphan"}
  BY DEF DeletePlaces, CallPlaces
<1>3. CASE ReconcileAllWorkloads
  <2>1. "loop" \in Procs /\ Goto("loop", "gate") /\ Copy("loop", store)
    BY <1>3 DEF ReconcileAllWorkloads, Procs
  <2>2. QED
    BY <1>1, <1>2, <2>1, LiveGoes
<1>4. CASE MonitorWorkloads
  <2>1. "monitor" \in Procs /\ Goto("monitor", "sync") /\ UNCHANGED w
    BY <1>4 DEF MonitorWorkloads, Procs
  <2>2. QED
    BY <1>1, <1>2, <2>1, LiveGoes
<1>5. QED
  BY <1>3, <1>4

\* An instance on a node means that there is a record.
LEMMA InstanceHasRecord ==
    ASSUME IInv, LiveInv, NEW n \in Nodes, agent[n] # Absent
    PROVE  store # NoRecord
BY DEF IInv, PersistedBeforeExecution, LiveInv

\* The drift detector goes to place and leaves the goroutines' records alone.
LEMMA LiveDrift ==
    ASSUME IInv, LiveInv, "drift" \in Daemons, NEW place, Goto("drift", place),
           place \notin DeletePlaces \cup CallPlaces, UNCHANGED <<call, w, tmp>>, Stored,
           Live(scan.exp)', Live(scan.snap)', (scan.found # Absent => store # NoRecord)',
           place \in {"owner", "deleteOrphan"} =>
               scan'.snap # NoRecord /\ scan'.snap.node \in Nodes \ {scan'.cur},
           AgentsStay
    PROVE  LiveInv' /\ Stays
<1>1. "drift" \in Procs
  BY DEF Procs
<1>2. pc'["drift"] = place /\ Others("drift")
  BY <1>1 DEF Goto, IInv, TypeOK, Others
<1>3. Wanted("drift")'
  BY <1>1, <1>2, LiveAt DEF Wanted, Live
<1>4. ScanLive'
  BY <1>2 DEF ScanLive
<1>5. LiveInv'
  BY <1>1, <1>2, <1>3, <1>4, LiveStep
<1>6. Stays
  BY RecordStays DEF Stays, AgentsStay
<1>7. QED
  BY <1>5, <1>6

\* The drift detector keeps what is wanted.
LEMMA LiveDriftStep ==
    ASSUME IInv, LiveInv, DriftStep PROVE LiveInv' /\ Stays
<1>1. "drift" \in Daemons /\ "drift" \in Procs /\ scan \in Scans /\ ScanHeld
  BY DEF DriftStep, detectDriftOnce, driftDone, listWorkloadsFromNode, compareNodeDrift,
     remediateRevisionMismatch, remediateOrphanOnAgent, checkOwner, deleteOrphanFromNode,
     adoptOrphanedWorkload, Procs, IInv, TypeOK
<1>2. Live(store) /\ Live(scan.exp) /\ Live(scan.snap) /\ (scan.found # Absent => store # NoRecord)
  BY DEF LiveInv, ScanLive
<1>3. UNCHANGED agent => AgentsStay
  BY DEF AgentsStay
<1>4. UNCHANGED <<store, history>> => Stored
  BY DEF Stored
<1>5. \A place \in {"idle", "drift", "compare", "reapply", "orphan", "owner", "deleteOrphan", "adopt", "gate"} :
          place \notin DeletePlaces \cup CallPlaces
  BY DEF DeletePlaces, CallPlaces
<1>6. ASSUME NEW place \in {"drift", "reapply", "orphan"}, Goto("drift", place),
             UNCHANGED <<call, w, tmp, scan, store, history>>, AgentsStay
      PROVE  LiveInv' /\ Stays
  <2>1. Live(scan.exp)' /\ Live(scan.snap)' /\ (scan.found # Absent => store # NoRecord)'
    BY <1>2, <1>6 DEF Live
  <2>2. QED
    BY <1>1, <1>4, <1>5, <1>6, <2>1, LiveDrift
<1>7. CASE detectDriftOnce
  <2>1. /\ scan'.exp = store /\ scan'.snap = store /\ scan'.found = Absent
        /\ Goto("drift", "drift") /\ UNCHANGED <<store, history, agent, call, w, tmp>>
    BY <1>7 DEF detectDriftOnce
  <2>2. Live(scan.exp)' /\ Live(scan.snap)'
    BY <1>2, <2>1 DEF Live
  <2>3. QED
    BY <1>1, <1>3, <1>4, <1>5, <2>1, <2>2, LiveDrift
<1>8. CASE driftDone
  <2>1. /\ scan'.exp = NoRecord /\ scan'.snap = NoRecord /\ scan'.found = Absent
        /\ Goto("drift", "idle") /\ UNCHANGED <<store, history, agent, call, w, tmp>>
    BY <1>8 DEF driftDone, NoScan
  <2>2. Live(scan.exp)' /\ Live(scan.snap)'
    BY <2>1 DEF Live
  <2>3. QED
    BY <1>1, <1>3, <1>4, <1>5, <2>1, <2>2, LiveDrift
<1>9. CASE listWorkloadsFromNode
  <2>1. PICK n \in scan.left :
           \/ /\ scan' = [scan EXCEPT !.left = @ \ {n}, !.cur = n, !.found = agent[n]]
              /\ Goto("drift", "compare")
           \/ scan' = [scan EXCEPT !.left = @ \ {n}] /\ UNCHANGED pc
    BY <1>9 DEF listWorkloadsFromNode
  <2>2. n \in Nodes /\ pc["drift"] = "drift" /\ UNCHANGED <<store, history, agent, call, w, tmp>>
    BY <1>1, <1>9 DEF listWorkloadsFromNode, At, Scans
  <2>3. /\ scan'.exp = scan.exp /\ scan'.snap = scan.snap
        /\ scan'.found = agent[n] \/ scan'.found = scan.found
    BY <1>1, <2>1 DEF Scans
  <2>4. Goto("drift", "compare") \/ Goto("drift", "drift")
    BY <2>1, <2>2 DEF Goto, IInv, TypeOK
  <2>5. Live(scan.exp)' /\ Live(scan.snap)'
    BY <1>2, <2>2, <2>3 DEF Live
  <2>6. (scan.found # Absent => store # NoRecord)'
    BY <1>2, <2>2, <2>3, InstanceHasRecord
  <2>7. QED
    BY <1>1, <1>3, <1>4, <1>5, <2>2, <2>4, <2>5, <2>6, LiveDrift
<1>10. CASE compareNodeDrift
  <2>1. UNCHANGED <<store, history, agent, call, tmp, scan>>
    BY <1>10 DEF compareNodeDrift
  <2>2. CASE Copy("drift", scan.exp) /\ Goto("drift", "gate")
    <3>1. "gate" \notin DeletePlaces \cup CallPlaces \cup {"owner", "deleteOrphan"}
      BY DEF DeletePlaces, CallPlaces
    <3>2. QED
      BY <1>1, <1>2, <1>3, <1>4, <2>1, <2>2, <3>1, LiveGoes
  <2>3. CASE UNCHANGED w /\ (Goto("drift", "reapply") \/ Goto("drift", "drift") \/ Goto("drift", "orphan"))
    BY <1>3, <1>6, <2>1, <2>3
  <2>4. QED
    BY <1>10, <2>2, <2>3 DEF compareNodeDrift
<1>11. CASE remediateRevisionMismatch
  <2>1. scan.cur \in Nodes /\ scan.exp \in Records
    BY <1>1, <1>11 DEF remediateRevisionMismatch, At, ScanHeld, ScanPlaces
  <2>2. AgentsStay
    BY <1>11, <2>1, AppliedStays DEF remediateRevisionMismatch
  <2>3. QED
    BY <1>6, <1>11, <2>2 DEF remediateRevisionMismatch
<1>12. CASE remediateOrphanOnAgent
  <2> DEFINE snap == IF scan.snap = NoRecord THEN store ELSE scan.snap
  <2>1. scan.found # Absent /\ scan.cur \in Nodes
    BY <1>1, <1>12, NamesAssumption
       DEF remediateOrphanOnAgent, At, ScanHeld, FoundPlaces, ScanPlaces
  <2>2. snap \in Records /\ snap # NoRecord /\ snap.desired # "Deleted" /\ Live(snap)
    <3>1. snap # NoRecord /\ Live(snap)
      BY <1>2, <2>1
    <3>2. snap \in Records
      BY <1>1, <3>1 DEF IInv, TypeOK, Scans
    <3>3. QED
      BY <3>1, <3>2 DEF Live
  <2>3. /\ scan' = [scan EXCEPT !.snap = snap] /\ UNCHANGED <<store, history, agent, call, w, tmp>>
        /\ Goto("drift", IF snap = NoRecord \/ snap.desired = "Deleted" THEN "deleteOrphan"
                         ELSE IF snap.node \in {NoNode, scan.cur} THEN "adopt" ELSE "owner")
    BY <1>12 DEF remediateOrphanOnAgent
  <2> HIDE DEF snap
  <2>4. scan'.snap = snap /\ scan'.exp = scan.exp /\ scan'.cur = scan.cur /\ scan'.found = scan.found
    BY <1>1, <2>3 DEF Scans
  <2>5. Live(scan.exp)' /\ Live(scan.snap)' /\ (scan.found # Absent => store # NoRecord)'
    BY <1>2, <2>2, <2>3, <2>4 DEF Live
  <2>6. CASE snap.node \in {NoNode, scan.cur}
    <3>1. Goto("drift", "adopt")
      BY <2>2, <2>3, <2>6
    <3>2. QED
      BY <1>1, <1>3, <1>4, <1>5, <2>3, <2>5, <3>1, LiveDrift
  <2>7. CASE snap.node \notin {NoNode, scan.cur}
    <3>1. Goto("drift", "owner")
      BY <2>2, <2>3, <2>7
    <3>2. snap.node \in Nodes \ {scan.cur}
      BY <2>2, <2>7 DEF Records
    <3>3. QED
      BY <1>1, <1>3, <1>4, <1>5, <2>2, <2>3, <2>4, <2>5, <3>1, <3>2, LiveDrift
  <2>8. QED
    BY <2>6, <2>7
<1>13. CASE checkOwner
  <2>1. UNCHANGED <<store, history, agent, call, w, tmp, scan>>
    BY <1>13 DEF checkOwner
  <2>2. scan.snap # NoRecord /\ scan.snap.node \in Nodes \ {scan.cur}
    BY <1>1, <1>13 DEF checkOwner, At, LiveInv, ScanLive
  <2>3. Live(scan.exp)' /\ Live(scan.snap)' /\ (scan.found # Absent => store # NoRecord)'
    BY <1>2, <2>1 DEF Live
  <2>4. Goto("drift", "deleteOrphan") \/ Goto("drift", "adopt") \/ Goto("drift", "drift")
    BY <1>13 DEF checkOwner
  <2>5. ASSUME NEW place \in {"deleteOrphan", "adopt", "drift"}, Goto("drift", place)
        PROVE  LiveInv' /\ Stays
    BY <1>1, <1>3, <1>4, <1>5, <2>1, <2>2, <2>3, <2>5, LiveDrift
  <2>6. QED
    BY <2>4, <2>5
<1>14. CASE deleteOrphanFromNode
  <2>1. UNCHANGED <<store, history, call, w, tmp, scan>> /\ Goto("drift", "drift") /\ pc["drift"] = "deleteOrphan"
    BY <1>14 DEF deleteOrphanFromNode, At
  <2>2. scan.snap # NoRecord /\ scan.snap.node \in Nodes \ {scan.cur}
    BY <1>1, <2>1 DEF LiveInv, ScanLive
  <2>3. \A n \in Nodes : n # scan.cur => agent'[n] = agent[n]
    BY <1>14 DEF deleteOrphanFromNode, IInv, TypeOK
  <2>4. Stays
    BY <2>1, <2>2, <2>3 DEF Stays
  <2>5. pc'["drift"] = "drift" /\ Others("drift")
    BY <1>1, <2>1 DEF Goto, IInv, TypeOK, Others
  <2>6. Wanted("drift")'
    BY <1>1, <1>5, <2>1, <2>5, LiveAt DEF Wanted
  <2>7. LiveInv'
    BY <1>1, <1>4, <2>1, <2>5, <2>6, ScanStays, LiveStep
  <2>8. QED
    BY <2>4, <2>7
<1>15. CASE adoptOrphanedWorkload
  <2> DEFINE r == [scan.snap EXCEPT !.node = scan.cur, !.status = scan.found.state]
  <2>1. scan.snap \in Records /\ scan.found \in Instances /\ scan.cur \in Nodes
    BY <1>1, <1>15 DEF adoptOrphanedWorkload, At, ScanHeld, FoundPlaces, ScanPlaces
  <2>2. r \in Records /\ r.desired = scan.snap.desired
    BY <2>1, StatusNames DEF Records, Instances
  <2>3. /\ saveWorkload(r) /\ scan' = [scan EXCEPT !.snap = r] /\ Goto("drift", "drift")
        /\ UNCHANGED <<agent, call, w, tmp>>
    BY <1>15 DEF adoptOrphanedWorkload
  <2>4. Live(r)
    BY <1>2, <2>1, <2>2, NamesAssumption DEF Live
  <2> HIDE DEF r
  <2>5. Stored /\ store' = r
    BY <2>2, <2>3, <2>4 DEF Stored, saveWorkload
  <2>6. scan'.snap = r /\ scan'.exp = scan.exp
    BY <1>1, <2>3 DEF Scans
  <2>7. Live(scan.exp)' /\ Live(scan.snap)' /\ store' # NoRecord
    BY <1>2, <2>2, <2>4, <2>5, <2>6, NamesAssumption DEF Live
  <2>8. QED
    BY <1>1, <1>3, <1>5, <2>3, <2>5, <2>7, LiveDrift
<1>16. QED
  BY <1>7, <1>8, <1>9, <1>10, <1>11, <1>12, <1>13, <1>14, <1>15 DEF DriftStep

\* Nodes, agents, faults and restarts leave the records alone.
LEMMA LiveElsewhere ==
    ASSUME IInv, LiveInv,
           \/ \E n \in Nodes : NodeStep(n) \/ LinkUp(n) \/ NodeFault(n)
           \/ Restart \/ UNCHANGED vars
    PROVE  LiveInv' /\ Stays
<1>1. UNCHANGED <<store, history>> /\ Stored
  BY DEF NodeStep, Heartbeat, HeartbeatStale, MonitorNodes, AgentStarts, LinkUp, NodeFault, Restart, vars, Stored
<1>2. LiveInv'
  <2>1. CASE UNCHANGED <<pc, call, w, tmp, scan>>
    <3>1. ASSUME NEW p \in Procs PROVE Wanted(p)'
      BY <2>1, LiveAt DEF Wanted
    <3>2. ScanLive'
      BY <1>1, <2>1 DEF LiveInv, ScanLive, Live
    <3>3. QED
      BY <1>1, <3>1, <3>2, RecordStays DEF LiveInv
  <2>2. CASE Restart
    <3>1. ASSUME NEW p \in Procs PROVE Wanted(p)'
      BY <2>2 DEF Restart, Wanted, Live, DeletePlaces, CallPlaces
    <3>2. ScanLive'
      BY <2>2 DEF Restart, ScanLive, Live, NoScan, Procs
    <3>3. QED
      BY <1>1, <3>1, <3>2, RecordStays DEF LiveInv
  <2>3. QED
    BY <2>1, <2>2 DEF NodeStep, Heartbeat, HeartbeatStale, MonitorNodes, AgentStarts, LinkUp, NodeFault,
       vars, procVars
<1>3. AgentsStay \/ faults' # faults
  <2>1. CASE UNCHANGED agent
    BY <2>1 DEF AgentsStay
  <2>2. ASSUME NEW n \in Nodes, NodeFault(n) PROVE faults' # faults
    BY <2>2, SMT DEF NodeFault, IInv, TypeOK
  <2>3. ASSUME NEW n \in Nodes, AgentStarts(n) PROVE AgentsStay
    <3>1. agent \in [Nodes -> Instances \cup {Absent}] /\ agent[n] \in Instances
      BY <2>3 DEF AgentStarts, IInv, TypeOK
    <3>2. [agent[n] EXCEPT !.state = "Running"] \in Instances
      BY <3>1 DEF Instances, AgentStates
    <3>3. agent' = [agent EXCEPT ![n] = [agent[n] EXCEPT !.state = "Running"]]
      BY <2>3, <3>1 DEF AgentStarts
    <3>4. QED
      BY <3>1, <3>2, <3>3, NamesAssumption DEF AgentsStay
  <2>4. QED
    BY <2>1, <2>2, <2>3 DEF NodeStep, Heartbeat, HeartbeatStale, MonitorNodes, LinkUp, Restart, vars
<1>4. Stays
  BY <1>1, <1>3 DEF Stays, AgentsStay
<1>5. QED
  BY <1>2, <1>4

\* Every step keeps what is wanted, as long as no call asks for a deletion.
LEMMA LiveNext ==
    ASSUME IInv, LiveInv, NoDeletes, [Next]_vars PROVE LiveInv' /\ Stays
<1>1. ASSUME NEW p \in Procs,
             \/ ServeCall(p) \/ Step(p) \/ BackoffWait(p) \/ reapplyStillGuarded(p)
             \/ applyFails(p) \/ handleRuntimeUnavailable(p)
      PROVE  LiveInv' /\ Stays
  BY <1>1, LiveCall, LiveUpdate, LiveReconcile, LiveApply DEF Step, ReconcileStep
<1>2. QED
  BY <1>1, LiveTick, LiveDriftStep, LiveElsewhere DEF Next

\* As long as no call asks for a deletion, no behaviour of reconciler, monitor, drift
\* detector, restarts and faults loses the record, and an instance is removed only by
\* a fault or, by deleteOrphanFromNode, from a node that is not its owner's.
THEOREM WorkloadKept == Spec => KeptUntilDeleted
<1> DEFINE LInv == NoDeletes => LiveInv
<1>1. Init => LInv
  <2> SUFFICES ASSUME Init PROVE LiveInv
    OBVIOUS
  <2>1. \A p \in Procs : Wanted(p)
    BY DEF Init, Wanted, Live, DeletePlaces, CallPlaces
  <2>2. ScanLive
    BY DEF Init, ScanLive, Live, NoScan, Procs
  <2>3. QED
    BY <2>1, <2>2 DEF Init, LiveInv, Live
<1>2. IInv /\ LInv /\ [Next]_vars => LInv' /\ (NoDeletes => Stays)
  BY LiveNext DEF NoDeletes
<1>3. QED
  BY <1>1, <1>2, Invariance, PTL DEF Spec, KeptUntilDeleted

=============================================================================

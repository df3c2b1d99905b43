-------------------------- MODULE Automation_proofs --------------------------
(***************************************************************************)
(* Proofs about persys-automation, for any replicas, policies, faults and  *)
(* rows: its leader election, and that its queue loses no suggestion.      *)
(***************************************************************************)
EXTENDS Automation, SequenceTheorems, FiniteSetTheorems, TLAPS

\* Most leaves are first-order: Zenon is tried unless a leaf names another prover.
USE Zenon

\* Why OneLiveLeader survives a new election: Postgres frees a lock together with
\* the session that held it, so a free lock has no lost session behind it.
FreeLockIsClean == orphaned => lock # NoOne

ElectionInv ==
    ElectionTypeOK /\ FreeLockIsClean /\ OneLiveLeader /\ NoticesFollowLeadership

\* The replicas start without sessions, leadership, notices and evaluators.
LEMMA ElectionStarts == ElectionInit => ElectionInv
<1> SUFFICES ASSUME ElectionInit PROVE ElectionInv
    OBVIOUS
<1>1. ElectionTypeOK
    <2>1. faults \in 0 .. MaxFaults
        BY ElectionAssumption, SMT DEF ElectionInit
    <2>2. orphaned \in BOOLEAN /\ isLeader \in [Replicas -> BOOLEAN]
                              /\ evaluating \in [Replicas -> BOOLEAN]
        BY DEF ElectionInit
    <2>3. /\ lock \in Replicas \union {NoOne} /\ dropped \in SUBSET Replicas
          /\ session \in [Replicas -> {"none", "open", "broken"}]
          /\ updates \in [Replicas -> BOOLEAN \union {NoNotice}]
        BY DEF ElectionInit
    <2> QED BY <2>1, <2>2, <2>3 DEF ElectionTypeOK
<1>2. FreeLockIsClean /\ OneLiveLeader
    BY DEF ElectionInit, FreeLockIsClean, OneLiveLeader
<1>3. NoticesFollowLeadership
    BY DEF ElectionInit, NoticesFollowLeadership
<1> QED BY <1>1, <1>2, <1>3 DEF ElectionInv

\* Every step of an elector, of main's goroutine and of Postgres, every broken
\* session and every restart keeps the invariant.
LEMMA ElectionKeeps == ElectionInv /\ [ElectionNext]_electionVars => ElectionInv'
<1> SUFFICES ASSUME ElectionInv, [ElectionNext]_electionVars PROVE ElectionInv'
    OBVIOUS
<1> USE ElectionAssumption
        DEF ElectionInv, ElectionTypeOK, FreeLockIsClean, OneLiveLeader, NoticesFollowLeadership
<1>1. ASSUME NEW r \in Replicas, acquireLock(r) PROVE ElectionInv'
    <2>1. ~orphaned /\ \A q \in Replicas : session[q] # "open"
        BY <1>1 DEF acquireLock
    <2>2. ElectionTypeOK' /\ FreeLockIsClean' /\ OneLiveLeader'
        BY <1>1, <2>1, ZenonT(30) DEF acquireLock, Notify
    <2>3. NoticesFollowLeadership'
        BY <1>1 DEF acquireLock, Notify
    <2> QED BY <2>2, <2>3
<1>2. ASSUME NEW r \in Replicas, checkSession(r) PROVE ElectionInv'
    <2>1. ElectionTypeOK' /\ FreeLockIsClean' /\ OneLiveLeader'
        BY <1>2, ZenonT(30) DEF checkSession, revokeLeader, Notify
    <2>2. NoticesFollowLeadership'
        BY <1>2 DEF checkSession, revokeLeader, Notify
    <2> QED BY <2>1, <2>2
<1>3. ASSUME NEW r \in Replicas, takeNotice(r) PROVE ElectionInv'
    <2>1. ElectionTypeOK' /\ FreeLockIsClean' /\ OneLiveLeader'
        BY <1>3 DEF takeNotice
    <2>2. NoticesFollowLeadership'
        BY <1>3 DEF takeNotice
    <2> QED BY <2>1, <2>2
<1>4. ASSUME NEW r \in Replicas, SessionBreaks(r) PROVE ElectionInv'
    BY <1>4, SMT DEF SessionBreaks
<1>5. ASSUME NEW r \in Replicas, ReplicaRestart(r) PROVE ElectionInv'
    <2>1. ElectionTypeOK'
        <3>1. orphaned' \in BOOLEAN
            BY <1>5 DEF ReplicaRestart
        <3> QED BY <1>5, <3>1, SMT DEF ReplicaRestart
    <2>2. NoticesFollowLeadership'
        BY <1>5 DEF ReplicaRestart
    <2>3. FreeLockIsClean' /\ OneLiveLeader'
        BY <1>5 DEF ReplicaRestart
    <2> QED BY <2>1, <2>2, <2>3
<1>6. CASE PostgresReleases
    BY <1>6 DEF PostgresReleases
<1>7. CASE UNCHANGED electionVars
    BY <1>7 DEF electionVars
<1> QED BY <1>1, <1>2, <1>3, <1>4, <1>5, <1>6, <1>7 DEF ElectionNext, step

\* Evaluations, replays and their results never touch the election: a step of the
\* whole service is a step of the election or leaves it alone.
LEMMA ServiceStepsElect == [Next]_vars => [ElectionNext]_electionVars
BY DEF Next, vars, Fault, Elect, Notice, Evaluate, EvaluateNow, Replay, ElectionNext

\* For any number of replicas, broken sessions and restarts: at most one replica
\* leads on a session that Postgres knows, and it has the advisory lock.
THEOREM LiveLeaderIsUnique == Spec => []OneLiveLeader
<1>1. Init => ElectionInv
    BY ElectionStarts DEF Init
<1>2. ElectionInv /\ [Next]_vars => ElectionInv'
    BY ElectionKeeps, ServiceStepsElect
<1>3. ElectionInv => OneLiveLeader
    BY DEF ElectionInv
<1> QED BY <1>1, <1>2, <1>3, PTL DEF Spec

\* For any number of replicas, broken sessions and restarts: unless the channel
\* lost a notice, a replica's evaluator runs or will be told to run as it leads.
THEOREM NoticesAreTrue == Spec => []NoticesFollowLeadership
<1>1. Init => ElectionInv
    BY ElectionStarts DEF Init
<1>2. ElectionInv /\ [Next]_vars => ElectionInv'
    BY ElectionKeeps, ServiceStepsElect
<1>3. ElectionInv => NoticesFollowLeadership
    BY DEF ElectionInv
<1> QED BY <1>1, <1>2, <1>3, PTL DEF Spec

----------------------------------------------------------------------------
(* The queue of suggestions *)

\* What every replay keeps: rows are numbered in the order in which they were queued,
\* so the number of a new row is in no list, and the property itself.
QueueInv ==
    /\ QueueTypeOK
    /\ Len(policyOf) <= MaxRows
    /\ \A i \in DOMAIN pending : pending[i] <= Len(policyOf)
    /\ QueuedUntilActed

\* A sequence without the element at position i.
LEMMA RemoveAtProperties ==
    ASSUME NEW S, NEW s \in Seq(S), NEW i \in 1 .. Len(s)
    PROVE  /\ RemoveAt(s, i) \in Seq(S) /\ Len(RemoveAt(s, i)) = Len(s) - 1
           /\ \A k \in 1 .. Len(s) - 1 : RemoveAt(s, i)[k] = IF k < i THEN s[k] ELSE s[k + 1]
<1> DEFINE before == SubSeq(s, 1, i - 1)
           after == SubSeq(s, i + 1, Len(s))
<1>1. before \in Seq(S) /\ Len(before) = i - 1 /\ \A k \in 1 .. i - 1 : before[k] = s[k]
    BY SubSeqProperties, SMT
<1>2. after \in Seq(S) /\ Len(after) = Len(s) - i /\ \A k \in 1 .. Len(s) - i : after[k] = s[i + k]
    BY SubSeqProperties, SMT
<1> HIDE DEF before, after
<1>3. /\ before \o after \in Seq(S) /\ Len(before \o after) = Len(s) - 1
      /\ \A k \in 1 .. Len(s) - 1 :
           (before \o after)[k] = IF k <= i - 1 THEN before[k] ELSE after[k - (i - 1)]
    BY <1>1, <1>2, ConcatProperties, SMTT(30)
<1>4. ASSUME NEW k \in 1 .. Len(s) - 1
      PROVE  (before \o after)[k] = IF k < i THEN s[k] ELSE s[k + 1]
    <2>1. CASE k < i
        BY <2>1, <1>1, <1>3, SMT
    <2>2. CASE ~(k < i)
        BY <2>2, <1>2, <1>3, SMT
    <2> QED BY <2>1, <2>2
<1> QED BY <1>3, <1>4 DEF RemoveAt, before, after

\* A row is deleted or moved to the end; the others stay, and each is listed once.
LEMMA RowSettled ==
    ASSUME QueueInv, NEW row \in Rows, NEW deleted \in BOOLEAN, settleRow(row, deleted)
    PROVE  /\ pending' \in Seq(Rows)
           /\ \A i, j \in DOMAIN pending' : pending'[i] = pending'[j] => i = j
           /\ \A i \in DOMAIN pending' : pending'[i] <= Len(policyOf)
           /\ \A i \in DOMAIN pending :
                (pending[i] = row /\ deleted) \/ \E j \in DOMAIN pending' : pending'[j] = pending[i]
<1>1. CASE ~Contains(pending, row)
    BY <1>1 DEF settleRow, QueueInv, QueueTypeOK
<1>2. CASE Contains(pending, row)
    <2>1. PICK n \in DOMAIN pending :
            /\ pending[n] = row
            /\ pending' = IF deleted THEN RemoveAt(pending, n) ELSE Append(RemoveAt(pending, n), row)
        BY <1>2 DEF settleRow
    <2> DEFINE rest == RemoveAt(pending, n)
    <2>2. /\ pending \in Seq(Rows) /\ n \in 1 .. Len(pending) /\ DOMAIN pending = 1 .. Len(pending)
          /\ row <= Len(policyOf)
        BY <2>1, SMT DEF QueueInv, QueueTypeOK
    <2>3. /\ rest \in Seq(Rows) /\ Len(rest) = Len(pending) - 1
          /\ \A k \in 1 .. Len(pending) - 1 : rest[k] = IF k < n THEN pending[k] ELSE pending[k + 1]
        BY <2>2, RemoveAtProperties
    <2> HIDE DEF rest
    <2> DEFINE at(k) == IF k < n THEN k ELSE k + 1
    <2>4. /\ \A k \in 1 .. Len(rest) : at(k) \in 1 .. Len(pending) /\ at(k) # n /\ rest[k] = pending[at(k)]
           /\ \A i, j \in 1 .. Len(rest) : at(i) = at(j) => i = j
        BY <2>2, <2>3, SMT
    <2> HIDE DEF at
    <2>5. /\ \A i, j \in 1 .. Len(pending) : pending[i] = pending[j] => i = j
          /\ \A i \in 1 .. Len(pending) : pending[i] <= Len(policyOf)
        BY <2>2 DEF QueueInv, QueueTypeOK
    <2>6. \A i, j \in 1 .. Len(rest) : rest[i] = rest[j] => i = j
        BY <2>5, <2>4
    <2>7. \A i \in 1 .. Len(rest) : rest[i] <= Len(policyOf) /\ rest[i] # row
        BY <2>5, <2>1, <2>2, <2>4
    <2>8. \A i \in 1 .. Len(pending) : i # n => \E j \in 1 .. Len(rest) : rest[j] = pending[i]
        <3> SUFFICES ASSUME NEW i \in 1 .. Len(pending), i # n
                     PROVE  \E j \in 1 .. Len(rest) : rest[j] = pending[i]
            OBVIOUS
        <3>1. CASE i < n
            BY <3>1, <2>2, <2>3, SMT
        <3>2. CASE i > n
            <4>1. i - 1 \in 1 .. Len(rest) /\ rest[i - 1] = pending[i]
                BY <3>2, <2>2, <2>3, SMT
            <4> QED BY <4>1
        <3> QED BY <3>1, <3>2, <2>2, SMT
    <2>9. CASE deleted
        <3>1. pending' = rest
            BY <2>1, <2>9 DEF rest
        <3>2. DOMAIN pending' = 1 .. Len(rest)
            BY <2>3, <3>1, SMT
        <3>3. \A i \in DOMAIN pending :
                (pending[i] = row /\ deleted) \/ \E j \in DOMAIN pending' : pending'[j] = pending[i]
            BY <2>1, <2>2, <2>8, <2>9, <3>1, <3>2
        <3> QED BY <2>3, <2>6, <2>7, <3>1, <3>2, <3>3
    <2>10. CASE ~deleted
        <3>1. pending' = Append(rest, row)
            BY <2>1, <2>10 DEF rest
        <3>2. /\ pending' \in Seq(Rows) /\ Len(pending') = Len(rest) + 1
              /\ \A i \in 1 .. Len(rest) : pending'[i] = rest[i]
              /\ pending'[Len(rest) + 1] = row
            BY <2>3, <3>1, AppendProperties, SMT
        <3>3. DOMAIN pending' = 1 .. Len(rest) + 1 /\ Len(rest) \in Nat
            BY <2>3, <3>2, SMT
        <3>4. \A i, j \in DOMAIN pending' : pending'[i] = pending'[j] => i = j
            BY <2>6, <2>7, <3>2, <3>3, SMT
        <3>5. \A i \in DOMAIN pending' : pending'[i] <= Len(policyOf)
            BY <2>2, <2>7, <3>2, <3>3, SMT
        <3>6. \A i \in DOMAIN pending : \E j \in DOMAIN pending' : pending'[j] = pending[i]
            <4> TAKE i \in DOMAIN pending
            <4>1. CASE i = n
                BY <4>1, <2>1, <3>2, <3>3, SMT
            <4>2. CASE i # n
                <5>1. PICK j \in 1 .. Len(rest) : rest[j] = pending[i]
                    BY <4>2, <2>2, <2>8
                <5> QED BY <5>1, <3>2, <3>3, SMT
            <4> QED BY <4>1, <4>2
        <3> QED BY <3>2, <3>4, <3>5, <3>6
    <2> QED BY <2>9, <2>10
<1> QED BY <1>1, <1>2

\* What the service does to the queue.
QueueNext ==
    \/ \E p \in Policies : EnqueueSuggestion(p)
    \/ \E e \in Engines : \/ ClaimQueuedSuggestions(e) \/ stopReplay(e)
                          \/ \E written \in BOOLEAN : replaySuggestion(e, written)

\* The election does not touch the queue.
LEMMA ServiceStepsQueue == [Next]_vars => [QueueNext]_queueVars
<1> SUFFICES ASSUME [Next]_vars PROVE [QueueNext]_queueVars
    OBVIOUS
<1>1. ASSUME NEW p \in Policies, evaluateSingle(p) PROVE [QueueNext]_queueVars
    BY <1>1 DEF evaluateSingle, dispatchAction, QueueNext
<1> QED BY <1>1, EnginesAssumption
        DEF Next, vars, Fault, Elect, Notice, Evaluate, EvaluateNow, Replay, QueueNext

\* The queue starts empty.
LEMMA QueueStarts == QueueInit => QueueInv
BY QueueAssumption, SMT DEF QueueInit, QueueInv, QueueTypeOK, QueuedUntilActed, Rows

\* An accepted suggestion took effect.
LEMMA AcceptedTookEffect ==
    ASSUME NEW action, NEW answer \in SubmitAutomationSuggestion(action)
    PROVE  /\ answer.effect \in BOOLEAN
           /\ answer.result = "accepted" => answer.effect
<1>1. \/ answer.effect = FALSE /\ answer.result \in {"rejected", "error"}
      \/ answer.effect = TRUE
    BY SMT DEF SubmitAutomationSuggestion
<1> QED BY <1>1

\* Insertions, claims, replays and their results keep the invariant.
LEMMA QueueKeeps == QueueInv /\ [QueueNext]_queueVars => QueueInv'
<1> SUFFICES ASSUME QueueInv, [QueueNext]_queueVars PROVE QueueInv'
    OBVIOUS
<1>1. ASSUME NEW p \in Policies, EnqueueSuggestion(p) PROVE QueueInv'
    <2> DEFINE row == Len(policyOf) + 1
    <2>1. /\ pending \in Seq(Rows) /\ policyOf \in Seq(Policies) /\ row \in Rows
          /\ pending' = Append(pending, row) /\ policyOf' = Append(policyOf, p)
          /\ UNCHANGED <<batch, acted, replayed>> /\ MaxRows \in Nat
        BY <1>1, QueueAssumption, SMT DEF EnqueueSuggestion, QueueInv, QueueTypeOK, Rows
    <2>2. /\ policyOf' \in Seq(Policies) /\ Len(policyOf') = row
        BY <2>1, SMT
    <2> HIDE DEF row
    <2>3. /\ pending' \in Seq(Rows) /\ Len(pending') = Len(pending) + 1
          /\ \A i \in 1 .. Len(pending) : pending'[i] = pending[i]
          /\ pending'[Len(pending) + 1] = row
        BY <2>1, AppendProperties, SMT
    <2>4. /\ DOMAIN pending = 1 .. Len(pending) /\ DOMAIN pending' = 1 .. Len(pending) + 1
          /\ Len(pending) \in Nat
        BY <2>1, <2>3, SMT
    <2>5. \A i \in 1 .. Len(pending) : pending[i] \in Nat /\ pending[i] < row
        BY <2>1, <2>4, SMTT(30) DEF QueueInv, row, Rows
    <2>6. \A i, j \in DOMAIN pending' : pending'[i] = pending'[j] => i = j
        <3>1. \A i, j \in 1 .. Len(pending) : pending[i] = pending[j] => i = j
            BY <2>4 DEF QueueInv, QueueTypeOK
        <3>2. row \in Nat
            BY <2>1, SMT DEF Rows
        <3> QED BY <2>3, <2>4, <2>5, <3>1, <3>2, SMT
    <2>7. \A i \in DOMAIN pending' : pending'[i] <= Len(policyOf')
        BY <2>1, <2>2, <2>3, <2>4, <2>5, SMT DEF Rows
    <2>8. QueuedUntilActed'
        <3> SUFFICES ASSUME NEW r \in 1 .. row
                     PROVE  r \in acted \/ \E i \in DOMAIN pending' : pending'[i] = r
            BY <2>1, <2>2 DEF QueuedUntilActed
        <3>1. CASE r = row
            BY <3>1, <2>3, <2>4, SMT
        <3>2. CASE r # row
            <4>1. r \in 1 .. Len(policyOf)
                BY <3>2, <2>1, SMT DEF row
            <4>2. r \in acted \/ \E i \in DOMAIN pending : pending[i] = r
                BY <4>1 DEF QueueInv, QueuedUntilActed
            <4> QED BY <4>2, <2>3, <2>4, SMT
        <3> QED BY <3>1, <3>2
    <2> QED BY <2>1, <2>2, <2>3, <2>6, <2>7, <2>8, SMTT(30) DEF QueueInv, QueueTypeOK, Rows
<1>2. ASSUME NEW e \in Engines, ClaimQueuedSuggestions(e) PROVE QueueInv'
    <2> DEFINE n == IF Len(pending) < Limit THEN Len(pending) ELSE Limit
               claimed == SubSeq(pending, 1, n)
    <2>1. n \in Nat /\ n <= Limit /\ n <= Len(pending) /\ pending \in Seq(Rows)
        BY QueueAssumption, SMT DEF QueueInv, QueueTypeOK
    <2> HIDE DEF n
    <2>2. claimed \in Seq(Rows) /\ Len(claimed) <= Limit
        BY <2>1, SubSeqProperties, QueueAssumption, SMT
    <2>3. batch' = [batch EXCEPT ![e] = claimed] /\ UNCHANGED <<pending, policyOf, acted, replayed>>
        BY <1>2 DEF ClaimQueuedSuggestions, n
    <2> HIDE DEF claimed
    <2> QED BY <2>2, <2>3 DEF QueueInv, QueueTypeOK, QueuedUntilActed
<1>3. ASSUME NEW e \in Engines, stopReplay(e) PROVE QueueInv'
    BY <1>3, QueueAssumption, SMT DEF stopReplay, QueueInv, QueueTypeOK, QueuedUntilActed
<1>4. ASSUME NEW e \in Engines, NEW written \in BOOLEAN, replaySuggestion(e, written) PROVE QueueInv'
    <2> DEFINE row == Head(batch[e])
    <2>1. batch[e] \in Seq(Rows) /\ batch[e] # <<>> /\ Len(batch[e]) <= Limit
        BY <1>4 DEF replaySuggestion, QueueInv, QueueTypeOK
    <2>2. row \in Rows /\ Tail(batch[e]) \in Seq(Rows) /\ Len(Tail(batch[e])) <= Limit
        BY <2>1, HeadTailProperties, QueueAssumption, SMT
    <2>3. PICK answer \in SubmitAutomationSuggestion(ActionType[policyOf[row]]) :
            /\ IF written THEN MarkQueuedSuggestionResult(row, answer) ELSE UNCHANGED pending
            /\ acted' = IF answer.effect THEN acted \union {row} ELSE acted
            /\ replayed' = row
        BY <1>4 DEF replaySuggestion
    <2>4. batch' = [batch EXCEPT ![e] = Tail(batch[e])] /\ UNCHANGED policyOf
        BY <1>4 DEF replaySuggestion
    <2> HIDE DEF row
    <2>5. /\ acted' \in SUBSET Rows /\ acted \subseteq acted' /\ replayed' \in Rows
          /\ answer.result = "accepted" => row \in acted'
        BY <2>2, <2>3, AcceptedTookEffect DEF QueueInv, QueueTypeOK
    <2>6. batch' \in [Engines -> Seq(Rows)] /\ \A f \in Engines : Len(batch'[f]) <= Limit
        BY <2>2, <2>4 DEF QueueInv, QueueTypeOK
    <2>7. /\ pending' \in Seq(Rows)
          /\ \A i, j \in DOMAIN pending' : pending'[i] = pending'[j] => i = j
          /\ \A i \in DOMAIN pending' : pending'[i] <= Len(policyOf)
          /\ \A i \in DOMAIN pending :
               pending[i] \in acted' \/ \E j \in DOMAIN pending' : pending'[j] = pending[i]
        <3>1. CASE written
            <4> DEFINE deleted == answer.result = "accepted"
            <4>1. settleRow(row, deleted) /\ deleted \in BOOLEAN
                BY <2>3, <3>1 DEF MarkQueuedSuggestionResult
            <4>2. deleted => row \in acted'
                BY <2>5
            <4> HIDE DEF deleted
            <4> QED BY <2>2, <4>1, <4>2, RowSettled, SMT
        <3>2. CASE ~written
            <4>1. pending' = pending
                BY <2>3, <3>2
            <4> QED BY <4>1 DEF QueueInv, QueueTypeOK
        <3> QED BY <3>1, <3>2
    <2>8. QueuedUntilActed'
        <3> SUFFICES ASSUME NEW r \in 1 .. Len(policyOf)
                     PROVE  r \in acted' \/ \E j \in DOMAIN pending' : pending'[j] = r
            BY <2>4 DEF QueuedUntilActed
        <3>1. r \in acted \/ \E i \in DOMAIN pending : pending[i] = r
            BY DEF QueueInv, QueuedUntilActed
        <3> QED BY <3>1, <2>5, <2>7
    <2> QED BY <2>4, <2>5, <2>6, <2>7, <2>8 DEF QueueInv, QueueTypeOK
<1>5. CASE UNCHANGED queueVars
    BY <1>5 DEF queueVars, QueueInv, QueueTypeOK, QueuedUntilActed
<1> QED BY <1>1, <1>2, <1>3, <1>4, <1>5 DEF QueueNext

\* For any replicas, policies, faults and rows, the service is type-correct: in
\* particular no row is listed twice and no replay holds more rows than its limit.
THEOREM ServiceTyped == Spec => []TypeOK
<1>1. Init => ElectionInv /\ QueueInv
    BY ElectionStarts, QueueStarts DEF Init
<1>2. ElectionInv /\ QueueInv /\ [Next]_vars => (ElectionInv /\ QueueInv)'
    BY ElectionKeeps, ServiceStepsElect, QueueKeeps, ServiceStepsQueue
<1>3. ElectionInv /\ QueueInv => TypeOK
    BY DEF ElectionInv, QueueInv, TypeOK
<1> QED BY <1>1, <1>2, <1>3, PTL DEF Spec

\* For any replicas, policies, faults and rows: however many engines replay the same
\* rows on lists they read earlier, and whatever results are not written, a queued
\* suggestion is deleted only after it took effect.
THEOREM NoSuggestionLost == Spec => []QueuedUntilActed
<1>1. Init => QueueInv
    BY QueueStarts DEF Init
<1>2. QueueInv /\ [Next]_vars => QueueInv'
    BY QueueKeeps, ServiceStepsQueue
<1>3. QueueInv => QueuedUntilActed
    BY DEF QueueInv
<1> QED BY <1>1, <1>2, <1>3, PTL DEF Spec

----------------------------------------------------------------------------
(* How many evaluators run at the same time *)

\* The replicas whose evaluator runs, or is about to: a notice is on its way, or the
\* session that holds the lock is theirs.
Contenders ==
    {r \in Replicas : evaluating[r] \/ updates[r] = TRUE \/ session[r] = "open"}

\* 1 when the lock can be taken, now or once Postgres notices the lost session.
LockFree == IF lock = NoOne \/ orphaned THEN 1 ELSE 0

\* Every fault frees the lock once, and every election uses that up.
ElectionBudget ==
    IsFiniteSet(Contenders) /\ Cardinality(Contenders) + LockFree <= faults + 1

\* Whatever is dropped from the channels, every evaluator beyond the first is paid for by
\* a broken session or a restart.
EvaluatorsBounded ==
    LET running == {r \in Replicas : evaluating[r]}
    IN  IsFiniteSet(running) /\ Cardinality(running) <= faults + 1

\* Steps that elect nobody: no replica joins the contenders, and the lock comes free only
\* with a fault.
LEMMA BudgetShrinks ==
    ASSUME ElectionInv, ElectionBudget, Contenders' \subseteq Contenders,
           (LockFree' = LockFree /\ faults' = faults) \/ faults' = faults + 1
    PROVE  ElectionBudget'
<1>1. IsFiniteSet(Contenders') /\ Cardinality(Contenders') <= Cardinality(Contenders)
    BY FS_Subset DEF ElectionBudget
<1>2. Cardinality(Contenders') \in Nat /\ Cardinality(Contenders) \in Nat /\ faults \in Int
    <2>1. Cardinality(Contenders') \in Nat
        BY <1>1, FS_CardinalityType
    <2>2. Cardinality(Contenders) \in Nat
        BY FS_CardinalityType DEF ElectionBudget
    <2>3. faults \in Int
        BY ElectionAssumption, SMT DEF ElectionInv, ElectionTypeOK
    <2> QED BY <2>1, <2>2, <2>3
<1>3. LockFree \in {0, 1} /\ LockFree' \in {0, 1}
    BY DEF LockFree
<1>4. ASSUME NEW c \in Nat, NEW d \in Nat, d <= c, NEW k \in {0, 1}, NEW m \in {0, 1}, NEW f \in Int,
             NEW g, (m = k /\ g = f) \/ g = f + 1, c + k <= f + 1
      PROVE  d + m <= g + 1
    BY <1>4, SMT
<1>5. Cardinality(Contenders') + LockFree' <= faults' + 1
    BY <1>1, <1>2, <1>3, <1>4 DEF ElectionBudget
<1> QED BY <1>1, <1>5 DEF ElectionBudget

\* Every step of the election stays within the budget.
LEMMA BudgetKeeps ==
    ASSUME ElectionInv, ElectionBudget, [ElectionNext]_electionVars PROVE ElectionBudget'
<1> USE ElectionAssumption DEF ElectionInv, ElectionTypeOK
<1>1. ASSUME NEW r \in Replicas, acquireLock(r) PROVE ElectionBudget'
    <2>1. Contenders' \subseteq Contenders \union {r}
        BY <1>1 DEF acquireLock, Notify, Contenders
    <2>2. LockFree = 1 /\ LockFree' = 0 /\ faults' = faults
        BY <1>1 DEF acquireLock, LockFree, FreeLockIsClean
    <2>3. /\ IsFiniteSet(Contenders \union {r})
          /\ Cardinality(Contenders \union {r}) <= Cardinality(Contenders) + 1
          /\ Cardinality(Contenders) \in Nat
        <3>1. IsFiniteSet(Contenders) /\ Cardinality(Contenders) \in Nat
            BY FS_CardinalityType DEF ElectionBudget
        <3>2. /\ IsFiniteSet(Contenders \union {r})
              /\ \/ Cardinality(Contenders \union {r}) = Cardinality(Contenders)
                 \/ Cardinality(Contenders \union {r}) = Cardinality(Contenders) + 1
            BY <3>1, FS_AddElement
        <3> HIDE DEF Contenders
        <3> QED BY <3>1, <3>2, SMT
    <2>4. /\ IsFiniteSet(Contenders')
          /\ Cardinality(Contenders') <= Cardinality(Contenders \union {r})
        BY <2>1, <2>3, FS_Subset
    <2>5. Cardinality(Contenders') \in Nat /\ Cardinality(Contenders \union {r}) \in Nat
        BY <2>3, <2>4, FS_CardinalityType
    <2>6. ASSUME NEW c \in Nat, NEW d \in Nat, NEW e \in Nat, NEW f \in Int,
                 d <= e, e <= c + 1, c + 1 <= f + 1
          PROVE  d + 0 <= f + 1
        BY <2>6, SMT
    <2>7. faults \in Int /\ Cardinality(Contenders) + 1 <= faults + 1
        <3>1. faults \in Int
            BY SMT
        <3> QED BY <2>2, <3>1 DEF ElectionBudget
    <2>8. Cardinality(Contenders') + LockFree' <= faults' + 1
        BY <2>2, <2>3, <2>4, <2>5, <2>6, <2>7
    <2> QED BY <2>4, <2>8 DEF ElectionBudget
<1>2. ASSUME NEW r \in Replicas, checkSession(r) \/ takeNotice(r) PROVE ElectionBudget'
    <2>1. Contenders' \subseteq Contenders
        BY <1>2 DEF checkSession, revokeLeader, takeNotice, Notify, Contenders
    <2>2. UNCHANGED <<lock, orphaned, faults>>
        BY <1>2 DEF checkSession, revokeLeader, takeNotice
    <2>3. LockFree' = LockFree /\ faults' = faults
        BY <2>2 DEF LockFree
    <2> QED BY <2>1, <2>3, BudgetShrinks
<1>3. ASSUME NEW r \in Replicas, SessionBreaks(r) \/ ReplicaRestart(r) PROVE ElectionBudget'
    <2>1. ASSUME NEW q \in Contenders' PROVE q \in Contenders
        <3>1. q \in Replicas /\ (evaluating'[q] \/ updates'[q] = TRUE \/ session'[q] = "open")
            BY <2>1 DEF Contenders
        <3>2. CASE SessionBreaks(r)
            BY <3>1, <3>2 DEF SessionBreaks, Contenders
        <3>3. CASE ReplicaRestart(r)
            BY <3>1, <3>3 DEF ReplicaRestart, Contenders
        <3> QED BY <1>3, <3>2, <3>3
    <2>2. faults' = faults + 1
        BY <1>3 DEF SessionBreaks, ReplicaRestart
    <2> QED BY <2>1, <2>2, BudgetShrinks
<1>4. CASE PostgresReleases
    <2>1. Contenders' \subseteq Contenders
        BY <1>4 DEF PostgresReleases, Contenders
    <2>2. LockFree' = LockFree /\ faults' = faults
        BY <1>4 DEF PostgresReleases, LockFree
    <2> QED BY <2>1, <2>2, BudgetShrinks
<1>5. CASE UNCHANGED electionVars
    BY <1>5 DEF electionVars, ElectionBudget, Contenders, LockFree
<1> QED BY <1>1, <1>2, <1>3, <1>4, <1>5 DEF ElectionNext, step

\* For any replicas, elections and lost notices: at most one evaluator more runs than
\* sessions broke or replicas restarted. Two evaluators at once need a fault.
THEOREM EvaluatorsNeedFaults == Spec => []EvaluatorsBounded
<1>1. Init => ElectionInv /\ ElectionBudget
    <2> SUFFICES ASSUME Init PROVE ElectionBudget
        BY ElectionStarts DEF Init
    <2>1. Contenders = {}
        BY ElectionAssumption DEF Init, ElectionInit, Contenders
    <2>2. LockFree = 1 /\ faults = 0
        BY DEF Init, ElectionInit, LockFree
    <2>3. IsFiniteSet({}) /\ Cardinality({}) = 0
        BY FS_EmptySet
    <2>4. 0 + 1 <= 0 + 1
        BY SMT
    <2> QED BY <2>1, <2>2, <2>3, <2>4 DEF ElectionBudget
<1>2. ElectionInv /\ ElectionBudget /\ [Next]_vars => (ElectionInv /\ ElectionBudget)'
    BY ElectionKeeps, BudgetKeeps, ServiceStepsElect
<1>3. ElectionInv /\ ElectionBudget => EvaluatorsBounded
    <2> SUFFICES ASSUME ElectionInv, ElectionBudget PROVE EvaluatorsBounded
        OBVIOUS
    <2> DEFINE running == {r \in Replicas : evaluating[r]}
    <2>1. running \subseteq Contenders
        BY DEF Contenders
    <2>2. IsFiniteSet(running) /\ Cardinality(running) <= Cardinality(Contenders)
        BY <2>1, FS_Subset DEF ElectionBudget
    <2>3. Cardinality(running) \in Nat /\ Cardinality(Contenders) \in Nat /\ LockFree \in {0, 1}
        BY <2>2, FS_CardinalityType DEF ElectionBudget, LockFree
    <2>4. faults \in Int
        BY ElectionAssumption, SMT DEF ElectionInv, ElectionTypeOK
    <2>5. ASSUME NEW c \in Nat, NEW d \in Nat, NEW k \in {0, 1}, NEW f \in Int, d <= c, c + k <= f + 1
          PROVE  d <= f + 1
        BY <2>5, SMT
    <2> QED BY <2>2, <2>3, <2>4, <2>5 DEF EvaluatorsBounded, ElectionBudget
<1> QED BY <1>1, <1>2, <1>3, PTL DEF Spec
=============================================================================

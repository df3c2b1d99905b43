--------------------------- MODULE LeaderElection ---------------------------
(***************************************************************************)
(* Leadership among the replicas of persys-automation: a session-level     *)
(* advisory lock in Postgres (internal/store/leader_elector.go), notices   *)
(* of a change on a channel with one place, and the goroutine in           *)
(* cmd/automation/main.go that starts and stops the evaluator on them.     *)
(***************************************************************************)
EXTENDS Naturals

CONSTANTS
    Replicas,
    NoOne,          \* nobody holds the lock
    NoNotice,       \* the channel is empty
    MaxFaults       \* bound on broken sessions and restarts

ASSUME ElectionAssumption ==
    NoOne \notin Replicas /\ NoNotice \notin BOOLEAN /\ MaxFaults \in Nat

VARIABLES
    lock,           \* the replica whose session holds the lock
    orphaned,       \* whether Postgres has yet to notice that this session is gone
    session,        \* e.conn: "none", "open" or "broken"
    isLeader,       \* e.isLeader
    updates,        \* the channel returned by Start
    evaluating,     \* evalCancel # nil
    dropped,        \* history: the replicas that lost a notice to a full channel
    faults

electionVars == <<lock, orphaned, session, isLeader, updates, evaluating, dropped, faults>>

ElectionInit ==
    /\ lock = NoOne /\ orphaned = FALSE
    /\ session = [r \in Replicas |-> "none"]
    /\ isLeader = [r \in Replicas |-> FALSE]
    /\ updates = [r \in Replicas |-> NoNotice]
    /\ evaluating = [r \in Replicas |-> FALSE]
    /\ dropped = {} /\ faults = 0

\* The send with a default branch: a notice that finds the channel full is lost.
Notify(r, leading) ==
    IF updates[r] = NoNotice
    THEN updates' = [updates EXCEPT ![r] = leading] /\ UNCHANGED dropped
    ELSE dropped' = dropped \union {r} /\ UNCHANGED updates

\* Mutant: what the query returned is not looked at.
acquireLockUnchecked(r) ==
    /\ ~isLeader[r]
    /\ lock' = r
    /\ session' = [session EXCEPT ![r] = "open"]
    /\ isLeader' = [isLeader EXCEPT ![r] = TRUE]
    /\ Notify(r, TRUE)
    /\ UNCHANGED <<orphaned, evaluating, faults>>

\* step of a replica that does not lead: pg_try_advisory_lock succeeds. When the lock
\* is taken, or the query fails, the step changes nothing.
acquireLock(r) ==
    /\ ~isLeader[r] /\ lock = NoOne
    /\ lock' = r
    /\ session' = [session EXCEPT ![r] = "open"]
    /\ isLeader' = [isLeader EXCEPT ![r] = TRUE]
    /\ Notify(r, TRUE)
    /\ UNCHANGED <<orphaned, evaluating, faults>>

\* Mutant: the flag is cleared and nobody is told.
revokeLeaderSilently(r) ==
    /\ session' = [session EXCEPT ![r] = "none"]
    /\ isLeader' = [isLeader EXCEPT ![r] = FALSE]
    /\ UNCHANGED <<lock, orphaned, updates, dropped, evaluating, faults>>

\* revokeLeader on a broken session: the unlock does not get through.
revokeLeader(r) ==
    /\ session' = [session EXCEPT ![r] = "none"]
    /\ isLeader' = [isLeader EXCEPT ![r] = FALSE]
    /\ Notify(r, FALSE)
    /\ UNCHANGED <<lock, orphaned, evaluating, faults>>

\* Mutant: a leader with a connection never looks whether it still works.
checkSessionLenient(r) == isLeader[r] /\ session[r] = "none" /\ revokeLeader(r)

\* step of the leader whose SELECT 1 fails. When it succeeds nothing changes.
checkSession(r) == isLeader[r] /\ session[r] = "broken" /\ revokeLeader(r)

step(r) == acquireLock(r) \/ checkSession(r)

\* The goroutine of main takes a notice and starts or stops the evaluator.
takeNotice(r) ==
    /\ updates[r] # NoNotice
    /\ evaluating' = [evaluating EXCEPT ![r] = updates[r]]
    /\ updates' = [updates EXCEPT ![r] = NoNotice]
    /\ UNCHANGED <<lock, orphaned, session, isLeader, dropped, faults>>

\* The connection of the leader breaks. Postgres may notice at once or later.
SessionBreaks(r) ==
    /\ faults < MaxFaults /\ session[r] = "open"
    /\ faults' = faults + 1
    /\ session' = [session EXCEPT ![r] = "broken"]
    /\ orphaned' = TRUE
    /\ UNCHANGED <<lock, isLeader, updates, evaluating, dropped>>

\* Postgres ends the session of a lost connection and frees its lock.
PostgresReleases ==
    /\ orphaned
    /\ lock' = NoOne /\ orphaned' = FALSE
    /\ UNCHANGED <<session, isLeader, updates, evaluating, dropped, faults>>

\* The process ends, in whatever way, and comes back.
ReplicaRestart(r) ==
    /\ faults < MaxFaults
    /\ faults' = faults + 1
    /\ orphaned' = (orphaned \/ session[r] = "open")
    /\ session' = [session EXCEPT ![r] = "none"]
    /\ isLeader' = [isLeader EXCEPT ![r] = FALSE]
    /\ updates' = [updates EXCEPT ![r] = NoNotice]
    /\ evaluating' = [evaluating EXCEPT ![r] = FALSE]
    /\ dropped' = dropped \ {r}
    /\ UNCHANGED lock

ElectionNext ==
    \/ \E r \in Replicas : step(r) \/ takeNotice(r) \/ SessionBreaks(r) \/ ReplicaRestart(r)
    \/ PostgresReleases

ElectionSpec == ElectionInit /\ [][ElectionNext]_electionVars

----------------------------------------------------------------------------
(* Properties *)

\* Every variable holds what the Go variable or Postgres can hold.
ElectionTypeOK ==
    /\ lock \in Replicas \union {NoOne} /\ orphaned \in BOOLEAN
    /\ session \in [Replicas -> {"none", "open", "broken"}]
    /\ isLeader \in [Replicas -> BOOLEAN]
    /\ updates \in [Replicas -> BOOLEAN \union {NoNotice}]
    /\ evaluating \in [Replicas -> BOOLEAN]
    /\ dropped \in SUBSET Replicas /\ faults \in 0 .. MaxFaults

\* Two replicas may believe that they lead, one of them on a session that is gone, but
\* at most one leads on a session that Postgres knows, and it has the lock.
OneLiveLeader ==
    \A r, q \in Replicas :
      /\ session[r] = "open" => lock = r /\ ~orphaned
      /\ session[r] = "open" /\ session[q] = "open" => r = q

\* Unless a notice was lost, the evaluator of a replica follows its leadership: what is
\* in the channel is the current state, and an empty channel means it was acted on.
NoticesFollowLeadership ==
    \A r \in Replicas \ dropped :
      IF updates[r] = NoNotice THEN evaluating[r] = isLeader[r] ELSE updates[r] = isLeader[r]
=============================================================================

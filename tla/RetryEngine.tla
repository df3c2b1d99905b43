---------------------------- MODULE RetryEngine ----------------------------
(***************************************************************************)
(* The two backoff mechanisms of the reconciler, on one workload whose     *)
(* record no other goroutine is writing: retries after failures            *)
(* (workload_control.go, UpdateWorkloadRetryOnFailure ...) and repeated    *)
(* applies of a workload that does not keep running (reconciler.go,        *)
(* reapplyStillGuarded, nextReapplyAttempt, shouldHaltReapply).            *)
(*                                                                         *)
(* A timestamp in the record is the time left until it, so that the clock  *)
(* itself is no part of the state; the second that RFC3339 may cut from    *)
(* one is less than a tick. A reconciliation pass is one step: what        *)
(* goroutines do between its reads and its saves is in WorkloadLifecycle.  *)
(***************************************************************************)
EXTENDS Integers

CONSTANTS
    MinAttempts,        \* minAttemptsBeforeBackoff (3)
    MaxAttempts,        \* Retry.MaxAttempts (5)
    RetryBase,          \* first delay of retryBackoff (5s)
    MaxRetryBackoff,    \* its cap (2m)
    Grace,              \* defaultFailureGracePeriod (2m)
    ReapplyBase,        \* baseReapplyBackoff of the workload (45s for a container)
    MaxReapplyBackoff,  \* maxReapplyBackoff (15m)
    RetryOverflowAt,    \* doublings of 5s that no longer fit a Duration (31)
    ReapplyOverflowAt,  \* doublings of ReapplyBase that no longer do (28 for 45s)
    Faults,             \* what else may go wrong in a pass
    None,               \* no such timestamp in the record
    MaxFailures,        \* attempts are told apart up to this number
    MaxReapplies,       \* reapplies are told apart up to this number
    MaxCalls            \* bound on API calls

ASSUME AttemptsAssumption == MinAttempts \in Nat \ {0} /\ MaxAttempts \in Nat \ {0}
ASSUME DelaysAssumption ==
    /\ RetryBase \in Nat \ {0} /\ MaxRetryBackoff \in Nat /\ Grace \in Nat
    /\ ReapplyBase \in Nat \ {0} /\ MaxReapplyBackoff \in Nat
    /\ ReapplyBase <= MaxReapplyBackoff
    /\ RetryOverflowAt \in Nat /\ ReapplyOverflowAt \in Nat
ASSUME EngineBoundsAssumption ==
    /\ MaxFailures \in Nat /\ MaxReapplies \in Nat /\ MaxCalls \in Nat
    /\ MaxAttempts <= MaxFailures /\ MinAttempts <= MaxReapplies
ASSUME DoublingAssumption == \A k \in 0 .. MaxFailures + MaxReapplies : 2 ^ k >= 1
ASSUME FaultsAssumption == Faults \subseteq {"NodeLost", "NoRuntime", "NoAnswer"}
ASSUME NoneAssumption == None \notin Int

Actual == {"Missing", "Pending", "Running", "Stopped", "Failed"}

\* Pending stands for Scheduled too.
Statuses == {"Pending", "Running", "Stopped", "Failed", "RetryPending", "Updating"}

VARIABLES
    desired,        \* DesiredState
    status,         \* Status
    attempts,       \* Retry.Attempts
    nextRetry,      \* time left until Retry.NextRetryAt, or None when it is zero
    grace,          \* time left of the grace period since failureObservedAt, or None
    reapplies,      \* reapplyAttempts in the metadata, 0 when absent
    guard,          \* time left until reapplyNextAt, or None
    guardRev,       \* whether lastApplyRevision is the current revision
    terminal,       \* retry_terminal or a non-retryable failure_reason in the metadata
    lastHalted,     \* whether last_action is TerminalFailureNoReapply
    actual,         \* the state the agent reports
    verdict,        \* whether the agent reports a failure as non-retryable
    calls,          \* API calls so far
    sinceApply,     \* history: time since the last apply of this revision, up to ReapplyBase
    sinceFailure    \* history: time since the last counted failure, up to MaxRetryBackoff

retryVars == <<attempts, nextRetry, grace>>
reapplyVars == <<reapplies, guard, guardRev>>
agentVars == <<actual, verdict>>
history == <<sinceApply, sinceFailure>>
vars == <<desired, status, retryVars, reapplyVars, terminal, lastHalted, agentVars, calls, history>>

AtMost(n, cap) == IF n > cap THEN cap ELSE n

----------------------------------------------------------------------------
(* Delays *)

\* retryBackoff doubles in 64 bits. Past their width the product is negative,
\* which the cap lets pass as no delay, or large and capped.
retryBackoff(n) ==
    LET doublings == n - MinAttempts
    IN  IF n < MinAttempts THEN {0}
        ELSE IF doublings >= RetryOverflowAt THEN {0, MaxRetryBackoff}
        ELSE {AtMost(RetryBase * 2 ^ doublings, MaxRetryBackoff)}

\* nextReapplyAttempt computes in floating point and converts to a Duration. A
\* value that does not fit converts to whatever the platform gives: a negative
\* Duration, which the cap lets pass, or the largest one.
nextReapplyAttempt(n) ==
    LET doublings == IF n < MinAttempts THEN 0 ELSE n - MinAttempts
    IN  IF doublings >= ReapplyOverflowAt THEN {0, MaxReapplyBackoff}
        ELSE {AtMost(ReapplyBase * 2 ^ doublings, MaxReapplyBackoff)}

----------------------------------------------------------------------------
(* The steps a pass is made of *)

\* Mutant: one attempt more before the gate holds.
BackoffWaitLate == attempts > MinAttempts /\ nextRetry # None /\ nextRetry > 0

\* The gate at the start of ReconcileWorkload.
BackoffWait == attempts >= MinAttempts /\ nextRetry # None /\ nextRetry > 0

dueForRetry == attempts < MaxAttempts /\ nextRetry = 0

\* NextRetryAt and Status once a retry that is due has been cleared.
RetryDue == IF dueForRetry THEN None ELSE nextRetry
StatusDue == IF dueForRetry THEN "Pending" ELSE status

\* A pass that stores nothing else itself. updateWorkloadReconciliationStatus
\* overwrites last_action, unless the metadata goes to Redis.
LastActionKept == lastHalted' \in {FALSE, lastHalted /\ ~dueForRetry}

\* getActualWorkloadState merges what the agent reports into the record, but not
\* into the copy the pass goes on with.
Reported == terminal \/ verdict

\* Mutant: every failure starts the grace period again.
UpdateWorkloadRetryOnFailureRegrants ==
    LET n == IF attempts >= MaxAttempts - 1 THEN attempts ELSE attempts + 1
    IN  /\ attempts' = AtMost(n, MaxFailures)
        /\ status' = "RetryPending" /\ grace' = Grace /\ nextRetry' \in retryBackoff(n)
        /\ lastHalted' = FALSE /\ sinceFailure' = 0

\* Mutant: within the grace period the attempts fall back below their maximum.
UpdateWorkloadRetryOnFailureForgives ==
    LET left == IF grace = None THEN Grace ELSE grace
        inGrace == left > 0
        n == IF inGrace /\ attempts >= MaxAttempts - 1 THEN MaxAttempts - 1 ELSE attempts + 1
    IN  /\ attempts' = AtMost(n, MaxFailures)
        /\ IF ~inGrace /\ n >= MaxAttempts
           THEN status' = "Failed" /\ grace' = None /\ nextRetry' = RetryDue
           ELSE status' = "RetryPending" /\ grace' = left /\ nextRetry' \in retryBackoff(n)
        /\ lastHalted' = FALSE /\ sinceFailure' = 0

\* UpdateWorkloadRetryOnFailure on the record as the pass left it.
UpdateWorkloadRetryOnFailure ==
    LET left == IF grace = None THEN Grace ELSE grace
        inGrace == left > 0
        n == IF inGrace /\ attempts >= MaxAttempts - 1 THEN attempts ELSE attempts + 1
    IN  /\ attempts' = AtMost(n, MaxFailures)
        /\ IF ~inGrace /\ n >= MaxAttempts
           THEN status' = "Failed" /\ grace' = None /\ nextRetry' = RetryDue
           ELSE status' = "RetryPending" /\ grace' = left /\ nextRetry' \in retryBackoff(n)
        /\ lastHalted' = FALSE /\ sinceFailure' = 0

shouldHaltReapply ==
    \/ terminal
    \/ attempts >= MaxAttempts /\ (actual = "Failed" \/ StatusDue = "Failed")

\* Mutant: one reapply more before the guard holds.
reapplyStillGuardedLate == reapplies > MinAttempts /\ guardRev /\ guard # None /\ guard > 0

reapplyStillGuarded == reapplies >= MinAttempts /\ guardRev /\ guard # None /\ guard > 0

clearReapplyMetadata == reapplies' = 0 /\ guard' = None /\ guardRev' = FALSE

NeedsRunning == desired = "Running" /\ actual \in {"Missing", "Stopped", "Failed"}
NeedsStop == desired = "Stopped" /\ actual \in {"Running", "Pending"}

----------------------------------------------------------------------------
(* Reconciliation passes *)

NoAction ==
    /\ ~BackoffWait /\ ~NeedsRunning /\ ~NeedsStop
    /\ nextRetry' = RetryDue /\ status' = StatusDue /\ terminal' = Reported
    /\ LastActionKept
    /\ UNCHANGED <<desired, attempts, grace, reapplyVars, agentVars, calls, history>>

\* The copy is saved, as Failed, unless that was the last thing done to it.
Halt ==
    /\ ~BackoffWait /\ NeedsRunning /\ shouldHaltReapply
    /\ nextRetry' = RetryDue
    /\ IF lastHalted /\ ~dueForRetry
       THEN /\ status' = StatusDue /\ terminal' = Reported
            /\ UNCHANGED reapplyVars
       ELSE /\ status' = "Failed" /\ UNCHANGED terminal
            /\ clearReapplyMetadata
    /\ lastHalted' \in BOOLEAN
    /\ UNCHANGED <<desired, attempts, grace, agentVars, calls, history>>

ReapplyBackoffWait ==
    /\ ~BackoffWait /\ NeedsRunning /\ ~shouldHaltReapply /\ reapplyStillGuarded
    /\ nextRetry' = RetryDue /\ status' = StatusDue /\ terminal' = Reported
    /\ LastActionKept
    /\ UNCHANGED <<desired, attempts, grace, reapplyVars, agentVars, calls, history>>

MayApply ==
    /\ ~BackoffWait
    /\ NeedsStop \/ (NeedsRunning /\ ~shouldHaltReapply /\ ~reapplyStillGuarded)

\* The status call before the apply finds that the agent has got there itself.
\* What resetReapplyBackoff saves is the copy, without the agent's report.
AlreadyThere ==
    /\ MayApply
    /\ actual' = desired /\ verdict' = FALSE
    /\ nextRetry' = RetryDue /\ LastActionKept
    /\ clearReapplyMetadata
    /\ IF reapplies > 0 THEN status' = StatusDue /\ UNCHANGED terminal
       ELSE status' = desired /\ terminal' = Reported
    /\ UNCHANGED <<desired, attempts, grace, calls, history>>

\* The apply succeeds. The copy is saved with the new window, over the status
\* and the metadata of the agent's answer.
Apply ==
    /\ MayApply
    /\ nextRetry' = RetryDue /\ status' = StatusDue
    /\ IF desired = "Running"
       THEN /\ reapplies' = AtMost(reapplies + 1, MaxReapplies) /\ guardRev' = TRUE
            /\ guard' \in nextReapplyAttempt(reapplies + 1)
            /\ actual' = "Pending" /\ sinceApply' = 0
       ELSE clearReapplyMetadata /\ actual' = "Stopped" /\ UNCHANGED sinceApply
    /\ verdict' = FALSE /\ LastActionKept
    /\ UNCHANGED <<desired, attempts, grace, terminal, calls, sinceFailure>>

\* The apply, or the status call before it, fails.
ApplyFails ==
    /\ MayApply
    /\ UpdateWorkloadRetryOnFailure /\ terminal' = Reported
    /\ UNCHANGED <<desired, reapplyVars, agentVars, calls, sinceApply>>

\* handleRuntimeUnavailable: the copy is saved without a node. The next pass that
\* can assign one finds that the workload is not known there.
ReschedulePending ==
    /\ "NoRuntime" \in Faults /\ MayApply
    /\ nextRetry' = RetryDue /\ status' = "Pending"
    /\ actual' = "Missing" /\ verdict' = FALSE /\ lastHalted' = FALSE
    /\ UNCHANGED <<desired, attempts, grace, reapplyVars, terminal, calls, history>>

\* handleUnavailableAssignedNode finds no other node.
AwaitFailover ==
    /\ "NodeLost" \in Faults /\ ~BackoffWait
    /\ UpdateWorkloadRetryOnFailure
    /\ UNCHANGED <<desired, reapplyVars, terminal, agentVars, calls, sinceApply>>

\* It finds one. The pass goes on there as the next pass would.
Reschedule ==
    /\ "NodeLost" \in Faults /\ ~BackoffWait
    /\ attempts' = 0 /\ nextRetry' = None /\ status' = "Pending"
    /\ actual' = "Missing" /\ verdict' = FALSE /\ lastHalted' = FALSE
    /\ UNCHANGED <<desired, grace, reapplyVars, terminal, calls, history>>

\* The agent does not answer, in a way that is not taken for a lost node.
Investigate ==
    /\ "NoAnswer" \in Faults /\ ~BackoffWait
    /\ nextRetry' = RetryDue /\ status' = StatusDue
    /\ LastActionKept
    /\ UNCHANGED <<desired, attempts, grace, reapplyVars, terminal, agentVars, calls, history>>

----------------------------------------------------------------------------
(* Callers, heartbeats, the monitor, the agent and the clock *)

\* A failure_reason in the metadata stays.
TriggerWorkloadRetry ==
    /\ calls < MaxCalls /\ calls' = calls + 1
    /\ attempts' = 0 /\ nextRetry' = 0 /\ clearReapplyMetadata
    /\ terminal' \in {FALSE, terminal} /\ lastHalted' = FALSE
    /\ UNCHANGED <<desired, status, grace, agentVars, history>>

\* A change of the spec makes a new revision; only a change of the desired state
\* alone clears the window.
UpdateWorkloadSpec ==
    /\ calls < MaxCalls /\ calls' = calls + 1
    /\ desired' \in {"Running", "Stopped"}
    /\ \/ /\ status' = "Updating" /\ guardRev' = FALSE /\ sinceApply' = ReapplyBase
          /\ UNCHANGED <<reapplies, guard>>
       \/ /\ desired' # desired
          /\ clearReapplyMetadata /\ UNCHANGED <<status, sinceApply>>
       \/ desired' = desired /\ UNCHANGED <<status, reapplyVars, sinceApply>>
    /\ lastHalted' = FALSE
    /\ UNCHANGED <<retryVars, terminal, agentVars, sinceFailure>>

\* A heartbeat stores the state of the workload; the monitor also what the agent
\* says about it.
UpdateWorkloadStatus ==
    /\ status # actual
    /\ status' = actual
    /\ lastHalted' = (lastHalted /\ actual # "Failed")

Heartbeat ==
    /\ actual # "Missing" /\ UpdateWorkloadStatus
    /\ UNCHANGED <<desired, retryVars, reapplyVars, terminal, agentVars, calls, history>>

syncWorkloadStatus ==
    /\ actual # "Missing"
    /\ UpdateWorkloadStatus \/ (status = actual /\ UNCHANGED <<status, lastHalted>>)
    /\ terminal' = Reported
    /\ UNCHANGED <<desired, retryVars, reapplyVars, agentVars, calls, history>>

AgentStarts ==
    /\ actual = "Pending" /\ actual' = "Running"
    /\ UNCHANGED <<desired, status, retryVars, reapplyVars, terminal, lastHalted, verdict, calls, history>>

AgentFails ==
    /\ actual \in {"Pending", "Running"}
    /\ actual' \in {"Failed", "Stopped", "Missing"}
    /\ verdict' \in BOOLEAN /\ (actual' = "Missing" => ~verdict')
    /\ UNCHANGED <<desired, status, retryVars, reapplyVars, terminal, lastHalted, calls, history>>

Less(t) == IF t = None \/ t = 0 THEN t ELSE t - 1

Tick ==
    /\ nextRetry' = Less(nextRetry) /\ grace' = Less(grace) /\ guard' = Less(guard)
    /\ sinceApply' = AtMost(sinceApply + 1, ReapplyBase)
    /\ sinceFailure' = AtMost(sinceFailure + 1, MaxRetryBackoff)
    /\ UNCHANGED <<desired, status, attempts, reapplies, guardRev, terminal, lastHalted, agentVars,
                   calls>>

----------------------------------------------------------------------------
Init ==
    /\ desired \in {"Running", "Stopped"} /\ status = "Pending"
    /\ attempts = 0 /\ nextRetry = None /\ grace = None
    /\ reapplies = 0 /\ guard = None /\ guardRev = FALSE
    /\ terminal = FALSE /\ lastHalted = FALSE
    /\ actual = "Missing" /\ verdict = FALSE /\ calls = 0
    /\ sinceApply = ReapplyBase /\ sinceFailure = MaxRetryBackoff

\* What a pass does when the agent answers.
AnsweredPass ==
    NoAction \/ Halt \/ ReapplyBackoffWait \/ AlreadyThere \/ Apply \/ ApplyFails

ReconcileWorkload ==
    \/ AnsweredPass
    \/ ReschedulePending \/ AwaitFailover \/ Reschedule \/ Investigate

Next ==
    \/ ReconcileWorkload \/ TriggerWorkloadRetry \/ UpdateWorkloadSpec
    \/ Heartbeat \/ syncWorkloadStatus \/ AgentStarts \/ AgentFails \/ Tick

Spec == Init /\ [][Next]_vars

\* Time passes, and the loop comes back to the workload.
FairSpec == Spec /\ WF_vars(Tick) /\ WF_vars(AnsweredPass)

----------------------------------------------------------------------------
(* Properties *)

\* Every variable has its type, and a window is recorded exactly when applies
\* of the revision are.
TypeOK ==
    /\ desired \in {"Running", "Stopped"} /\ status \in Statuses
    /\ attempts \in 0..MaxFailures
    /\ nextRetry \in {None} \cup 0..MaxRetryBackoff
    /\ grace \in {None} \cup 0..Grace
    /\ reapplies \in 0..MaxReapplies
    /\ guard \in {None} \cup 0..MaxReapplyBackoff
    /\ (reapplies = 0) = (guard = None)
    /\ guardRev \in BOOLEAN /\ terminal \in BOOLEAN /\ lastHalted \in BOOLEAN
    /\ actual \in Actual /\ verdict \in BOOLEAN /\ calls \in 0..MaxCalls
    /\ sinceApply \in 0..ReapplyBase /\ sinceFailure \in 0..MaxRetryBackoff

Applies == sinceApply' = 0 /\ actual' = "Pending" /\ actual # "Pending"

\* Once a revision has been applied MinAttempts times, it is not applied again
\* within baseReapplyBackoff of the last apply, whatever callers, heartbeats, the
\* monitor and failing passes do to the record in between.
ReapplySpacing ==
    [][Applies /\ guardRev /\ reapplies >= MinAttempts => sinceApply >= ReapplyBase]_vars

\* After MinAttempts failures and before the last one, the delay retryBackoff
\* gives passes between a failure and the next apply, unless the attempts were
\* reset by a manual retry or a failover.
RetrySpacing ==
    [][Applies /\ attempts < MaxAttempts => \E d \in retryBackoff(attempts) : sinceFailure >= d]_vars

\* What the counters and the timestamp of models.RetryState come down to.
RetryState ==
    IF attempts >= MaxAttempts THEN "exhausted" ELSE IF nextRetry = None THEN "idle" ELSE "armed"

Contract == INSTANCE RetryContract WITH retry <- RetryState

\* The counters, delays and the grace period implement the three retry states that
\* module WorkloadLifecycle works with: a failure plans a retry or uses the attempts
\* up, a planned retry is taken once, and no failure, grace period, pass or report
\* gives attempts back that are used up (UpdateWorkloadRetryOnFailure, dueForRetry,
\* TriggerWorkloadRetry, handleUnavailableAssignedNode).
KeepsRetryContract == Contract!Spec

\* A workload that should run and does not is applied again or is marked Failed
\* for the operator to see: no window, gate or grace period keeps it waiting for
\* ever, unless it is moved from node to node for ever, which starts the attempts
\* afresh each time.
AppliedOrFailed ==
    <>[][~Reschedule]_vars =>
        (NeedsRunning ~> (~NeedsRunning \/ status = "Failed" \/ lastHalted))
=============================================================================

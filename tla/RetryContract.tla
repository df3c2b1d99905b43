--------------------------- MODULE RetryContract ---------------------------
(***************************************************************************)
(* What the bookkeeping of retries promises to whoever reads a record,     *)
(* without counters, delays and the grace period: whether a retry is       *)
(* planned, and whether the attempts are used up. These are the three      *)
(* values WorkloadLifecycle keeps of models.RetryState.                    *)
(***************************************************************************)

CONSTANT Statuses

VARIABLES
    retry,      \* "idle", "armed" (a retry is planned) or "exhausted"
    status      \* Status of the record

vars == <<retry, status>>

Init == retry = "idle" /\ status = "Pending"

\* A failure uses the attempts up or plans a retry. It gives no attempts back.
Fail ==
    \/ retry' = "exhausted" /\ status' = "Failed"
    \/ retry' = (IF retry = "exhausted" THEN retry ELSE "armed") /\ status' = "RetryPending"

\* A pass, a heartbeat or a caller stores another status. Only a failure stores
\* RetryPending.
Report == retry' = retry /\ status' \in Statuses \ {"RetryPending"}

\* A planned retry is due: the pass that takes it leaves none planned and does not
\* leave the record waiting for one.
TakeRetry == retry = "armed" /\ retry' = "idle" /\ status' \in Statuses \ {"RetryPending"}

\* The operator plans a retry, whatever came before.
ManualRetry == retry' = "armed" /\ status' = status

\* The workload is placed on another node with all its attempts.
Failover == retry' = "idle" /\ status' = "Pending"

Next == Fail \/ Report \/ TakeRetry \/ ManualRetry \/ Failover

Spec == Init /\ [][Next]_vars

\* A record that says RetryPending is not forgotten: a retry is planned, or the
\* attempts are used up.
PendingIsPlanned == status = "RetryPending" => retry # "idle"

\* Attempts that are used up stay used up until the operator or a failover gives new
\* ones.
ExhaustedStays ==
    [][retry = "exhausted" /\ retry' # "exhausted" => ManualRetry \/ Failover]_vars
=============================================================================

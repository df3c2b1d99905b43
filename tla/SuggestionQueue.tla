--------------------------- MODULE SuggestionQueue ---------------------------
(***************************************************************************)
(* The policy engine of persys-automation (internal/engine): policies that *)
(* match send a suggestion to the scheduler; a suggestion whose call fails *)
(* is queued in Postgres and replayed. SubmitAutomationSuggestion is the   *)
(* scheduler's side of the call (grpcapi/service.go).                      *)
(*                                                                         *)
(* Whether a condition holds is up to its inputs (metrics, the clock, the  *)
(* last pipeline status). The queue is the table in the order of           *)
(* updated_at; a row is its number, rows are never reused.                 *)
(***************************************************************************)
EXTENDS Naturals, Sequences, SequencesExt

CONSTANTS
    Engines,        \* the replicas' engines
    Policies,       \* enabled policies
    ActionType,     \* the action type of each policy
    Limit,          \* rows a replay takes (50)
    MaxRows,        \* bound on rows ever queued
    NoRow           \* nothing was replayed yet

ASSUME QueueAssumption ==
    /\ Limit \in Nat \ {0} /\ MaxRows \in Nat /\ NoRow \notin Nat
    /\ \A p \in Policies :
         ActionType[p] \in {"set_desired_state", "retry_workload", "delete_workload", "scale_replicas"}

Rows == 1 .. MaxRows

VARIABLES
    pending,        \* rows with status pending, in the order of updated_at
    policyOf,       \* the policies of the rows queued so far
    batch,          \* the rows a replay of each engine still has to submit
    acted,          \* history: the rows that took effect at the scheduler
    replayed        \* history: the row that was submitted last

queueVars == <<pending, policyOf, batch, acted, replayed>>

QueueInit ==
    /\ pending = <<>> /\ policyOf = <<>>
    /\ batch = [e \in Engines |-> <<>>]
    /\ acted = {} /\ replayed = NoRow

\* How SubmitAutomationSuggestion ends: whether the caller gets an error, or an answer
\* that accepts, and whether the suggestion took effect. A call may fail after it took
\* effect; a scheduler that cannot write rejects; scaling is not supported; and a new
\* desired state stays set when the reconciliation after it fails and the answer is a
\* rejection.
SubmitAutomationSuggestion(action) ==
    LET ends(result, effect) == [result |-> result, effect |-> effect]
    IN  {ends("rejected", FALSE), ends("error", FALSE)}
        \union (IF action = "scale_replicas" THEN {} ELSE {ends("accepted", TRUE), ends("error", TRUE)})
        \union (IF action = "set_desired_state" THEN {ends("rejected", TRUE)} ELSE {})

EnqueueSuggestion(p) ==
    /\ Len(policyOf) < MaxRows
    /\ policyOf' = Append(policyOf, p)
    /\ pending' = Append(pending, Len(policyOf) + 1)
    /\ UNCHANGED <<batch, acted, replayed>>

\* A suggestion that was answered is done with, accepted or not; one that was not
\* answered is queued, unless the insert fails as well.
dispatchAction(p) ==
    \E answer \in SubmitAutomationSuggestion(ActionType[p]) :
      UNCHANGED queueVars \/ (answer.result = "error" /\ EnqueueSuggestion(p))

\* evaluateCondition holds or not, as its inputs have it.
evaluateSingle(p) == \E matched \in BOOLEAN : IF matched THEN dispatchAction(p) ELSE UNCHANGED queueVars

\* Mutant: the query has no limit.
ClaimQueuedSuggestionsUnlimited(e) ==
    /\ batch[e] = <<>> /\ pending # <<>>
    /\ batch' = [batch EXCEPT ![e] = pending]
    /\ UNCHANGED <<pending, policyOf, acted, replayed>>

\* ReplayQueuedSuggestions reads the oldest rows. It does not mark them as taken.
ClaimQueuedSuggestions(e) ==
    /\ batch[e] = <<>> /\ pending # <<>>
    /\ batch' = [batch EXCEPT ![e] =
                   SubSeq(pending, 1, IF Len(pending) < Limit THEN Len(pending) ELSE Limit)]
    /\ UNCHANGED <<pending, policyOf, acted, replayed>>

\* The row is deleted, or its updated_at moves it behind the others. When another
\* engine has deleted it there is nothing to update.
settleRow(row, deleted) ==
    IF Contains(pending, row)
    THEN \E i \in DOMAIN pending :
           /\ pending[i] = row
           /\ pending' = IF deleted THEN RemoveAt(pending, i) ELSE Append(RemoveAt(pending, i), row)
    ELSE UNCHANGED pending

\* Mutant: a rejected row is deleted as well.
MarkQueuedSuggestionResultFinal(row, answer) ==
    settleRow(row, answer.result \in {"accepted", "rejected"})

\* Mutant: a failed row keeps its updated_at.
MarkQueuedSuggestionResultUntouched(row, answer) ==
    IF answer.result = "accepted" THEN settleRow(row, TRUE) ELSE UNCHANGED pending

MarkQueuedSuggestionResult(row, answer) == settleRow(row, answer.result = "accepted")

\* One round of the loop in ReplayQueuedSuggestions. It ignores it when the result
\* cannot be written.
replaySuggestion(e, written) ==
    /\ batch[e] # <<>>
    /\ LET row == Head(batch[e])
       IN  \E answer \in SubmitAutomationSuggestion(ActionType[policyOf[row]]) :
             /\ IF written THEN MarkQueuedSuggestionResult(row, answer) ELSE UNCHANGED pending
             /\ acted' = IF answer.effect THEN acted \union {row} ELSE acted
             /\ replayed' = row
    /\ batch' = [batch EXCEPT ![e] = Tail(@)]
    /\ UNCHANGED policyOf

\* The context of the evaluator is cancelled, or the process ends.
stopReplay(e) ==
    /\ batch' = [batch EXCEPT ![e] = <<>>]
    /\ UNCHANGED <<pending, policyOf, acted, replayed>>

----------------------------------------------------------------------------
(* Properties *)

\* Every variable holds what the table and the replays can hold; a row is listed once.
QueueTypeOK ==
    /\ pending \in Seq(Rows) /\ policyOf \in Seq(Policies)
    /\ \A i, j \in DOMAIN pending : pending[i] = pending[j] => i = j
    /\ batch \in [Engines -> Seq(Rows)] /\ \A e \in Engines : Len(batch[e]) <= Limit
    /\ acted \in SUBSET Rows /\ replayed \in Rows \union {NoRow}

\* A queued suggestion leaves the queue only after it took effect at the scheduler,
\* although two engines may replay it at the same time on lists they read earlier.
QueuedUntilActed ==
    \A row \in 1 .. Len(policyOf) : row \in acted \/ \E i \in DOMAIN pending : pending[i] = row
=============================================================================

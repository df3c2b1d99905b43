----------------------------- MODULE Automation -----------------------------
(***************************************************************************)
(* persys-automation: replicas that elect a leader, whose evaluator        *)
(* evaluates the policies and replays queued suggestions.                  *)
(***************************************************************************)
EXTENDS LeaderElection, SuggestionQueue

ASSUME EnginesAssumption == Engines = Replicas

vars == <<electionVars, queueVars>>

Init == ElectionInit /\ QueueInit

Elect(r) == step(r) /\ UNCHANGED queueVars

\* Stopping the evaluator cancels the replay it is in.
Notice(r) ==
    /\ takeNotice(r)
    /\ IF updates[r] THEN UNCHANGED queueVars ELSE stopReplay(r)

\* A tick of StartPeriodicEvaluation evaluates the policies and then replays.
Evaluate(r) ==
    /\ evaluating[r] /\ batch[r] = <<>>
    /\ \E p \in Policies : evaluateSingle(p)
    /\ UNCHANGED electionVars

\* EvaluateNow is served by every replica, whether it leads or not.
EvaluateNow(r) ==
    /\ \E p \in Policies : evaluateSingle(p)
    /\ UNCHANGED electionVars

\* The replay of a tick.
Replay(r) ==
    /\ evaluating[r]
    /\ ClaimQueuedSuggestions(r) \/ \E written \in BOOLEAN : replaySuggestion(r, written)
    /\ UNCHANGED electionVars

ReplayWritten(r) == evaluating[r] /\ replaySuggestion(r, TRUE) /\ UNCHANGED electionVars

Fault ==
    \/ \E r \in Replicas : \/ SessionBreaks(r) /\ UNCHANGED queueVars
                           \/ ReplicaRestart(r) /\ stopReplay(r)
    \/ PostgresReleases /\ UNCHANGED queueVars

Next ==
    \/ Fault
    \/ \E r \in Replicas : Elect(r) \/ Notice(r) \/ Evaluate(r) \/ EvaluateNow(r) \/ Replay(r)

Spec == Init /\ [][Next]_vars

\* Tickers tick, Postgres notices a dead connection, and the result of a replay, which
\* is written after every call, does not fail to be written for ever.
FairSpec ==
    /\ Spec
    /\ WF_vars(PostgresReleases /\ UNCHANGED queueVars)
    /\ \A r \in Replicas : WF_vars(Elect(r)) /\ WF_vars(Notice(r)) /\ WF_vars(Replay(r))
                           /\ SF_vars(ReplayWritten(r))

----------------------------------------------------------------------------
(* Properties *)

\* Every variable holds what the Go variable or the table can hold.
TypeOK == ElectionTypeOK /\ QueueTypeOK

\* An evaluator of a replica without the lock stops, and there is one that runs, again
\* and again, as long as no notice was lost to a full channel.
EvaluatorFollowsLock ==
    /\ []<>(dropped # {} \/ \A r \in Replicas : evaluating[r] => lock = r)
    /\ []<>(dropped # {} \/ \E r \in Replicas : evaluating[r])

\* No queued suggestion is starved by others that fail for ever: with more rows than a
\* replay takes, each is submitted again or leaves the queue.
ReplayReachesAll ==
    \A row \in Rows :
      (\E i \in DOMAIN pending : pending[i] = row)
        ~> (dropped # {} \/ replayed = row \/ \A i \in DOMAIN pending : pending[i] # row)
=============================================================================

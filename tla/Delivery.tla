------------------------------ MODULE Delivery ------------------------------
(***************************************************************************)
(* From a GitHub webhook to a build: the gateway's webhook service and     *)
(* forgery's queues, joined by the ForwardWebhook call.                    *)
(***************************************************************************)
EXTENDS WebhookForwarding, ForgeryQueue

CONSTANT MaxFaults      \* bound on restarts

ASSUME DeliveryAssumption == Events = Deliveries /\ MaxFaults \in Nat

VARIABLE faults

vars == <<gatewayVars, forgeryVars, faults>>

Init == GatewayInit /\ ForgeryInit /\ faults = 0

\* One attempt of a worker: forgery queues the event and says so, queues it and the
\* answer does not arrive, or does not queue it (no connection, or Redis failed).
forwardGRPC(k) ==
    LET d == working[k].delivery
    IN  \/ processJob(k, TRUE) /\ ForwardWebhook(d)
        \/ processJob(k, FALSE) /\ ForwardWebhook(d)
        \/ processJob(k, FALSE) /\ UNCHANGED forgeryVars

Forward(k) == working[k] # NoJob /\ forwardGRPC(k) /\ UNCHANGED faults

TakeJob(k) == runWorker(k) /\ UNCHANGED <<forgeryVars, faults>>

Requeue(j) == RetryDue(j) /\ UNCHANGED <<forgeryVars, faults>>

GatewayInput ==
    /\ UNCHANGED <<forgeryVars, faults>>
    /\ \E d \in Deliveries : ReplayExpires(d) \/ \E b \in Bodies : HandleGitHubWebhook(d, b)

Forgery == ForgeryStep /\ UNCHANGED <<gatewayVars, faults>>

Trigger == (\E t \in Triggers : TriggerBuild(t)) /\ UNCHANGED <<gatewayVars, faults>>

Crash ==
    /\ faults < MaxFaults
    /\ faults' = faults + 1
    /\ \/ GatewayRestart /\ UNCHANGED forgeryVars
       \/ ForgeryRestart /\ UNCHANGED gatewayVars

Next ==
    \/ GatewayInput \/ Forgery \/ Trigger \/ Crash
    \/ \E k \in Workers : TakeJob(k) \/ Forward(k)
    \/ \E j \in Jobs : Requeue(j)

Spec == Init /\ [][Next]_vars

\* Goroutines that can go on do; nothing is assumed of GitHub, callers and restarts.
FairSpec ==
    /\ Spec
    /\ \A k \in Workers : WF_vars(TakeJob(k)) /\ WF_vars(Forward(k))
    /\ \A j \in Jobs : SF_vars(Requeue(j))
    /\ WF_vars(Forgery)

----------------------------------------------------------------------------
(* Properties *)

\* Every variable holds what the Go variable or the Redis list can hold.
TypeOK == GatewayTypeOK /\ ForgeryTypeOK /\ faults \in 0 .. MaxFaults

\* Forward attempts a job still has.
Left(j) == Attempts - j.attempt

\* The forward attempts left to the jobs of a delivery, each with its number: in the
\* channel, at a worker, and with the retry goroutines.
InChannel(d) ==
    {p \in (1 .. Len(jobs)) \X (1 .. Attempts) :
       jobs[p[1]].delivery = d /\ p[2] <= Left(jobs[p[1]])}
AtWorkers(d) ==
    {p \in Workers \X (1 .. Attempts) :
       working[p[1]] # NoJob /\ working[p[1]].delivery = d /\ p[2] <= Left(working[p[1]])}
InRetries(d) ==
    LET mine == {j \in Jobs : j.delivery = d}
    IN  UNION {{j} \X (1 .. waiting[j]) \X (1 .. Left(j)) : j \in mine}

InList(q, d) == {i \in DOMAIN q : q[i] = d}

\* 1 for the delivery whose event the webhook worker holds and has not pushed.
AtEvent(d) == IF event # NoEvent /\ event.id = d /\ ~event.pushed THEN 1 ELSE 0

\* The builds that may still follow from what is on its way for delivery d: in the
\* gateway, and from forgery's lists on.
GatewayCredit(d) ==
    Cardinality(InChannel(d)) + Cardinality(AtWorkers(d)) + Cardinality(InRetries(d))
ForgeryCredit(d) ==
    Cardinality(InList(webhookQueue, d)) + Cardinality(InList(buildQueue, d))
    + AtEvent(d) + building[d]
Credit(d) == GatewayCredit(d) + ForgeryCredit(d)

Contract == INSTANCE DeliveryContract WITH
    Allowance <- Attempts,
    remembered <- seen,
    credit <- [d \in Deliveries |-> Credit(d)],
    builds <- [d \in Deliveries |-> builds[d]]

\* Gateway and forgery together keep the contract: a build follows from an accepted
\* delivery, an acceptance leads to at most forward_retries builds whatever is lost,
\* repeated or restarted on the way (nothing on the way drops duplicates), and a
\* delivery in the replay cache is not accepted again.
KeepsContract == Contract!Spec

\* A delivery the gateway holds is forwarded or given up: attempts are counted across
\* the retry timers and the channel, and a full channel does not block for ever.
HeldIsSettled ==
    \A d \in Deliveries :
      LET held == \/ \E i \in DOMAIN jobs : jobs[i].delivery = d
                  \/ \E k \in Workers : working[k] # NoJob /\ working[k].delivery = d
                  \/ \E j \in Jobs : j.delivery = d /\ waiting[j] > 0
      IN  held ~> ~held

\* When nothing of an id is left in forgery, its newest pipeline status says how it
\* ended, or build_enqueued if that was published after the build had ended. Only a
\* restart may leave an id received or started for ever.
QuietIsReported ==
    \A i \in Ids :
      LET quiet == /\ i \notin {webhookQueue[n] : n \in DOMAIN webhookQueue}
                   /\ i \notin {buildQueue[n] : n \in DOMAIN buildQueue}
                   /\ building[i] = 0 /\ (event = NoEvent \/ event.id # i)
      IN  faults = 0 /\ quiet => status[i] \notin {"webhook_received", "build_started"}
=============================================================================

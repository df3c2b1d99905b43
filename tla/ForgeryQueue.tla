---------------------------- MODULE ForgeryQueue ----------------------------
(***************************************************************************)
(* The queues of persys-forgery (internal/queue, internal/grpcapi): Redis  *)
(* lists of webhook events and build requests, the worker that turns an    *)
(* event into a request and the worker that starts the builds.             *)
(*                                                                         *)
(* An element is the id of its delivery, or of the request of a manual     *)
(* trigger. LPUSH and BLPOP work on the same end: the lists are stacks. Of *)
(* the pipeline status list only the newest entry of each id is kept.      *)
(***************************************************************************)
EXTENDS Naturals, Sequences

CONSTANTS
    Events,         \* ids of forwarded webhooks
    Triggers,       \* ids of manually triggered builds
    HasCommit,      \* the ids whose request carries a commit hash
    Strategy,       \* the build strategy of each trigger
    AutoDeploy,     \* the triggers of projects with auto_deploy
    NoEvent         \* the webhook worker waits for an event

ASSUME RequestsAssumption ==
    /\ HasCommit \subseteq Events \union Triggers
    /\ AutoDeploy \subseteq Triggers /\ Events \intersect Triggers = {}

Ids == Events \union Triggers

\* An event at the webhook worker.
HeldEvents == [id : Events, pushed : BOOLEAN]

ASSUME NoEventAssumption == NoEvent \notin HeldEvents

VARIABLES
    webhookQueue,   \* the list at webhook_queue_key
    event,          \* what the webhook worker holds: the id and whether its build was pushed
    buildQueue,     \* the list at build_queue_key
    building,       \* how many build goroutines run for each id
    status,         \* the newest pipeline status of each id
    triggered,      \* the triggers that were sent
    builds          \* history: builds that ended, by id

forgeryVars == <<webhookQueue, event, buildQueue, building, status, triggered, builds>>

ForgeryInit ==
    /\ webhookQueue = <<>> /\ buildQueue = <<>>
    /\ event = NoEvent
    /\ building = [i \in Ids |-> 0]
    /\ status = [i \in Ids |-> "none"]
    /\ triggered = {}
    /\ builds = [i \in Ids |-> 0]

publishPipelineStatus(i, s) == status' = [status EXCEPT ![i] = s]

\* The state change of an accepted ForwardWebhook. Nothing looks for the same
\* delivery in the queue.
ForwardWebhook(d) ==
    /\ webhookQueue' = <<d>> \o webhookQueue
    /\ UNCHANGED <<event, buildQueue, building, status, triggered, builds>>

\* StartWebhookWorker takes the newest event off the list.
ReceiveEvent ==
    /\ event = NoEvent /\ webhookQueue # <<>>
    /\ event' = [id |-> Head(webhookQueue), pushed |-> FALSE]
    /\ webhookQueue' = Tail(webhookQueue)
    /\ publishPipelineStatus(Head(webhookQueue), "webhook_received")
    /\ UNCHANGED <<buildQueue, building, triggered, builds>>

EnqueueBuild ==
    /\ event # NoEvent /\ ~event.pushed
    /\ event' = [event EXCEPT !.pushed = TRUE]
    /\ buildQueue' = <<event.id>> \o buildQueue
    /\ UNCHANGED <<webhookQueue, building, status, triggered, builds>>

\* Mutant: the event is dropped without a status.
EnqueueBuildFailsSilently ==
    /\ event # NoEvent /\ ~event.pushed
    /\ event' = NoEvent
    /\ UNCHANGED <<webhookQueue, buildQueue, building, status, triggered, builds>>

\* LPUSH answered an error: the event is given up.
EnqueueBuildFails ==
    /\ event # NoEvent /\ ~event.pushed
    /\ event' = NoEvent
    /\ publishPipelineStatus(event.id, "webhook_failed")
    /\ UNCHANGED <<webhookQueue, buildQueue, building, triggered, builds>>

\* The build worker may have started the build already.
BuildEnqueued ==
    /\ event # NoEvent /\ event.pushed
    /\ event' = NoEvent
    /\ publishPipelineStatus(event.id, "build_enqueued")
    /\ UNCHANGED <<webhookQueue, buildQueue, building, triggered, builds>>

TriggerBuild(t) ==
    /\ t \notin triggered
    /\ triggered' = triggered \union {t}
    /\ buildQueue' = <<t>> \o buildQueue
    /\ UNCHANGED <<webhookQueue, event, building, status, builds>>

\* StartRedisWorker takes the newest request and starts a goroutine for it.
StartBuild ==
    /\ buildQueue # <<>>
    /\ building' = [building EXCEPT ![Head(buildQueue)] = @ + 1]
    /\ buildQueue' = Tail(buildQueue)
    /\ publishPipelineStatus(Head(buildQueue), "build_started")
    /\ UNCHANGED <<webhookQueue, event, triggered, builds>>

\* A request of a webhook is always a local build.
strategyOf(i) == IF i \in Triggers THEN Strategy[i] ELSE "local"

validateBuildRequest(i) == i \in HasCommit

\* The results of BuildWithStrategy.
BuildWithStrategy(i) ==
    IF validateBuildRequest(i) /\ strategyOf(i) \in {"local", "operator"}
    THEN {"build_succeeded", "build_failed"} ELSE {"build_failed"}

autoDeployEnabled(i) == i \in AutoDeploy

\* The end of a build goroutine.
FinishBuild(i) ==
    /\ building[i] > 0
    /\ building' = [building EXCEPT ![i] = @ - 1]
    /\ builds' = [builds EXCEPT ![i] = @ + 1]
    /\ \E result \in BuildWithStrategy(i) :
         publishPipelineStatus(i, IF result = "build_succeeded" /\ autoDeployEnabled(i)
                                  THEN "redeploy_required" ELSE result)
    /\ UNCHANGED <<webhookQueue, event, buildQueue, triggered>>

\* Redis keeps the lists; what workers held is gone.
ForgeryRestart ==
    /\ event' = NoEvent
    /\ building' = [i \in Ids |-> 0]
    /\ UNCHANGED <<webhookQueue, buildQueue, status, triggered, builds>>

ForgeryStep ==
    \/ ReceiveEvent \/ EnqueueBuild \/ EnqueueBuildFails \/ BuildEnqueued
    \/ StartBuild \/ \E i \in Ids : FinishBuild(i)

\* Every variable holds what the Go variable or the Redis list can hold.
ForgeryTypeOK ==
    /\ webhookQueue \in Seq(Events) /\ buildQueue \in Seq(Ids)
    /\ event \in HeldEvents \union {NoEvent}
    /\ building \in [Ids -> Nat] /\ builds \in [Ids -> Nat]
    /\ status \in [Ids -> {"none", "webhook_received", "webhook_failed", "build_enqueued",
                           "build_started", "build_succeeded", "build_failed", "redeploy_required"}]
    /\ triggered \subseteq Triggers
=============================================================================

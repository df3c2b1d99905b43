------------------------- MODULE WebhookForwarding -------------------------
(***************************************************************************)
(* The webhook service of persys-gateway (services/webhook.service.go):    *)
(* a replay cache, a bounded channel of forward jobs, the workers that     *)
(* forward them to forgery, and the timers that put a failed job back.     *)
(*                                                                         *)
(* What the gateway records in MongoDB is left out: no step reads it.      *)
(* How the call to forgery ends is a parameter of processJob.              *)
(***************************************************************************)
EXTENDS Naturals, Sequences, FiniteSets

CONSTANTS
    Deliveries,     \* delivery ids
    Workers,        \* the goroutines of Start (2)
    BufferSize,     \* capacity of the jobs channel (1024)
    Retries,        \* webhook.forward_retries
    MaxSends,       \* bound on how often GitHub sends one delivery
    NoJob           \* a worker that waits for a job

ASSUME ForwardingAssumption ==
    /\ BufferSize \in Nat \ {0} /\ Retries \in Nat /\ MaxSends \in Nat
    /\ IsFiniteSet(Workers)

VARIABLES
    sends,      \* how often each delivery was sent
    seen,       \* the keys of deliverySeenAt that have not expired
    jobs,       \* the channel
    working,    \* the job each worker is processing
    waiting,    \* how many retry goroutines hold each job
    accepted    \* history: how often each delivery was answered with 200

gatewayVars == <<sends, seen, jobs, working, waiting, accepted>>

\* At least one attempt is made, whatever forward_retries says.
Attempts == IF Retries = 0 THEN 1 ELSE Retries

\* A job carries the number of attempts before this one.
Jobs == [delivery : Deliveries, attempt : 0 .. Attempts - 1]

ASSUME NoJobAssumption == NoJob \notin Jobs

\* What a delivery may look like: as GitHub signed it, with a signature that does
\* not match, or with a body that names no repository.
Bodies == {"signed", "unsigned", "garbled"}

GatewayInit ==
    /\ sends = [d \in Deliveries |-> 0]
    /\ seen = {}
    /\ jobs = <<>>
    /\ working = [k \in Workers |-> NoJob]
    /\ waiting = [j \in Jobs |-> 0]
    /\ accepted = [d \in Deliveries |-> 0]

\* Mutant: the job is queued although there is no room.
AcceptOverfull(d) ==
    /\ accepted' = [accepted EXCEPT ![d] = @ + 1]
    /\ jobs' = Append(jobs, [delivery |-> d, attempt |-> 0])

\* The end of HandleGitHubWebhook for a body that passed its checks. The send does
\* not block: a job that finds no room is dropped, and the answer is 200 as well.
Accept(d) ==
    /\ accepted' = [accepted EXCEPT ![d] = @ + 1]
    /\ jobs' = IF Len(jobs) < BufferSize THEN Append(jobs, [delivery |-> d, attempt |-> 0])
                                         ELSE jobs

\* Mutant: the id is not entered into the replay cache.
HandleGitHubWebhookUnreserved(d, body) ==
    /\ sends[d] < MaxSends
    /\ sends' = [sends EXCEPT ![d] = @ + 1]
    /\ IF body = "signed" THEN Accept(d) ELSE UNCHANGED <<jobs, accepted>>
    /\ UNCHANGED <<seen, working, waiting>>

\* The id is reserved before the body and its signature are looked at.
HandleGitHubWebhook(d, body) ==
    /\ sends[d] < MaxSends
    /\ sends' = [sends EXCEPT ![d] = @ + 1]
    /\ IF d \in seen
       THEN UNCHANGED <<seen, jobs, accepted>>
       ELSE /\ seen' = seen \union {d}
            /\ IF body = "signed" THEN Accept(d) ELSE UNCHANGED <<jobs, accepted>>
    /\ UNCHANGED <<working, waiting>>

\* replayTTL has passed since the id was reserved.
ReplayExpires(d) ==
    /\ d \in seen
    /\ seen' = seen \ {d}
    /\ UNCHANGED <<sends, jobs, working, waiting, accepted>>

runWorker(k) ==
    /\ working[k] = NoJob /\ jobs # <<>>
    /\ working' = [working EXCEPT ![k] = Head(jobs)]
    /\ jobs' = Tail(jobs)
    /\ UNCHANGED <<sends, seen, waiting, accepted>>

\* What processJob does once forwardGRPC has returned.
processJob(k, forwarded) ==
    LET j == working[k]
        retry == [j EXCEPT !.attempt = @ + 1]
    IN  /\ j # NoJob
        /\ working' = [working EXCEPT ![k] = NoJob]
        /\ waiting' = IF forwarded \/ j.attempt + 1 >= Retries THEN waiting
                      ELSE [waiting EXCEPT ![retry] = @ + 1]
        /\ UNCHANGED <<sends, seen, jobs, accepted>>

\* Mutant: a retry leaves one place of the channel free.
RetryDueReserving(j) ==
    /\ waiting[j] > 0 /\ Len(jobs) + 1 < BufferSize
    /\ waiting' = [waiting EXCEPT ![j] = @ - 1]
    /\ jobs' = Append(jobs, j)
    /\ UNCHANGED <<sends, seen, working, accepted>>

\* The timer of a retry fires and its blocking send finds room.
RetryDue(j) ==
    /\ waiting[j] > 0 /\ Len(jobs) < BufferSize
    /\ waiting' = [waiting EXCEPT ![j] = @ - 1]
    /\ jobs' = Append(jobs, j)
    /\ UNCHANGED <<sends, seen, working, accepted>>

\* NewWebhookService after the process died: nothing was kept.
GatewayRestart ==
    /\ seen' = {} /\ jobs' = <<>>
    /\ working' = [k \in Workers |-> NoJob]
    /\ waiting' = [j \in Jobs |-> 0]
    /\ UNCHANGED <<sends, accepted>>

\* Every variable holds what the Go variable can hold: the channel no more than its
\* capacity, and no job more attempts than it has.
GatewayTypeOK ==
    /\ sends \in [Deliveries -> 0 .. MaxSends] /\ accepted \in [Deliveries -> 0 .. MaxSends]
    /\ \A d \in Deliveries : accepted[d] <= sends[d]
    /\ seen \subseteq Deliveries
    /\ jobs \in Seq(Jobs) /\ Len(jobs) <= BufferSize
    /\ working \in [Workers -> Jobs \union {NoJob}]
    /\ waiting \in [Jobs -> Nat]
=============================================================================

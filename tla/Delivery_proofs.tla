--------------------------- MODULE Delivery_proofs ---------------------------
(***************************************************************************)
(* Proofs about the way from a webhook to a build, for any deliveries,     *)
(* triggers, workers, capacity, retries and restarts: type correctness,    *)
(* that a build that ended is reported, that gateway and forgery together  *)
(* implement DeliveryContract, and what follows from it.                   *)
(***************************************************************************)
EXTENDS Delivery, FiniteSetTheorems, TLAPS

\* Most leaves are first-order: Zenon is tried unless a leaf names another prover.
USE Zenon

----------------------------------------------------------------------------
(* The channel and the Redis lists: taking the head, appending, pushing (LPUSH) *)

\* What is left after taking the head.
LEMMA TailOf ==
    ASSUME NEW S, NEW s \in Seq(S), s # <<>>
    PROVE  /\ Head(s) \in S /\ Tail(s) \in Seq(S) /\ Len(Tail(s)) = Len(s) - 1
           /\ \A i \in 1 .. Len(Tail(s)) : Tail(s)[i] = s[i + 1]
BY SMT

\* An element appended comes last.
LEMMA Appended ==
    ASSUME NEW S, NEW s \in Seq(S), NEW x \in S
    PROVE  /\ Append(s, x) \in Seq(S) /\ Len(Append(s, x)) = Len(s) + 1
           /\ \A i \in 1 .. Len(s) : Append(s, x)[i] = s[i]
           /\ Append(s, x)[Len(s) + 1] = x
BY SMT

\* An element pushed comes first.
LEMMA Pushed ==
    ASSUME NEW S, NEW s \in Seq(S), NEW x \in S
    PROVE  /\ <<x>> \o s \in Seq(S) /\ Len(<<x>> \o s) = Len(s) + 1
           /\ (<<x>> \o s)[1] = x
           /\ \A i \in 1 .. Len(s) : (<<x>> \o s)[i + 1] = s[i]
<1>1. <<x>> \in Seq(S) /\ Len(<<x>>) = 1 /\ <<x>>[1] = x
    BY SMT
<1> QED BY <1>1, SMT

----------------------------------------------------------------------------
(* Types *)

\* At least one attempt.
LEMMA AttemptsType == Attempts \in Nat \ {0}
BY ForwardingAssumption, SMT DEF Attempts

\* A job that is retried has an attempt left.
LEMMA RetryIsJob ==
    ASSUME NEW j \in Jobs, ~(j.attempt + 1 >= Retries)
    PROVE  [j EXCEPT !.attempt = @ + 1] \in Jobs
<1>1. j.delivery \in Deliveries /\ j.attempt \in 0 .. Attempts - 1
      /\ j = [delivery |-> j.delivery, attempt |-> j.attempt]
    BY DEF Jobs
<1>2. j.attempt + 1 \in 0 .. Attempts - 1
    BY <1>1, ForwardingAssumption, SMT DEF Attempts
<1> QED BY <1>1, <1>2 DEF Jobs

\* The steps of the gateway, by handler, worker and timer.
LEMMA GatewayStepTyped ==
    ASSUME GatewayTypeOK,
           \/ \E d \in Deliveries : ReplayExpires(d) \/ \E b \in Bodies : HandleGitHubWebhook(d, b)
           \/ \E k \in Workers : runWorker(k) \/ \E forwarded \in BOOLEAN : processJob(k, forwarded)
           \/ \E j \in Jobs : RetryDue(j)
           \/ GatewayRestart
    PROVE  GatewayTypeOK'
<1> USE DEF GatewayTypeOK
<1>1. ASSUME NEW d \in Deliveries, NEW b \in Bodies, HandleGitHubWebhook(d, b) PROVE GatewayTypeOK'
    <2>1. sends' = [sends EXCEPT ![d] = @ + 1] /\ sends[d] < MaxSends
        BY <1>1 DEF HandleGitHubWebhook
    <2>2. CASE UNCHANGED <<jobs, accepted>>
        BY <1>1, <2>1, <2>2, ForwardingAssumption, SMT DEF HandleGitHubWebhook
    <2>3. CASE Accept(d)
        <3>1. [delivery |-> d, attempt |-> 0] \in Jobs
            BY AttemptsType, SMT DEF Jobs
        <3>2. jobs' \in Seq(Jobs) /\ Len(jobs') <= BufferSize
            BY <2>3, <3>1, Appended, ForwardingAssumption, SMT DEF Accept
        <3>3. /\ sends' \in [Deliveries -> 0 .. MaxSends] /\ accepted' \in [Deliveries -> 0 .. MaxSends]
              /\ \A e \in Deliveries : accepted'[e] <= sends'[e]
            BY <2>1, <2>3, ForwardingAssumption, SMTT(30) DEF Accept
        <3> QED BY <1>1, <3>2, <3>3 DEF HandleGitHubWebhook
    <2> QED BY <1>1, <2>2, <2>3 DEF HandleGitHubWebhook
<1>2. ASSUME NEW d \in Deliveries, ReplayExpires(d) PROVE GatewayTypeOK'
    BY <1>2 DEF ReplayExpires
<1>3. ASSUME NEW k \in Workers, runWorker(k) PROVE GatewayTypeOK'
    <2>1. Head(jobs) \in Jobs /\ Tail(jobs) \in Seq(Jobs) /\ Len(Tail(jobs)) <= BufferSize
        BY <1>3, TailOf, ForwardingAssumption, SMT DEF runWorker
    <2> QED BY <1>3, <2>1 DEF runWorker
<1>4. ASSUME NEW k \in Workers, NEW forwarded \in BOOLEAN, processJob(k, forwarded)
      PROVE  GatewayTypeOK'
    <2> DEFINE j == working[k]
               retry == [j EXCEPT !.attempt = @ + 1]
    <2>1. j \in Jobs /\ working' = [working EXCEPT ![k] = NoJob]
          /\ UNCHANGED <<sends, seen, jobs, accepted>>
        BY <1>4 DEF processJob
    <2>2. waiting' \in [Jobs -> Nat]
        <3>1. CASE forwarded \/ j.attempt + 1 >= Retries
            BY <1>4, <3>1 DEF processJob
        <3>2. CASE ~(forwarded \/ j.attempt + 1 >= Retries)
            <4>1. retry \in Jobs
                BY <2>1, <3>2, RetryIsJob
            <4>2. waiting' = [waiting EXCEPT ![retry] = @ + 1]
                BY <1>4, <3>2 DEF processJob
            <4> HIDE DEF retry
            <4> QED BY <4>1, <4>2, SMT
        <3> QED BY <3>1, <3>2
    <2> QED BY <2>1, <2>2
<1>5. ASSUME NEW j \in Jobs, RetryDue(j) PROVE GatewayTypeOK'
    <2>1. jobs' \in Seq(Jobs) /\ Len(jobs') <= BufferSize
        BY <1>5, Appended, ForwardingAssumption, SMT DEF RetryDue
    <2> QED BY <1>5, <2>1, SMT DEF RetryDue
<1>6. CASE GatewayRestart
    BY <1>6, ForwardingAssumption, SMT DEF GatewayRestart
<1> QED BY <1>1, <1>2, <1>3, <1>4, <1>5, <1>6

\* The steps of forgery, the call that forwards a webhook and the one that triggers a build.
LEMMA ForgeryStepTyped ==
    ASSUME ForgeryTypeOK, DeliveryAssumption,
           \/ \E d \in Deliveries : ForwardWebhook(d)
           \/ \E t \in Triggers : TriggerBuild(t)
           \/ ForgeryStep \/ ForgeryRestart
    PROVE  ForgeryTypeOK'
<1> USE DEF ForgeryTypeOK
<1>1. ASSUME NEW d \in Deliveries, ForwardWebhook(d) PROVE ForgeryTypeOK'
    <2>1. webhookQueue' \in Seq(Events)
        BY <1>1, Pushed DEF ForwardWebhook, DeliveryAssumption
    <2> QED BY <1>1, <2>1 DEF ForwardWebhook
<1>2. ASSUME NEW t \in Triggers, TriggerBuild(t) PROVE ForgeryTypeOK'
    <2>1. <<t>> \in Seq(Ids)
        BY SMT DEF Ids
    <2>2. buildQueue' \in Seq(Ids)
        BY <1>2, <2>1, Pushed, SMT DEF TriggerBuild
    <2> QED BY <1>2, <2>2 DEF TriggerBuild
<1>3. CASE ReceiveEvent
    <2>1. Head(webhookQueue) \in Events /\ Tail(webhookQueue) \in Seq(Events)
        BY <1>3, TailOf DEF ReceiveEvent
    <2> QED BY <1>3, <2>1 DEF ReceiveEvent, publishPipelineStatus, HeldEvents, Ids
<1>4. CASE EnqueueBuild
    <2>1. event \in HeldEvents /\ event' = [event EXCEPT !.pushed = TRUE]
        BY <1>4 DEF EnqueueBuild
    <2>2. event.id \in Events /\ event' \in HeldEvents
        BY <2>1 DEF HeldEvents
    <2>3. <<event.id>> \in Seq(Ids)
        BY <2>2, SMT DEF Ids
    <2>4. buildQueue' \in Seq(Ids)
        BY <1>4, <2>3, Pushed, SMT DEF EnqueueBuild
    <2> QED BY <1>4, <2>2, <2>4 DEF EnqueueBuild
<1>5. CASE EnqueueBuildFails \/ BuildEnqueued
    <2>1. event.id \in Ids
        BY <1>5 DEF EnqueueBuildFails, BuildEnqueued, HeldEvents, Ids
    <2> QED BY <1>5, <2>1 DEF EnqueueBuildFails, BuildEnqueued, publishPipelineStatus
<1>6. CASE StartBuild
    <2>1. Head(buildQueue) \in Ids /\ Tail(buildQueue) \in Seq(Ids)
        BY <1>6, TailOf DEF StartBuild
    <2> QED BY <1>6, <2>1, SMT DEF StartBuild, publishPipelineStatus
<1>7. ASSUME NEW i \in Ids, FinishBuild(i) PROVE ForgeryTypeOK'
    <2>1. PICK s \in {"build_succeeded", "build_failed", "redeploy_required"} :
             status' = [status EXCEPT ![i] = s]
        BY <1>7 DEF FinishBuild, BuildWithStrategy, publishPipelineStatus
    <2>2. /\ building' = [building EXCEPT ![i] = @ - 1] /\ building[i] > 0
          /\ builds' = [builds EXCEPT ![i] = @ + 1]
          /\ UNCHANGED <<webhookQueue, event, buildQueue, triggered>>
        BY <1>7 DEF FinishBuild
    <2> QED BY <2>1, <2>2, SMT
<1>8. CASE ForgeryRestart
    BY <1>8 DEF ForgeryRestart
<1> QED BY <1>1, <1>2, <1>3, <1>4, <1>5, <1>6, <1>7, <1>8 DEF ForgeryStep

\* The services start empty.
LEMMA TypeStarts == Init => TypeOK
BY ForwardingAssumption, DeliveryAssumption, SMT
   DEF Init, GatewayInit, ForgeryInit, TypeOK, GatewayTypeOK, ForgeryTypeOK

\* Every step of gateway, forgery and their environment keeps the types.
LEMMA TypeKeeps == TypeOK /\ [Next]_vars => TypeOK'
<1> SUFFICES ASSUME TypeOK, [Next]_vars PROVE TypeOK'
    OBVIOUS
<1> USE DEF TypeOK
<1>1. CASE GatewayInput
    <2>1. GatewayTypeOK'
        BY <1>1, GatewayStepTyped DEF GatewayInput
    <2> QED BY <1>1, <2>1 DEF GatewayInput, forgeryVars, ForgeryTypeOK
<1>2. CASE Forgery
    <2>1. ForgeryTypeOK'
        BY <1>2, ForgeryStepTyped, DeliveryAssumption DEF Forgery
    <2> QED BY <1>2, <2>1 DEF Forgery, gatewayVars, GatewayTypeOK
<1>3. CASE Trigger
    <2>1. ForgeryTypeOK'
        BY <1>3, ForgeryStepTyped, DeliveryAssumption DEF Trigger
    <2> QED BY <1>3, <2>1 DEF Trigger, gatewayVars, GatewayTypeOK
<1>4. CASE Crash
    <2>1. faults' \in 0 .. MaxFaults
        BY <1>4, DeliveryAssumption, SMT DEF Crash
    <2>2. GatewayTypeOK'
        <3>1. CASE GatewayRestart
            BY <3>1, GatewayStepTyped
        <3>2. CASE UNCHANGED gatewayVars
            BY <3>2 DEF gatewayVars, GatewayTypeOK
        <3> QED BY <1>4, <3>1, <3>2 DEF Crash
    <2>3. ForgeryTypeOK'
        BY <1>4, ForgeryStepTyped, DeliveryAssumption DEF Crash, forgeryVars, ForgeryTypeOK
    <2> QED BY <2>1, <2>2, <2>3
<1>5. ASSUME NEW k \in Workers, TakeJob(k) PROVE TypeOK'
    <2>1. GatewayTypeOK'
        BY <1>5, GatewayStepTyped DEF TakeJob
    <2> QED BY <1>5, <2>1 DEF TakeJob, forgeryVars, ForgeryTypeOK
<1>6. ASSUME NEW k \in Workers, Forward(k) PROVE TypeOK'
    <2>1. \E forwarded \in BOOLEAN : processJob(k, forwarded)
        BY <1>6 DEF Forward, forwardGRPC
    <2>2. GatewayTypeOK'
        BY <2>1, GatewayStepTyped
    <2>3. working[k].delivery \in Deliveries
        BY <1>6 DEF Forward, GatewayTypeOK, Jobs
    <2>4. ForgeryTypeOK'
        <3>1. ForwardWebhook(working[k].delivery) \/ UNCHANGED forgeryVars
            BY <1>6 DEF Forward, forwardGRPC
        <3>2. CASE ForwardWebhook(working[k].delivery)
            BY <2>3, <3>2, ForgeryStepTyped, DeliveryAssumption
        <3>3. CASE UNCHANGED forgeryVars
            BY <3>3 DEF forgeryVars, ForgeryTypeOK
        <3> QED BY <3>1, <3>2, <3>3
    <2> QED BY <1>6, <2>2, <2>4 DEF Forward
<1>7. ASSUME NEW j \in Jobs, Requeue(j) PROVE TypeOK'
    <2>1. GatewayTypeOK'
        BY <1>7, GatewayStepTyped DEF Requeue
    <2> QED BY <1>7, <2>1 DEF Requeue, forgeryVars, ForgeryTypeOK
<1>8. CASE UNCHANGED vars
    BY <1>8 DEF vars, gatewayVars, forgeryVars, GatewayTypeOK, ForgeryTypeOK
<1> QED BY <1>1, <1>2, <1>3, <1>4, <1>5, <1>6, <1>7, <1>8 DEF Next

\* For any deliveries, workers and restarts, gateway and forgery are type-correct: no
\* channel overflows, and no job is tried more often than forward_retries says.
THEOREM DeliveryTyped == Spec => []TypeOK
BY TypeStarts, TypeKeeps, PTL DEF Spec

----------------------------------------------------------------------------
(* Pipeline statuses *)

\* x is an element of the queue q.
Waits(x, q) == \E n \in DOMAIN q : q[n] = x

\* Taking the oldest element of a queue leaves the others in it.
LEMMA WaitsTail ==
    ASSUME NEW S, NEW q \in Seq(S), q # <<>>, NEW x, x # Head(q)
    PROVE  Waits(x, q) <=> Waits(x, Tail(q))
<1>1. /\ Len(q) \in Nat \ {0} /\ Tail(q) \in Seq(S) /\ Len(Tail(q)) = Len(q) - 1
      /\ Head(q) = q[1] /\ \A n \in 1 .. Len(Tail(q)) : Tail(q)[n] = q[n + 1]
    BY TailOf, SMT
<1>2. DOMAIN q = 1 .. Len(q) /\ DOMAIN Tail(q) = 1 .. Len(q) - 1
    BY <1>1, SMT
<1>3. ASSUME NEW n \in 1 .. Len(q), q[n] = x
      PROVE  n - 1 \in 1 .. Len(q) - 1 /\ Tail(q)[n - 1] = x
    BY <1>1, <1>2, <1>3, SMT
<1>4. ASSUME NEW n \in 1 .. Len(q) - 1, Tail(q)[n] = x
      PROVE  n + 1 \in 1 .. Len(q) /\ q[n + 1] = x
    BY <1>1, <1>2, <1>4, SMT
<1> QED BY <1>2, <1>3, <1>4 DEF Waits

\* What LPush adds in front leaves every other element in the queue.
LEMMA WaitsPushed ==
    ASSUME NEW S, NEW q \in Seq(S), NEW e \in S, NEW x
    PROVE  Waits(x, q) => Waits(x, <<e>> \o q)
<1>1. <<e>> \in Seq(S) /\ Len(<<e>>) = 1
    BY SMT
<1>2. /\ <<e>> \o q \in Seq(S) /\ Len(<<e>> \o q) = 1 + Len(q)
      /\ \A n \in 1 .. Len(<<e>>) + Len(q) :
            (<<e>> \o q)[n] = IF n <= Len(<<e>>) THEN <<e>>[n] ELSE q[n - Len(<<e>>)]
    BY <1>1, Pushed, SMT
<1>3. DOMAIN q = 1 .. Len(q) /\ DOMAIN (<<e>> \o q) = 1 .. 1 + Len(q) /\ Len(q) \in Nat
    BY <1>2, SMT
<1>4. ASSUME NEW n \in 1 .. Len(q)
      PROVE  n + 1 \in 1 .. 1 + Len(q) /\ (<<e>> \o q)[n + 1] = q[n]
    BY <1>1, <1>2, <1>3, SMT
<1> QED BY <1>3, <1>4 DEF Waits

\* Nothing of id i is left in forgery.
Quiet(i) ==
    /\ ~Waits(i, webhookQueue) /\ ~Waits(i, buildQueue)
    /\ building[i] = 0 /\ (event = NoEvent \/ event.id # i)

Open == {"webhook_received", "build_started"}

\* A step of forgery after which nothing of an id is left either reported how it ended
\* or did not change what is left of it and its status.
LEMMA QuietKept ==
    ASSUME ForgeryTypeOK, NEW i \in Ids, Quiet(i)',
           Quiet(i) => status[i] \notin Open,
           \/ \E d \in Events : ForwardWebhook(d)
           \/ \E t \in Triggers : TriggerBuild(t)
           \/ ForgeryStep
    PROVE  status'[i] \notin Open
<1>1. PICK Statuses :
        /\ webhookQueue \in Seq(Events) /\ buildQueue \in Seq(Ids)
        /\ building \in [Ids -> Nat] /\ status \in [Ids -> Statuses]
        /\ event \in HeldEvents \union {NoEvent}
    BY DEF ForgeryTypeOK
<1>2. /\ ~Waits(i, webhookQueue') /\ ~Waits(i, buildQueue')
      /\ building'[i] = 0 /\ (event' = NoEvent \/ event'.id # i)
    BY DEF Quiet, Waits
<1>3. ASSUME NEW d \in Events, ForwardWebhook(d) PROVE status'[i] \notin Open
    <2>1. ~Waits(i, webhookQueue)
        BY <1>1, <1>2, <1>3, WaitsPushed DEF ForwardWebhook
    <2> QED BY <1>2, <1>3, <2>1 DEF ForwardWebhook, Quiet
<1>4. ASSUME NEW t \in Triggers, TriggerBuild(t) PROVE status'[i] \notin Open
    <2>1. ~Waits(i, buildQueue)
        BY <1>1, <1>2, <1>4, WaitsPushed DEF TriggerBuild, Ids
    <2> QED BY <1>2, <1>4, <2>1 DEF TriggerBuild, Quiet
<1>5. CASE ReceiveEvent
    <2> DEFINE e == Head(webhookQueue)
    <2>1. e \in Events /\ event' = [id |-> e, pushed |-> FALSE]
        BY <1>1, <1>5, TailOf DEF ReceiveEvent
    <2>2. event'.id = e /\ event' \in HeldEvents
        BY <2>1, FALSE \in BOOLEAN DEF HeldEvents
    <2>3. i # e
        BY <1>2, <2>2, NoEventAssumption
    <2>4. ~Waits(i, webhookQueue)
        BY <1>1, <1>2, <1>5, <2>3, WaitsTail DEF ReceiveEvent
    <2> HIDE DEF e
    <2>5. Quiet(i) /\ status'[i] = status[i]
        BY <1>1, <1>2, <1>5, <2>1, <2>3, <2>4 DEF ReceiveEvent, publishPipelineStatus, Quiet, e
    <2> QED BY <2>5
<1>6. CASE EnqueueBuild
    <2>1. event \in HeldEvents /\ event' = [event EXCEPT !.pushed = TRUE]
        BY <1>1, <1>6 DEF EnqueueBuild
    <2>2. event'.id = event.id /\ event.id \in Ids /\ event' \in HeldEvents
        BY <2>1 DEF HeldEvents, Ids
    <2>3. ~Waits(i, buildQueue)
        BY <1>1, <1>2, <1>6, <2>2, WaitsPushed DEF EnqueueBuild
    <2> QED BY <1>2, <1>6, <2>2, <2>3, NoEventAssumption DEF EnqueueBuild, Quiet
<1>7. CASE EnqueueBuildFails \/ BuildEnqueued
    <2>1. PICK s \in {"webhook_failed", "build_enqueued"} : status' = [status EXCEPT ![event.id] = s]
        BY <1>7 DEF EnqueueBuildFails, BuildEnqueued, publishPipelineStatus
    <2>2. CASE event.id = i
        BY <1>1, <2>1, <2>2 DEF Open
    <2>3. CASE event.id # i
        BY <1>1, <1>2, <1>7, <2>1, <2>3 DEF EnqueueBuildFails, BuildEnqueued, Quiet
    <2> QED BY <2>2, <2>3
<1>8. CASE StartBuild
    <2>1. Head(buildQueue) \in Ids /\ building' = [building EXCEPT ![Head(buildQueue)] = @ + 1]
        BY <1>1, <1>8, TailOf DEF StartBuild
    <2>2. i # Head(buildQueue)
        BY <1>1, <1>2, <2>1, SMT
    <2>3. ~Waits(i, buildQueue)
        BY <1>1, <1>2, <1>8, <2>2, WaitsTail DEF StartBuild
    <2> QED BY <1>1, <1>2, <1>8, <2>1, <2>2, <2>3 DEF StartBuild, publishPipelineStatus, Quiet
<1>9. ASSUME NEW e \in Ids, FinishBuild(e) PROVE status'[i] \notin Open
    <2>1. PICK s \in {"build_succeeded", "build_failed", "redeploy_required"} :
             status' = [status EXCEPT ![e] = s]
        BY <1>9 DEF FinishBuild, BuildWithStrategy, publishPipelineStatus
    <2>2. CASE e = i
        BY <1>1, <2>1, <2>2 DEF Open
    <2>3. CASE e # i
        BY <1>1, <1>2, <1>9, <2>1, <2>3 DEF FinishBuild, Quiet
    <2> QED BY <2>2, <2>3
<1> QED BY <1>3, <1>4, <1>5, <1>6, <1>7, <1>8, <1>9 DEF ForgeryStep

\* For any deliveries, triggers and interleavings of the two workers and the builds: as
\* long as nothing restarts, an id of which forgery has nothing left is not reported as
\* received or started.
THEOREM QuietReported == Spec => []QuietIsReported
<1>1. Init => QuietIsReported
    BY DEF Init, ForgeryInit, QuietIsReported
<1>2. ASSUME TypeOK, QuietIsReported, [Next]_vars PROVE QuietIsReported'
    <2> SUFFICES ASSUME faults' = 0, NEW i \in Ids, Quiet(i)' PROVE status'[i] \notin Open
        BY DEF QuietIsReported, Quiet, Open, Waits
    <2>1. faults = 0 /\ ~Crash
        BY <1>2, SMT DEF Next, vars, TypeOK, GatewayInput, Forgery, Trigger, Crash, TakeJob, Forward, Requeue
    <2>2. Quiet(i) => status[i] \notin Open
        BY <1>2, <2>1 DEF QuietIsReported, Quiet, Open, Waits
    <2>3. CASE UNCHANGED forgeryVars
        BY <2>2, <2>3 DEF forgeryVars, Quiet
    <2>4. CASE \/ \E d \in Events : ForwardWebhook(d)
               \/ \E t \in Triggers : TriggerBuild(t)
               \/ ForgeryStep
        BY <1>2, <2>2, <2>4, QuietKept DEF TypeOK
    <2>5. ASSUME NEW k \in Workers, Forward(k)
          PROVE  UNCHANGED forgeryVars \/ \E d \in Events : ForwardWebhook(d)
        <3>1. working[k].delivery \in Deliveries
            BY <1>2, <2>5 DEF Forward, TypeOK, GatewayTypeOK, Jobs
        <3> QED BY <2>5, <3>1, DeliveryAssumption DEF Forward, forwardGRPC
    <2> QED BY <1>2, <2>1, <2>3, <2>4, <2>5
            DEF Next, vars, GatewayInput, Forgery, Trigger, TakeJob, Requeue
<1> QED BY <1>1, <1>2, DeliveryTyped, PTL DEF Spec

----------------------------------------------------------------------------
(* Counting what is on its way *)

\* The attempts job j counts for delivery d.
Share(j, d) == IF j.delivery = d THEN Left(j) ELSE 0

\* A job in the gateway has an attempt left, and counts for its own delivery only.
LEMMA ShareType ==
    ASSUME NEW j \in Jobs, NEW d PROVE Left(j) \in 1 .. Attempts /\ Share(j, d) \in 0 .. Attempts
BY AttemptsType, SMT DEF Share, Left, Jobs

\* A set of n pairs with the same first component.
LEMMA BlockSize ==
    ASSUME NEW x, NEW n \in Nat
    PROVE  IsFiniteSet({x} \X (1 .. n)) /\ Cardinality({x} \X (1 .. n)) = n
<1>1. IsFiniteSet({x}) /\ Cardinality({x}) = 1
    BY FS_Singleton
<1>2. IsFiniteSet(1 .. n) /\ Cardinality(1 .. n) = n
    BY FS_Interval, SMT
<1>3. /\ IsFiniteSet({x} \X (1 .. n))
      /\ Cardinality({x} \X (1 .. n)) = Cardinality({x}) * Cardinality(1 .. n)
    BY <1>1, <1>2, FS_Product
<1> QED BY <1>1, <1>2, <1>3, SMT

\* Adding a block of n elements adds at most n.
LEMMA AtMost ==
    ASSUME NEW S, IsFiniteSet(S), NEW B, IsFiniteSet(B), NEW T, T \subseteq S \union B
    PROVE  IsFiniteSet(T) /\ Cardinality(T) <= Cardinality(S) + Cardinality(B)
<1>1. /\ IsFiniteSet(S \union B)
      /\ Cardinality(S \union B) = Cardinality(S) + Cardinality(B) - Cardinality(S \intersect B)
    BY FS_Union
<1>2. IsFiniteSet(T) /\ Cardinality(T) <= Cardinality(S \union B)
    BY <1>1, FS_Subset
<1>3. IsFiniteSet(S \intersect B)
    BY FS_Intersection
<1>4. /\ Cardinality(S) \in Nat /\ Cardinality(B) \in Nat /\ Cardinality(T) \in Nat
      /\ Cardinality(S \intersect B) \in Nat
    BY <1>2, <1>3, FS_CardinalityType
<1> QED BY <1>1, <1>2, <1>4, SMT

\* What maps one to one into a set outside a block of n elements has n elements less.
LEMMA AtLeast ==
    ASSUME NEW S, IsFiniteSet(S), NEW B, B \subseteq S, NEW T, NEW f \in Injection(T, S \ B)
    PROVE  IsFiniteSet(T) /\ Cardinality(T) + Cardinality(B) <= Cardinality(S)
<1>1. IsFiniteSet(B)
    BY FS_Subset
<1>2. S \intersect B = B
    OBVIOUS
<1>3. IsFiniteSet(S \ B) /\ Cardinality(S \ B) = Cardinality(S) - Cardinality(B)
    BY <1>2, FS_Difference, ZenonT(30)
<1>4. IsFiniteSet(T) /\ Cardinality(T) <= Cardinality(S \ B)
    BY <1>3, FS_Injection
<1>5. Cardinality(S) \in Nat /\ Cardinality(B) \in Nat /\ Cardinality(T) \in Nat
    BY <1>1, <1>4, FS_CardinalityType
<1> QED BY <1>3, <1>4, <1>5, SMT

\* The same without the detour of a function.
LEMMA AtLeastSubset ==
    ASSUME NEW S, IsFiniteSet(S), NEW B, B \subseteq S, NEW T, T \subseteq S \ B
    PROVE  IsFiniteSet(T) /\ Cardinality(T) + Cardinality(B) <= Cardinality(S)
<1> DEFINE f == [x \in T |-> x]
<1>1. f \in Injection(T, S \ B)
    BY DEF Injection, IsInjective
<1> HIDE DEF f
<1> QED BY <1>1, AtLeast

\* Only finitely many attempts are in the channel, at the workers and with the retries.
LEMMA FiniteCredit ==
    ASSUME GatewayTypeOK, NEW d \in Deliveries
    PROVE  /\ IsFiniteSet(InChannel(d)) /\ Cardinality(InChannel(d)) \in Nat
           /\ IsFiniteSet(AtWorkers(d)) /\ Cardinality(AtWorkers(d)) \in Nat
           /\ IsFiniteSet(InRetries(d)) /\ Cardinality(InRetries(d)) \in Nat
<1>1. Attempts \in Nat /\ IsFiniteSet(1 .. Attempts)
    BY AttemptsType, FS_Interval, SMT
<1>2. IsFiniteSet(InChannel(d))
    <2>1. IsFiniteSet(1 .. Len(jobs))
        BY FS_Interval, SMT DEF GatewayTypeOK
    <2>2. IsFiniteSet((1 .. Len(jobs)) \X (1 .. Attempts))
        BY <1>1, <2>1, FS_Product
    <2>3. InChannel(d) \subseteq (1 .. Len(jobs)) \X (1 .. Attempts)
        BY DEF InChannel
    <2> QED BY <2>2, <2>3, FS_Subset
<1>3. IsFiniteSet(AtWorkers(d))
    <2>1. IsFiniteSet(Workers \X (1 .. Attempts))
        BY <1>1, ForwardingAssumption, FS_Product
    <2>2. AtWorkers(d) \subseteq Workers \X (1 .. Attempts)
        BY DEF AtWorkers
    <2> QED BY <2>1, <2>2, FS_Subset
<1>4. IsFiniteSet(InRetries(d))
    <2> DEFINE mine == {j \in Jobs : j.delivery = d}
               block(j) == {j} \X (1 .. waiting[j]) \X (1 .. Left(j))
               blocks == {block(j) : j \in mine}
               nth == [n \in 0 .. Attempts - 1 |-> block([delivery |-> d, attempt |-> n])]
    <2>1. InRetries(d) = UNION blocks
        BY DEF InRetries
    <2>2. ASSUME NEW T \in blocks PROVE IsFiniteSet(T)
        <3>1. PICK j \in Jobs : T = block(j)
            BY <2>2
        <3>2. waiting[j] \in Nat /\ Left(j) \in Nat
            <4>1. Left(j) \in 1 .. Attempts
                BY ShareType
            <4> QED BY <1>1, <4>1, SMT DEF GatewayTypeOK
        <3>3. IsFiniteSet({j}) /\ IsFiniteSet(1 .. waiting[j]) /\ IsFiniteSet(1 .. Left(j))
            <4>1. \A n \in Nat : IsFiniteSet(1 .. n)
                BY FS_Interval, SMT
            <4> QED BY <3>2, <4>1, FS_Singleton
        <3>4. IsFiniteSet({j} \X (1 .. waiting[j]) \X (1 .. Left(j)))
            <4> DEFINE tripled == [p \in ({j} \X (1 .. waiting[j])) \X (1 .. Left(j)) |->
                                     <<p[1][1], p[1][2], p[2]>>]
            <4>1. IsFiniteSet(({j} \X (1 .. waiting[j])) \X (1 .. Left(j)))
                BY <3>3, FS_Product
            <4>2. ASSUME NEW x \in {j} \X (1 .. waiting[j]) \X (1 .. Left(j))
                  PROVE  /\ <<<<x[1], x[2]>>, x[3]>> \in ({j} \X (1 .. waiting[j])) \X (1 .. Left(j))
                         /\ tripled[<<<<x[1], x[2]>>, x[3]>>] = x
                BY SMT
            <4>3. tripled \in Surjection(({j} \X (1 .. waiting[j])) \X (1 .. Left(j)),
                                         {j} \X (1 .. waiting[j]) \X (1 .. Left(j)))
                BY <4>2 DEF Surjection
            <4> HIDE DEF tripled
            <4> QED BY <4>1, <4>3, FS_Surjection
        <3> QED BY <3>1, <3>4
    <2>3. IsFiniteSet(blocks)
        <3>1. ASSUME NEW j \in mine
              PROVE  j.attempt \in 0 .. Attempts - 1 /\ j = [delivery |-> d, attempt |-> j.attempt]
            BY DEF Jobs
        <3>2. ASSUME NEW n \in 0 .. Attempts - 1 PROVE [delivery |-> d, attempt |-> n] \in mine
            BY DEF Jobs
        <3>3. \A j \in mine : nth[j.attempt] = block(j)
            BY <3>1
        <3> HIDE DEF mine, block
        <3>4. nth \in Surjection(0 .. Attempts - 1, blocks)
            BY <3>1, <3>2, <3>3, SMT DEF Surjection
        <3>5. IsFiniteSet(0 .. Attempts - 1)
            BY <1>1, FS_Interval, SMT
        <3> HIDE DEF nth, blocks
        <3> QED BY <3>4, <3>5, FS_Surjection
    <2> HIDE DEF blocks
    <2> QED BY <2>1, <2>2, <2>3, FS_UNION
<1> QED BY <1>2, <1>3, <1>4, FS_CardinalityType

\* A job put into the channel adds its share, and nothing that was there goes.
LEMMA ChannelGrows ==
    ASSUME GatewayTypeOK, NEW j \in Jobs, jobs' = Append(jobs, j), NEW d \in Deliveries
    PROVE  /\ InChannel(d) \subseteq InChannel(d)'
           /\ IsFiniteSet(InChannel(d)')
           /\ Cardinality(InChannel(d)') <= Cardinality(InChannel(d)) + Share(j, d)
<1> DEFINE B == {Len(jobs) + 1} \X (1 .. Share(j, d))
<1>1. /\ jobs \in Seq(Jobs) /\ Len(jobs) \in Nat /\ Len(jobs') = Len(jobs) + 1
      /\ \A i \in 1 .. Len(jobs) : jobs'[i] = jobs[i]
      /\ jobs'[Len(jobs) + 1] = j
    BY SMT DEF GatewayTypeOK
<1>2. InChannel(d) \subseteq InChannel(d)'
    BY <1>1, SMT DEF InChannel, Left
<1>3. Share(j, d) \in Nat /\ IsFiniteSet(B) /\ Cardinality(B) = Share(j, d)
    <2>1. Share(j, d) \in Nat
        BY ShareType, AttemptsType, SMT
    <2> QED BY <2>1, BlockSize
<1>4. InChannel(d)' \subseteq InChannel(d) \union B
    <2> SUFFICES ASSUME NEW p \in InChannel(d)', p[1] = Len(jobs) + 1 PROVE p \in B
        BY <1>1, SMT DEF InChannel, Left
    <2>1. /\ p = <<p[1], p[2]>> /\ p[2] \in 1 .. Attempts
          /\ jobs'[p[1]].delivery = d /\ p[2] <= Left(jobs'[p[1]])
        BY SMT DEF InChannel, Left
    <2>2. p[2] \in 1 .. Share(j, d)
        BY <1>1, <1>3, <2>1, AttemptsType, SMT DEF Share
    <2> QED BY <2>1, <2>2
<1> HIDE DEF B
<1> QED BY <1>2, <1>3, <1>4, FiniteCredit, AtMost

\* The job a worker takes leaves with its share.
LEMMA ChannelShrinks ==
    ASSUME GatewayTypeOK, jobs # <<>>, jobs' = Tail(jobs), NEW d \in Deliveries
    PROVE  /\ IsFiniteSet(InChannel(d)')
           /\ Cardinality(InChannel(d)') + Share(Head(jobs), d) <= Cardinality(InChannel(d))
<1> DEFINE B == {1} \X (1 .. Share(Head(jobs), d))
           f == [p \in InChannel(d)' |-> <<p[1] + 1, p[2]>>]
<1>1. /\ jobs \in Seq(Jobs) /\ Len(jobs) \in Nat \ {0} /\ Len(jobs') = Len(jobs) - 1
      /\ \A i \in 1 .. Len(jobs) - 1 : jobs'[i] = jobs[i + 1]
      /\ Head(jobs) = jobs[1] /\ jobs[1] \in Jobs
    BY TailOf, SMT DEF GatewayTypeOK
<1>2. Share(Head(jobs), d) \in 0 .. Attempts /\ Attempts \in Nat
    BY <1>1, ShareType, AttemptsType
<1>3. Cardinality(B) = Share(Head(jobs), d)
    <2>1. Share(Head(jobs), d) \in Nat
        BY <1>2, SMT
    <2> QED BY <2>1, BlockSize
<1>4. B \subseteq InChannel(d)
    <2> SUFFICES ASSUME NEW n \in 1 .. Share(Head(jobs), d) PROVE <<1, n>> \in InChannel(d)
        BY SMT
    <2>1. jobs[1].delivery = d /\ n \in 1 .. Attempts /\ n <= Left(jobs[1])
        BY <1>1, <1>2, SMT DEF Share
    <2> QED BY <1>1, <2>1, SMT DEF InChannel
<1>5. ASSUME NEW p \in InChannel(d)'
      PROVE  /\ p = <<p[1], p[2]>> /\ p[1] \in Int
             /\ <<p[1] + 1, p[2]>> \in InChannel(d) \ B
    <2>1. /\ p = <<p[1], p[2]>> /\ p[1] \in 1 .. Len(jobs) - 1 /\ p[2] \in 1 .. Attempts
          /\ jobs'[p[1]].delivery = d /\ p[2] <= Left(jobs'[p[1]])
        BY <1>1, SMT DEF InChannel, Left
    <2>2. p[1] + 1 \in 1 .. Len(jobs) /\ jobs'[p[1]] = jobs[p[1] + 1] /\ p[1] + 1 # 1
        BY <1>1, <2>1, SMT
    <2>3. <<p[1] + 1, p[2]>> \in InChannel(d)
        BY <2>1, <2>2 DEF InChannel
    <2>4. p[1] \in Int
        BY <1>1, <2>1, SMT
    <2> QED BY <2>1, <2>2, <2>3, <2>4, ZenonT(30)
<1>6. f \in Injection(InChannel(d)', InChannel(d) \ B)
    <2>1. ASSUME NEW p \in InChannel(d)', NEW r \in InChannel(d)', f[p] = f[r] PROVE p = r
        <3>1. p[1] + 1 = r[1] + 1 /\ p[2] = r[2]
            BY <2>1
        <3>2. p = <<p[1], p[2]>> /\ r = <<r[1], r[2]>> /\ p[1] \in Int /\ r[1] \in Int
            BY <1>5
        <3>3. p[1] = r[1]
            BY <3>1, <3>2, SMT
        <3> QED BY <3>1, <3>2, <3>3
    <2>2. f \in [InChannel(d)' -> InChannel(d) \ B]
        BY <1>5
    <2> HIDE DEF f
    <2> QED BY <2>1, <2>2 DEF Injection, IsInjective
<1> HIDE DEF B, f
<1> QED BY <1>3, <1>4, <1>6, FiniteCredit, AtLeast

\* A worker that takes job j adds its share.
LEMMA WorkerTakes ==
    ASSUME GatewayTypeOK, NEW k \in Workers, working[k] = NoJob, NEW j \in Jobs,
           working' = [working EXCEPT ![k] = j], NEW d \in Deliveries
    PROVE  /\ IsFiniteSet(AtWorkers(d)')
           /\ Cardinality(AtWorkers(d)') <= Cardinality(AtWorkers(d)) + Share(j, d)
<1> DEFINE B == {k} \X (1 .. Share(j, d))
<1>1. Share(j, d) \in 0 .. Attempts /\ Attempts \in Nat
    BY ShareType, AttemptsType
<1>2. IsFiniteSet(B) /\ Cardinality(B) = Share(j, d)
    <2>1. Share(j, d) \in Nat
        BY <1>1, SMT
    <2> QED BY <2>1, BlockSize
<1>3. AtWorkers(d)' \subseteq AtWorkers(d) \union B
    <2> SUFFICES ASSUME NEW p \in AtWorkers(d)', p \notin AtWorkers(d) PROVE p \in B
        OBVIOUS
    <2>1. /\ p = <<p[1], p[2]>> /\ p[1] \in Workers /\ p[2] \in 1 .. Attempts
          /\ working'[p[1]] # NoJob /\ working'[p[1]].delivery = d /\ p[2] <= Left(working'[p[1]])
        BY SMT DEF AtWorkers, Left
    <2>2. p[1] = k
        BY <2>1 DEF AtWorkers, GatewayTypeOK
    <2>3. p[2] \in 1 .. Share(j, d)
        BY <1>1, <2>1, <2>2, SMT DEF Share, GatewayTypeOK
    <2> QED BY <2>1, <2>2, <2>3
<1> HIDE DEF B
<1> QED BY <1>2, <1>3, FiniteCredit, AtMost

\* A worker that is done with job j gives its share up.
LEMMA WorkerReleases ==
    ASSUME GatewayTypeOK, NEW k \in Workers, working[k] # NoJob,
           working' = [working EXCEPT ![k] = NoJob], NEW d \in Deliveries
    PROVE  /\ IsFiniteSet(AtWorkers(d)')
           /\ Cardinality(AtWorkers(d)') + Share(working[k], d) <= Cardinality(AtWorkers(d))
<1> DEFINE B == {k} \X (1 .. Share(working[k], d))
<1>1. working[k] \in Jobs
    BY DEF GatewayTypeOK
<1>2. Share(working[k], d) \in 0 .. Attempts /\ Attempts \in Nat
    BY <1>1, ShareType, AttemptsType
<1>3. Cardinality(B) = Share(working[k], d)
    <2>1. Share(working[k], d) \in Nat
        BY <1>2, SMT
    <2> QED BY <2>1, BlockSize
<1>4. B \subseteq AtWorkers(d)
    <2> SUFFICES ASSUME NEW n \in 1 .. Share(working[k], d) PROVE <<k, n>> \in AtWorkers(d)
        BY SMT
    <2>1. working[k].delivery = d /\ n \in 1 .. Attempts /\ n <= Left(working[k])
        BY <1>2, SMT DEF Share
    <2> QED BY <2>1 DEF AtWorkers
<1>5. AtWorkers(d)' \subseteq AtWorkers(d) \ B
    BY DEF AtWorkers, Left, GatewayTypeOK
<1> HIDE DEF B
<1> QED BY <1>3, <1>4, <1>5, FiniteCredit, AtLeastSubset

\* The attempts of the retry goroutines of job j, numbered.
RetryBlock(j, n) == {j} \X {n} \X (1 .. Left(j))

\* A retry goroutine holds as many attempts as its job has left.
LEMMA RetryBlockSize ==
    ASSUME NEW j \in Jobs, NEW n
    PROVE  IsFiniteSet(RetryBlock(j, n)) /\ Cardinality(RetryBlock(j, n)) = Left(j)
<1> DEFINE f == [m \in 1 .. Left(j) |-> <<j, n, m>>]
<1>1. Left(j) \in Nat
    BY ShareType, AttemptsType, SMT
<1>2. IsFiniteSet(1 .. Left(j)) /\ Cardinality(1 .. Left(j)) = Left(j)
    BY <1>1, FS_Interval, SMT
<1>3. f \in Bijection(1 .. Left(j), RetryBlock(j, n))
    <2>1. f \in [1 .. Left(j) -> RetryBlock(j, n)]
        BY DEF RetryBlock
    <2>2. \A a, b \in 1 .. Left(j) : f[a] = f[b] => a = b
        OBVIOUS
    <2>3. \A t \in RetryBlock(j, n) : t[3] \in 1 .. Left(j) /\ f[t[3]] = t
        BY SMT DEF RetryBlock
    <2> HIDE DEF f
    <2> QED BY <2>1, <2>2, <2>3 DEF Bijection, Injection, Surjection, IsInjective
<1> HIDE DEF f
<1>4. ExistsBijection(1 .. Left(j), RetryBlock(j, n))
    BY <1>3 DEF ExistsBijection
<1> QED BY <1>2, <1>4, FS_Bijection

\* The retry goroutines of a delivery's jobs, read as a set of triples.
LEMMA RetryTriples ==
    ASSUME NEW d, NEW t
    PROVE  t \in InRetries(d) <=>
             \E j \in Jobs : \E n \in 1 .. waiting[j] : j.delivery = d /\ t \in RetryBlock(j, n)
<1>1. ASSUME NEW j \in Jobs
      PROVE  t \in {j} \X (1 .. waiting[j]) \X (1 .. Left(j))
               <=> \E n \in 1 .. waiting[j] : t \in RetryBlock(j, n)
    BY DEF RetryBlock
<1> QED BY <1>1, ZenonT(30) DEF InRetries

\* The same in the state after a step.
LEMMA RetryTriplesNext ==
    ASSUME NEW d, NEW t
    PROVE  t \in InRetries(d)' <=>
             \E j \in Jobs : \E n \in 1 .. waiting'[j] : j.delivery = d /\ t \in RetryBlock(j, n)
<1>1. ASSUME NEW j \in Jobs
      PROVE  t \in {j} \X (1 .. waiting'[j]) \X (1 .. Left(j))
               <=> \E n \in 1 .. waiting'[j] : t \in RetryBlock(j, n)
    BY DEF RetryBlock
<1> QED BY <1>1, SMT DEF InRetries, Left

\* A retry goroutine for job j adds its share.
LEMMA RetryGrows ==
    ASSUME GatewayTypeOK, NEW j \in Jobs,
           waiting' = [waiting EXCEPT ![j] = @ + 1], NEW d \in Deliveries
    PROVE  /\ IsFiniteSet(InRetries(d)')
           /\ Cardinality(InRetries(d)') <= Cardinality(InRetries(d)) + Share(j, d)
<1> DEFINE B == IF j.delivery = d THEN RetryBlock(j, waiting[j] + 1) ELSE {}
<1>1. IsFiniteSet(B) /\ Cardinality(B) = Share(j, d)
    BY RetryBlockSize, FS_EmptySet DEF Share
<1>2. ASSUME NEW t \in InRetries(d)', t \notin InRetries(d) PROVE t \in B
    <2>1. PICK i \in Jobs : \E n \in 1 .. waiting'[i] : i.delivery = d /\ t \in RetryBlock(i, n)
        BY <1>2, RetryTriplesNext
    <2> QED BY <1>2, <2>1, RetryTriples, SMT DEF GatewayTypeOK
<1> HIDE DEF B
<1> QED BY <1>1, <1>2, FiniteCredit, AtMost

\* A retry whose job goes back to the channel gives its share up.
LEMMA RetryShrinks ==
    ASSUME GatewayTypeOK, NEW j \in Jobs, waiting[j] > 0,
           waiting' = [waiting EXCEPT ![j] = @ - 1], NEW d \in Deliveries
    PROVE  /\ IsFiniteSet(InRetries(d)')
           /\ Cardinality(InRetries(d)') + Share(j, d) <= Cardinality(InRetries(d))
<1> DEFINE B == IF j.delivery = d THEN RetryBlock(j, waiting[j]) ELSE {}
<1>1. Cardinality(B) = Share(j, d)
    BY RetryBlockSize, FS_EmptySet DEF Share
<1>2. B \subseteq InRetries(d)
    <2>1. waiting[j] \in 1 .. waiting[j]
        BY SMT DEF GatewayTypeOK
    <2> QED BY <2>1, RetryTriples
<1>3. ASSUME NEW t \in InRetries(d)' PROVE t \in InRetries(d) \ B
    <2>1. PICK i \in Jobs : \E n \in 1 .. waiting'[i] : i.delivery = d /\ t \in RetryBlock(i, n)
        BY <1>3, RetryTriplesNext
    <2>2. PICK n \in 1 .. waiting'[i] : i.delivery = d /\ t \in RetryBlock(i, n)
        BY <2>1
    <2>3. n \in 1 .. waiting[i] /\ (i = j => n # waiting[j])
        BY SMT DEF GatewayTypeOK
    <2>4. t[1] = i /\ t[2] = n
        BY <2>2 DEF RetryBlock
    <2>5. t \in B => t[1] = j /\ t[2] = waiting[j]
        BY DEF RetryBlock
    <2>6. t \in InRetries(d)
        BY <2>2, <2>3, RetryTriples
    <2> QED BY <2>3, <2>4, <2>5, <2>6
<1> HIDE DEF B
<1> QED BY <1>1, <1>2, <1>3, FiniteCredit, AtLeastSubset

\* The entries of a Redis list are finitely many.
LEMMA ListCounts ==
    ASSUME NEW S, NEW q \in Seq(S), NEW d
    PROVE  IsFiniteSet(InList(q, d)) /\ Cardinality(InList(q, d)) \in Nat
<1>1. InList(q, d) \subseteq 1 .. Len(q) /\ IsFiniteSet(1 .. Len(q))
    BY FS_Interval, SMT DEF InList
<1>2. IsFiniteSet(InList(q, d))
    BY <1>1, FS_Subset
<1> QED BY <1>2, FS_CardinalityType

\* BLPop takes one entry, of the id at the head.
LEMMA ListPops ==
    ASSUME NEW S, NEW q \in Seq(S), q # <<>>, NEW d
    PROVE  Cardinality(InList(Tail(q), d)) + (IF Head(q) = d THEN 1 ELSE 0)
             <= Cardinality(InList(q, d))
<1> DEFINE B == IF Head(q) = d THEN {1} ELSE {}
           f == [i \in InList(Tail(q), d) |-> i + 1]
<1>1. /\ Len(q) \in Nat \ {0} /\ Tail(q) \in Seq(S) /\ Len(Tail(q)) = Len(q) - 1
      /\ Head(q) = q[1] /\ \A n \in 1 .. Len(Tail(q)) : Tail(q)[n] = q[n + 1]
    BY TailOf, SMT
<1>2. DOMAIN q = 1 .. Len(q) /\ DOMAIN Tail(q) = 1 .. Len(q) - 1
    BY <1>1, SMT
<1>3. B \subseteq InList(q, d)
    BY <1>1, <1>2, SMT DEF InList
<1>4. Cardinality(B) = IF Head(q) = d THEN 1 ELSE 0
    BY FS_EmptySet, FS_Singleton
<1>5. ASSUME NEW i \in InList(Tail(q), d) PROVE i \in Int /\ i + 1 \in InList(q, d) \ B
    BY <1>1, <1>2, SMT DEF InList
<1>6. f \in Injection(InList(Tail(q), d), InList(q, d) \ B)
    <2>1. ASSUME NEW i \in InList(Tail(q), d), NEW n \in InList(Tail(q), d), f[i] = f[n] PROVE i = n
        BY <1>5, <2>1, SMT
    <2>2. f \in [InList(Tail(q), d) -> InList(q, d) \ B]
        BY <1>5
    <2> HIDE DEF f
    <2> QED BY <2>1, <2>2 DEF Injection, IsInjective
<1> HIDE DEF B, f
<1> QED BY <1>3, <1>4, <1>6, ListCounts, AtLeast

\* LPush adds one entry, of the id it pushes.
LEMMA ListPushes ==
    ASSUME NEW S, NEW q \in Seq(S), NEW e \in S, NEW d
    PROVE  Cardinality(InList(<<e>> \o q, d))
             <= Cardinality(InList(q, d)) + (IF e = d THEN 1 ELSE 0)
<1> DEFINE r == <<e>> \o q
<1>1. <<e>> \in Seq(S) /\ Len(<<e>>) = 1
    BY SMT
<1>2. /\ r \in Seq(S) /\ Len(r) = 1 + Len(q)
      /\ \A n \in 1 .. Len(<<e>>) + Len(q) :
            r[n] = IF n <= Len(<<e>>) THEN <<e>>[n] ELSE q[n - Len(<<e>>)]
    BY <1>1, Pushed, SMT
<1>3. DOMAIN q = 1 .. Len(q) /\ DOMAIN r = 1 .. 1 + Len(q) /\ Len(q) \in Nat
    BY <1>2, SMT
<1>4. r[1] = e /\ \A n \in 2 .. 1 + Len(q) : r[n] = q[n - 1]
    BY <1>1, <1>2, <1>3, SMT
<1> HIDE DEF r
<1> DEFINE rest == InList(r, d) \ {1}
           f == [n \in rest |-> n - 1]
<1>5. ASSUME NEW n \in rest PROVE n \in Int /\ n - 1 \in InList(q, d)
    BY <1>3, <1>4, SMT DEF InList
<1>6. f \in Injection(rest, InList(q, d))
    <2>1. ASSUME NEW i \in rest, NEW n \in rest, f[i] = f[n] PROVE i = n
        BY <1>5, <2>1, SMT
    <2>2. f \in [rest -> InList(q, d)]
        BY <1>5
    <2> HIDE DEF f, rest
    <2> QED BY <2>1, <2>2 DEF Injection, IsInjective
<1>7. 1 \in InList(r, d) => e = d
    BY <1>4 DEF InList
<1>8. IsFiniteSet(InList(r, d)) /\ Cardinality(InList(r, d)) \in Nat
      /\ IsFiniteSet(InList(q, d)) /\ Cardinality(InList(q, d)) \in Nat
    BY <1>2, ListCounts
<1>9. IsFiniteSet(rest) /\ Cardinality(rest) = IF 1 \in InList(r, d) THEN Cardinality(InList(r, d)) - 1
                                                ELSE Cardinality(InList(r, d))
    BY <1>8, FS_RemoveElement
<1> HIDE DEF f, rest
<1>10. Cardinality(rest) <= Cardinality(InList(q, d))
    BY <1>6, <1>8, FS_Injection
<1>11. Cardinality(InList(r, d)) <= Cardinality(InList(q, d)) + (IF e = d THEN 1 ELSE 0)
    BY <1>7, <1>8, <1>9, <1>10, SMT
<1> QED BY <1>11 DEF r

----------------------------------------------------------------------------
(* Refinement of the contract *)

GatewayCounts(d) ==
    /\ Cardinality(InChannel(d)) \in Nat /\ Cardinality(AtWorkers(d)) \in Nat
    /\ Cardinality(InRetries(d)) \in Nat
ForgeryCounts(d) ==
    /\ Cardinality(InList(webhookQueue, d)) \in Nat
    /\ Cardinality(InList(buildQueue, d)) \in Nat
    /\ AtEvent(d) \in 0 .. 1 /\ building[d] \in Nat

\* Every term of a delivery's credit is a number.
LEMMA CreditType ==
    ASSUME TypeOK, NEW d \in Deliveries
    PROVE  /\ GatewayCounts(d) /\ ForgeryCounts(d) /\ d \in Ids
           /\ GatewayCredit(d) \in Nat /\ ForgeryCredit(d) \in Nat /\ Credit(d) \in Nat
<1>1. GatewayCounts(d)
    BY FiniteCredit DEF TypeOK, GatewayCounts
<1>2. /\ Cardinality(InList(webhookQueue, d)) \in Nat
      /\ Cardinality(InList(buildQueue, d)) \in Nat
    BY ListCounts DEF TypeOK, ForgeryTypeOK
<1>3. AtEvent(d) \in 0 .. 1 /\ building[d] \in Nat /\ d \in Ids
    BY DeliveryAssumption, SMT DEF AtEvent, TypeOK, ForgeryTypeOK, Ids
<1>4. ForgeryCounts(d)
    BY <1>2, <1>3 DEF ForgeryCounts
<1>5. GatewayCredit(d) \in Nat
    BY <1>1, SMT DEF GatewayCredit, GatewayCounts
<1>6. ForgeryCredit(d) \in Nat
    BY <1>4, SMT DEF ForgeryCredit, ForgeryCounts
<1> QED BY <1>1, <1>3, <1>4, <1>5, <1>6, SMT DEF Credit

CreditOK == \A d \in Deliveries : Credit(d) \in Nat

\* The same in the state after a step.
LEMMA CreditTypeNext == TypeOK' => CreditOK'
<1>1. TypeOK => CreditOK
    BY CreditType DEF CreditOK
<1> QED BY <1>1, PTL

\* A term of the credit changes only with the variable it counts.
LEMMA GatewayFrame ==
    ASSUME NEW d
    PROVE  /\ UNCHANGED jobs => InChannel(d)' = InChannel(d)
           /\ UNCHANGED working => AtWorkers(d)' = AtWorkers(d)
           /\ UNCHANGED waiting => InRetries(d)' = InRetries(d)
BY DEF InChannel, AtWorkers, InRetries, Left

\* The same for forgery.
LEMMA ForgeryFrame ==
    ASSUME NEW d
    PROVE  /\ UNCHANGED webhookQueue => InList(webhookQueue, d)' = InList(webhookQueue, d)
           /\ UNCHANGED buildQueue => InList(buildQueue, d)' = InList(buildQueue, d)
           /\ UNCHANGED event => AtEvent(d)' = AtEvent(d)
BY DEF InList, AtEvent

\* A step of one half leaves the credit in the other alone.
LEMMA HalvesKept ==
    ASSUME NEW d
    PROVE  /\ UNCHANGED <<jobs, working, waiting>> => GatewayCredit(d)' = GatewayCredit(d)
           /\ UNCHANGED <<webhookQueue, buildQueue, event, building>>
                => ForgeryCredit(d)' = ForgeryCredit(d)
<1>1. ASSUME UNCHANGED <<jobs, working, waiting>> PROVE GatewayCredit(d)' = GatewayCredit(d)
    BY <1>1, GatewayFrame DEF GatewayCredit
<1>2. ASSUME UNCHANGED <<webhookQueue, buildQueue, event, building>>
      PROVE  ForgeryCredit(d)' = ForgeryCredit(d)
    BY <1>2, ForgeryFrame DEF ForgeryCredit
<1> QED BY <1>1, <1>2

\* Credit that moves from the gateway to forgery is not more than before.
LEMMA HalvesAdd ==
    ASSUME TypeOK, NEW d \in Deliveries, NEW n \in Nat,
           GatewayCredit(d)' \in Nat, ForgeryCredit(d)' \in Nat,
           GatewayCredit(d)' + n <= GatewayCredit(d),
           ForgeryCredit(d)' <= ForgeryCredit(d) + n
    PROVE  Credit(d)' <= Credit(d)
<1>1. GatewayCredit(d) \in Nat /\ ForgeryCredit(d) \in Nat
    BY CreditType
<1> QED BY <1>1, SMT DEF Credit

\* A step that lowers one half and leaves the other alone.
LEMMA HalfLoses ==
    ASSUME TypeOK, NEW d \in Deliveries
    PROVE  /\ /\ UNCHANGED <<webhookQueue, buildQueue, event, building>>
              /\ GatewayCredit(d)' \in Nat /\ GatewayCredit(d)' <= GatewayCredit(d)
              => Credit(d)' <= Credit(d)
           /\ /\ UNCHANGED <<jobs, working, waiting>>
              /\ ForgeryCredit(d)' \in Nat /\ ForgeryCredit(d)' <= ForgeryCredit(d)
              => Credit(d)' <= Credit(d)
<1>1. GatewayCredit(d) \in Nat /\ ForgeryCredit(d) \in Nat
    BY CreditType
<1> QED BY <1>1, HalvesKept, SMT DEF Credit

\* A step after which no delivery has more credit, a build or an acceptance is a loss.
LEMMA LossImplements ==
    ASSUME TypeOK', seen' \subseteq seen, UNCHANGED <<accepted, builds>>,
           \A d \in Deliveries : Credit(d)' <= Credit(d)
    PROVE  Contract!Lose
<1>1. \A d \in Deliveries : Credit(d)' \in Nat
    BY CreditTypeNext DEF CreditOK
<1> QED BY <1>1 DEF Contract!Lose

\* A worker that takes a job moves credit from the channel.
LEMMA TakeJobLoses ==
    ASSUME TypeOK, NEW k \in Workers, TakeJob(k), NEW d \in Deliveries
    PROVE  Credit(d)' <= Credit(d)
<1>0. GatewayCounts(d) /\ ForgeryCounts(d)
    BY CreditType
<1>1. /\ working[k] = NoJob /\ jobs # <<>> /\ jobs' = Tail(jobs)
      /\ working' = [working EXCEPT ![k] = Head(jobs)]
      /\ UNCHANGED <<waiting, webhookQueue, buildQueue, event, building>>
    BY DEF TakeJob, runWorker, forgeryVars
<1>2. Head(jobs) \in Jobs
    BY <1>1, TailOf DEF TypeOK, GatewayTypeOK
<1>3. Share(Head(jobs), d) \in Nat
    BY <1>2, ShareType, AttemptsType, SMT
<1>4. /\ IsFiniteSet(InChannel(d)')
      /\ Cardinality(InChannel(d)') + Share(Head(jobs), d) <= Cardinality(InChannel(d))
    BY <1>1, ChannelShrinks DEF TypeOK
<1>5. /\ IsFiniteSet(AtWorkers(d)')
      /\ Cardinality(AtWorkers(d)') <= Cardinality(AtWorkers(d)) + Share(Head(jobs), d)
    BY <1>1, <1>2, WorkerTakes DEF TypeOK
<1>6. Cardinality(InChannel(d)') \in Nat /\ Cardinality(AtWorkers(d)') \in Nat
    BY <1>4, <1>5, FS_CardinalityType
<1>7. InRetries(d)' = InRetries(d)
    BY <1>1, GatewayFrame
<1>8. GatewayCredit(d)' \in Nat /\ GatewayCredit(d)' <= GatewayCredit(d)
    BY <1>0, <1>3, <1>4, <1>5, <1>6, <1>7, SMT DEF GatewayCredit, GatewayCounts
<1> QED BY <1>1, <1>8, HalfLoses

\* A timer that fires moves credit from the retries to the channel.
LEMMA RequeueLoses ==
    ASSUME TypeOK, NEW j \in Jobs, Requeue(j), NEW d \in Deliveries
    PROVE  Credit(d)' <= Credit(d)
<1>0. GatewayCounts(d) /\ ForgeryCounts(d)
    BY CreditType
<1>1. /\ waiting[j] > 0 /\ waiting' = [waiting EXCEPT ![j] = @ - 1] /\ jobs' = Append(jobs, j)
      /\ UNCHANGED <<working, webhookQueue, buildQueue, event, building>>
    BY DEF Requeue, RetryDue, forgeryVars
<1>2. Share(j, d) \in Nat
    BY ShareType, AttemptsType, SMT
<1>3. /\ IsFiniteSet(InChannel(d)')
      /\ Cardinality(InChannel(d)') <= Cardinality(InChannel(d)) + Share(j, d)
    BY <1>1, ChannelGrows DEF TypeOK
<1>4. /\ IsFiniteSet(InRetries(d)')
      /\ Cardinality(InRetries(d)') + Share(j, d) <= Cardinality(InRetries(d))
    BY <1>1, RetryShrinks DEF TypeOK
<1>5. Cardinality(InChannel(d)') \in Nat /\ Cardinality(InRetries(d)') \in Nat
    BY <1>3, <1>4, FS_CardinalityType
<1>6. AtWorkers(d)' = AtWorkers(d)
    BY <1>1, GatewayFrame
<1>7. GatewayCredit(d)' \in Nat /\ GatewayCredit(d)' <= GatewayCredit(d)
    BY <1>0, <1>2, <1>3, <1>4, <1>5, <1>6, SMT DEF GatewayCredit, GatewayCounts
<1> QED BY <1>1, <1>7, HalfLoses

\* An attempt uses one of the job's attempts up: the event it may have put on forgery's
\* list and the retry together count no more than the job did.
LEMMA ForwardLoses ==
    ASSUME TypeOK, NEW k \in Workers, Forward(k), NEW d \in Deliveries
    PROVE  Credit(d)' <= Credit(d)
<1> DEFINE j == working[k]
           retry == [j EXCEPT !.attempt = @ + 1]
           one == IF j.delivery = d THEN 1 ELSE 0
<1>0. GatewayCounts(d) /\ ForgeryCounts(d)
    BY CreditType
<1>1. j \in Jobs /\ working[k] # NoJob
    BY DEF Forward, TypeOK, GatewayTypeOK
<1>2. PICK forwarded \in BOOLEAN : processJob(k, forwarded)
    BY DEF Forward, forwardGRPC
<1>3. /\ working' = [working EXCEPT ![k] = NoJob] /\ UNCHANGED jobs
      /\ \/ waiting' = waiting
         \/ ~(j.attempt + 1 >= Retries) /\ waiting' = [waiting EXCEPT ![retry] = @ + 1]
    BY <1>2 DEF processJob
<1>4. Share(j, d) \in Nat /\ one \in 0 .. 1 /\ one <= Share(j, d)
    BY <1>1, ShareType, AttemptsType, SMT DEF Share
<1>5. /\ IsFiniteSet(AtWorkers(d)')
      /\ Cardinality(AtWorkers(d)') + Share(j, d) <= Cardinality(AtWorkers(d))
    BY <1>1, <1>3, WorkerReleases DEF TypeOK
<1>6. /\ Cardinality(InRetries(d)') \in Nat
      /\ Cardinality(InRetries(d)') + one <= Cardinality(InRetries(d)) + Share(j, d)
    <2>1. CASE waiting' = waiting
        <3>1. InRetries(d)' = InRetries(d)
            BY <2>1, GatewayFrame
        <3> HIDE DEF one, j
        <3> QED BY <1>0, <1>4, <3>1, SMT DEF GatewayCounts
    <2>2. CASE ~(j.attempt + 1 >= Retries) /\ waiting' = [waiting EXCEPT ![retry] = @ + 1]
        <3>1. retry \in Jobs
            BY <1>1, <2>2, RetryIsJob
        <3>2. Share(retry, d) + one = Share(j, d) /\ Share(retry, d) \in Nat
            <4>1. j.attempt \in Nat /\ retry.delivery = j.delivery /\ retry.attempt = j.attempt + 1
                BY <1>1, SMT DEF Jobs
            <4>2. Share(retry, d) \in Nat
                BY <3>1, ShareType, AttemptsType, SMT
            <4> QED BY <4>1, <4>2, AttemptsType, SMT DEF Share, Left
        <3>3. /\ IsFiniteSet(InRetries(d)')
              /\ Cardinality(InRetries(d)') <= Cardinality(InRetries(d)) + Share(retry, d)
            BY <2>2, <3>1, RetryGrows DEF TypeOK
        <3>4. Cardinality(InRetries(d)') \in Nat
            BY <3>3, FS_CardinalityType
        <3> HIDE DEF retry, one
        <3> QED BY <1>0, <1>4, <3>2, <3>3, <3>4, SMT DEF GatewayCounts
    <2> QED BY <1>3, <2>1, <2>2
<1>7. /\ UNCHANGED <<buildQueue, event, building>>
      /\ Cardinality(InList(webhookQueue, d)') \in Nat
      /\ Cardinality(InList(webhookQueue, d)') <= Cardinality(InList(webhookQueue, d)) + one
    <2>1. CASE UNCHANGED forgeryVars
        <3>1. UNCHANGED <<webhookQueue, buildQueue, event, building>>
            BY <2>1 DEF forgeryVars
        <3>2. InList(webhookQueue, d)' = InList(webhookQueue, d)
            BY <3>1, ForgeryFrame
        <3> HIDE DEF one, j
        <3> QED BY <1>0, <1>4, <3>1, <3>2, SMT DEF ForgeryCounts
    <2>2. CASE ForwardWebhook(j.delivery)
        <3>1. webhookQueue \in Seq(Events) /\ j.delivery \in Events
            BY <1>1, DeliveryAssumption DEF TypeOK, ForgeryTypeOK, Jobs
        <3>2. webhookQueue' = <<j.delivery>> \o webhookQueue
            BY <2>2 DEF ForwardWebhook
        <3>3. Cardinality(InList(<<j.delivery>> \o webhookQueue, d))
              <= Cardinality(InList(webhookQueue, d)) + one
            BY <3>1, ListPushes
        <3>4. <<j.delivery>> \o webhookQueue \in Seq(Events)
            BY <3>1, SMT
        <3>5. Cardinality(InList(<<j.delivery>> \o webhookQueue, d)) \in Nat
            BY <3>4, ListCounts
        <3>6. InList(webhookQueue, d)' = InList(<<j.delivery>> \o webhookQueue, d)
            BY <3>2 DEF InList
        <3> QED BY <2>2, <3>3, <3>5, <3>6 DEF ForwardWebhook
    <2> QED BY <2>1, <2>2 DEF Forward, forwardGRPC
<1>8. Cardinality(AtWorkers(d)') \in Nat
    BY <1>5, FS_CardinalityType
<1>9. InChannel(d)' = InChannel(d)
    BY <1>3, GatewayFrame
<1>10. /\ InList(buildQueue, d)' = InList(buildQueue, d) /\ AtEvent(d)' = AtEvent(d)
       /\ building'[d] = building[d]
    BY <1>7, ForgeryFrame
<1> HIDE DEF one, j
<1>11. GatewayCredit(d)' \in Nat /\ GatewayCredit(d)' + one <= GatewayCredit(d)
    BY <1>0, <1>4, <1>5, <1>6, <1>8, <1>9, SMT DEF GatewayCredit, GatewayCounts
<1>12. ForgeryCredit(d)' \in Nat /\ ForgeryCredit(d)' <= ForgeryCredit(d) + one
    BY <1>0, <1>4, <1>7, <1>10, SMT DEF ForgeryCredit, ForgeryCounts
<1> QED BY <1>4, <1>11, <1>12, HalvesAdd, SMT

\* The webhook worker takes an event from the list, pushes its build request or gives it
\* up; the build worker takes a request and starts its build.
LEMMA ForgeryLoses ==
    ASSUME TypeOK, UNCHANGED gatewayVars, NEW d \in Deliveries,
           ReceiveEvent \/ EnqueueBuild \/ EnqueueBuildFails \/ BuildEnqueued \/ StartBuild
    PROVE  Credit(d)' <= Credit(d)
<1>0. GatewayCounts(d) /\ ForgeryCounts(d)
    BY CreditType
<1>1. /\ webhookQueue \in Seq(Events) /\ buildQueue \in Seq(Ids) /\ building \in [Ids -> Nat]
      /\ event \in HeldEvents \union {NoEvent}
    BY DEF TypeOK, ForgeryTypeOK
<1>2. SUFFICES ForgeryCredit(d)' \in Nat /\ ForgeryCredit(d)' <= ForgeryCredit(d)
    BY HalfLoses DEF gatewayVars
<1>3. CASE ReceiveEvent
    <2> DEFINE one == IF Head(webhookQueue) = d THEN 1 ELSE 0
    <2>1. /\ webhookQueue # <<>> /\ event = NoEvent /\ webhookQueue' = Tail(webhookQueue)
          /\ event' = [id |-> Head(webhookQueue), pushed |-> FALSE]
          /\ UNCHANGED <<buildQueue, building>>
        BY <1>3 DEF ReceiveEvent
    <2>2. AtEvent(d)' = one /\ AtEvent(d) = 0
        <3>1. Head(webhookQueue) \in Events
            BY <1>1, <2>1, TailOf
        <3>2. event'.id = Head(webhookQueue) /\ event'.pushed = FALSE /\ event' \in HeldEvents
            BY <2>1, <3>1, FALSE \in BOOLEAN DEF HeldEvents
        <3> QED BY <2>1, <3>2, NoEventAssumption DEF AtEvent
    <2>3. /\ Cardinality(InList(webhookQueue, d)') \in Nat
          /\ Cardinality(InList(webhookQueue, d)') + one <= Cardinality(InList(webhookQueue, d))
        <3>1. Cardinality(InList(Tail(webhookQueue), d)) + one <= Cardinality(InList(webhookQueue, d))
            BY <1>1, <2>1, ListPops
        <3>2. Cardinality(InList(Tail(webhookQueue), d)) \in Nat
            BY <1>1, <2>1, TailOf, ListCounts
        <3>3. InList(webhookQueue, d)' = InList(Tail(webhookQueue), d)
            BY <2>1 DEF InList
        <3> HIDE DEF one
        <3> QED BY <3>1, <3>2, <3>3
    <2>4. InList(buildQueue, d)' = InList(buildQueue, d)
        BY <2>1, ForgeryFrame
    <2>5. building'[d] = building[d] /\ one \in 0 .. 1
        BY <2>1, SMT
    <2> HIDE DEF one
    <2> QED BY <1>0, <2>2, <2>3, <2>4, <2>5, SMT DEF ForgeryCredit, ForgeryCounts
<1>4. CASE EnqueueBuild
    <2> DEFINE one == IF event.id = d THEN 1 ELSE 0
    <2>1. /\ event # NoEvent /\ event' = [event EXCEPT !.pushed = TRUE]
          /\ buildQueue' = <<event.id>> \o buildQueue /\ UNCHANGED <<webhookQueue, building>>
        BY <1>4 DEF EnqueueBuild
    <2>2. event \in HeldEvents /\ event.id \in Ids /\ ~event.pushed
        BY <1>1, <1>4 DEF EnqueueBuild, HeldEvents, Ids
    <2>3. event'.pushed
        <3>1. event = [id |-> event.id, pushed |-> event.pushed]
            BY <2>2 DEF HeldEvents
        <3>2. event' = [id |-> event.id, pushed |-> TRUE]
            BY <2>1, <3>1
        <3> QED BY <3>2
    <2>4. AtEvent(d)' = 0 /\ AtEvent(d) = one
        BY <2>1, <2>2, <2>3 DEF AtEvent
    <2>5. /\ Cardinality(InList(buildQueue, d)') \in Nat
          /\ Cardinality(InList(buildQueue, d)') <= Cardinality(InList(buildQueue, d)) + one
        <3>1. Cardinality(InList(<<event.id>> \o buildQueue, d))
              <= Cardinality(InList(buildQueue, d)) + one
            BY <1>1, <2>2, ListPushes
        <3>2. <<event.id>> \o buildQueue \in Seq(Ids)
            BY <1>1, <2>2, SMT
        <3>3. Cardinality(InList(<<event.id>> \o buildQueue, d)) \in Nat
            BY <3>2, ListCounts
        <3>4. InList(buildQueue, d)' = InList(<<event.id>> \o buildQueue, d)
            BY <2>1 DEF InList
        <3> HIDE DEF one
        <3> QED BY <3>1, <3>3, <3>4
    <2>6. InList(webhookQueue, d)' = InList(webhookQueue, d)
        BY <2>1, ForgeryFrame
    <2>7. building'[d] = building[d] /\ one \in 0 .. 1
        BY <2>1, SMT
    <2> HIDE DEF one
    <2> QED BY <1>0, <2>4, <2>5, <2>6, <2>7, SMT DEF ForgeryCredit, ForgeryCounts
<1>5. CASE EnqueueBuildFails \/ BuildEnqueued
    <2>1. event' = NoEvent /\ UNCHANGED <<webhookQueue, buildQueue, building>>
        BY <1>5 DEF EnqueueBuildFails, BuildEnqueued
    <2>2. AtEvent(d)' = 0
        BY <2>1 DEF AtEvent
    <2>3. /\ InList(webhookQueue, d)' = InList(webhookQueue, d)
          /\ InList(buildQueue, d)' = InList(buildQueue, d)
        BY <2>1, ForgeryFrame
    <2>4. building'[d] = building[d]
        BY <2>1
    <2> QED BY <1>0, <2>2, <2>3, <2>4, SMT DEF ForgeryCredit, ForgeryCounts
<1>6. CASE StartBuild
    <2> DEFINE one == IF Head(buildQueue) = d THEN 1 ELSE 0
    <2>1. /\ buildQueue # <<>> /\ buildQueue' = Tail(buildQueue)
          /\ building' = [building EXCEPT ![Head(buildQueue)] = @ + 1]
          /\ UNCHANGED <<webhookQueue, event>>
        BY <1>6 DEF StartBuild
    <2>2. building'[d] = building[d] + one
        <3>1. d \in Ids /\ building[d] \in Nat
            BY <1>1, CreditType
        <3> QED BY <1>1, <2>1, <3>1, SMT
    <2>3. /\ Cardinality(InList(buildQueue, d)') \in Nat
          /\ Cardinality(InList(buildQueue, d)') + one <= Cardinality(InList(buildQueue, d))
        <3>1. Cardinality(InList(Tail(buildQueue), d)) + one <= Cardinality(InList(buildQueue, d))
            BY <1>1, <2>1, ListPops
        <3>2. Cardinality(InList(Tail(buildQueue), d)) \in Nat
            BY <1>1, <2>1, TailOf, ListCounts
        <3>3. InList(buildQueue, d)' = InList(Tail(buildQueue), d)
            BY <2>1 DEF InList
        <3> HIDE DEF one
        <3> QED BY <3>1, <3>2, <3>3
    <2>4. InList(webhookQueue, d)' = InList(webhookQueue, d) /\ AtEvent(d)' = AtEvent(d)
        BY <2>1, ForgeryFrame
    <2>5. one \in 0 .. 1
        BY SMT
    <2> HIDE DEF one
    <2> QED BY <1>0, <2>2, <2>3, <2>4, <2>5, SMT DEF ForgeryCredit, ForgeryCounts
<1> QED BY <1>3, <1>4, <1>5, <1>6

\* A request by TriggerBuild gives no delivery credit: it carries an id of its own.
LEMMA TriggerLoses ==
    ASSUME TypeOK, Trigger, NEW d \in Deliveries
    PROVE  Credit(d)' <= Credit(d)
<1>0. GatewayCounts(d) /\ ForgeryCounts(d)
    BY CreditType
<1>1. PICK t \in Triggers : TriggerBuild(t)
    BY DEF Trigger
<1>2. t # d /\ t \in Ids
    BY RequestsAssumption, DeliveryAssumption DEF Ids
<1>3. buildQueue' = <<t>> \o buildQueue /\ UNCHANGED <<webhookQueue, event, building>>
    BY <1>1 DEF TriggerBuild
<1>4. buildQueue \in Seq(Ids) /\ <<t>> \o buildQueue \in Seq(Ids)
    BY <1>2, SMT DEF TypeOK, ForgeryTypeOK
<1>5. /\ Cardinality(InList(buildQueue, d)') \in Nat
      /\ Cardinality(InList(buildQueue, d)') <= Cardinality(InList(buildQueue, d))
    <2>1. Cardinality(InList(<<t>> \o buildQueue, d)) <= Cardinality(InList(buildQueue, d)) + 0
        BY <1>2, <1>4, ListPushes
    <2>2. Cardinality(InList(<<t>> \o buildQueue, d)) \in Nat
        BY <1>4, ListCounts
    <2>3. InList(buildQueue, d)' = InList(<<t>> \o buildQueue, d)
        BY <1>3 DEF InList
    <2> QED BY <1>0, <2>1, <2>2, <2>3, SMT DEF ForgeryCounts
<1>6. InList(webhookQueue, d)' = InList(webhookQueue, d) /\ AtEvent(d)' = AtEvent(d)
    BY <1>3, ForgeryFrame
<1>7. building'[d] = building[d]
    BY <1>3
<1>8. ForgeryCredit(d)' \in Nat /\ ForgeryCredit(d)' <= ForgeryCredit(d)
    BY <1>0, <1>5, <1>6, <1>7, SMT DEF ForgeryCredit, ForgeryCounts
<1>9. UNCHANGED <<jobs, working, waiting>>
    BY DEF Trigger, gatewayVars
<1> QED BY <1>8, <1>9, HalfLoses

\* A restart loses what its process held.
LEMMA CrashLoses ==
    ASSUME TypeOK, Crash, NEW d \in Deliveries
    PROVE  Credit(d)' <= Credit(d)
<1>0. GatewayCounts(d) /\ ForgeryCounts(d)
    BY CreditType
<1>1. CASE GatewayRestart /\ UNCHANGED forgeryVars
    <2>1. InChannel(d)' = {}
        BY <1>1, SMT DEF GatewayRestart, InChannel
    <2>2. AtWorkers(d)' = {}
        BY <1>1 DEF GatewayRestart, AtWorkers
    <2>3. InRetries(d)' = {}
        BY <1>1, SMT DEF GatewayRestart, InRetries, Left
    <2>4. GatewayCredit(d)' = 0 /\ GatewayCredit(d) \in Nat
        BY <2>1, <2>2, <2>3, FS_EmptySet, CreditType, SMT DEF GatewayCredit
    <2> QED BY <1>1, <2>4, HalfLoses, SMT DEF forgeryVars
<1>2. CASE ForgeryRestart /\ UNCHANGED gatewayVars
    <2>1. AtEvent(d)' = 0 /\ building'[d] = 0
        <3>1. d \in Ids
            BY CreditType
        <3> QED BY <1>2, <3>1 DEF ForgeryRestart, AtEvent
    <2>2. /\ InList(webhookQueue, d)' = InList(webhookQueue, d)
          /\ InList(buildQueue, d)' = InList(buildQueue, d)
        BY <1>2, ForgeryFrame DEF ForgeryRestart
    <2>3. ForgeryCredit(d)' \in Nat /\ ForgeryCredit(d)' <= ForgeryCredit(d)
        BY <1>0, <2>1, <2>2, SMT DEF ForgeryCredit, ForgeryCounts
    <2> QED BY <1>2, <2>3, HalfLoses DEF gatewayVars
<1> QED BY <1>1, <1>2 DEF Crash

\* An acceptance adds at most the attempts of one job, and takes nothing away.
LEMMA AcceptImplements ==
    ASSUME TypeOK, NEW e \in Deliveries, e \notin seen, seen' = seen \union {e}, Accept(e),
           UNCHANGED <<working, waiting, forgeryVars>>
    PROVE  Contract!Accept(e)
<1> DEFINE j == [delivery |-> e, attempt |-> 0]
<1>1. j \in Jobs /\ Share(j, e) = Attempts /\ Attempts \in Nat
    BY AttemptsType, SMT DEF Jobs, Share, Left
<1>2. ASSUME NEW d \in Deliveries
      PROVE  Credit(d)' \in Credit(d) .. Credit(d) + Share(j, d)
    <2>1. /\ AtWorkers(d)' = AtWorkers(d) /\ InRetries(d)' = InRetries(d)
          /\ ForgeryCredit(d)' = ForgeryCredit(d)
        BY GatewayFrame, HalvesKept DEF forgeryVars
    <2>2. /\ GatewayCounts(d) /\ GatewayCredit(d) \in Nat /\ ForgeryCredit(d) \in Nat
          /\ Share(j, d) \in Nat
        BY <1>1, CreditType, ShareType, SMT
    <2>3. GatewayCredit(d)' \in GatewayCredit(d) .. GatewayCredit(d) + Share(j, d)
        <3>1. CASE jobs' = jobs
            <4>1. GatewayCredit(d)' = GatewayCredit(d)
                BY <3>1, HalvesKept
            <4> HIDE DEF j
            <4> QED BY <2>2, <4>1, SMT
        <3>2. CASE jobs' = Append(jobs, j)
            <4>1. /\ InChannel(d) \subseteq InChannel(d)' /\ IsFiniteSet(InChannel(d)')
                  /\ Cardinality(InChannel(d)') <= Cardinality(InChannel(d)) + Share(j, d)
                BY <1>1, <3>2, ChannelGrows DEF TypeOK
            <4>2. /\ Cardinality(InChannel(d)) <= Cardinality(InChannel(d)')
                  /\ Cardinality(InChannel(d)') \in Nat
                BY <4>1, FS_Subset, FS_CardinalityType
            <4> HIDE DEF j
            <4> QED BY <2>1, <2>2, <4>1, <4>2, SMT DEF GatewayCredit, GatewayCounts
        <3> QED BY <3>1, <3>2 DEF Accept
    <2> HIDE DEF j
    <2> QED BY <2>1, <2>2, <2>3, SMT DEF Credit
<1>3. ASSUME NEW d \in Deliveries, d # e PROVE Share(j, d) = 0
    BY <1>3 DEF Share
<1> DEFINE credit == [d \in Deliveries |-> Credit(d)]
           next == [d \in Deliveries |-> Credit(d)']
<1>4. \A d \in Deliveries : Credit(d) \in Nat
    BY CreditType
<1>5. Credit(e)' \in credit[e] .. credit[e] + Attempts
    BY <1>1, <1>2
<1>6. ASSUME NEW d \in Deliveries, d # e PROVE Credit(d)' = Credit(d)
    BY <1>2, <1>3, <1>4, <1>6, SMT
<1>7. next = [credit EXCEPT ![e] = Credit(e)']
    BY <1>6
<1>8. UNCHANGED builds /\ accepted' = [accepted EXCEPT ![e] = @ + 1]
    BY DEF Accept, forgeryVars
<1> QED BY <1>5, <1>7, <1>8 DEF Contract!Accept

\* The end of a build uses up the credit of the running build.
LEMMA BuildImplements ==
    ASSUME TypeOK, NEW e \in Deliveries, FinishBuild(e), UNCHANGED gatewayVars
    PROVE  Contract!Build(e)
<1>1. /\ e \in Ids /\ building[e] > 0 /\ building' = [building EXCEPT ![e] = @ - 1]
      /\ builds' = [builds EXCEPT ![e] = @ + 1]
      /\ building \in [Ids -> Nat] /\ builds \in [Ids -> Nat] /\ Deliveries \subseteq Ids
      /\ UNCHANGED <<webhookQueue, event, buildQueue, seen, accepted>>
    BY DeliveryAssumption DEF FinishBuild, TypeOK, ForgeryTypeOK, Ids, gatewayVars
<1>2. ASSUME NEW d \in Deliveries
      PROVE  Credit(d)' = IF d = e THEN Credit(d) - 1 ELSE Credit(d)
    <2> DEFINE one == IF d = e THEN 1 ELSE 0
    <2>1. /\ InList(webhookQueue, d)' = InList(webhookQueue, d)
          /\ InList(buildQueue, d)' = InList(buildQueue, d) /\ AtEvent(d)' = AtEvent(d)
        BY <1>1, ForgeryFrame
    <2>2. building'[d] = building[d] - one /\ one \in 0 .. 1
        BY <1>1, SMT
    <2>3. ForgeryCounts(d) /\ GatewayCredit(d) \in Nat /\ ForgeryCredit(d) \in Nat
        BY CreditType
    <2>4. ForgeryCredit(d)' = ForgeryCredit(d) - one
        <3> HIDE DEF one
        <3> QED BY <2>1, <2>2, <2>3, SMT DEF ForgeryCredit, ForgeryCounts
    <2>5. GatewayCredit(d)' = GatewayCredit(d)
        BY HalvesKept DEF gatewayVars
    <2> QED BY <2>3, <2>4, <2>5, SMT DEF Credit
<1>3. Credit(e) > 0
    <2>1. ForgeryCounts(e) /\ GatewayCredit(e) \in Nat
        BY CreditType
    <2>2. ForgeryCredit(e) > 0 /\ ForgeryCredit(e) \in Nat
        BY <1>1, <2>1, SMT DEF ForgeryCredit, ForgeryCounts
    <2> QED BY <2>1, <2>2, SMT DEF Credit
<1>4. [d \in Deliveries |-> Credit(d)'] = [[d \in Deliveries |-> Credit(d)] EXCEPT ![e] = @ - 1]
    BY <1>2
<1>5. [d \in Deliveries |-> builds'[d]] = [[d \in Deliveries |-> builds[d]] EXCEPT ![e] = @ + 1]
    BY <1>1
<1> QED BY <1>1, <1>3, <1>4, <1>5 DEF Contract!Build

\* Any step of gateway and forgery is a step of the contract.
LEMMA StepImplements ==
    ASSUME TypeOK, TypeOK', [Next]_vars PROVE [Contract!Next]_Contract!vars
<1>1. ASSUME UNCHANGED <<accepted, builds>>, seen' \subseteq seen,
             \A d \in Deliveries : Credit(d)' <= Credit(d)
      PROVE  [Contract!Next]_Contract!vars
    BY <1>1, LossImplements DEF Contract!Next
<1>2. CASE GatewayInput
    <2>1. PICK d \in Deliveries : ReplayExpires(d) \/ \E b \in Bodies : HandleGitHubWebhook(d, b)
        BY <1>2 DEF GatewayInput
    <2>2. UNCHANGED forgeryVars /\ UNCHANGED <<working, waiting>>
        BY <1>2, <2>1 DEF GatewayInput, ReplayExpires, HandleGitHubWebhook
    <2>3. ASSUME UNCHANGED jobs, NEW e \in Deliveries PROVE Credit(e)' = Credit(e)
        BY <2>2, <2>3, HalvesKept DEF Credit, forgeryVars
    <2>4. UNCHANGED builds
        BY <2>2 DEF forgeryVars
    <2>5. CASE ReplayExpires(d)
        <3>1. UNCHANGED <<jobs, accepted>> /\ seen' \subseteq seen
            BY <2>5 DEF ReplayExpires
        <3>2. \A e \in Deliveries : Credit(e)' <= Credit(e)
            BY <2>3, <3>1, CreditType, SMT
        <3> QED BY <1>1, <2>4, <3>1, <3>2
    <2>6. ASSUME NEW b \in Bodies, HandleGitHubWebhook(d, b) PROVE [Contract!Next]_Contract!vars
        <3>1. CASE d \in seen
            <4>1. UNCHANGED <<jobs, seen, accepted>>
                BY <2>6, <3>1 DEF HandleGitHubWebhook
            <4>2. \A e \in Deliveries : Credit(e)' <= Credit(e)
                BY <2>3, <4>1, CreditType, SMT
            <4> QED BY <1>1, <2>4, <4>1, <4>2
        <3>2. CASE d \notin seen /\ b = "signed"
            <4>1. seen' = seen \union {d} /\ Accept(d)
                BY <2>6, <3>2 DEF HandleGitHubWebhook
            <4>2. Contract!Accept(d)
                BY <2>2, <3>2, <4>1, AcceptImplements
            <4> QED BY <4>2 DEF Contract!Next
        <3>3. CASE d \notin seen /\ b # "signed"
            <4>1. seen' = seen \union {d} /\ UNCHANGED <<jobs, accepted>>
                BY <2>6, <3>3 DEF HandleGitHubWebhook
            <4>2. [e \in Deliveries |-> Credit(e)'] = [e \in Deliveries |-> Credit(e)]
                BY <2>3, <4>1
            <4>3. Contract!Refuse(d)
                BY <2>4, <3>3, <4>1, <4>2 DEF Contract!Refuse
            <4> QED BY <4>3 DEF Contract!Next
        <3> QED BY <3>1, <3>2, <3>3
    <2> QED BY <2>1, <2>5, <2>6
<1>3. CASE Forgery
    <2>1. UNCHANGED gatewayVars /\ UNCHANGED <<seen, accepted>> /\ ForgeryStep
        BY <1>3 DEF Forgery, gatewayVars
    <2>2. CASE ReceiveEvent \/ EnqueueBuild \/ EnqueueBuildFails \/ BuildEnqueued \/ StartBuild
        <3>1. UNCHANGED builds
            BY <2>2 DEF ReceiveEvent, EnqueueBuild, EnqueueBuildFails, BuildEnqueued, StartBuild
        <3>2. \A d \in Deliveries : Credit(d)' <= Credit(d)
            BY <2>1, <2>2, ForgeryLoses
        <3> QED BY <1>1, <2>1, <3>1, <3>2
    <2>3. ASSUME NEW e \in Deliveries, FinishBuild(e) PROVE [Contract!Next]_Contract!vars
        BY <2>1, <2>3, BuildImplements DEF Contract!Next
    <2>4. ASSUME NEW t \in Triggers, FinishBuild(t) PROVE [Contract!Next]_Contract!vars
        <3>1. t \notin Deliveries
            BY RequestsAssumption, DeliveryAssumption
        <3>2. /\ building' = [building EXCEPT ![t] = @ - 1] /\ builds' = [builds EXCEPT ![t] = @ + 1]
              /\ UNCHANGED <<webhookQueue, event, buildQueue>>
            BY <2>4 DEF FinishBuild
        <3>3. building \in [Ids -> Nat] /\ builds \in [Ids -> Nat] /\ Deliveries \subseteq Ids
            BY DeliveryAssumption DEF TypeOK, ForgeryTypeOK, Ids
        <3>4. ASSUME NEW d \in Deliveries PROVE Credit(d)' = Credit(d) /\ builds'[d] = builds[d]
            <4>1. building'[d] = building[d] /\ builds'[d] = builds[d]
                BY <3>1, <3>2, <3>3
            <4>2. ForgeryCredit(d)' = ForgeryCredit(d)
                BY <3>2, <4>1, ForgeryFrame DEF ForgeryCredit
            <4>3. GatewayCredit(d)' = GatewayCredit(d)
                BY <2>1, HalvesKept DEF gatewayVars
            <4> QED BY <4>1, <4>2, <4>3 DEF Credit
        <3>5. UNCHANGED Contract!vars
            BY <2>1, <3>4 DEF Contract!vars
        <3> QED BY <3>5
    <2> QED BY <2>1, <2>2, <2>3, <2>4, DeliveryAssumption DEF ForgeryStep, Ids
<1>4. CASE Trigger
    <2>1. UNCHANGED <<accepted, builds>> /\ seen' \subseteq seen
        BY <1>4 DEF Trigger, TriggerBuild, gatewayVars
    <2> QED BY <1>1, <1>4, <2>1, TriggerLoses
<1>5. CASE Crash
    <2>1. UNCHANGED <<accepted, builds>> /\ seen' \subseteq seen
        BY <1>5 DEF Crash, GatewayRestart, ForgeryRestart, gatewayVars, forgeryVars
    <2> QED BY <1>1, <1>5, <2>1, CrashLoses
<1>6. ASSUME NEW k \in Workers, TakeJob(k) PROVE [Contract!Next]_Contract!vars
    <2>1. UNCHANGED <<accepted, builds>> /\ seen' \subseteq seen
        BY <1>6 DEF TakeJob, runWorker, forgeryVars
    <2> QED BY <1>1, <1>6, <2>1, TakeJobLoses
<1>7. ASSUME NEW k \in Workers, Forward(k) PROVE [Contract!Next]_Contract!vars
    <2>1. UNCHANGED <<accepted, builds>> /\ seen' \subseteq seen
        BY <1>7 DEF Forward, forwardGRPC, processJob, ForwardWebhook, forgeryVars
    <2> QED BY <1>1, <1>7, <2>1, ForwardLoses
<1>8. ASSUME NEW j \in Jobs, Requeue(j) PROVE [Contract!Next]_Contract!vars
    <2>1. UNCHANGED <<accepted, builds>> /\ seen' \subseteq seen
        BY <1>8 DEF Requeue, RetryDue, forgeryVars
    <2> QED BY <1>1, <1>8, <2>1, RequeueLoses
<1>9. CASE UNCHANGED vars
    <2>1. ASSUME NEW d PROVE Credit(d)' = Credit(d)
        <3>1. /\ UNCHANGED <<jobs, working, waiting>>
              /\ UNCHANGED <<webhookQueue, buildQueue, event, building>>
            BY <1>9 DEF vars, gatewayVars, forgeryVars
        <3> QED BY <3>1, HalvesKept DEF Credit
    <2>2. UNCHANGED Contract!vars
        BY <1>9, <2>1 DEF Contract!vars, vars, gatewayVars, forgeryVars
    <2> QED BY <2>2
<1> QED BY <1>2, <1>3, <1>4, <1>5, <1>6, <1>7, <1>8, <1>9 DEF Next

\* For any deliveries, workers, capacity, retries and restarts, gateway and forgery
\* together keep the contract: every build follows from an acceptance, at most
\* forward_retries builds from each, and what the replay cache holds is not accepted.
THEOREM DeliveryImplementsContract == Spec => KeepsContract
<1>1. Init => Contract!Init
    <2> SUFFICES ASSUME Init PROVE Contract!Init
        OBVIOUS
    <2>1. ASSUME NEW d \in Deliveries PROVE Credit(d) = 0
        <3>1. InChannel(d) = {} /\ AtWorkers(d) = {}
            BY SMT DEF Init, GatewayInit, InChannel, AtWorkers
        <3>2. InRetries(d) = {}
            BY SMT DEF Init, GatewayInit, InRetries
        <3>3. InList(webhookQueue, d) = {} /\ InList(buildQueue, d) = {}
            BY SMT DEF Init, ForgeryInit, InList
        <3>4. AtEvent(d) = 0 /\ building[d] = 0
            BY DeliveryAssumption DEF Init, ForgeryInit, AtEvent, Ids
        <3>5. GatewayCredit(d) = 0
            BY <3>1, <3>2, FS_EmptySet, SMT DEF GatewayCredit
        <3>6. ForgeryCredit(d) = 0
            BY <3>3, <3>4, FS_EmptySet, SMT DEF ForgeryCredit
        <3> QED BY <3>5, <3>6, SMT DEF Credit
    <2>2. \A d \in Deliveries : builds[d] = 0
        BY DeliveryAssumption DEF Init, ForgeryInit, Ids
    <2>3. seen = {} /\ accepted = [d \in Deliveries |-> 0]
        BY DEF Init, GatewayInit
    <2> QED BY <2>1, <2>2, <2>3 DEF Contract!Init
<1>2. TypeOK /\ TypeOK' /\ [Next]_vars => [Contract!Next]_Contract!vars
    BY StepImplements
<1> QED BY <1>1, <1>2, DeliveryTyped, PTL DEF Spec, Contract!Spec, KeepsContract

----------------------------------------------------------------------------
(* What the contract bounds *)

\* One more acceptance raises the bound by the attempts of a job.
LEMMA AllowanceGrows ==
    ASSUME NEW n \in Nat, NEW a \in Nat PROVE n * (a + 1) = n * a + n /\ n * a \in Nat
BY SMT

\* The account of a delivery: it loses credit, it is accepted and gets credit, or a build
\* uses credit up.
AccountStep(d) ==
    \/ builds'[d] = builds[d] /\ Credit(d)' <= Credit(d) /\ accepted'[d] = accepted[d]
    \/ /\ builds'[d] = builds[d] /\ Credit(d)' <= Credit(d) + Attempts
       /\ accepted'[d] = accepted[d] + 1
    \/ builds'[d] = builds[d] + 1 /\ Credit(d)' = Credit(d) - 1 /\ accepted'[d] = accepted[d]

\* An acceptance adds to the account of its delivery alone.
LEMMA AcceptAccounts ==
    ASSUME NEW d \in Deliveries, NEW e \in Deliveries, Contract!Accept(e),
           Credit(d) \in Nat, Attempts \in Nat, accepted \in [Deliveries -> Nat]
    PROVE  AccountStep(d)
<1> DEFINE credit == [x \in Deliveries |-> Credit(x)]
           next == [x \in Deliveries |-> Credit(x)']
<1>1. /\ [x \in Deliveries |-> builds'[x]] = [x \in Deliveries |-> builds[x]]
      /\ accepted' = [accepted EXCEPT ![e] = @ + 1]
      /\ \E c \in credit[e] .. credit[e] + Attempts : next = [credit EXCEPT ![e] = c]
    BY DEF Contract!Accept
<1>2. builds'[d] = builds[d]
    BY <1>1
<1>3. credit[d] = Credit(d) /\ next[d] = Credit(d)' /\ DOMAIN credit = Deliveries
    OBVIOUS
<1> HIDE DEF credit, next
<1>4. PICK c \in credit[e] .. credit[e] + Attempts : next = [credit EXCEPT ![e] = c]
    BY <1>1
<1>5. CASE e = d
    <2>1. Credit(d)' = c /\ c <= Credit(d) + Attempts
        BY <1>3, <1>4, <1>5, SMT
    <2>2. accepted'[d] = accepted[d] + 1
        BY <1>1, <1>5
    <2> QED BY <1>2, <2>1, <2>2 DEF AccountStep
<1>6. CASE e # d
    <2>1. Credit(d)' = Credit(d) /\ accepted'[d] = accepted[d]
        BY <1>1, <1>3, <1>4, <1>6
    <2>2. Credit(d)' <= Credit(d)
        BY <2>1, SMT
    <2> QED BY <1>2, <2>1, <2>2 DEF AccountStep
<1> QED BY <1>5, <1>6

\* A build uses credit of its delivery alone.
LEMMA BuildAccounts ==
    ASSUME NEW d \in Deliveries, NEW e \in Deliveries, Contract!Build(e), Credit(d) \in Nat
    PROVE  AccountStep(d)
<1> DEFINE credit == [x \in Deliveries |-> Credit(x)]
           next == [x \in Deliveries |-> Credit(x)']
           built == [x \in Deliveries |-> builds[x]]
           builtNext == [x \in Deliveries |-> builds'[x]]
<1>1. /\ builtNext = [built EXCEPT ![e] = @ + 1] /\ accepted' = accepted
      /\ next = [credit EXCEPT ![e] = @ - 1]
    BY DEF Contract!Build
<1>2. /\ credit[d] = Credit(d) /\ next[d] = Credit(d)'
      /\ built[d] = builds[d] /\ builtNext[d] = builds'[d]
    OBVIOUS
<1>3. CASE e = d
    <2>1. builds'[d] = builds[d] + 1 /\ Credit(d)' = Credit(d) - 1
        BY <1>1, <1>2, <1>3
    <2> HIDE DEF credit, next, built, builtNext
    <2> QED BY <1>1, <2>1 DEF AccountStep
<1>4. CASE e # d
    <2>1. builds'[d] = builds[d] /\ Credit(d)' = Credit(d)
        BY <1>1, <1>2, <1>4
    <2> HIDE DEF credit, next, built, builtNext
    <2>2. Credit(d)' <= Credit(d)
        BY <2>1, SMT
    <2> QED BY <1>1, <2>1, <2>2 DEF AccountStep
<1> QED BY <1>3, <1>4

\* Losing, refusing and doing nothing add to no account.
LEMMA LossAccounts ==
    ASSUME NEW d \in Deliveries, Credit(d) \in Nat, Credit(d)' \in Nat,
           \/ Contract!Lose \/ UNCHANGED Contract!vars
           \/ \E e \in Deliveries : Contract!Refuse(e)
    PROVE  AccountStep(d)
<1> DEFINE credit == [x \in Deliveries |-> Credit(x)]
           next == [x \in Deliveries |-> Credit(x)']
<1>1. /\ [x \in Deliveries |-> builds'[x]] = [x \in Deliveries |-> builds[x]]
      /\ accepted' = accepted
    BY DEF Contract!Lose, Contract!Refuse, Contract!vars
<1>2. builds'[d] = builds[d]
    BY <1>1
<1>3. credit[d] = Credit(d) /\ next[d] = Credit(d)'
    OBVIOUS
<1>4. next[d] <= credit[d] \/ next = credit
    BY DEF Contract!Lose, Contract!Refuse, Contract!vars
<1> HIDE DEF credit, next
<1>5. Credit(d)' <= Credit(d)
    BY <1>3, <1>4, SMT
<1> QED BY <1>1, <1>2, <1>5 DEF AccountStep

\* An account that is within the allowance stays within it.
LEMMA AccountBalances ==
    ASSUME NEW n \in Nat, NEW a \in Nat, NEW b \in Nat, NEW c \in Nat,
           NEW a2 \in Nat, NEW b2 \in Nat, NEW c2 \in Nat, b + c <= n * a,
           \/ b2 = b /\ c2 <= c /\ a2 = a
           \/ b2 = b /\ c2 <= c + n /\ a2 = a + 1
           \/ b2 = b + 1 /\ c2 = c - 1 /\ a2 = a
    PROVE  b2 + c2 <= n * a2
<1> DEFINE bound == n * a
<1>1. bound \in Nat /\ n * (a + 1) = bound + n
    BY AllowanceGrows
<1>2. (a2 = a => n * a2 = bound) /\ (a2 = a + 1 => n * a2 = bound + n)
    BY <1>1
<1>3. b + c <= bound
    OBVIOUS
<1> HIDE DEF bound
<1> QED BY <1>1, <1>2, <1>3, SMT

\* Accepting, refusing, building and losing keep the account of a delivery balanced.
LEMMA AccountKept ==
    ASSUME TypeOK, TypeOK', Contract!WithinAllowance, [Contract!Next]_Contract!vars
    PROVE  Contract!WithinAllowance'
<1> SUFFICES ASSUME NEW d \in Deliveries
             PROVE  builds'[d] + Credit(d)' <= Attempts * accepted'[d]
    BY DEF Contract!WithinAllowance
<1>1. Credit(d) \in Nat /\ Credit(d)' \in Nat /\ d \in Ids
    BY CreditType, CreditTypeNext DEF CreditOK
<1>2. accepted \in [Deliveries -> Nat] /\ accepted'[d] \in Nat /\ Attempts \in Nat
    BY AttemptsType, SMT DEF TypeOK, GatewayTypeOK
<1>3. builds[d] \in Nat /\ builds'[d] \in Nat
    BY <1>1 DEF TypeOK, ForgeryTypeOK
<1>4. builds[d] + Credit(d) <= Attempts * accepted[d]
    BY DEF Contract!WithinAllowance
<1>5. AccountStep(d)
    BY <1>1, <1>2, AcceptAccounts, BuildAccounts, LossAccounts DEF Contract!Next
<1> QED BY <1>1, <1>2, <1>3, <1>4, <1>5, AccountBalances DEF AccountStep

\* Whatever is retried, lost or restarted between webhook and build: the builds of a
\* delivery, and those that may still follow, stay within the attempts its
\* acceptances allow (forward_retries for each).
THEOREM BuildsWithinAllowance == Spec => []Contract!WithinAllowance
<1>1. Contract!Init => Contract!WithinAllowance
    BY AttemptsType, SMT DEF Contract!Init, Contract!WithinAllowance
<1>2. TypeOK /\ TypeOK' /\ Contract!WithinAllowance /\ [Contract!Next]_Contract!vars
        => Contract!WithinAllowance'
    BY AccountKept
<1>3. Spec => Contract!Spec
    BY DeliveryImplementsContract DEF KeepsContract
<1> QED BY <1>1, <1>2, <1>3, DeliveryTyped, PTL DEF Contract!Spec

----------------------------------------------------------------------------
(* Builds of a manual trigger *)

\* The builds of an id that wait in the list, run or have ended.
Accounted(i) == Cardinality(InList(buildQueue, i)) + building[i] + builds[i]

\* A trigger that was sent leads to one build at most, and one that was not sent to
\* none: BLPop hands a request to one goroutine, and a restart of forgery repeats
\* nothing (a delivery may be built forward_retries times).
TriggeredOnce == \A t \in Triggers : Accounted(t) <= (IF t \in triggered THEN 1 ELSE 0)

\* What Accounted adds up are numbers.
LEMMA AccountedType ==
    ASSUME TypeOK, NEW t \in Triggers
    PROVE  /\ t \in Ids /\ Cardinality(InList(buildQueue, t)) \in Nat
           /\ building[t] \in Nat /\ builds[t] \in Nat
<1>1. t \in Ids
    BY DEF Ids
<1>2. buildQueue \in Seq(Ids) /\ building \in [Ids -> Nat] /\ builds \in [Ids -> Nat]
    BY DEF TypeOK, ForgeryTypeOK
<1>3. Cardinality(InList(buildQueue, t)) \in Nat
    BY <1>2, ListCounts
<1> QED BY <1>1, <1>2, <1>3

\* Only TriggerBuild itself adds to what is accounted to a trigger.
LEMMA AccountedStep ==
    ASSUME TypeOK, [Next]_vars, NEW t \in Triggers
    PROVE  \/ Accounted(t)' <= Accounted(t) /\ triggered \subseteq triggered'
           \/ Accounted(t)' <= Accounted(t) + 1 /\ t \notin triggered /\ t \in triggered'
<1> DEFINE q == Cardinality(InList(buildQueue, t))  r == building[t]  b == builds[t]
<1>0. t \in Ids /\ q \in Nat /\ r \in Nat /\ b \in Nat
    BY AccountedType
<1>1. buildQueue \in Seq(Ids) /\ building \in [Ids -> Nat] /\ builds \in [Ids -> Nat]
    BY DEF TypeOK, ForgeryTypeOK
<1>2. ASSUME UNCHANGED <<buildQueue, building, builds, triggered>>
      PROVE  Accounted(t)' <= Accounted(t) /\ triggered \subseteq triggered'
    <2>1. Accounted(t)' = Accounted(t)
        BY <1>2 DEF Accounted, InList
    <2>2. Accounted(t) \in Nat
        BY <1>0, SMT DEF Accounted
    <2>3. Accounted(t)' <= Accounted(t)
        BY <2>1, <2>2, SMT
    <2> QED BY <1>2, <2>3
<1>3. CASE EnqueueBuild
    <2>1. /\ buildQueue' = <<event.id>> \o buildQueue /\ UNCHANGED <<building, builds, triggered>>
        BY <1>3 DEF EnqueueBuild
    <2>2. event.id \in Ids /\ event.id # t
        BY <1>3, RequestsAssumption DEF EnqueueBuild, TypeOK, ForgeryTypeOK, HeldEvents, Ids
    <2>3. Cardinality(InList(<<event.id>> \o buildQueue, t)) <= q + 0
        BY <1>1, <2>2, ListPushes
    <2>4. <<event.id>> \o buildQueue \in Seq(Ids)
        BY <1>1, <2>2, SMT
    <2>5. Cardinality(InList(<<event.id>> \o buildQueue, t)) \in Nat
        BY <2>4, ListCounts
    <2>6. InList(buildQueue, t)' = InList(<<event.id>> \o buildQueue, t)
        BY <2>1 DEF InList
    <2> DEFINE n == Cardinality(InList(<<event.id>> \o buildQueue, t))
    <2>7. Accounted(t)' = n + r + b /\ Accounted(t) = q + r + b
        BY <2>1, <2>6 DEF Accounted
    <2> HIDE DEF n, q, r, b
    <2>8. Accounted(t)' <= Accounted(t)
        BY <1>0, <2>3, <2>5, <2>7, SMT DEF n
    <2> QED BY <2>1, <2>8
<1>4. CASE StartBuild
    <2> DEFINE one == IF Head(buildQueue) = t THEN 1 ELSE 0
               n == Cardinality(InList(Tail(buildQueue), t))
    <2>1. /\ buildQueue # <<>> /\ buildQueue' = Tail(buildQueue)
          /\ building' = [building EXCEPT ![Head(buildQueue)] = @ + 1] /\ UNCHANGED <<builds, triggered>>
        BY <1>4 DEF StartBuild
    <2>2. building'[t] = r + one
        BY <1>0, <1>1, <2>1, SMT
    <2>3. n + one <= q
        BY <1>1, <2>1, ListPops
    <2>4. n \in Nat
        BY <1>1, <2>1, TailOf, ListCounts
    <2>5. InList(buildQueue, t)' = InList(Tail(buildQueue), t)
        BY <2>1 DEF InList
    <2>6. Accounted(t)' = n + (r + one) + b /\ Accounted(t) = q + r + b
        BY <2>1, <2>2, <2>5 DEF Accounted
    <2>7. one \in 0 .. 1
        BY SMT
    <2> HIDE DEF one, n, q, r, b
    <2>8. Accounted(t)' <= Accounted(t)
        BY <1>0, <2>3, <2>4, <2>6, <2>7, SMT
    <2> QED BY <2>1, <2>8
<1>5. ASSUME NEW i \in Ids, FinishBuild(i)
      PROVE  Accounted(t)' <= Accounted(t) /\ triggered \subseteq triggered'
    <2>1. /\ building[i] > 0 /\ building' = [building EXCEPT ![i] = @ - 1]
          /\ builds' = [builds EXCEPT ![i] = @ + 1] /\ UNCHANGED <<buildQueue, triggered>>
        BY <1>5 DEF FinishBuild
    <2> DEFINE one == IF i = t THEN 1 ELSE 0
    <2>2. building'[t] = r - one /\ builds'[t] = b + one
        BY <1>0, <1>1, <2>1, SMT
    <2>3. Accounted(t)' = q + (r - one) + (b + one) /\ Accounted(t) = q + r + b
        BY <2>1, <2>2 DEF Accounted, InList
    <2>4. one \in 0 .. 1
        BY SMT
    <2> HIDE DEF one, q, r, b
    <2>5. Accounted(t)' <= Accounted(t)
        BY <1>0, <2>3, <2>4, SMT
    <2> QED BY <2>1, <2>5
<1>6. CASE ForgeryRestart
    <2>1. building'[t] = 0 /\ UNCHANGED <<buildQueue, builds, triggered>>
        BY <1>0, <1>6 DEF ForgeryRestart
    <2>2. Accounted(t)' = q + 0 + b /\ Accounted(t) = q + r + b
        BY <2>1 DEF Accounted, InList
    <2> HIDE DEF q, r, b
    <2>3. Accounted(t)' <= Accounted(t)
        BY <1>0, <2>2, SMT
    <2> QED BY <2>1, <2>3
<1>7. ASSUME NEW x \in Triggers, TriggerBuild(x)
      PROVE  \/ Accounted(t)' <= Accounted(t) /\ triggered \subseteq triggered'
             \/ Accounted(t)' <= Accounted(t) + 1 /\ t \notin triggered /\ t \in triggered'
    <2> DEFINE one == IF x = t THEN 1 ELSE 0
               n == Cardinality(InList(<<x>> \o buildQueue, t))
    <2>1. /\ x \notin triggered /\ triggered' = triggered \union {x}
          /\ buildQueue' = <<x>> \o buildQueue /\ UNCHANGED <<building, builds>>
        BY <1>7 DEF TriggerBuild
    <2>2. x \in Ids
        BY DEF Ids
    <2>3. n <= q + one
        BY <1>1, <2>2, ListPushes
    <2>4. <<x>> \o buildQueue \in Seq(Ids)
        BY <1>1, <2>2, SMT
    <2>5. n \in Nat
        BY <2>4, ListCounts
    <2>6. InList(buildQueue, t)' = InList(<<x>> \o buildQueue, t)
        BY <2>1 DEF InList
    <2>7. Accounted(t)' = n + r + b /\ Accounted(t) = q + r + b
        BY <2>1, <2>6 DEF Accounted
    <2>8. (x = t => one = 1) /\ (x # t => one = 0)
        OBVIOUS
    <2> HIDE DEF one, n, q, r, b
    <2>9. (one = 0 => Accounted(t)' <= Accounted(t)) /\ (one = 1 => Accounted(t)' <= Accounted(t) + 1)
        BY <1>0, <2>3, <2>5, <2>7, SMT
    <2> QED BY <2>1, <2>8, <2>9
<1> HIDE DEF q, r, b
<1>8. CASE UNCHANGED forgeryVars
    BY <1>2, <1>8 DEF forgeryVars
<1>9. ASSUME NEW d, ForwardWebhook(d)
      PROVE  Accounted(t)' <= Accounted(t) /\ triggered \subseteq triggered'
    BY <1>2, <1>9 DEF ForwardWebhook
<1>10. CASE ReceiveEvent \/ EnqueueBuildFails \/ BuildEnqueued
    BY <1>2, <1>10 DEF ReceiveEvent, EnqueueBuildFails, BuildEnqueued
<1>11. CASE GatewayInput \/ UNCHANGED vars \/ \E j \in Jobs : Requeue(j)
    BY <1>8, <1>11 DEF GatewayInput, vars, Requeue
<1>12. ASSUME NEW k \in Workers, TakeJob(k) \/ Forward(k)
       PROVE  Accounted(t)' <= Accounted(t) /\ triggered \subseteq triggered'
    BY <1>2, <1>9, <1>12 DEF TakeJob, Forward, forwardGRPC, forgeryVars
<1>13. CASE Forgery
    BY <1>3, <1>4, <1>5, <1>10, <1>13 DEF Forgery, ForgeryStep
<1>14. CASE Crash
    BY <1>2, <1>6, <1>14 DEF Crash, forgeryVars
<1>15. CASE Trigger
    BY <1>7, <1>15 DEF Trigger
<1> QED BY <1>11, <1>12, <1>13, <1>14, <1>15 DEF Next

\* A manual trigger is built at most once, whatever restarts and whatever else is in
\* the lists.
THEOREM TriggersBuildOnce == Spec => []TriggeredOnce
<1>1. Init => TriggeredOnce
    <2> SUFFICES ASSUME Init, NEW t \in Triggers
                 PROVE  Accounted(t) <= (IF t \in triggered THEN 1 ELSE 0)
        BY DEF TriggeredOnce
    <2>1. t \in Ids /\ building[t] = 0 /\ builds[t] = 0 /\ triggered = {} /\ buildQueue = <<>>
        BY DEF Init, ForgeryInit, Ids
    <2>2. InList(buildQueue, t) = {}
        BY <2>1, SMT DEF InList
    <2>3. Accounted(t) = 0
        <3>1. Cardinality(InList(buildQueue, t)) = 0
            BY <2>2, FS_EmptySet
        <3>2. Accounted(t) = 0 + 0 + 0
            BY <2>1, <3>1 DEF Accounted
        <3> QED BY <3>2, SMT
    <2> QED BY <2>1, <2>3, SMT
<1>2. TypeOK /\ TypeOK' /\ TriggeredOnce /\ [Next]_vars => TriggeredOnce'
    <2> SUFFICES ASSUME TypeOK, TypeOK', TriggeredOnce, [Next]_vars, NEW t \in Triggers
                 PROVE  Accounted(t)' <= (IF t \in triggered' THEN 1 ELSE 0)
        BY DEF TriggeredOnce
    <2>1. /\ Cardinality(InList(buildQueue, t)) \in Nat /\ building[t] \in Nat /\ builds[t] \in Nat
        BY AccountedType
    <2>2. /\ Cardinality(InList(buildQueue', t)) \in Nat /\ building'[t] \in Nat /\ builds'[t] \in Nat
        <3>1. t \in Ids /\ buildQueue' \in Seq(Ids) /\ building' \in [Ids -> Nat] /\ builds' \in [Ids -> Nat]
            BY DEF TypeOK, ForgeryTypeOK, Ids
        <3>2. Cardinality(InList(buildQueue', t)) \in Nat
            BY <3>1, ListCounts
        <3> QED BY <3>1, <3>2
    <2>3. Accounted(t) \in Nat /\ Accounted(t)' \in Nat
        <3>1. Accounted(t)' = Cardinality(InList(buildQueue', t)) + building'[t] + builds'[t]
            BY DEF Accounted, InList
        <3>2. Accounted(t) \in Nat
            BY <2>1, SMT DEF Accounted
        <3> HIDE DEF Accounted
        <3>3. Accounted(t)' \in Nat
            BY <2>2, <3>1, SMT
        <3> QED BY <3>2, <3>3
    <2>4. Accounted(t) <= (IF t \in triggered THEN 1 ELSE 0)
        BY DEF TriggeredOnce
    <2> DEFINE m == Accounted(t)  n == Accounted(t)'
    <2>5. \/ n <= m /\ triggered \subseteq triggered'
          \/ n <= m + 1 /\ t \notin triggered /\ t \in triggered'
        BY AccountedStep
    <2>6. m \in Nat /\ n \in Nat /\ m <= (IF t \in triggered THEN 1 ELSE 0)
        BY <2>3, <2>4
    <2> HIDE DEF m, n
    <2>7. n <= (IF t \in triggered' THEN 1 ELSE 0)
        <3>1. CASE t \in triggered
            <4>1. n <= m /\ m <= 1 /\ t \in triggered'
                BY <2>5, <2>6, <3>1
            <4> QED BY <2>6, <4>1, SMT
        <3>2. CASE t \notin triggered
            <4>1. m <= 0
                BY <2>6, <3>2
            <4>2. CASE n <= m
                BY <2>6, <4>1, <4>2, SMT
            <4>3. CASE n <= m + 1 /\ t \in triggered'
                BY <2>6, <4>1, <4>3, SMT
            <4> QED BY <2>5, <4>2, <4>3
        <3> QED BY <3>1, <3>2
    <2> QED BY <2>7 DEF n
<1> QED BY <1>1, <1>2, DeliveryTyped, PTL DEF Spec
=============================================================================

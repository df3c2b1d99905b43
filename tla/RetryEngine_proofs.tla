------------------------- MODULE RetryEngine_proofs -------------------------
(***************************************************************************)
(* Proofs about RetryEngine for any delays and any numbers of attempts,    *)
(* reapplies and API calls.                                                *)
(***************************************************************************)
EXTENDS RetryEngine, TLAPS

\* Most leaves are first-order: Zenon is tried unless a leaf names another prover.
USE Zenon

Numbers ==
    /\ attempts \in 0..MaxFailures /\ reapplies \in 0..MaxReapplies /\ calls \in 0..MaxCalls
    /\ nextRetry \in {None} \cup 0..MaxRetryBackoff
    /\ grace \in {None} \cup 0..Grace
    /\ guard \in {None} \cup 0..MaxReapplyBackoff
    /\ reapplies = 0 <=> guard = None
    /\ sinceApply \in 0..ReapplyBase /\ sinceFailure \in 0..MaxRetryBackoff

Names == desired \in {"Running", "Stopped"} /\ status \in Statuses /\ actual \in Actual

Flags ==
    /\ guardRev \in BOOLEAN /\ terminal \in BOOLEAN /\ lastHalted \in BOOLEAN
    /\ verdict \in BOOLEAN

\* The delay after the last failure has passed, or the rest of it is what is left until
\* NextRetryAt: the gate of ReconcileWorkload holds for at least the delay.
RetryWindow ==
    MinAttempts <= attempts /\ attempts < MaxAttempts =>
      \E d \in retryBackoff(attempts) :
        IF nextRetry = None THEN sinceFailure >= d ELSE nextRetry + sinceFailure >= d

\* The same of the window after an apply: together with the time that has passed, what is
\* left of it makes up the base delay.
ReapplyWindow == guardRev /\ guard # None => guard + sinceApply >= ReapplyBase

\* Doubling a delay does not make it shorter.
LEMMA DoublingGrows ==
    ASSUME NEW base \in Nat \ {0}, NEW k \in 0 .. MaxFailures + MaxReapplies
    PROVE  base * 2 ^ k \in Int /\ base * 2 ^ k >= base
<1> USE EngineBoundsAssumption
<1>1. 2 ^ k \in Int /\ 2 ^ k >= 1
    BY DoublingAssumption, SMT
<1>2. ASSUME NEW x \in Int, x >= 1 PROVE base * x \in Int /\ base * x >= base
    BY <1>2, SMT
<1> QED BY <1>1, <1>2

\* The delays of both mechanisms are within their caps.
LEMMA RetryDelays ==
    ASSUME NEW n \in 0 .. MaxFailures + 1 PROVE retryBackoff(n) \subseteq 0..MaxRetryBackoff
<1> USE AttemptsAssumption, DelaysAssumption, EngineBoundsAssumption
<1>1. CASE n < MinAttempts
    BY <1>1, SMT DEF retryBackoff
<1>2. CASE n >= MinAttempts
    <2> DEFINE k == n - MinAttempts
    <2>1. k \in 0 .. MaxFailures + MaxReapplies /\ ~(n < MinAttempts)
        BY <1>2, SMT
    <2>2. RetryBase * 2 ^ k \in Int /\ RetryBase * 2 ^ k >= RetryBase
        BY <2>1, DoublingGrows
    <2>3. AtMost(RetryBase * 2 ^ k, MaxRetryBackoff) \in 0..MaxRetryBackoff
        <3> DEFINE delay == RetryBase * 2 ^ k
        <3>1. delay \in Int /\ delay >= RetryBase
            BY <2>2
        <3> HIDE DEF delay
        <3>2. AtMost(delay, MaxRetryBackoff) \in 0..MaxRetryBackoff
            BY <3>1, SMT DEF AtMost
        <3> QED BY <3>2 DEF delay
    <2> QED BY <2>1, <2>3, SMT DEF retryBackoff
<1> QED BY <1>1, <1>2, SMT

\* Reapply delays stay below their cap (nextReapplyAttempt), and until the doubling
\* overflows they are at least the base delay.
LEMMA ReapplyDelays ==
    ASSUME NEW n \in 1 .. MaxReapplies + 1
    PROVE  /\ nextReapplyAttempt(n) \subseteq 0..MaxReapplyBackoff
           /\ n - MinAttempts < ReapplyOverflowAt /\ ReapplyOverflowAt > 0
              => \A d \in nextReapplyAttempt(n) : d >= ReapplyBase
<1> USE AttemptsAssumption, DelaysAssumption, EngineBoundsAssumption
<1> DEFINE k == IF n < MinAttempts THEN 0 ELSE n - MinAttempts
           delay == ReapplyBase * 2 ^ k
<1>1. k \in 0 .. MaxFailures + MaxReapplies
    BY SMT
<1>2. delay \in Int /\ delay >= ReapplyBase
    BY <1>1, DoublingGrows
<1>3. AtMost(delay, MaxReapplyBackoff) \in 0..MaxReapplyBackoff
      /\ AtMost(delay, MaxReapplyBackoff) >= ReapplyBase
    <2> HIDE DEF delay
    <2> QED BY <1>2, SMT DEF AtMost
<1>4. nextReapplyAttempt(n) = IF k >= ReapplyOverflowAt THEN {0, MaxReapplyBackoff}
                              ELSE {AtMost(delay, MaxReapplyBackoff)}
    BY DEF nextReapplyAttempt
<1>5. n - MinAttempts < ReapplyOverflowAt /\ ReapplyOverflowAt > 0 => ~(k >= ReapplyOverflowAt)
    BY <1>1, SMT
<1> HIDE DEF k, delay
<1> QED BY <1>3, <1>4, <1>5, SMT
EngineInv == Numbers /\ Names /\ Flags /\ RetryWindow

\* A counted failure: the attempts and both timestamps stay in range, and the new delay
\* is the one that retryBackoff gives for the new number of attempts.
LEMMA FailureCounted ==
    ASSUME Numbers, UpdateWorkloadRetryOnFailure
    PROVE  /\ attempts' \in 0..MaxFailures
           /\ nextRetry' \in {None} \cup 0..MaxRetryBackoff
           /\ grace' \in {None} \cup 0..Grace
           /\ sinceFailure' = 0 /\ RetryWindow'
<1> USE AttemptsAssumption, DelaysAssumption, EngineBoundsAssumption, NoneAssumption
<1> DEFINE left == IF grace = None THEN Grace ELSE grace
           inGrace == left > 0
           n == IF inGrace /\ attempts >= MaxAttempts - 1 THEN attempts ELSE attempts + 1
<1>1. n \in 0 .. MaxFailures + 1 /\ left \in 0..Grace
    BY SMT DEF Numbers
<1>2. retryBackoff(n) \subseteq 0..MaxRetryBackoff
    BY <1>1, RetryDelays
<1>3. attempts' = AtMost(n, MaxFailures) /\ sinceFailure' = 0
    BY DEF UpdateWorkloadRetryOnFailure
<1>4. \/ n >= MaxAttempts /\ grace' = None /\ nextRetry' = RetryDue
      \/ grace' = left /\ nextRetry' \in retryBackoff(n)
    BY DEF UpdateWorkloadRetryOnFailure
<1> HIDE DEF n, left
<1>5. attempts' \in 0..MaxFailures
    BY <1>1, <1>3, SMT DEF AtMost
<1>6. RetryDue \in {None} \cup 0..MaxRetryBackoff
    BY DEF Numbers, RetryDue
<1>7. nextRetry' \in {None} \cup 0..MaxRetryBackoff /\ grace' \in {None} \cup 0..Grace
    BY <1>1, <1>2, <1>4, <1>6
<1>8. ASSUME attempts' < MaxAttempts PROVE attempts' = n /\ nextRetry' \in retryBackoff(n)
    BY <1>1, <1>3, <1>4, <1>8, SMT DEF AtMost
<1>9. RetryWindow'
    <2> SUFFICES ASSUME attempts' < MaxAttempts
                 PROVE  \E d \in retryBackoff(attempts)' :
                          IF nextRetry' = None THEN sinceFailure' >= d
                          ELSE nextRetry' + sinceFailure' >= d
        BY DEF RetryWindow
    <2>1. retryBackoff(attempts)' = retryBackoff(n)
        BY <1>8 DEF retryBackoff
    <2>2. nextRetry' \in 0..MaxRetryBackoff
        BY <1>2, <1>8
    <2>3. IF nextRetry' = None THEN sinceFailure' >= nextRetry'
          ELSE nextRetry' + sinceFailure' >= nextRetry'
        <3>1. nextRetry' \in Int
            BY <2>2, SMT
        <3>2. nextRetry' # None
            BY <3>1
        <3>3. ASSUME NEW d \in Int PROVE d + sinceFailure' >= d
            BY <1>3, SMT
        <3>4. nextRetry' + sinceFailure' >= nextRetry'
            BY <3>1, <3>3
        <3> QED BY <3>2, <3>4
    <2> QED BY <1>8, <2>1, <2>3
<1> QED BY <1>3, <1>5, <1>7, <1>9

\* A step that leaves the failures alone, and NextRetryAt too unless it is due.
LEMMA RetryWindowStays ==
    ASSUME Numbers, RetryWindow, attempts' = attempts, sinceFailure' = sinceFailure,
           nextRetry' = RetryDue \/ nextRetry' = nextRetry
    PROVE  RetryWindow' /\ nextRetry' \in {None} \cup 0..MaxRetryBackoff
<1> USE DelaysAssumption, NoneAssumption
<1>1. nextRetry' \in {None} \cup 0..MaxRetryBackoff
    BY DEF Numbers, RetryDue
<1>2. retryBackoff(attempts)' = retryBackoff(attempts)
    BY DEF retryBackoff
<1>3. nextRetry' = nextRetry \/ (nextRetry = 0 /\ nextRetry' = None)
    BY DEF RetryDue, dueForRetry
<1>4. RetryWindow'
    <2> SUFFICES ASSUME MinAttempts <= attempts, attempts < MaxAttempts
                 PROVE  \E d \in retryBackoff(attempts) :
                          IF nextRetry' = None THEN sinceFailure >= d
                          ELSE nextRetry' + sinceFailure >= d
        BY <1>2 DEF RetryWindow
    <2>1. PICK d \in retryBackoff(attempts) :
            IF nextRetry = None THEN sinceFailure >= d ELSE nextRetry + sinceFailure >= d
        BY DEF RetryWindow
    <2>2. IF nextRetry' = None THEN sinceFailure >= d ELSE nextRetry' + sinceFailure >= d
        BY <1>3, <2>1, SMT DEF Numbers
    <2> QED BY <2>2
<1> QED BY <1>1, <1>4
\* Every pass, call, report and tick leaves numbers and timestamps in range.
LEMMA NumbersKeep ==
    ASSUME EngineInv, [Next]_vars PROVE Numbers' /\ RetryWindow'
<1> USE AttemptsAssumption, DelaysAssumption, EngineBoundsAssumption, NoneAssumption
<1>1. CASE NoAction \/ ReapplyBackoffWait \/ Investigate \/ ReschedulePending
    <2>1. /\ UNCHANGED <<attempts, grace, reapplyVars, calls, history>> /\ nextRetry' = RetryDue
        BY <1>1 DEF NoAction, ReapplyBackoffWait, Investigate, ReschedulePending
    <2> QED BY <2>1, RetryWindowStays DEF EngineInv, Numbers, reapplyVars, history
<1>2. CASE Halt \/ AlreadyThere
    <2>1. /\ UNCHANGED <<attempts, grace, calls, sinceApply, sinceFailure>> /\ nextRetry' = RetryDue
          /\ UNCHANGED reapplyVars \/ clearReapplyMetadata
        BY <1>2 DEF Halt, AlreadyThere, history
    <2> QED BY <2>1, RetryWindowStays, SMT DEF EngineInv, Numbers, reapplyVars, clearReapplyMetadata
<1>3. CASE Apply
    <2>1. UNCHANGED <<attempts, grace, calls, sinceFailure>> /\ nextRetry' = RetryDue
        BY <1>3 DEF Apply
    <2>2. CASE desired = "Running"
        <3>1. /\ reapplies' = AtMost(reapplies + 1, MaxReapplies) /\ sinceApply' = 0
              /\ guard' \in nextReapplyAttempt(reapplies + 1)
            BY <1>3, <2>2 DEF Apply
        <3>2. reapplies + 1 \in 1 .. MaxReapplies + 1
            BY SMT DEF EngineInv, Numbers
        <3>3. guard' \in 0..MaxReapplyBackoff
            BY <3>1, <3>2, ReapplyDelays
        <3>4. reapplies' \in 1..MaxReapplies
            BY <3>1, <3>2, SMT DEF AtMost
        <3>5. guard' # None /\ reapplies' # 0
            BY <3>3, <3>4, SMT
        <3>6. sinceApply' \in 0..ReapplyBase
            BY <3>1, SMT
        <3> QED BY <2>1, <3>3, <3>4, <3>5, <3>6, RetryWindowStays, SMT DEF EngineInv, Numbers
    <2>3. CASE desired # "Running"
        <3>1. clearReapplyMetadata /\ sinceApply' = sinceApply
            BY <1>3, <2>3 DEF Apply
        <3> QED BY <2>1, <3>1, RetryWindowStays, SMT DEF EngineInv, Numbers, clearReapplyMetadata
    <2> QED BY <2>2, <2>3
<1>4. CASE ApplyFails \/ AwaitFailover
    <2>1. UpdateWorkloadRetryOnFailure /\ UNCHANGED <<reapplyVars, calls, sinceApply>>
        BY <1>4 DEF ApplyFails, AwaitFailover
    <2> QED BY <2>1, FailureCounted, SMT DEF EngineInv, Numbers, reapplyVars
<1>5. CASE Reschedule
    BY <1>5, SMT DEF Reschedule, EngineInv, Numbers, RetryWindow, reapplyVars, history
<1>6. CASE TriggerWorkloadRetry
    BY <1>6, SMT DEF TriggerWorkloadRetry, EngineInv, Numbers, RetryWindow, clearReapplyMetadata, history
<1>7. CASE UpdateWorkloadSpec
    <2>1. /\ UNCHANGED <<attempts, nextRetry, grace, sinceFailure>> /\ calls' = calls + 1
          /\ calls < MaxCalls /\ sinceApply' \in {sinceApply, ReapplyBase}
          /\ UNCHANGED <<reapplies, guard>> \/ clearReapplyMetadata
        BY <1>7 DEF UpdateWorkloadSpec, retryVars, reapplyVars
    <2> QED BY <2>1, RetryWindowStays, SMT DEF EngineInv, Numbers, clearReapplyMetadata
<1>8. CASE Heartbeat \/ syncWorkloadStatus \/ AgentStarts \/ AgentFails \/ UNCHANGED vars
    <2>1. UNCHANGED <<retryVars, reapplyVars, calls, sinceApply, sinceFailure>>
        BY <1>8 DEF Heartbeat, syncWorkloadStatus, AgentStarts, AgentFails, history, vars
    <2> QED BY <2>1, RetryWindowStays DEF EngineInv, Numbers, retryVars, reapplyVars
<1>9. CASE Tick
    <2>1. /\ UNCHANGED <<attempts, reapplies, calls>>
          /\ nextRetry' = Less(nextRetry) /\ grace' = Less(grace) /\ guard' = Less(guard)
          /\ sinceApply' = AtMost(sinceApply + 1, ReapplyBase)
          /\ sinceFailure' = AtMost(sinceFailure + 1, MaxRetryBackoff)
        BY <1>9 DEF Tick
    <2>2. Numbers'
        BY <2>1, SMT DEF EngineInv, Numbers, Less, AtMost
    <2>3. RetryWindow'
        <3> SUFFICES ASSUME MinAttempts <= attempts, attempts < MaxAttempts
                     PROVE  \E d \in retryBackoff(attempts) :
                              IF nextRetry' = None THEN sinceFailure' >= d
                              ELSE nextRetry' + sinceFailure' >= d
            BY <2>1 DEF RetryWindow, retryBackoff
        <3>1. PICK d \in retryBackoff(attempts) :
                IF nextRetry = None THEN sinceFailure >= d ELSE nextRetry + sinceFailure >= d
            BY DEF EngineInv, RetryWindow
        <3>2. d \in 0..MaxRetryBackoff
            BY <3>1, RetryDelays, SMT DEF EngineInv, Numbers
        <3>3. IF nextRetry' = None THEN sinceFailure' >= d ELSE nextRetry' + sinceFailure' >= d
            BY <2>1, <3>1, <3>2, SMT DEF EngineInv, Numbers, Less, AtMost
        <3> QED BY <3>3
    <2> QED BY <2>2, <2>3
<1> QED BY <1>1, <1>2, <1>3, <1>4, <1>5, <1>6, <1>7, <1>8, <1>9 DEF Next, ReconcileWorkload, AnsweredPass
\* States and statuses are among the ones the code knows.
LEMMA NamesKeep ==
    ASSUME Names, [Next]_vars PROVE Names'
<1> USE DEF Names, Statuses, Actual
<1>1. StatusDue \in Statuses
    BY DEF StatusDue
<1>2. CASE NoAction \/ ReapplyBackoffWait \/ Investigate \/ ReschedulePending \/ Reschedule
    BY <1>1, <1>2 DEF NoAction, ReapplyBackoffWait, Investigate, ReschedulePending, Reschedule, agentVars
<1>3. CASE Halt \/ AlreadyThere \/ Apply
    BY <1>1, <1>3 DEF Halt, AlreadyThere, Apply, agentVars
<1>4. CASE ApplyFails \/ AwaitFailover
    BY <1>4 DEF ApplyFails, AwaitFailover, UpdateWorkloadRetryOnFailure, agentVars
<1>5. CASE TriggerWorkloadRetry \/ UpdateWorkloadSpec
    BY <1>5 DEF TriggerWorkloadRetry, UpdateWorkloadSpec, agentVars
<1>6. CASE Heartbeat \/ syncWorkloadStatus
    BY <1>6 DEF Heartbeat, syncWorkloadStatus, UpdateWorkloadStatus, agentVars
<1>7. CASE AgentStarts \/ AgentFails \/ Tick \/ UNCHANGED vars
    BY <1>7 DEF AgentStarts, AgentFails, Tick, agentVars, vars
<1> QED BY <1>2, <1>3, <1>4, <1>5, <1>6, <1>7 DEF Next, ReconcileWorkload, AnsweredPass

\* What the record and the agent say yes or no to.
LEMMA FlagsKeep ==
    ASSUME Flags, [Next]_vars PROVE Flags'
<1> USE DEF Flags
<1>1. Reported \in BOOLEAN
    BY DEF Reported
<1>2. ASSUME LastActionKept PROVE lastHalted' \in BOOLEAN
    BY <1>2 DEF LastActionKept
<1>3. CASE NoAction \/ ReapplyBackoffWait \/ Investigate
    BY <1>1, <1>2, <1>3 DEF NoAction, ReapplyBackoffWait, Investigate, agentVars, reapplyVars, history
<1>4. CASE ReschedulePending \/ Reschedule
    BY <1>4 DEF ReschedulePending, Reschedule, agentVars, reapplyVars, history
<1>5. CASE Halt
    BY <1>1, <1>5 DEF Halt, clearReapplyMetadata, agentVars, reapplyVars, history
<1>6. CASE AlreadyThere
    BY <1>1, <1>2, <1>6 DEF AlreadyThere, clearReapplyMetadata
<1>7. CASE Apply
    BY <1>2, <1>7 DEF Apply, clearReapplyMetadata
<1>8. CASE ApplyFails \/ AwaitFailover
    BY <1>1, <1>8 DEF ApplyFails, AwaitFailover, UpdateWorkloadRetryOnFailure, agentVars, reapplyVars
<1>9. CASE TriggerWorkloadRetry
    BY <1>9 DEF TriggerWorkloadRetry, clearReapplyMetadata, agentVars, history
<1>10. CASE UpdateWorkloadSpec
    BY <1>10 DEF UpdateWorkloadSpec, clearReapplyMetadata, agentVars, reapplyVars
<1>11. CASE Heartbeat \/ syncWorkloadStatus
    <2>1. ASSUME UpdateWorkloadStatus PROVE lastHalted' \in BOOLEAN
        BY <2>1 DEF UpdateWorkloadStatus
    <2> QED BY <1>1, <1>11, <2>1 DEF Heartbeat, syncWorkloadStatus, agentVars, reapplyVars, history
<1>12. CASE AgentStarts \/ AgentFails \/ Tick \/ UNCHANGED vars
    BY <1>12 DEF AgentStarts, AgentFails, Tick, agentVars, reapplyVars, history, vars
<1> QED BY <1>3, <1>4, <1>5, <1>6, <1>7, <1>8, <1>9, <1>10, <1>11, <1>12
        DEF Next, ReconcileWorkload, AnsweredPass

\* A workload starts without failures, applies and timestamps.
LEMMA EngineStarts == Init => EngineInv /\ ReapplyWindow
<1> SUFFICES ASSUME Init PROVE EngineInv /\ ReapplyWindow
    OBVIOUS
<1>1. Numbers /\ RetryWindow
    BY AttemptsAssumption, DelaysAssumption, EngineBoundsAssumption, SMT
       DEF Init, Numbers, RetryWindow
<1>2. Names
    BY DEF Init, Names, Statuses, Actual
<1>3. Flags /\ ReapplyWindow
    BY DEF Init, Flags, ReapplyWindow
<1> QED BY <1>1, <1>2, <1>3 DEF EngineInv

\* Every pass, call, heartbeat and tick keeps the invariant of the retry engine.
LEMMA EngineKeeps == EngineInv /\ [Next]_vars => EngineInv'
BY NumbersKeep, NamesKeep, FlagsKeep DEF EngineInv

\* For any delays and bounds, the record, the agent and the clocks stay in range.
THEOREM EngineTyped == Spec => []TypeOK
<1>1. EngineInv => TypeOK
    <2> SUFFICES ASSUME EngineInv PROVE TypeOK
        OBVIOUS
    <2>1. (reapplies = 0) = (guard = None)
        BY DEF EngineInv, Numbers
    <2> QED BY <2>1 DEF EngineInv, Numbers, Names, Flags, TypeOK
<1> QED BY <1>1, EngineStarts, EngineKeeps, PTL DEF Spec

\* Only Apply applies.
LEMMA AppliesIsApply ==
    ASSUME EngineInv, [Next]_vars, Applies PROVE Apply /\ desired = "Running"
<1> USE DEF Applies
<1>1. CASE NoAction \/ ReapplyBackoffWait \/ Investigate \/ ReschedulePending \/ Reschedule \/ Halt
    BY <1>1 DEF NoAction, ReapplyBackoffWait, Investigate, ReschedulePending, Reschedule, Halt, agentVars
<1>2. CASE AlreadyThere \/ Apply
    BY <1>2 DEF AlreadyThere, Apply, EngineInv, Names
<1>3. CASE ApplyFails \/ AwaitFailover \/ TriggerWorkloadRetry \/ UpdateWorkloadSpec
    BY <1>3 DEF ApplyFails, AwaitFailover, TriggerWorkloadRetry, UpdateWorkloadSpec, agentVars
<1>4. CASE Heartbeat \/ syncWorkloadStatus \/ AgentStarts \/ AgentFails \/ Tick \/ UNCHANGED vars
    BY <1>4 DEF Heartbeat, syncWorkloadStatus, AgentStarts, AgentFails, Tick, agentVars, vars
<1> QED BY <1>1, <1>2, <1>3, <1>4 DEF Next, ReconcileWorkload, AnsweredPass

\* For any delays and any attempts, failures and resets: an apply after MinAttempts
\* failures comes at least retryBackoff after the last of them.
THEOREM RetriesSpaced == Spec => RetrySpacing
<1>1. ASSUME EngineInv, [Next]_vars, Applies, attempts < MaxAttempts
      PROVE  \E d \in retryBackoff(attempts) : sinceFailure >= d
    <2> USE AttemptsAssumption, NoneAssumption
    <2>1. ~BackoffWait
        BY <1>1, AppliesIsApply DEF Apply, MayApply
    <2>2. CASE attempts < MinAttempts
        BY <1>1, <2>2, DelaysAssumption, SMT DEF retryBackoff, EngineInv, Numbers
    <2>3. CASE attempts >= MinAttempts
        <3>1. PICK d \in retryBackoff(attempts) :
                IF nextRetry = None THEN sinceFailure >= d ELSE nextRetry + sinceFailure >= d
            BY <1>1, <2>3, EngineBoundsAssumption DEF EngineInv, RetryWindow, Numbers
        <3>2. nextRetry = None \/ nextRetry = 0
            BY <1>1, <2>1, <2>3, DelaysAssumption, SMT DEF BackoffWait, EngineInv, Numbers
        <3> QED BY <1>1, <3>1, <3>2, DelaysAssumption, SMT DEF EngineInv, Numbers
    <2> QED BY <1>1, <2>2, <2>3, EngineBoundsAssumption, SMT DEF EngineInv, Numbers
<1>2. EngineInv /\ [Next]_vars =>
        [Applies /\ attempts < MaxAttempts => \E d \in retryBackoff(attempts) : sinceFailure >= d]_vars
    BY <1>1
<1> QED BY <1>2, EngineStarts, EngineKeeps, PTL DEF Spec, RetrySpacing
\* As long as the doublings fit a Duration, the window of an apply is at least the base
\* delay, and no step but the clock makes it shorter.
LEMMA ReapplyWindowKeeps ==
    ASSUME MaxReapplies < ReapplyOverflowAt, EngineInv, ReapplyWindow, [Next]_vars
    PROVE  ReapplyWindow'
<1> USE AttemptsAssumption, DelaysAssumption, EngineBoundsAssumption, NoneAssumption
<1>1. CASE Apply
    <2>1. CASE desired = "Running"
        <3>1. guard' \in nextReapplyAttempt(reapplies + 1) /\ sinceApply' = 0
            BY <1>1, <2>1 DEF Apply
        <3>2. /\ reapplies + 1 \in 1 .. MaxReapplies + 1
              /\ (reapplies + 1) - MinAttempts < ReapplyOverflowAt /\ ReapplyOverflowAt > 0
            BY SMT DEF EngineInv, Numbers
        <3>3. guard' \in 0..MaxReapplyBackoff /\ guard' >= ReapplyBase
            BY <3>1, <3>2, ReapplyDelays
        <3>4. ASSUME NEW g \in 0..MaxReapplyBackoff, g >= ReapplyBase
              PROVE  g + sinceApply' >= ReapplyBase
            BY <3>1, <3>4, SMT
        <3> QED BY <3>3, <3>4 DEF ReapplyWindow
    <2>2. CASE desired # "Running"
        BY <1>1, <2>2 DEF Apply, clearReapplyMetadata, ReapplyWindow
    <2> QED BY <2>1, <2>2
<1>2. CASE Tick
    BY <1>2, SMT DEF Tick, ReapplyWindow, EngineInv, Numbers, Less, AtMost
<1>3. CASE Halt \/ AlreadyThere \/ TriggerWorkloadRetry \/ UpdateWorkloadSpec
    BY <1>3 DEF Halt, AlreadyThere, TriggerWorkloadRetry, UpdateWorkloadSpec, clearReapplyMetadata,
                reapplyVars, history, ReapplyWindow
<1>4. CASE \/ NoAction \/ ReapplyBackoffWait \/ Investigate \/ ReschedulePending \/ Reschedule
           \/ ApplyFails \/ AwaitFailover \/ Heartbeat \/ syncWorkloadStatus \/ AgentStarts
           \/ AgentFails \/ UNCHANGED vars
    <2>1. UNCHANGED <<reapplyVars, sinceApply>>
        BY <1>4 DEF NoAction, ReapplyBackoffWait, Investigate, ReschedulePending, Reschedule,
                    ApplyFails, AwaitFailover, Heartbeat, syncWorkloadStatus, AgentStarts,
                    AgentFails, history, vars
    <2> QED BY <2>1 DEF reapplyVars, ReapplyWindow
<1> QED BY <1>1, <1>2, <1>3, <1>4 DEF Next, ReconcileWorkload, AnsweredPass

\* For any delays, as long as the doublings fit a Duration: an apply of a revision that
\* was applied MinAttempts times comes at least baseReapplyBackoff after the last one.
THEOREM ReappliesSpaced ==
    ASSUME MaxReapplies < ReapplyOverflowAt PROVE Spec => ReapplySpacing
<1> DEFINE Inv == EngineInv /\ ReapplyWindow
<1>1. ASSUME Inv, [Next]_vars, Applies, guardRev, reapplies >= MinAttempts
      PROVE  sinceApply >= ReapplyBase
    <2> USE AttemptsAssumption, DelaysAssumption, EngineBoundsAssumption, NoneAssumption
    <2>1. ~reapplyStillGuarded
        BY <1>1, AppliesIsApply DEF Apply, MayApply, NeedsStop
    <2>2. guard = 0
        BY <1>1, <2>1, SMT DEF reapplyStillGuarded, EngineInv, Numbers
    <2> QED BY <1>1, <2>2, SMT DEF EngineInv, Numbers, ReapplyWindow
<1>2. Inv /\ [Next]_vars =>
        [Applies /\ guardRev /\ reapplies >= MinAttempts => sinceApply >= ReapplyBase]_vars
    BY <1>1
<1>3. Init => Inv
    BY EngineStarts
<1>4. Inv /\ [Next]_vars => Inv'
    BY EngineKeeps, ReapplyWindowKeeps
<1> HIDE DEF Inv
<1> QED BY <1>2, <1>3, <1>4, PTL DEF Spec, ReapplySpacing

----------------------------------------------------------------------------
(* The contract of the retries *)

\* A pass that counts no failure: a retry that is due is taken, and nothing else of the
\* retries changes (dueForRetry).
LEMMA PassKeepsContract ==
    ASSUME Numbers, attempts' = attempts, nextRetry' = RetryDue, status' \in Statuses,
           status' = StatusDue \/ status' # "RetryPending"
    PROVE  [Contract!Next]_Contract!vars
<1> USE NoneAssumption DEF Contract!vars, RetryState
<1>1. CASE dueForRetry
    <2>1. nextRetry = 0 /\ attempts < MaxAttempts /\ nextRetry' = None /\ StatusDue = "Pending"
        BY <1>1 DEF dueForRetry, RetryDue, StatusDue
    <2>2. RetryState = "armed" /\ RetryState' = "idle"
        BY <2>1, AttemptsAssumption, EngineBoundsAssumption, SMT DEF Numbers
    <2> QED BY <2>1, <2>2 DEF Contract!Next, Contract!TakeRetry
<1>2. CASE ~dueForRetry
    <2>1. nextRetry' = nextRetry /\ StatusDue = status
        BY <1>2 DEF RetryDue, StatusDue
    <2> QED BY <2>1 DEF Contract!Next, Contract!Report
<1> QED BY <1>1, <1>2

\* A step that leaves the retries alone and stores no RetryPending.
LEMMA ReportKeepsContract ==
    ASSUME attempts' = attempts, nextRetry' = nextRetry, status' \in Statuses,
           status' = status \/ status' # "RetryPending"
    PROVE  [Contract!Next]_Contract!vars
BY DEF Contract!vars, RetryState, Contract!Next, Contract!Report

\* A failure uses the attempts up or plans a retry, and never gives attempts back,
\* whether it falls into the grace period or not (UpdateWorkloadRetryOnFailure).
LEMMA FailureKeepsContract ==
    ASSUME Numbers, UpdateWorkloadRetryOnFailure PROVE Contract!Fail
<1> USE AttemptsAssumption, EngineBoundsAssumption, NoneAssumption
<1> DEFINE left == IF grace = None THEN Grace ELSE grace
           inGrace == left > 0
           n == IF inGrace /\ attempts >= MaxAttempts - 1 THEN attempts ELSE attempts + 1
<1>1. n \in 0 .. MaxFailures + 1 /\ attempts' = AtMost(n, MaxFailures)
    BY SMT DEF Numbers, UpdateWorkloadRetryOnFailure
<1>2. CASE ~inGrace /\ n >= MaxAttempts
    <2>1. status' = "Failed"
        BY <1>2 DEF UpdateWorkloadRetryOnFailure
    <2> HIDE DEF n
    <2>2. attempts' >= MaxAttempts
        BY <1>1, <1>2, SMT DEF AtMost
    <2> QED BY <2>1, <2>2 DEF RetryState, Contract!Fail
<1>3. CASE inGrace \/ ~(n >= MaxAttempts)
    <2>1. status' = "RetryPending" /\ nextRetry' \in retryBackoff(n)
        BY <1>3 DEF UpdateWorkloadRetryOnFailure
    <2>2. nextRetry' # None
        <3> HIDE DEF n
        <3>1. nextRetry' \in 0..MaxRetryBackoff
            BY <1>1, <2>1, RetryDelays
        <3>2. nextRetry' \in Int
            BY <3>1, SMT
        <3> QED BY <3>2
    <2>3. attempts' >= MaxAttempts <=> attempts >= MaxAttempts
        BY <1>1, <1>3, SMT DEF AtMost, Numbers
    <2> QED BY <2>1, <2>2, <2>3 DEF RetryState, Contract!Fail
<1> QED BY <1>2, <1>3

\* Every pass, call, report and tick is a step of the contract or changes nothing there.
LEMMA EngineStepsKeepContract ==
    ASSUME EngineInv, [Next]_vars PROVE [Contract!Next]_Contract!vars
<1> USE DEF EngineInv
<1>1. Numbers /\ status' \in Statuses
    BY NamesKeep DEF Names
<1>2. CASE NoAction \/ ReapplyBackoffWait \/ Investigate \/ Apply
    <2>1. attempts' = attempts /\ nextRetry' = RetryDue /\ status' = StatusDue
        BY <1>2 DEF NoAction, ReapplyBackoffWait, Investigate, Apply
    <2> QED BY <1>1, <2>1, PassKeepsContract
<1>3. CASE Halt \/ AlreadyThere \/ ReschedulePending
    <2>1. /\ attempts' = attempts /\ nextRetry' = RetryDue
          /\ status' = StatusDue \/ status' \in {"Failed", "Pending", desired}
        BY <1>3 DEF Halt, AlreadyThere, ReschedulePending
    <2>2. status' = StatusDue \/ status' # "RetryPending"
        BY <2>1 DEF Names
    <2> QED BY <1>1, <2>1, <2>2, PassKeepsContract
<1>4. CASE ApplyFails \/ AwaitFailover
    BY <1>1, <1>4, FailureKeepsContract DEF ApplyFails, AwaitFailover, Contract!Next
<1>5. CASE Reschedule
    <2>1. ~(attempts' >= MaxAttempts)
        BY <1>5, AttemptsAssumption, SMT DEF Reschedule
    <2> QED BY <1>5, <2>1 DEF Reschedule, RetryState, Contract!Next, Contract!Failover
<1>6. CASE TriggerWorkloadRetry
    <2>1. ~(attempts' >= MaxAttempts) /\ nextRetry' # None
        BY <1>6, AttemptsAssumption, NoneAssumption, SMT DEF TriggerWorkloadRetry
    <2> QED BY <1>6, <2>1 DEF TriggerWorkloadRetry, RetryState, Contract!Next, Contract!ManualRetry
<1>7. CASE UpdateWorkloadSpec
    BY <1>1, <1>7, ReportKeepsContract DEF UpdateWorkloadSpec, retryVars
<1>8. CASE Heartbeat \/ syncWorkloadStatus
    <2>1. status' = status \/ status' = actual
        BY <1>8 DEF Heartbeat, syncWorkloadStatus, UpdateWorkloadStatus
    <2>2. status' = status \/ status' # "RetryPending"
        BY <2>1 DEF Names, Actual
    <2>3. attempts' = attempts /\ nextRetry' = nextRetry
        BY <1>8 DEF Heartbeat, syncWorkloadStatus, retryVars
    <2> QED BY <1>1, <2>2, <2>3, ReportKeepsContract
<1>9. CASE AgentStarts \/ AgentFails \/ UNCHANGED vars
    BY <1>1, <1>9, ReportKeepsContract DEF AgentStarts, AgentFails, retryVars, vars
<1>10. CASE Tick
    <2>1. attempts' = attempts /\ status' = status /\ nextRetry' = Less(nextRetry)
        BY <1>10 DEF Tick
    <2>2. nextRetry' = None <=> nextRetry = None
        BY <1>1, <2>1, NoneAssumption, SMT DEF Numbers, Less
    <2> QED BY <2>1, <2>2 DEF RetryState, Contract!vars
<1> QED BY <1>2, <1>3, <1>4, <1>5, <1>6, <1>7, <1>8, <1>9, <1>10
        DEF Next, ReconcileWorkload, AnsweredPass

\* For any delays, grace period and numbers of attempts: the retry engine implements the
\* three-valued contract that WorkloadLifecycle builds on, step by step.
THEOREM EngineKeepsContract == Spec => KeepsRetryContract
<1>1. Init => Contract!Init
    <2> SUFFICES ASSUME Init PROVE Contract!Init
        OBVIOUS
    <2>1. ~(attempts >= MaxAttempts)
        BY AttemptsAssumption, SMT DEF Init
    <2> QED BY <2>1 DEF Init, RetryState, Contract!Init
<1>2. EngineInv /\ [Next]_vars => [Contract!Next]_Contract!vars
    BY EngineStepsKeepContract
<1> QED BY <1>1, <1>2, EngineStarts, EngineKeeps, PTL DEF Spec, KeepsRetryContract, Contract!Spec

\* What follows from the contract alone: a record that says RetryPending has a retry
\* planned or no attempts left, and attempts that are used up come back only by the
\* operator's RetryWorkload or by a failover.
THEOREM RetriesAreNotForgotten ==
    Spec => []Contract!PendingIsPlanned /\ Contract!ExhaustedStays
<1>1. Contract!Init => Contract!PendingIsPlanned
    BY DEF Contract!Init, Contract!PendingIsPlanned
<1>2. Contract!PendingIsPlanned /\ [Contract!Next]_Contract!vars => Contract!PendingIsPlanned'
    BY DEF Contract!PendingIsPlanned, Contract!Next, Contract!Fail, Contract!Report, Contract!TakeRetry,
           Contract!ManualRetry, Contract!Failover, Contract!vars
<1>3. [Contract!Next]_Contract!vars
      => [RetryState = "exhausted" /\ RetryState' # "exhausted"
            => Contract!ManualRetry \/ Contract!Failover]_Contract!vars
    BY DEF Contract!Next, Contract!Fail, Contract!Report, Contract!TakeRetry, Contract!vars
<1>4. Spec => Contract!Init /\ [][Contract!Next]_Contract!vars
    BY EngineKeepsContract DEF KeepsRetryContract, Contract!Spec
<1> QED BY <1>1, <1>2, <1>3, <1>4, PTL DEF Contract!ExhaustedStays
=============================================================================

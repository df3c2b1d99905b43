CONSTANTS
    d1 = d1  t1 = t1
    Deliveries = {d1}
    Events = {d1}
    Workers = {"worker1", "worker2"}
    BufferSize = 1
    Retries = 2
    MaxSends = 2
    NoJob = NoJob
    Triggers = {t1}
    HasCommit <- MCHasCommit
    Strategy <- MCStrategy
    AutoDeploy = {t1}
    NoEvent = NoEvent
    MaxFaults = 1
SPECIFICATION FairSpec
CHECK_DEADLOCK FALSE
INVARIANTS TypeOK 
PROPERTIES KeepsContract HeldIsSettled

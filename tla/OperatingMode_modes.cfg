SPECIFICATION FairSpec
CONSTANTS
    n1 = n1
    w1 = w1
    c1 = c1
    NodeIDs <- MCNodeIDs
    WorkloadIDs <- MCWorkloadIDs
    Clients <- MCClients
    Handlers <- MCHandlers
    NoSnapshot = NoSnapshot
    MaxRetries = 1
    MaxFaults = 2
INVARIANTS TypeOK SnapshotWhileFrozen
PROPERTIES RecoveryKeepsSnapshot ReturnsToNormal OutageFreezes

CONSTANTS
    r1 = r1  r2 = r2  scale = scale  stop = stop
    Replicas <- MCReplicas
    Engines <- MCReplicas
    Policies <- MCPolicies
    ActionType <- MCActionType
    Limit = 1
    MaxRows = 2
    MaxFaults = 2
    NoOne = NoOne  NoNotice = NoNotice  NoRow = NoRow
SPECIFICATION FairSpec
INVARIANTS TypeOK OneLiveLeader NoticesFollowLeadership QueuedUntilActed
PROPERTIES EvaluatorFollowsLock ReplayReachesAll

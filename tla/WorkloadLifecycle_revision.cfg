CONSTANTS
    n1 = n1  n2 = n2
    Nodes <- MCOneNode
    Revs = {1, 2}
    Callers = {"api"}
    Calls <- MCCreateUpdate
    Reporters = {}
    Daemons = {"drift"}
    Split = {}
    Windows = {"retry", "reapply"}
    Redis = TRUE
    Faults = {"restart"}
    NoNode = NoNode  NoRecord = NoRecord  Absent = Absent
    MaxCalls = 2
    MaxFaults = 1
SPECIFICATION FairSpec
PROPERTY RevisionReachesAgent

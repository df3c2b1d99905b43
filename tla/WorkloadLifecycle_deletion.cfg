CONSTANTS
    n1 = n1  n2 = n2
    Nodes <- MCOneNode
    Revs = {1}
    Callers = {"api"}
    Calls <- MCCreateStopDelete
    Reporters = {}
    Daemons = {"loop"}
    Split = {}
    Windows = {"retry", "reapply"}
    Redis = TRUE
    Faults = {"linkDown", "restart"}
    NoNode = NoNode  NoRecord = NoRecord  Absent = Absent
    MaxCalls = 2
    MaxFaults = 1
SPECIFICATION FairSpec
PROPERTIES  StoppedConverges

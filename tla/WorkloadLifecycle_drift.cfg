CONSTANTS
    n1 = n1  n2 = n2
    Nodes <- MCNodes
    Revs = {1}
    Callers = {"api"}
    Calls <- MCCreate
    Reporters <- MCNodes
    Daemons = {"drift"}
    Split = {}
    Windows = {}
    Redis = TRUE
    Faults = {"workloadLost", "Failed", "Stopped", "applyTimeout", "applyRejected", "runtimeUnavailable", "linkDown", "restart"}
    NoNode = NoNode  NoRecord = NoRecord  Absent = Absent
    MaxCalls = 1
    MaxFaults = 1
SYMMETRY MCSymmetry
SPECIFICATION Spec
PROPERTY KeptUntilDeleted

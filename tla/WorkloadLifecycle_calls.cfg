CONSTANTS
    n1 = n1  n2 = n2
    Nodes <- MCOneNode
    Revs = {1, 2}
    Callers = {"api"}
    Calls <- MCAllCalls
    Reporters = {}
    Daemons = {"loop", "monitor"}
    Split = {"status"}
    Windows = {"retry", "reapply"}
    Redis = TRUE
    Faults = {}
    NoNode = NoNode  NoRecord = NoRecord  Absent = Absent
    MaxCalls = 2
    MaxFaults = 0
SPECIFICATION Spec
INVARIANTS TypeOK PersistedBeforeExecution

CONSTANTS
    vm = vm  box = box  v1 = v1  v2 = v2
    Workloads <- MCWorkloads
    Volumes <- MCVolumes
    Nodes = {n1, n2}
    Wanted <- MCWanted
    VMs = {vm}
    Existing = {vm}
    Policy <- MCPolicy
    Callers = {c}
    Beats = {b}
    NoNode = NoNode  NoRecord = NoRecord
    MaxCalls = 2
    MaxFaults = 1
SPECIFICATION FairSpec
INVARIANTS TypeOK AttachmentFollowsAssignment
PROPERTIES StorageConverges 
CHECK_DEADLOCK FALSE

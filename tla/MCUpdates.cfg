SPECIFICATION FairSpec
CONSTANTS
    c1 = c1
    c2 = c2
    a1 = a1
    a2 = a2
    w1 = w1
    w2 = w2
    Absent = Absent
    Abandoned = Abandoned
    Commands <- MCCommands
    Appliers <- MCAppliers
    Workers <- MCWorkers
    WorkerOf <- MCWorkerOf
    Versions <- MCVersions
    MaxFaults = 1
CHECK_DEADLOCK FALSE
INVARIANTS ToolIsSound
PROPERTIES CheckHappens

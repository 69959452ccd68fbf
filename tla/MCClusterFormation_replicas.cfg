\* One operator, no failure: do the replicas get their masters?
SPECIFICATION FairSpec
CONSTANTS
    Operators = {o1}
    MastersRange = {3}
    PerMaster = 1
    NumSlots = 7
    Faults = {}
    MaxFaults = 0
PROPERTY ReplicasAttached
CHECK_DEADLOCK FALSE

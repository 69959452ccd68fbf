\* Two operators form one cluster, each with its own spec.masters.
SPECIFICATION FairSpec
CONSTANTS
    Operators = {o1, o2}
    MastersRange = {3, 4}
    PerMaster = 1
    NumSlots = 7
    Faults = {"meet", "timeout", "error", "late", "crash"}
    MaxFaults = 1
INVARIANT TypeOK
INVARIANT OneFormer
INVARIANT SlotsOfOnePlan
INVARIANT NilMeansFormed
PROPERTY FormationSettles
CHECK_DEADLOCK FALSE

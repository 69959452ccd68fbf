SPECIFICATION FairSpec
CONSTANTS
    n1 = n1
    n2 = n2
    n3 = n3
    k1 = k1
    k2 = k2
    Nodes = {n1, n2, n3}
    Keys = {k1, k2}
    None = None
    BatchSize = 1
    MaxCalls = 2
    Faults = {"commit"}
    PromptGossip = TRUE
INVARIANT ReachableAfterNil
PROPERTY ImplementsAtomicSlot
PROPERTY CallReturns
PROPERTY GossipHealsMissedCommit
CHECK_DEADLOCK FALSE

SPECIFICATION Spec
CONSTANTS
    n1 = n1
    n2 = n2
    n3 = n3
    k1 = k1
    Nodes = {n1, n2, n3}
    Keys = {k1}
    None = None
    BatchSize = 1
    MaxCalls = 2
    Faults = {"commit"}
    PromptGossip = FALSE
SYMMETRY Symmetry
INVARIANT NoKeyLost
CHECK_DEADLOCK FALSE

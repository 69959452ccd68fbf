SPECIFICATION Spec
CONSTANTS
    n1 = n1
    n2 = n2
    n3 = n3
    k1 = k1
    k2 = k2
    Nodes = {n1, n2, n3}
    Keys = {k1, k2}
    None = None
    BatchSize = 1
    MaxCalls = 2
    Faults = {"error", "timeout", "stable", "commit", "crash"}
    PromptGossip = TRUE
SYMMETRY Symmetry
INVARIANT TypeOK
INVARIANT NoKeyLost
INVARIANT SourceStaysDrained
INVARIANT OneLiveClaim
CHECK_DEADLOCK FALSE

SPECIFICATION FairSpec
CONSTANTS
    s1 = s1
    s2 = s2
    NumPods = 2
    Sentinels = {s1, s2}
    HasClient = TRUE
    Faults = {"configmap", "write", "sentinel", "list", "patch", "crash"}
    MaxDeaths = 1
    MaxRestarts = 1
    MaxFaults = 1
INVARIANT TypeOK
PROPERTY RoutingConverges
PROPERTY HealthyLeavesFailed

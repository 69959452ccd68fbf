SPECIFICATION FairSpec
CONSTANTS
    s1 = s1
    s2 = s2
    NumPods = 2
    Sentinels = {s1, s2}
    HasClient = FALSE
    Faults = {}
    MaxDeaths = 1
    MaxRestarts = 0
    MaxFaults = 0
PROPERTY RoutingConverges

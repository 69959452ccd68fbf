SPECIFICATION FairSpec
CONSTANTS
    Configs <- MCConfigs
    WebhookOn = TRUE
    HasClient = TRUE
    Reverts = FALSE
    Faults = {"write", "configmap", "crash", "pods", "claimdelete"}
    MaxEdits = 3
    MaxFaults = 1
INVARIANT TypeOK
INVARIANT OneWorkload
INVARIANT LeftOnlyIfKept
PROPERTY LiveClaimStays
PROPERTY DeletionCompletes
PROPERTY ConfigConverges
PROPERTY StatusConverges

SPECIFICATION FairSpec
CONSTANTS
    MastersRange = {3, 4}
    Configs = {"a"}
    HasReplicas = TRUE
    WebhookOn = TRUE
    Faults = {"redis"}
    MaxEdits = 1
    MaxFaults = 1
PROPERTY ScalingEnds

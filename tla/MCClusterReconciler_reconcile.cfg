SPECIFICATION FairSpec
CONSTANTS
    MastersRange = {3, 4}
    Configs = {"a", "b"}
    HasReplicas = TRUE
    WebhookOn = TRUE
    Faults = {"write", "crash", "configmap", "form", "redis", "pods", "pvc"}
    MaxEdits = 2
    MaxFaults = 1
INVARIANT TypeOK
INVARIANT TerminatingNeverScaling
INVARIANT GoneMeansClean
INVARIANT ReadyMeansFormed
PROPERTY TemplateUnderFinalizer
PROPERTY ImplementsFinalizer
PROPERTY LeavesInitializing

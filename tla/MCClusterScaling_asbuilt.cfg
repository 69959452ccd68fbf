SPECIFICATION FairSpec
CONSTANTS
    NumSlots = 12
    InitMasters = 3
    MaxMasters = 4
    Wanted = {4}
    MaxEdits = 1
    MaxFaults = 0
    MaxPodCrashes = 0
    AddrsAnnounced = FALSE
PROPERTY ScaleOutCompletes

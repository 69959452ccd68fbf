SPECIFICATION FairSpec
CONSTANTS
    NumSlots = 13
    InitMasters = 3
    MaxMasters = 4
    Wanted = {3, 4}
    MaxEdits = 3
    MaxFaults = 2
    MaxPodCrashes = 1
    AddrsAnnounced = TRUE
INVARIANT TypeOK
PROPERTY DonorKeepsTarget
PROPERTY ScaleOutCompletes

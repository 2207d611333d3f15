SPECIFICATION FairSpec
CONSTANTS
    N = 2
    QueueCap = 1
    MaxCrashes = 1
    Kinds <- ManualOnly
    NeedsSource = TRUE
    StartFirst = FALSE
    Deletable = TRUE
    ColdBoot = FALSE
INVARIANTS
    NoOrphan
    SoleAfterRollout
PROPERTIES
    EventuallySettled
    DeletedDrains
CHECK_DEADLOCK FALSE

SPECIFICATION Spec
CONSTANTS
    N = 3
    QueueCap = 1
    MaxCrashes = 0
    Kinds <- AllKinds
    NeedsSource = TRUE
    StartFirst = TRUE
    Deletable = FALSE
    ColdBoot = FALSE
CHECK_DEADLOCK FALSE
INVARIANTS
    OneRunningWhenIdle
    
PROPERTIES
    KeepsServing
    StatusMovesForward

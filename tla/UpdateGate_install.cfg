SPECIFICATION FairGateSpec
CONSTANTS
    r1 = r1
    r2 = r2
    Requests <- MCRequests
    Releases <- MCReleases
    Version0 <- MCVersion0
    MaxJobs = 2
    CanDisconnect = TRUE
CHECK_DEADLOCK FALSE
INVARIANTS
    NoJobDuringSwap
    OnlyVerifiedBinary
PROPERTIES
    HeldJobRuns
    ImplementsLease

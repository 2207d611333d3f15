SPECIFICATION FairSpec
CONSTANTS
    s1 = s1
    s2 = s2
    Services = {s1, s2}
    NameOf <- SharedName
    Covered <- BothCovered
    Periods = {0, 1}
    MaxTime = 2
    MaxDeps = 2
    MaxUserSteps = 1
    MaxCrashes = 1
    Null = Null
CHECK_DEADLOCK FALSE
INVARIANTS
    NothingForgotten
PROPERTIES
    SlotsAdvance
    JobsRunToEnd
    DueRuns

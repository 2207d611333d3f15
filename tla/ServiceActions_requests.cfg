SPECIFICATION Spec
CONSTANTS
    MaxDeps = 2
    MaxReplicas = 2
    Handlers = {h1, h2}
    MaxOps = 3
    Null = Null
CONSTRAINT Apart
SYMMETRY HandlerSymmetry
CHECK_DEADLOCK FALSE
INVARIANTS
    ReportIsTrue
    AnsweredIsDone
    OneRunningDeployment

SPECIFICATION Spec
CONSTANTS
    Handlers = {h1, h2}
    MaxOps = 4
    MaxWrites = 1
    MaxCrashes = 1
    Kinds = {"db", "queue"}
    Ops = {"start", "stop", "restart", "move", "delete", "backup", "point", "recover"}
    Null = Null
CONSTRAINT RaceOrCrash
SYMMETRY HandlerSymmetry
CHECK_DEADLOCK FALSE
INVARIANTS
    AnswersAreTrue
    RestoreHeals
    RecoveryIsSafe

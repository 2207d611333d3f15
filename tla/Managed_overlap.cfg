SPECIFICATION Spec
CONSTANTS
    Handlers = {h1, h2}
    MaxOps = 3
    MaxWrites = 0
    MaxCrashes = 0
    Kinds = {"db"}
    Ops = {"start", "restart"}
    Null = Null
PROPERTY NoInFlightRemoved
CHECK_DEADLOCK FALSE

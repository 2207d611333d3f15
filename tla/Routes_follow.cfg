SPECIFICATION RoutesSpec
CONSTANTS
    Services = {web}
    MaxDeps = 2
    Cap = 1
    MaxRequests = 1
    Strategies <- BothStrategies
CHECK_DEADLOCK FALSE
INVARIANTS
    RoutesSettle

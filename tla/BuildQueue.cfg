SPECIFICATION FairSpec
CONSTANTS
    Builds <- MCBuilds
    Apps <- MCApps
    AppOf <- MCAppOf
    NoBuild = 0
    MaxConcurrent = 2
    Hung = {1, 3}
INVARIANTS
    Accounted
    UploadsRemoved
PROPERTIES
    Admitted
    EveryBuildReturns
CHECK_DEADLOCK FALSE

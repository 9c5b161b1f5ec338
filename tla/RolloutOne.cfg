SPECIFICATION Spec
CONSTANTS
    Apps = {a1}
    Ops = {o1}
    NoOp = NoOp
    MaxDeploys = 3
    Kinds = {"deploy", "rollback", "routes"}
    FaultSets <- MCFaultSets
    Origins = {"fresh", "settled"}
    Strategies = {"zero-downtime", "replace"}
INVARIANTS
    NothingPending
    RunningIsServed
    LatestIsUp
    OneWriter
    StuckRowsRun
PROPERTIES
    NeverDown
    RestartSafe

SPECIFICATION FairSpec
CONSTANTS
    Apps = {a1}
    Ops = {o1, o2}
    NoOp = NoOp
    MaxDeploys = 3
    Kinds = {"deploy", "rollback", "routes", "delete"}
    FaultSets <- MCConcurrentFaults
    Origins = {"settled"}
    Strategies = {"zero-downtime"}
INVARIANTS
    TypeOK
    RowsOwned
PROPERTIES
    TerminalIsFinal
    EveryOpReturns
CHECK_DEADLOCK FALSE

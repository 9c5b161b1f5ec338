SPECIFICATION Spec
CONSTANTS
    Apps = {a1}
    Ops = {o1}
    NoOp = NoOp
    MaxDeploys = 3
    Kinds = {"deploy", "rollback"}
    FaultSets <- MCCrashes
    Origins = {"fresh", "settled"}
    Strategies = {"zero-downtime"}
PROPERTIES
    BootKeepsServing

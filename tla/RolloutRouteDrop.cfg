SPECIFICATION Spec
CONSTANTS
    Apps = {a1}
    Ops = {o1, o2}
    NoOp = NoOp
    MaxDeploys = 3
    Kinds = {"deploy", "routes"}
    FaultSets <- MCPullFails
    Origins = {"settled"}
    Strategies = {"zero-downtime"}
SYMMETRY OpSymmetry
INVARIANTS
    RunningIsServed

SPECIFICATION FairSpec
CONSTANTS
    Deliveries = {d1, d2, d3}
    Apps = {a1}
    Branches = {main}
    None = None
    MaxCommits = 2
    ChangeSets <- MCChangeSets
INVARIANTS
    OneDeployPerApp
    NoPushForgotten
PROPERTIES
    SlotIsFreed
CHECK_DEADLOCK FALSE

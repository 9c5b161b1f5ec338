SPECIFICATION Spec
CONSTANTS
    Deliveries = {d1, d2}
    Apps = {a1}
    Branches = {main}
    None = None
    MaxCommits = 2
    ChangeSets <- MCNoChange
INVARIANTS
    PendingHasRunner
CHECK_DEADLOCK FALSE

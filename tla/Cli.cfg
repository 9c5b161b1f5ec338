SPECIFICATION Spec
CONSTANTS
    Clients = {"c1", "c2"}
    Users = {"u1", "u2"}
    MaxDeploys = 2
    Settings <- MCSettings
    Outputs <- MCOutputs
    Frames <- MCFrames
    Cap = 4
    Symbols = {"nl", "cr", "notice", "a", "b", "c", "e", "w", "x"}
    Editors = {"c1", "c2"}
    Keys = {"k1", "k2", "k3"}
    Edits <- MCEdits
    Callers = {"c1", "c2"}
    OwnLimit = 2
    AllLimit = 3
    Window = 3
    SweepEvery = 4
    SweepOver = 1
    MaxClock = 4
    Keep = 2
    MaxNumber = 4
INVARIANTS
    LogWhole
    SlotsReturned
    RollbacksKept
PROPERTIES
    TokenForOne
    FollowEnds
    EnvKept
    LoginsLimited
CHECK_DEADLOCK FALSE

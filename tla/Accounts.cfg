SPECIFICATION Spec
CONSTANTS
    Emails = {e1, e2}
    Admin = e1
    None = None
    MaxUsers = 2
    MaxPass = 1
    Tokens = {t1, t2}
    Invites = {i1, i2}
    Ops = {o1, o2}
    o1 = o1
    Duties <- MCDuties
SYMMETRY AccountSymmetry
INVARIANTS
    OwnerRemains
    InviteUsedOnce
    SessionsCurrent
PROPERTIES
    RevokedStays
CHECK_DEADLOCK FALSE

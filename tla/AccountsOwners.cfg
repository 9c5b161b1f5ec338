SPECIFICATION Spec
CONSTANTS
    Emails = {e1, e2}
    Admin = e1
    None = None
    MaxUsers = 2
    MaxPass = 0
    Tokens = {t1, t2}
    Invites = {i1}
    Ops = {o1, o2}
    o1 = o1
    Duties <- RaceDuties
SYMMETRY AccountSymmetry
INVARIANTS
    OwnerAlways

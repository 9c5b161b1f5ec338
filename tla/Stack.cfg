SPECIFICATION Spec
CONSTANTS
    Alphabet <- MCAlphabet
    Normal <- MCNormal
    BadNames = {}
    ReservedNames = {"app-x"}
    BadSlugs = {}
    Applies = {a1, a2, a3}
    a1 = a1
    a2 = a2
    a3 = a3
    Uploads <- MCUploads
    Slugs <- MCSlugs
    Keys = {"K"}
    HandMade <- MCHandMade
    Conducts <- MCConducts
    MaxRows = 4
    MaxOps = 1
INVARIANTS
    PlanIsRight
    NothingDropped
    VolumeWriters
    AliasesUnique
    EndedIsSettled
PROPERTIES
    ChainContract
    SecretsKept
CHECK_DEADLOCK FALSE

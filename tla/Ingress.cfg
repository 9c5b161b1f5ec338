SPECIFICATION Spec
CONSTANTS
    Slugs = {"a", "b", "d"}
    Hosts <- MCHosts
    Generated <- MCGenerated
    Custom <- MCCustom
    Dashboard = "d.root"
    Replaces = {"b"}
    Requests = {r1, r2, r3}
    Conducts <- MCConducts
    MaxPerApp = 1
    MaxIds = 3
    MaxDeaths = 1
    TTL = 2
INVARIANTS
    ServedIsStored
    HostsUnique
PROPERTIES
    IngressKept
    HealthHonest
SYMMETRY Interchangeable
CHECK_DEADLOCK FALSE

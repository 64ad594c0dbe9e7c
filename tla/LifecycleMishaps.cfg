\* Two servers on one node while jobs overlap, calls fail and admins act.
CONSTANTS
    None = None
    Servers = {s1, s2}
    Nodes = {n1}
    Tasks = {t1, t2, t3}
    Containers = {c1, c2}
    Sizes <- MixedSizes
    Capacities <- OneCapacity
    Requests = {"provision", "start", "stop", "restart", "delete", "patch"}
    AdminOps = {"create", "patch", "delete"}
    Faults = {"connect", "timeout"}
    MaxRetries = 1
    MaxJobs = 2
    MaxCrashes = 0
SPECIFICATION MishapSpec
SYMMETRY Symmetry
INVARIANTS
    MishapInv
    StatusMatchesContainer
    NoOrphanContainer
    PlacedOnKnownNode
PROPERTIES
    RowOutlivesContainer
    PlacementFits

\* A worker dies in a job that ARQ then runs again, perhaps on another node,
\* and nodes are deleted.
CONSTANTS
    None = None
    Servers = {s1}
    Nodes = {n1, n2}
    Tasks = {t1, t2, t3}
    Containers = {c1, c2}
    Sizes <- OneSize
    Capacities <- OneCapacity
    Requests = {"provision", "start", "stop", "delete"}
    AdminOps = {"delete"}
    Faults = {"timeout"}
    MaxRetries = 1
    MaxJobs = 2
    MaxCrashes = 1
SPECIFICATION Spec
SYMMETRY Symmetry
INVARIANTS
    IndInv
    HistoryInv
    RecordedContainerIsOwn
PROPERTIES
    ImplementsServerLife

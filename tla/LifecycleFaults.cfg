\* One server under every kind of failure short of a worker crash, on a node
\* that is registered, drained and put back online meanwhile.
CONSTANTS
    None = None
    Servers = {s1}
    Nodes = {n1}
    Tasks = {t1, t2, t3}
    Containers = {c1, c2}
    Sizes <- OneSize
    Capacities <- OneCapacity
    Requests = {"provision", "start", "stop", "restart", "delete", "patch"}
    AdminOps = {"create", "patch"}
    Faults = {"rollback", "connect", "docker", "timeout", "transport"}
    MaxRetries = 2
    MaxJobs = 3
    MaxCrashes = 0
SPECIFICATION Spec
SYMMETRY Symmetry
INVARIANTS
    ActiveHasContainer
    DeleteSucceededMeansGone
    SucceededProvisionHasContainer
    OneLiveContainer
    HistoryInv
    LifeInv
PROPERTIES
    RemovalNeedsDelete
    OutcomeIsFinal

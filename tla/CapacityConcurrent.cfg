\* Two servers placed at the same time.
CONSTANTS
    None = None
    Servers = {s1, s2}
    Nodes = {n1}
    Tasks = {t1, t2}
    Containers = {c1, c2}
    Sizes <- TwoSizes
    Capacities <- OneCapacity
    Requests = {"provision"}
    AdminOps = {}
    Faults = {}
    MaxRetries = 1
    MaxJobs = 2
    MaxCrashes = 0
SPECIFICATION Spec
INVARIANTS
    CapacityRespected

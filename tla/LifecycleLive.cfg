\* Jobs and tasks end, whatever fails.
CONSTANTS
    None = None
    Servers = {s1}
    Nodes = {n1}
    Tasks = {t1, t2, t3}
    Containers = {c1, c2}
    Sizes <- OneSize
    Capacities <- OneCapacity
    Requests = {"provision", "stop", "delete"}
    AdminOps = {}
    Faults = {"rollback", "connect"}
    MaxRetries = 2
    MaxJobs = 2
    MaxCrashes = 0
SPECIFICATION FairSpec
PROPERTIES
    JobTerminates
    RunningTaskEnds

\* A worker that dies, jobs that time out and failing agents and nodes, while the
\* server lives and is deleted.
CONSTANTS
    None = None
    Servers = {s1}
    Backups = {b1}
    Tasks = {t1, t2}
    Asks = {"provision", "stop", "delete"}
    Faults = {"agent", "job_timeout", "node"}
    MaxRetries = 1
    MaxCrashes = 1
SPECIFICATION FairSpec
INVARIANTS
    IndInv
PROPERTIES
    EveryJobSettles
CHECK_DEADLOCK FALSE

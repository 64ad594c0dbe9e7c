\* A server is started while a restore writes into its volume.
CONSTANTS
    None = None
    Servers = {s1}
    Backups = {b1}
    Tasks = {t1, t2}
    Asks = {"provision", "start", "stop"}
    Faults = {}
    MaxRetries = 1
    MaxCrashes = 0
SPECIFICATION Spec
INVARIANTS
    RestoreUnderStopped
CHECK_DEADLOCK FALSE

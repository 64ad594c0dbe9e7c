\* Two backups of one server, a restore, and every failure of a call.
CONSTANTS
    None = None
    Servers = {s1}
    Backups = {b1, b2}
    Tasks = {t1, t2, t3}
    Asks = {"provision", "stop", "delete"}
    Faults = {"rollback", "connect", "agent", "transport"}
    MaxRetries = 2
    MaxCrashes = 0
SPECIFICATION Spec
SYMMETRY Symmetry
INVARIANTS
    RestoreFindsArchive
    TaskMatchesBackup
PROPERTIES
    ImplementsBackupRecord
CHECK_DEADLOCK FALSE

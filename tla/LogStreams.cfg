\* Two containers of one agent and one thread for its calls, a client, and what may go wrong.
CONSTANTS
    None = None
    Containers = {c1, c2}
    Clients = {i1}
    Faults = {"docker", "redis", "agent", "exit"}
    Threads = 1
    MaxLines = 2
SPECIFICATION FairSpec
INVARIANTS
    IndInv
    StreamIsStretchOfLog
    SilentOnlyWhenUpset
PROPERTIES
    WrittenIsShown
CHECK_DEADLOCK FALSE

SPECIFICATION MCSpec
CONSTANTS
    p = p
    q = q
    r = r
    here = here
    there = there
    Objects = {p, q, r}
    Procs = {p, q, r}
    Hosts = {here, there}
    ProcOf <- Self
    HostOf <- TwoHosts
    Pids = {1, 2}
    Restarts = TRUE
    MaxCrashes = 2
    BootKnown = TRUE
    Orderly = TRUE
    Paths <- MCPaths
    MaxCalls = 3
INVARIANTS LockHeld
PROPERTIES OnlyStaleIsZapped TreesAgree CallsEnd
CHECK_DEADLOCK FALSE

SPECIFICATION MCSpec
CONSTANTS
    p = p
    q = q
    r = r
    here = here
    there = there
    Objects = {p, q, r}
    Procs = {p, q, r}
    Hosts = {here}
    ProcOf <- Self
    HostOf <- OneHost
    Pids = {1, 2, 3}
    Restarts = FALSE
    MaxCrashes = 1
    BootKnown = TRUE
    Orderly = FALSE
    Paths <- MCPaths
    MaxCalls = 0
INVARIANTS MutualExclusion
CHECK_DEADLOCK FALSE

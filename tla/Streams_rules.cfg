SPECIFICATION Spec
CONSTANTS
    Capacity = 2
    MaxBytes = 5
    ReadCalls <- MCReadCalls
    WriteCalls <- MCWriteCalls
    BufferLists <- MCBufferLists
    ReadvWhole = TRUE
    Files = {f1, f2}
    LastNumber = 2
    MaxOpened = 4
    FileRules = {"only owners close", "adopt nobody's", "close before attach", "copy owners only", "close works"}
    Lockers = {l1, l2, l3}
    LockProcs = {p1, p2}
    LockerOf <- Shared
    l1 = l1
    l2 = l2
    l3 = l3
    p1 = p1
    p2 = p2
    Bytes <- MCBytes
    Disjoint = TRUE
    SubProcesses = {s1, s2}
    MaxProcs = 2
    MaxPipes = 2
    Rules = {"detach after failure", "terminate the running", "close once", "no fork while writing",
             "detach before run", "close before wait", "last with pipe", "live ends"}
INVARIANTS BytesKept FilesKeepTheirs RegionsKept ChildrenConnected
PROPERTIES XCallsAreComplete CallsEnd
CHECK_DEADLOCK FALSE

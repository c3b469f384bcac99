SPECIFICATION Spec
CONSTANTS
    Fatals = {"segv"}
    Quits = {"hup"}
    HooksRefuse = FALSE
    MaxEvents = 3
    MaxLevel = 2
    Pools = {1, 2, 3}
    Sizes = {1, 2}
    Memory = 3
    MaxCalls = 3
    Step = 2
    Unit = 1
    MAX_ADJUSTMENT = 2
    Seqs = 2
    MaxTime = 4
    MaxBack = 1
    Peers <- PeerAddresses
    Objects = {1, 2}
    MaxDatagrams = 1
INVARIANTS HandlersNest PoolsUnwind AnswersReachTheSender
PROPERTIES GivenAsPromised CallsEnd
CHECK_DEADLOCK FALSE

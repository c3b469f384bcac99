SPECIFICATION Spec
CONSTANTS
    Channels = {a, b}
    Fds = {0, 1}
    Kinds = {"read", "write"}
    FdSetSize = 3
    Rules = {"once", "open", "nonempty", "settled", "small"}
    MaxCurrent = 3
SYMMETRY ChannelSymmetry
INVARIANTS ChannelInv ReadyInv NoAssertFails
PROPERTIES EventsDelivered ImplementsReadyDelivery
CHECK_DEADLOCK FALSE

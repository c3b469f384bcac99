SPECIFICATION FairSpec
CONSTANTS
    PollFds = {0, 1, 2}
    PollKinds = {"read"}
    KqueueFds = {0, 1}
    KqueueKinds = {"read", "write"}
    SigFds = {0, 1}
    SigKinds = {"read"}
    SizeMax = 15
    MaxChanges = 2
    MaxQueue = 2
PROPERTIES WaitReturns
CHECK_DEADLOCK FALSE

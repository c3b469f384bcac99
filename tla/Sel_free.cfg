SPECIFICATION FairSpec
CONSTANTS
    Channels = {a, b}
    Fds = {0, 1, 2}
    Kinds = {"read"}
    FdSetSize = 2
    Rules = {}
    MaxCurrent = 4
INVARIANTS TypeOK TablesAgree
PROPERTIES LoopsEnd
CHECK_DEADLOCK FALSE

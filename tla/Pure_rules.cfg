SPECIFICATION Spec
CONSTANTS
    MaxLinks = 12
    Longest <- MCLongest
    Flags <- MCFlags
    Static <- MCStatic
    Environments <- MCEnvironments
    LogPieces <- MCPieces
    Levels <- MCLevels
    SIZE = 2
    MaxSent = 4
    MaxTold = 2
    StreamRules = {"end the line", "select the others"}
    MaxFiles = 4
    FLUSH_INTERVAL = 3
    Privileged = TRUE
INVARIANTS TextsAgree NamesAgree NumbersAgree LogComesOut
CHECK_DEADLOCK FALSE

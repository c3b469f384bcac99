SPECIFICATION Spec
CONSTANTS
    Types <- MCTypes
    Name <- MCName
    Declared <- MCJoined
    Methods <- MCMethods
    Formals <- MCFormals
    Functions <- MCFunctions
    Generations = 3
    MaxKeys = 2
    MaxFunctions = 2
    Debug = TRUE
INVARIANT ScoresAreRight
CHECK_DEADLOCK FALSE

SPECIFICATION Spec
CONSTANTS
    Types <- MCTypes
    Name <- MCName
    Declared <- MCDeclared
    Methods <- MCMethods
    Formals <- MCFormals
    Functions <- MCFunctions
    Generations = 3
    MaxKeys = 2
    MaxFunctions = 2
    Debug = TRUE
INVARIANTS TablesFit ScoresAreRight 
CHECK_DEADLOCK FALSE

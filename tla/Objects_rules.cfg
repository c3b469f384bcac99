SPECIFICATION Spec
CONSTANTS
    Sockets = {o1, o2, o3}
    Room = 2
    MaxEnds = 3
    MaxBytes = 3
    Handles = {o1, o2, o3}
    Objects = {"o", "p"}
    FunctionNames = {"f", "g"}
    Values = {1, 2}
    Reps = {1, 2, 3}
    Iterators = {o1, o2, o3}
    Names = {".", "a", "b"}
    Dots = {"."}
    MaxStreams = 1
    Makers = {m1, m2}
    Letters = 3
    Steps = {0, 1}
    TMP_MAX = 3
    Elements = {"a", "b"}
    MaxSize = 5
    Owners = {o1, o2, o3}
    Pointees = {"x", "y"}
    Low = 1
    High = 4
    MaxLength = 3
    Addresses = {1, 2, 3}
    Mappings <- MCMappings
    Libs = {"l", "k"}
    Pointers = {"p", "q"}
    MaxLoads = 4
    HandsOff = TRUE
SYMMETRY Symmetry
INVARIANTS SocketsDeliver LifetimesCounted FilesHeld ValuesAgree
PROPERTIES IterationsHold
CHECK_DEADLOCK FALSE

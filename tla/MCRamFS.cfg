SPECIFICATION Spec
CONSTANTS
    MAX_FILES = 9
    MAX_OPEN = 3
    MAX_FD = 5
    CAP = 3
    NAME_SIZE = 10
    PATH_SIZE = 12
    WORD = 64
    Procs = {1, 2}
    NameLen <- MCNameLen
    CutName <- MCCutName
    Paths <- MCPaths
    Counts <- MCCounts
    MaxCalls = 5
INVARIANTS
    TreeSound
    CwdRoundTrip
    HandlesOwned
    OffsetsInside
    ListsEachOnce
    FstatByName

SPECIFICATION FairSpec
CONSTANTS
    Requests = {13, 3960, 4096}
    INIT_PAGES = 1
    Frames = 10
    TableSpan = 2
    MaxCalls = 4
    MaxLent = 1
INVARIANTS
    Tiling
    LifoSafe
PROPERTIES
    FailsOnlyBehindUse
    CallsReturn

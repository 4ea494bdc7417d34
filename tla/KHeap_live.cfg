SPECIFICATION FairSpec
CONSTANTS
    Requests = {13, 4040, 4096}
    INIT_PAGES = 2
    Frames = 9
    TableSpan = 3
    MaxCalls = 4
    MaxLent = 1
INVARIANT LiveDisjoint

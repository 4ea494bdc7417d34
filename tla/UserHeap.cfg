SPECIFICATION FairSpec
CONSTANTS
    PAGE_SIZE = 64
    Word = 4096
    Sizes = {0, 8, 40, 100}
    MaxCalls = 5
INVARIANTS
    HeapSound
PROPERTIES
    GrowsOnlyWhenNeeded
    MallocReturns

SPECIFICATION Spec
CONSTANTS
    MaxPages = 6
    MemMaps <- MCMemMaps
INVARIANTS
    CountExact
    ReservedStaysBusy
    NoClearBelowCursor
PROPERTIES
    AllocLowest
    ImplementsFrameAllocator

SPECIFICATION Spec
CONSTANTS
    PAGE_SIZE = 2
    Span = 4
    Programs <- MCPrograms
    InitProgram <- MCInitProgram
    UserStack <- MCUserStack
    KSTACK_PAGES = 2
    MaxFrames = 42
    Procs = {1, 2, 3}
    MaxBrk = 4
    MaxCalls = 4
INVARIANTS
    FramesDisjoint
    VmasCoverPages
    KernelStacksSound
PROPERTIES
    NoOtherLeak
    FailureRestoresPages

SPECIFICATION FairSpec
CONSTANTS
    MaxPid = 4
    TIME_SLICE_DEFAULT = 2
INVARIANTS
    QueueSound
    OwnContext
    CR3Live
PROPERTIES
    NoOvertaking
    LostOnlyByYield
    QueuedRuns

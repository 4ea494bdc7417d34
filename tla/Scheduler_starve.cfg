SPECIFICATION FairSpec
CONSTANTS
    MaxPid = 2
    TIME_SLICE_DEFAULT = 2
PROPERTY NoStarvation

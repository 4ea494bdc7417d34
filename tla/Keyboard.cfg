SPECIFICATION FairSpec
CONSTANTS
    Keys = {a, b}
    Cased = {a}
    KBUF_SIZE = 3
    None = None
    MaxPresses = 5
INVARIANTS
    NothingLost
PROPERTIES
    ImplementsKeyQueue
    KeysGetThrough

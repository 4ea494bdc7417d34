SPECIFICATION CSpec
CONSTANTS
    MaxPid = 3
    TIME_SLICE_DEFAULT = 1
    UserRips = {"entry", "main"}
INVARIANTS
    StackDiscipline
PROPERTIES
    TicksInvisible
    ImplementsThreads

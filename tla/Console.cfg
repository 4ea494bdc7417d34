SPECIFICATION Spec
CONSTANTS
    MAX_HISTORY = 4
    ROWS = 2
    COLS = 2
    PAGE = 2
    Chars = {"a"}
    MaxPrinted = 7
INVARIANTS
    HistoryIsSuffix
    FullScreenShowsView

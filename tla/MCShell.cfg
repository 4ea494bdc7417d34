SPECIFICATION Spec
CONSTANTS
    MAX_CMD_LEN = 10
    PROMPT_LEN = 3
    MAX_ARGS = 4
    Cols = 8
    Script <- Keys
    MaxOther = 1
INVARIANTS
    ArgsAreWords
    EchoKeepsLine

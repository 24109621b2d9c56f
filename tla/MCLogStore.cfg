SPECIFICATION Spec
CONSTANTS
    t = t
    j = j
    sp = sp
    nl = nl
    Loggers = {a, b}
    Texts = {t, j}
    Json = {j}
    Blank = sp
    Newline = nl
    None = None
    Chunks <- SomeChunks
    MaxWrites = 4
CHECK_DEADLOCK FALSE
INVARIANTS
    RowsAreLines
    NothingLost
PROPERTIES
    WriteReturns

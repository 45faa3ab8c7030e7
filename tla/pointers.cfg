SPECIFICATION JsonSpec
CONSTANTS
    Undefined = Undefined
    Null = Null
    Chars <- MCChars
    Segs <- MCSegs
    Fragments <- MCFragments
    MaxDepth = 2
    MaxSize = 3
INVARIANTS
    SetThenGet
    AppendKeeps
    FailedSetKeeps
CHECK_DEADLOCK FALSE

SPECIFICATION LoggerSpec
CONSTANTS
    Threads = {t1}
    Streams = {cout, file}
    cout = cout
    Levels = {0, 1}
    NULL = NULL
    Moves = TRUE
    Direct = TRUE
    MaxLines = 1
    MaxPieces = 3
    MaxOpen = 2
    MaxSets = 0
INVARIANTS EveryLineEndsSafely
CHECK_DEADLOCK FALSE

SPECIFICATION ScopesSpec
CONSTANTS
    States = {t, v1, v2}
    Start = t
    Saves = TRUE
    MaxDepth = 2
INVARIANT ResetDespiteExceptions
CHECK_DEADLOCK FALSE

SPECIFICATION Spec
CONSTANTS
    Main = Main
    Workers = {w1, w2}
    CaseCount = 2
    NULL = NULL
    INT_MAX = 2
    Programs <- Joining
    MaxAsserts = 2
INVARIANTS NoUndefinedUse ChargedToHome ReturnCountsFailures ZeroMeansClean
CHECK_DEADLOCK FALSE

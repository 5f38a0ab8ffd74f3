SPECIFICATION Spec
CONSTANTS
    Main = Main
    Workers = {w1}
    CaseCount = 1
    NULL = NULL
    INT_MAX = 1
    Programs <- AllPrograms
    MaxAsserts = 1
PROPERTY RunawayIsLogged
CHECK_DEADLOCK FALSE

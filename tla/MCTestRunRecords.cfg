SPECIFICATION Spec
CONSTANTS
    s1 = s1
    s2 = s2
    u1 = u1
    u2 = u2
    u3 = u3
    c1 = c1
    c2 = c2
    c3 = c3
    SetIds = {s1, s2}
    SuiteIds = {u1, u2, u3}
    CaseIds = {c1, c2, c3}
    SuitesOf <- MCSuitesOf
    CasesOf <- MCCasesOf
    NULL = NULL
    INT_MAX = 1
    MaxAsserts = 3
    MaxDepth = 2
    MaxRuns = 1
    MaxRunaways = 1
INVARIANT RecordsAreActual
CHECK_DEADLOCK FALSE

SPECIFICATION MCSpec
CONSTANTS
    a1 = a1
    a2 = a2
    v1 = v1
    v2 = v2
    DEFAULT = DEFAULT
    NoArgs = NoArgs
    Args <- MCArgs
    Values <- MCValues
    Kinds <- MCKinds
    MaxCalls = 3
    MaxDepth = 3
    MaxCases = 5
CHECK_DEADLOCK FALSE
INVARIANT
    ThrowsRatherThanDefaults
    ResultIsLatest
    ParamsTellCalled
    OrderMattersToFirstTwo
PROPERTY
    CountsCalls
    StubsNeverFail

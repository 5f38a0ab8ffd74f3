SPECIFICATION MCSpec
CONSTANTS
    \* Logger
    Threads = {t1, t2}
    Streams = {cout, file}
    cout = cout
    Levels = {0, 1}
    NULL = NULL
    Moves = TRUE
    Direct = TRUE
    MaxLines = 2
    MaxPieces = 3
    MaxOpen = 2
    MaxSets = 1
    \* Timestamp
    Instants <- MCInstants
    Zone = 3600
    Windows = FALSE
    \* StateScopes
    States = {t, v1, v2}
    Start = t
    Saves = TRUE
    MaxDepth = 3
    \* Optional
    Objects = {o1, o2}
    Values = {t, v1, v2}
    Default = t
    \* Split
    npos = 15
    Chars = {"d", "b", "x"}
    Blank = {"b"}
    Delimiter = "d"
    MaxLength = 5
    MaxTokens = 4
    \* Args
    Items <- MCItems
    Keys <- MCKeys
    MaxArgs = 4
    \* Benchmark
    sample_count = 4
    func_internal_count = 2
    REP_MAX = 127
    Precision = 16
    Elapsed <- MCElapsed
    \* StackTrace
    Capturers = {t1, t2}
    Depth = 4
    Skips = {0, 1, 4}
    Takes = {0, 2, 5}
    NoThread = NULL
    MaxCaptures = 2
    \* OstreamColor
    ColoredStreams = {cout, cerr}
    nullptr = NULL
    Colors = {red, green}
    DefaultColor = none
    MaxObjects = 2
    \* MockMacros
    MaxParams = 10
    MaxParenthesized = 1
    \* MockSimple
    MaxCalls = 4
    MaxNested = 3
INVARIANTS
    LinesWhole
    TextIsExact
    ResetAfterAll InnerScopesLeaveNoTrace
    SplitIsExact TrimIsExact
    LookupsAgree
    StatisticsAreSound HalvesAreHalves
    OneOwnerOfDbgHelp
    ColorsOfLiving
    ParametersCounted MockIsAsNamed
PROPERTIES
    MacrosObeyConfiguration
    IsStdOptional
    CapturesEnd
    CountsCalls
CHECK_DEADLOCK FALSE

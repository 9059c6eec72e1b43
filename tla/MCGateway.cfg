SPECIFICATION FairSpec
CONSTANTS
    any = any
    completion = completion
    read = read
    Requests <- MCRequests
    Asks <- MCAsks
    AuthToken = TRUE
    MaxRequests = 2
    Window = 1
    Horizon = 2
    MaxCalls = 3
INVARIANTS
    ErrorsCountedOnce
    GaugeIsUnanswered
    LedgerIsConsistent
    AnswerIsRecorded
    WindowBound
PROPERTIES
    ImplementsSlidingWindow
    EveryRequestSettles
    ShutdownEnds
CHECK_DEADLOCK FALSE

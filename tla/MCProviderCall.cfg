SPECIFICATION ProviderFairSpec
CONSTANTS
    t = t
    limit = limit
    Requests <- MCRequests
    Temperatures = {t}
    Limits = {limit}
    DefaultLimit = DefaultLimit
    Counts = {0, 2}
    Text = Text
    None = None
    Retries = 2
INVARIANTS
    RetriesOnlyTransients
    ConversationIsKept
    UsageIsWhole
    ErrorTellsOutcome
    PlainIsAnswered
PROPERTY
    CallReturns
CHECK_DEADLOCK FALSE

SPECIFICATION FairSpec
CONSTANTS
    k1 = k1
    k2 = k2
    w1 = w1
    w2 = w2
    NoKey = NoKey
    Keys = {k1}
    Extracts = {}
    Workers = {w1}
    Configs <- LiveOrRefused
    Endings = {"completed", "partially_completed"}
    MaxSubmissionAttempts = 2
    MaxPollAttempts = 2
    MaxCalls = 2
    MaxRestarts = 1
    MaxAppendFailures = 1
INVARIANTS
    TypeOK
    KillSwitch
    SettledBeforeNext
    BilledOnce
    FallbackUnlessUnforeseen
PROPERTIES
    ImplementsLedger
    CallsEnd
CHECK_DEADLOCK FALSE

SPECIFICATION Spec
CONSTANTS
    k1 = k1
    k2 = k2
    w1 = w1
    w2 = w2
    NoKey = NoKey
    Keys = {k1, k2}
    Extracts = {k2}
    Workers = {w1, w2}
    Configs <- OnlyLive
    Endings = {"completed", "partially_completed"}
    MaxSubmissionAttempts = 1
    MaxPollAttempts = 1
    MaxCalls = 2
    MaxRestarts = 0
    MaxAppendFailures = 0
INVARIANTS
    PollOnlyRecorded
    RemoteTextIsOurs
CHECK_DEADLOCK FALSE

SPECIFICATION Spec
CONSTANTS
    Complaints = {a, b, c}
    Linked = {a}
    Runs = {r1, r2}
    ChunkSize = 2
    Slots = 1
    MaxRetries = 2
    Seconds = {1, 2}
    MaxRuns = 3
INVARIANTS TypeOK RecordedIsStored NothingSkippedSilently OneCopy
PROPERTIES DownloadedIsFinal RunsEnd
CHECK_DEADLOCK FALSE

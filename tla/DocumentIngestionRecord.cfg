SPECIFICATION Spec
CONSTANTS
    Complaints = {a, b}
    Linked = {a, b}
    Runs = {r1}
    ChunkSize = 1
    Slots = 1
    MaxRetries = 2
    Seconds = {1, 2}
    MaxRuns = 2
INVARIANT StoredIsRecorded
CHECK_DEADLOCK FALSE

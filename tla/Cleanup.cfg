SPECIFICATION CleanupSpec
CONSTANTS
    MaxRecordings = 3
    KeepTranscripts = 0
    KeepRecordings = 0
CHECK_DEADLOCK FALSE
INVARIANT SeenIsSpared

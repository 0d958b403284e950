SPECIFICATION KeptSpec
CONSTANTS
    MaxFaults = 1
    RemovalMayFail = TRUE
CHECK_DEADLOCK FALSE
INVARIANT SpeechKept

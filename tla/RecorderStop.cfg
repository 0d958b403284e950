SPECIFICATION StopSpec
CONSTANTS
    Leader = leader
    Kids = {}
    NoPrey = NoPrey
    ScansFail = FALSE
CHECK_DEADLOCK FALSE
PROPERTY KeepsTrying

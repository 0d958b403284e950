SPECIFICATION AllSpec
CONSTANTS
    c1 = c1
    c2 = c2
    k1 = k1
    k2 = k2
    Cmds = {c1, c2, c3}
    Backends = 1
    EscapesWrapping = FALSE
    NoCmd = NoCmd
    NoRec = NoRec
    Leader = leader
    Kids = {k1, k2}
    NoPrey = NoPrey
    ScansFail = TRUE
    Commands = {c1, c2}
    Day = 3
    Week = 2
    Minutes = {1}
    CatchUp = 1
    MaxAlarms = 1
    LastMinute = 4
    MaxSetBacks = 1
    Never = Never
    DaySets <- MCDays
SYMMETRY Symmetry
CHECK_DEADLOCK FALSE
INVARIANTS
    RecorderTypesOK
    RecorderAccounted
    OneRecorder
    TranscribesStopped
    RecordersAreGone
    MarkedOnce
PROPERTIES
    LiveAudioKept
    PendingAudioNamed
    EscapedAudioKept
    NoneMissed

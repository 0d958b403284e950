SPECIFICATION AllSpec
CONSTANTS
    c1 = c1
    c2 = c2
    x1 = x1
    x2 = x2
    k1 = k1
    k2 = k2
    d1 = d1
    d2 = d2
    Updates = {u1, u2, w}
    Writes = {w}
    Readers = {r1, r2}
    Kills = TRUE
    UndoMayFail = TRUE
    Commands = {c1, c2, c3}
    Transcribers = {c1, c2}
    Nobody = Nobody
    MaxTranscriptionFaults = 1
    Downloads = {d1, d2}
    Removals = {m1}
    MaxRecordings = 2
    KeepTranscripts = 0
    KeepRecordings = 3
    LastDay = 2
    MonthLength = 2
    CompressAfter = 1
    LastSuffix = 1
    MaxRecords = 3
    Absent = Absent
    Exports = {x1, x2}
    Old = Old
    Nothing = Nothing
    MaxKeptFaults = 1
    RemovalMayFail = FALSE
    MaxFaults = 2
    ItemCount = 2
    Kids = {k1, k2}
    Root = root
    Supervisor = supervisor
SYMMETRY Symmetry
CHECK_DEADLOCK FALSE
INVARIANTS
    FilesTypesOK
    LastIsKept
    TranscribesCleanly
    FilesInUseKept
    NoRecordLost
    EarlierIsReadable
    ReplacementsKeepData
    ReturnsAlone
PROPERTIES
    ReadsSettled
    ModelIsKept

SPECIFICATION AllSpec
CONSTANTS
    i1 = i1
    i2 = i2
    Inserters = {i1, i2}
    Text <- MCText
    NoFile = NoFile
    Past = Past
    LastTick = 3
    MaxKilled = 1
    Artifacts <- MCArtifacts
    Audio <- MCAudio
    RetryMayFail = FALSE
    LateRaise = FALSE
SYMMETRY Symmetry
CHECK_DEADLOCK FALSE
INVARIANTS
    InsertionTypesOK
    PastesAreGuarded
    DoneHasTranscript
PROPERTIES
    UninsertedSpeechKept
    RetryKeepsTranscript

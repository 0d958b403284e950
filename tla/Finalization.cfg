SPECIFICATION FairSpec
CONSTANTS
    Artifacts <- MCArtifacts
    Audio <- MCAudio
    RetryMayFail = TRUE
    LateRaise = TRUE
INVARIANTS
    InsertedAtMostOnce
    DeletedIsJournaled
    AppletKeepsSpeech
PROPERTY RunEnds

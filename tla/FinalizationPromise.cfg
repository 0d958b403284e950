SPECIFICATION Spec
CONSTANTS
    Artifacts <- MCArtifacts
    Audio <- MCAudio
    RetryMayFail = TRUE
    LateRaise = FALSE
PROPERTY RetryKeepsTranscript

SPECIFICATION Spec
CONSTANTS
    Cmds = {c1, c2}
    Backends = 1
    EscapesWrapping = TRUE
    NoCmd = NoCmd
    NoRec = NoRec
CHECK_DEADLOCK FALSE
INVARIANT OneRecorder

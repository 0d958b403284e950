SPECIFICATION FairAll
CONSTANTS
    p1 = p1
    p2 = p2
    NoFile = NoFile
    Procs = {p1, p2}
    Past = {}
    Controller = controller
    Wrapper = wrapper
    Root = root
    Kids = {kid}
    Supervisor = supervisor
    Outside = outside
    Artifacts = {audio, log}
    MaxFaults = 3
    MaxRedirects = 2
    MaxSignals = 2
    MaxInterrupts = 3
    Updates = {u1, u2, w}
    Writes = {w}
    Readers = {r1, r2}
    Kills = FALSE
    UndoMayFail = FALSE
CHECK_DEADLOCK FALSE
INVARIANTS
    ProcessTypesOK
    RunsAsChecked
    NothingOutlives
    ClaimsAreSafe
    StoreStaysUsable
PROPERTIES
    IsRegister
    EverythingEnds

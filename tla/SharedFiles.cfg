SPECIFICATION AllSpec
CONSTANTS
    old = old
    p1 = p1
    p2 = p2
    NoFile = NoFile
    Procs = {old, p1, p2}
    Past = {old}
    j1 = j1
    j2 = j2
    t1 = t1
    t2 = t2
    Jobs = {j1, j2, j3}
    Targets = {t1, t2}
    MaxJobs = 2
    Versions = 1
    None = None
SYMMETRY Symmetry
CHECK_DEADLOCK FALSE
INVARIANTS
    ExclusiveUnlessDisplaced
    LiveLockKept
PROPERTIES
    OnlyProvedGoneDeleted
    LedgerIsTrue

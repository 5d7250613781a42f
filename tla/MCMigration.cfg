SPECIFICATION MSpec
CONSTANTS
    None = None
    Source = Source
    e1 = e1
    e2 = e2
    x1 = x1
    x2 = x2
    Executor = {x1, x2}
    Execution = {e1, e2}
    Bundle = {b1, b2}
    IdsOf <- MCShared
    Steps = 2
    LockDuration = 1
    MaxCalls = 3
    MaxFaults = 1
    MaxCrashes = 1
INVARIANTS MTypeOK ActivatedFullyApplied OneCutover ExecutionHistory CutoverAnnounced
SYMMETRY Symmetry
CHECK_DEADLOCK FALSE

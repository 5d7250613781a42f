SPECIFICATION FairMSpec
CONSTANTS
    None = None
    Source = Source
    e1 = e1
    e2 = e2
    x1 = x1
    x2 = x2
    Executor = {x1, x2}
    Execution = {e1, e2}
    Bundle = {b1}
    IdsOf <- MCOwn
    Steps = 1
    LockDuration = 1
    MaxCalls = 2
    MaxFaults = 1
    MaxCrashes = 1
PROPERTIES CutoverRecorded
CHECK_DEADLOCK FALSE

SPECIFICATION ReadSpec
CONSTANTS
    None = None
    Reader = {r1, r2}
    Client = {}
    Key = {k1}
    Policy <- MCAtLeast
    DefaultTtl = 3
    NegativeTtl = 2
    MaxStaleness = 1
    ExplicitTtl = {}
    MaxVersion = 2
    MaxClock = 2
    MaxCalls = 3
    MaxFaults = 0
INVARIANTS CTypeOK BoundedStaleness
SYMMETRY Symmetry
CHECK_DEADLOCK FALSE

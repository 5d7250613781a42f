SPECIFICATION CacheSpec
CONSTANTS
    None = None
    Reader = {r1, r2}
    Client = {c1}
    Key = {k1}
    Policy <- MCPolicies
    DefaultTtl = 2
    NegativeTtl = 1
    MaxStaleness = 1
    ExplicitTtl = {1}
    MaxVersion = 2
    MaxClock = 0
    MaxCalls = 3
    MaxFaults = 1
INVARIANTS RequiredVersionMet SingleFlight OutageTransparent EntryVersionUnique
SYMMETRY Symmetry
CHECK_DEADLOCK FALSE

SPECIFICATION MCSpec
CONSTANTS
    None = None
    Data <- MCFewData
    Partition <- MCPartition
    Version <- MCVersion
    Owner = {w1, w2}
    Fingerprint = {f1, f2}
    Time <- MCTime
    Limit = {1, 2}
    LeaseDuration = 1
    PoisonThreshold = 2
    MaxAttempts = 2
    MaxRevision = 2
INVARIANTS TypeOK PoisonQuarantined
PROPERTIES CompletedIsFinal
SYMMETRY Symmetry
\* The bound on attempts, not the store, stops these behaviours.
CHECK_DEADLOCK FALSE

SPECIFICATION MCOrderedSpec
CONSTANTS
    None = None
    Data <- MCData
    Partition <- MCPartition
    Version <- MCVersion
    Owner = {w1, w2}
    Fingerprint = {f1, f2}
    Time <- MCTime
    Limit = {1, 2}
    LeaseDuration = 1
    PoisonThreshold = 2
    MaxAttempts = 3
    MaxRevision = 3
INVARIANTS NoSilentSkip OneLeasePerPartition CheckpointIsFrontier
PROPERTIES DeliverySpec
SYMMETRY Symmetry
\* The bound on attempts, not the store, stops these behaviours.
CHECK_DEADLOCK FALSE

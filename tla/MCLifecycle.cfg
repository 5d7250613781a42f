SPECIFICATION FairLSpec
CONSTANTS
    None = None
    Data <- MCData
    Tombstone <- MCTombstone
    Partition <- MCPartition
    Version <- MCVersion
    Worker = {w1, w2}
    Owner = {w1, w2}
    OwnerOf <- MCOwnerOf
    Writer = {t1}
    Fingerprint = {f1}
    Time <- MCTime
    Limit = {2}
    BatchSize = 2
    LeaseDuration = 1
    Skew = 0
    PoisonThreshold = 2
    MaxAttempts = 2
    MaxFaults = 1
INVARIANTS MutationWithIntent ReadsFollowCheckpoint
PROPERTIES EventuallyVisible StopDrains
CHECK_DEADLOCK FALSE

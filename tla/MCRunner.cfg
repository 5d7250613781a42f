SPECIFICATION RSpec
CONSTANTS
    None = None
    Data <- MCData
    Partition <- MCPartition
    Version <- MCVersion
    Worker = {w1, w2}
    Owner = {w1, w2}
    OwnerOf <- MCOwnerOf
    Fingerprint = {f1}
    Time <- MCTime
    Limit = {2}
    BatchSize = 2
    LeaseDuration = 2
    Skew = 1
    PoisonThreshold = 2
    MaxAttempts = 2
    MaxFaults = 2
INVARIANTS RTypeOK CompletionAcknowledged TargetNotAhead AttemptFenced AttemptsAccounted
SYMMETRY Symmetry
CHECK_DEADLOCK FALSE

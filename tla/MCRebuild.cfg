SPECIFICATION BSpec
CONSTANTS
    Job = {x1, x2}
    BatchSize = 2
    MaxRows = 2
    MaxGenerations = 3
    MaxFaults = 1
    MaxCrashes = 1
INVARIANTS BTypeOK ServingNotDiscarded EvidenceTrue LeftoversBounded
SYMMETRY Symmetry
CHECK_DEADLOCK FALSE

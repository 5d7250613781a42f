SPECIFICATION ESpec
CONSTANTS
    Exporter = {x1, x2}
    Id = {1, 2, 3}
    PartitionIds <- TwoPartitions
    PartitionOf <- InTwo
    BatchSize = 2
    MaxCommits = 2
    MaxHandles = 3
    MaxFaults = 1
INVARIANTS ETypeOK WithinBoundary Importable
SYMMETRY Symmetry
CHECK_DEADLOCK FALSE

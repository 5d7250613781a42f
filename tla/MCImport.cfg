SPECIFICATION ISpec
CONSTANTS
    Importer = {i1}
    Export <- MCExports
    Id = {1, 2, 3}
    MaxVersion = 2
    Damage <- MCDamage
    Garbage = Garbage
    BatchSize = 2
    MaxCalls = 2
    MaxDamages = 2
    MaxFaults = 1
INVARIANTS ITypeOK VerifiedFirst ReportFaithful PolicyKept RestoreHolds
CHECK_DEADLOCK FALSE

SPECIFICATION Spec
CONSTANTS
    Ids = {i1, i2, i3, i4, i5}
    Keys = {k1, k2}
    Prices <- MCPrices
    StackMax <- MCStackMax
    Quotas = {1}
    DefaultQuota = 1
    BatchSize = 2
    MaxFaults = 1
    MaxEvents = 2
SYMMETRY IdSymmetry
INVARIANTS
    TypeOK
    CleanTickRestocks
    NoOrphansWithoutFaults
PROPERTIES
    OnlyStalePruned

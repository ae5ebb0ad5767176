SPECIFICATION FairSpec
CONSTANTS
    Ids = {i1, i2, i3, i4, i5}
    Keys = {k1}
    Prices <- MCPrices
    StackMax <- MCStackMax
    Quotas = {1, 2}
    DefaultQuota = 2
    BatchSize = 1
    MaxFaults = 1
    MaxEvents = 1
INVARIANTS
    SurplusBounded
PROPERTIES
    TickEnds
    EventuallyStocked

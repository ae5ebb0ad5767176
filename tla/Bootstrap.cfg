SPECIFICATION FairSpec
CONSTANTS
    Pod = pod
    Reports = {report}
    Exchanges = {x1}
    First = x1
    SeedFloor = 2
    SeedAmount = 4
    Price = 3
    MaxFaults = 2
    MaxSpent = 3
    MaxEarned = 1
    MaxPos = 2
INVARIANTS
    TypeOK
    StockIsOwned
    NotOverfunded
    FundedWhenReady
    PositionsShared
PROPERTIES
    EventuallyReady

SPECIFICATION FairSpec
CONSTANTS
    Catalog <- MCCatalog
    Configs <- MCConfigs
    DefaultConfig <- MCDefault
    Offers = {0, 4, 60}
    MaxSold = 2
    MaxFaults = 1
    MaxEvents = 3
INVARIANTS
    PriceBand
PROPERTIES
    ListedNearFloor
    PricesSettle
    RecoversFromUndercutting

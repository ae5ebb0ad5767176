SPECIFICATION Spec
CONSTANTS
    Listings = {l1, l2}
    Templates <- MCFewTemplates
    NotBuyable <- MCNoTemplates
    Offers <- MCPartialOffers
    BotPrices <- MCBotPrices
    ListPrice <- MCFewListPrice
    Configs <- MCFewConfigs
    DefaultConfig <- MCDefault
    ScanFactor = 2
    MaxFaults = 0
INVARIANT PartialFillsPayExactly

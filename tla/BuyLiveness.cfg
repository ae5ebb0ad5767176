SPECIFICATION FairSpec
CONSTANTS
    Listings = {l1, l2}
    Templates <- MCFewTemplates
    NotBuyable <- MCNoTemplates
    Offers <- MCFewOffers
    BotPrices <- MCBotPrices
    ListPrice <- MCFewListPrice
    Configs <- MCFewConfigs
    DefaultConfig <- MCDefault
    ScanFactor = 2
    MaxFaults = 1
PROPERTIES
    TickEnds
    UnderpricedIsBought

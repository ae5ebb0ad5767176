SPECIFICATION Spec
CONSTANTS
    Listings = {l1, l2}
    Templates <- MCTemplates
    NotBuyable <- MCNotBuyable
    Offers <- MCOffers
    BotPrices <- MCBotPrices
    ListPrice <- MCListPrice
    Configs <- MCConfigs
    DefaultConfig <- MCDefault
    ScanFactor = 2
    MaxFaults = 2
SYMMETRY ListingSymmetry
INVARIANTS
    SellerNeverShort
    PaidExactUnlessRaced
    BudgetAccounted
    BooksBalance
PROPERTIES
    SettlesOnce

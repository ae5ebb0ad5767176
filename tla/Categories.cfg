SPECIFICATION Spec
CONSTANTS
    Alphabet <- MCAlphabet
    Files <- MCFiles
    PlayerOrders <- MCPlayerOrders
INVARIANTS
    TypeOK
    MasksAreCurrent
    ConfirmedPlacesStay
    PlacesAreDistinct

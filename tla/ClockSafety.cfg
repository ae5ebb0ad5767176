SPECIFICATION FairSpec
CONSTANTS
    Life = 2
    Placeholder = 10
    Epoch = 20
    MaxClock = 4
    MaxFaults = 1
INVARIANTS
    TypeOK
    ClockNotAhead
PROPERTIES
    ClockRecovers

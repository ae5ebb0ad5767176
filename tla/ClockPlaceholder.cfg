SPECIFICATION Spec
CONSTANTS
    Life = 2
    Placeholder = 10
    Epoch = 20
    MaxClock = 4
    MaxFaults = 0
PROPERTY OnlyOverdueExpire

SPECIFICATION FairSpec
CONSTANTS
    Configs <- MCConfigs
    DefaultConfig <- MCDefault
    MaxInterval = 3
    MaxTick = 2
    MaxStops = 1
INVARIANTS
    NoBursts
    NeverLate
    StopsWhenDisabled
PROPERTIES
    KeepsTicking
    SignalEnds

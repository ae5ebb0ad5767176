SPECIFICATION FairSpec
CONSTANTS
    Operators = {c1, c2}
    Viewers = {c2}
    Bot = bot
    Default <- MCDefault
    Values <- MCValues
    Patches <- MCPatches
    MaxTicks = 2
INVARIANTS
    ConfigIsChecked
    StatusIsRecent
PROPERTIES
    ConfigIsAtomic
    EveryoneProceeds

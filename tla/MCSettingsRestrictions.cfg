CONSTANTS
    absent = absent
    unset = unset
    x = x
    y = y
    Absent = absent
    Unset = unset
    Off = off
    On = on
    AllOff = alloff
    Unrestricted = unrestricted
    AllActions = any
    Tiers <- MCBranches
    Names <- MCNames
    DefaultBranches <- MCDefaultBranches
    MaxVersion = 1
    Declared <- MCUnrestricted
    States <- MCStates
    Workers = {w1, w2}
    MaxDisturbances = 1
SPECIFICATION FairSpec
PROPERTY KeepsUndeclared
CHECK_DEADLOCK FALSE

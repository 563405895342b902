CONSTANTS
    absent = absent
    unset = unset
    x = x
    y = y
    Absent = absent
    Unset = unset
    Off = off
    On = on
    AllOff = alloff
    Unrestricted = unrestricted
    AllActions = any
    Tiers <- MCTiers
    Names <- MCNames
    DefaultBranches <- MCDefaultBranches
    MaxVersion = 1
    Declared <- MCDeclared
    States <- MCStates
    Workers = {w1, w2}
    MaxDisturbances = 1
SPECIFICATION FairSpec
INVARIANT TypeOK
INVARIANT QuietRunSucceeds
INVARIANT QuietRunMatches
INVARIANT NoDriftNoRequest
PROPERTY KeepsUndeclared
PROPERTY WrittenIsAttached
PROPERTY Converges
CHECK_DEADLOCK FALSE

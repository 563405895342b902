CONSTANTS
    Tiers <- MCTiers
    Names = {"a", "b", "c"}
    Values = {"x", "y"}
    Default = "x"
    Absent = "absent"
    NoName = "none"
    Unset = "unset"
    Hidden = {"x"}
    MaxVersion = 1
    Declared <- MCDeclared
    PruneSecrets <- MCPrune
    Supplied = {"a", "b"}
    PageSize = 3
    InitialLive <- MCAnyLive
    Workers = {w1, w2}
    MaxDisturbances = 2
SPECIFICATION FairSpec
INVARIANT TypeOK
INVARIANT QuietRunSucceeds
INVARIANT QuietRunMatches
INVARIANT NoDriftNoRequest
PROPERTY Converges
PROPERTY QuietRunRotatesNothing
CHECK_DEADLOCK FALSE

CONSTANTS
    Repos = {"admin", "app", "lib"}
    Builtin = {"admin"}
    AdminRepo = "admin"
    Unknown = "unknown"
    Visibility <- MCVisibility
    Configs <- MCConfigs
    Initial <- MCInitial
    Slots = {w1, w2}
    MaxVersions = 3
    MaxProposals = 2
    MaxDisturbances = 1
    None = None
SPECIFICATION Spec
INVARIANT TypeOK
INVARIANT NoProposalForgotten
PROPERTY AppliedAsDeclared
PROPERTY OnlyMerged
CHECK_DEADLOCK FALSE

CONSTANTS
    Repos = {"admin", "app", "lib"}
    Builtin = {"admin"}
    AdminRepo = "admin"
    Unknown = "unknown"
    Visibility <- MCVisibility
    Configs <- MCVisible
    Initial <- MCInitial
    Slots = {w1, w2}
    MaxVersions = 3
    MaxProposals = 2
    MaxDisturbances = 1
    None = None
SPECIFICATION Spec
PROPERTY AppliedAsDeclared
CHECK_DEADLOCK FALSE

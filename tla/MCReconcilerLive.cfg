CONSTANTS
    Repos = {"lib"}
    Builtin = {}
    Archived = {}
    Org = "org"
    IsOrganization = TRUE
    RepoTiers <- MCRepoTiers
    OrgBlocks <- MCNoBlocks
    Echoing = {"labels", "rulesets"}
    Broken <- MCRefusedTier
    MaxVersion = 1
    Restricted <- MCAllManaged
    Configured <- MCRepoOnly
    Slots = {w1, w2}
    MaxCopies = 1
    MaxDisturbances = 2
    CronEnabled = TRUE
    Foreign = Foreign
    None = None
SPECIFICATION FairSpec
PROPERTY Converges
CHECK_DEADLOCK FALSE

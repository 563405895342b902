CONSTANTS
    Repos = {"admin", "lib"}
    Builtin = {"admin"}
    Archived = {}
    Org = "org"
    IsOrganization = TRUE
    RepoTiers <- MCRepoTiers
    OrgBlocks <- MCOrgBlocks
    Echoing = {"labels", "rulesets"}
    Broken = {}
    MaxVersion = 1
    Restricted <- MCRestricted
    Configured <- MCConfigured
    Slots = {w1, w2}
    MaxCopies = 1
    MaxDisturbances = 2
    CronEnabled = FALSE
    Foreign = Foreign
    None = None
SPECIFICATION FairSpec
INVARIANT TypeOK
INVARIANT OnlyDeclared
PROPERTY Implements
PROPERTY EchoesDieOut
CHECK_DEADLOCK FALSE

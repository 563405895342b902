CONSTANTS
    PRs = {p1, p2}
    Forks = {p2}
    Slots = {w1, w2}
    MaxVersion = 2
    MaxDisturbances = 1
    None = None
SPECIFICATION FairSpec
INVARIANT TypeOK
PROPERTY SweepIsThorough
PROPERTY ProposalsBecomeCurrent
CHECK_DEADLOCK FALSE

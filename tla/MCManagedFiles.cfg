CONSTANTS
    Paths = {"rel.yaml", "rel.yml"}
    Contents = {"c1", "c2", "own"}
    Absent = "none"
    Pins <- MCPins
    Sibling <- MCSibling
    NoPath = "none"
    MaxVersion = 1
    Config <- MCConfig
    InitialBases <- MCBases
    Edits <- MCEdits
    Workers = {w1, w2}
    MaxDisturbances = 1
SPECIFICATION FairSpec
INVARIANT TypeOK
INVARIANT NothingUnwanted
INVARIANT SecondRunIsNoOp
PROPERTY StagedAndProposed
CHECK_DEADLOCK FALSE

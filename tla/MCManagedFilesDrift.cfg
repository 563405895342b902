CONSTANTS
    Paths = {"rel.yaml", "rel.yml"}
    Contents = {"c1", "c2", "own"}
    Absent = "none"
    Pins <- MCPins
    Sibling <- MCSibling
    NoPath = "none"
    MaxVersion = 1
    Config <- MCConfig
    InitialBases <- MCBases
    Edits <- MCEdits
    Workers = {w1}
    MaxDisturbances = 2
SPECIFICATION FairSpec
CHECK_DEADLOCK FALSE
PROPERTY DriftIsProposed

CONSTANTS
    Ids = {d1}
    NoId = NoId
    Handlers = {h1, h2}
    Payloads <- MCPayloads
    AdminRepo = "admin"
    NoRepo = "none"
    Repos <- MCRepos
    MaxSends = 3
SPECIFICATION FairSpec
INVARIANT TypeOK
INVARIANT AtMostOncePerWindow
INVARIANT AcceptedIsComplete
INVARIANT DuplicateIsCovered
PROPERTY ClaimedIsEnqueued
CHECK_DEADLOCK FALSE

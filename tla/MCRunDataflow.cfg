SPECIFICATION FairSpec
CONSTANTS
    JobId  <- MCJobId
    Job    <- MCJob
    MaxOut = 7
INVARIANTS
    TypeOK
    FeedNeverBlocks
    FlagsMatch
PROPERTIES
    Returns

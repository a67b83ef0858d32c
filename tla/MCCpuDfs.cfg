SPECIFICATION FairSpec
CONSTANTS
    JobId <- MCJobId
    Job   <- MCJob
INVARIANTS
    TypeOK
    ExactUnlessExit
PROPERTIES
    ImplementsPool
    Termination

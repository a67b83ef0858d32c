SPECIFICATION FairSpec
CONSTANTS
    JobId    <- MCJobId
    Job      <- MCJob
    MaxBuf   = 2
    MaxIn    = 2
    MaxOut   = 5
    DdrBatch = 1
    MaxDdr   = 3
    Mtpc     = 24
INVARIANTS
    TypeOK
    ExactWhenClean
    StoredAreTasks
    Capacity
    ErrorJustified
    WorkOnce
PROPERTIES
    ImplementsPool
    Termination

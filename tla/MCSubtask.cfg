SPECIFICATION Spec
CONSTANTS
    JobId   <- MCJobId
    Job     <- MCJob
    Enough  = 2
    Bloat   = 3
    HardCap = 8
    CoreNum = 3
INVARIANTS
    TypeOK
    DealtOnce
PROPERTIES
    ImplementsPool

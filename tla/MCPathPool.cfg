SPECIFICATION PoolSpec
CONSTANTS
    JobId <- MCJobId
    Job   <- MCJob
INVARIANTS
    Conservation
    CompleteIsExact

SPECIFICATION Spec
CONSTANTS
    QueryId <- MCQueryId
    Query   <- MCQuery
INVARIANTS
    TypeOK
    DistancesExact
    SameAnswer
    JobContract

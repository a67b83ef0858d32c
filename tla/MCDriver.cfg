SPECIFICATION FairSpec
CONSTANTS
    Args <- MCArgs
    AccelSelect = 0
    Paths     = 2
INVARIANTS
    TypeOK
    MainAloneClears
PROPERTIES
    StopsOnlyLate
    AllReported

SPECIFICATION Spec
CONSTANTS
    CoreNum  = 2
    MaxCalls = 2
    Waits    = {TRUE, FALSE}
INVARIANTS
    TypeOK
    SumsFinalReports
    ResultOfThisCall
    WaitSuffices

SPECIFICATION Spec
CONSTANTS
    CoreNum  = 2
    MaxCalls = 2
    Waits    = {FALSE}
INVARIANTS
    KernelsFindInputs

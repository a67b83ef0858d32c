SPECIFICATION Spec
CONSTANTS
    Args <- MCJoinArgs
    AccelSelect = 0
    Paths     = 2
INVARIANTS
    CompleteIsExact

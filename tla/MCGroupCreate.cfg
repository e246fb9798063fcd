SPECIFICATION GroupSpec
CONSTANTS
    OpIds = {o1, o2}
    Keys = {k1, k2}
    Types <- MCTypes
    ItemKeys = {}
    MaxChats = 3
    Results <- MCResults
    SkipFolder = {k2}
    Errors = {e1}
    None = None
    Callers = {c1, c2}
    Operators = {p1}
CHECK_DEADLOCK FALSE
INVARIANTS GroupTypeOK OneGroupUntilLost NoDeadAnswer CompletedIsPlaced
PROPERTY ExecutionSettles

SPECIFICATION GroupSpec
CONSTANTS
    OpIds = {o1, o2}
    Keys = {k1}
    Types <- MCTypes
    ItemKeys = {}
    MaxChats = 3
    Results <- MCResults
    SkipFolder = {}
    Errors = {e1}
    None = None
    Callers = {c1, c2}
    Operators = {p1}
CHECK_DEADLOCK FALSE
INVARIANT OneExistingGroup

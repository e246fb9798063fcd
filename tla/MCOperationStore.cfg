SPECIFICATION StoreSpec
CONSTANTS
    OpIds = {o1, o2, o3}
    Keys = {k1, k2}
    Types = {t1}
    ItemKeys = {i1}
    Results = {r1, r2}
    Errors = {e1}
    None = None
SYMMETRY Symmetry
CHECK_DEADLOCK FALSE
INVARIANTS StoreTypeOK IndexAgrees PayloadMatchesStatus
PROPERTIES CompletedSticks ImplementsLedger

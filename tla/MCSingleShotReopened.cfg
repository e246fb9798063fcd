SPECIFICATION PatientSpec
CONSTANTS
    kTopic = kTopic
    kClose = kClose
    kLayout = kLayout
    kMessage = kMessage
    OpIds = {o1, o2}
    Keys = {kTopic, kClose, kLayout, kMessage}
    Types <- MCTypes
    TypeOf <- MCTypeOf
    ItemKeys = {}
    Results = {r1, r2}
    Errors = {e1}
    None = None
    Callers = {c1, c2}
    Operators = {p1}
CHECK_DEADLOCK FALSE
PROPERTY ReopenedRunsAgain

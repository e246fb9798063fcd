SPECIFICATION MassSpec
CONSTANTS
    OpIds = {o1, o2}
    Keys <- MCKeys
    Types <- MCTypes
    TypeOf <- MCTypeOf
    ItemKeys = {}
    Results = {r1}
    Errors = {e1}
    None = None
    Callers = {w1, w2}
    Operators = {p1}
    Chats = {a, b}
    MaxRetitled = 1
    MassOps = {m1}
    TopicIds = {t1, t2}
CHECK_DEADLOCK FALSE
INVARIANTS MassTypeOK SentOnce ReportedIsDelivered
PROPERTY NoSilentMiss
SYMMETRY Alike

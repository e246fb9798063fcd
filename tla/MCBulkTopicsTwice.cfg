SPECIFICATION BulkSpec
CONSTANTS
    i1 = i1
    i2 = i2
    OpIds = {o1}
    Keys = {k1}
    Types <- MCTypes
    ItemKeys = {i1, i2}
    Requests <- MCRequests
    MaxTopics = 2
    MaxDeaths = 0
    MaxFloodWaits = 2
    Results = {r1}
    Errors = {e1}
    None = None
    Runs = {q1}
    Operators = {p1}
CHECK_DEADLOCK FALSE
INVARIANT OneTopicPerItem

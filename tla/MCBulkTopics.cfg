SPECIFICATION BulkSpec
CONSTANTS
    i1 = i1
    i2 = i2
    OpIds = {o1}
    Keys = {k1}
    Types <- MCTypes
    ItemKeys = {i1, i2}
    Requests <- MCRequests
    MaxTopics = 1
    MaxDeaths = 1
    MaxFloodWaits = 2
    Results = {r1}
    Errors = {e1}
    None = None
    Runs = {q1, q2}
    Operators = {p1}
CHECK_DEADLOCK FALSE
INVARIANTS BulkTypeOK CompletedCoversItems CompletedRecordsHold StopsAtFailure
PROPERTY PendingBulkSettles

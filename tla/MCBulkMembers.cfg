SPECIFICATION MembersSpec
CONSTANTS
    u1 = u1
    u2 = u2
    kAdd = kAdd
    kRemove = kRemove
    OpIds = {o1, o2}
    Keys = {kAdd, kRemove}
    Types <- MCTypes
    TypeOf <- MCTypeOf
    ItemKeys = {u1, u2}
    Requests <- MCRequests
    Joined <- MCJoined
    MaxDeaths = 1
    MaxFloodWaits = 2
    Results <- MCResults
    Errors <- MCErrors
    None = None
    q1 = q1
    q2 = q2
    Runs = {q1, q2}
    Sends <- MCSends
    Operators = {p1}
SYMMETRY MCSymmetry
CHECK_DEADLOCK FALSE
INVARIANTS MembersTypeOK CompletedAdminIsPromoted KickLeavesNoBan PrivacyIsSticky
PROPERTY CompletedByFullList

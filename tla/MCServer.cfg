SPECIFICATION ServerSpec
CONSTANTS
    f1 = f1
    nA = nA
    nB = nB
    Clients = {k1, k2, k3}
    Polls = {h1}
    MaxOutages = 1
    None = None
    Chats = {a, b}
    FolderIds = {f1}
    FolderNames = {nA, nB}
    Wanted <- MCWanted
    Placers = {q1, q2}
    MaxChanges = 2
CHECK_DEADLOCK FALSE
INVARIANTS ServerTypeOK OneClientUnlessRaced CacheHoldsNoStillborn PlacedStays
PROPERTY Recovers

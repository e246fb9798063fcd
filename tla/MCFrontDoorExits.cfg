SPECIFICATION FrontSpec
CONSTANTS
    Asks <- AllAsks
    MaxChanges = 1
CHECK_DEADLOCK FALSE
INVARIANT DryRunSameExit

SPECIFICATION FrontSpec
CONSTANTS
    Asks <- AllAsks
    MaxChanges = 1
CONSTRAINT RehearsalOrApi
CHECK_DEADLOCK FALSE
INVARIANTS FrontTypeOK DryRunForetells SurfacesAgree OkMeansRecorded

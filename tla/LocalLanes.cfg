CONSTANTS
    Sessions = {"a1", "l1", "page"}
    Kind <- MCKind
    Actor <- MCActor
    Admins = {}
    Lease = 1
    MaxNow = 5
    MaxBusy = 2
    MaxClaims = 2
    Lanes = {l1, l2}
    MaxCycles = 2
    OncePerRun = TRUE
SPECIFICATION LanesSpec
INVARIANTS
    LaneTypesOK
    ClaimsHaveAKeeper
PROPERTIES
    LeasedClaimEnds
    EndIsWrittenOnce
    StoppedRunEnds
CHECK_DEADLOCK FALSE

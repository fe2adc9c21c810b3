CONSTANTS
    Sessions = {"a1", "l1", "page"}
    Kind <- MCKind
    Actor <- MCActor
    Admins = {}
    Lease = 1
    MaxNow = 5
    MaxBusy = 3
    MaxClaims = 2
SPECIFICATION Spec
PROPERTY CleanupSparesOtherHolders

CONSTANTS
    Sessions = {"a1", "a2", "h1"}
    Kind <- MCKind
    Actor <- MCActor
    Admins = {"h1"}
    Lease = 1
    MaxNow = 5
    MaxBusy = 2
    MaxClaims = 2
SPECIFICATION CallersSpec
INVARIANTS
    WaitingForAPersonHasNoClock
PROPERTIES
    LiveLeaseIsKept
    WritesHitTheClaimTheyRead
    FencedReportIsForItsOwnClaim

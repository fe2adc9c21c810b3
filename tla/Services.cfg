CONSTANTS
    Clicks = {c1, c2}
    Reapers = {s1, s2}
    NoClick = NoClick
    Capped = TRUE
    Logins = {ann, bob}
    Entitled = {ann}
    Requests = {r1, r2}
    AssignedRoles = {"viewer", "owner"}
    Visits = {v1, v2, v3}
    MaxRuns = 2
    Payers = {p1, p2, p3}
    Allowance = 2
    Window = 2
    MaxTime = 3
    Boxes = {b1, b2}
    Posts = {q1, q2}
    Bounded = TRUE
SPECIFICATION ServicesSpec
INVARIANTS
    TypesOK
    ActionRunsOnce
    RowTellsTheTruth
    WatchedRunLives
    OneLiveRun
    SlotPaysForOwnRun
    AllowanceHolds
    ProcessedOnce
PROPERTIES
    FollowsEDGES
    OwnedOrgStaysOwned
    InviteIsSpentOnce
    UnwatchedRunEnds
    AsksAreClosed
    DeliveriesAreProcessed
CHECK_DEADLOCK FALSE

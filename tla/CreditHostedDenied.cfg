CONSTANTS
    Calls = {"hosted"}
    Op <- MCOp
    Opening = 3
    MaxTries = 3
    Isolation = "snapshot"
    MaxBegun = 3
SPECIFICATION Spec
INVARIANT HostedReportsItsDebit
CHECK_DEADLOCK FALSE

CONSTANTS
    Calls = {"half", "full"}
    Op <- MCOp
    Opening = 4
    MaxTries = 3
    Isolation = "readCommitted"
    MaxBegun = 3
SPECIFICATION Spec
INVARIANT ClawbackBounded
CHECK_DEADLOCK FALSE

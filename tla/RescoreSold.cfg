CONSTANTS
    Jobs = {j1}
    MaxAttempts = 3
    Purse = 1
    Faults = {}
    MaxClaims = 2
SPECIFICATION JobSpec
CONSTRAINT Claims
INVARIANT SoldStaysSold
CHECK_DEADLOCK FALSE

CONSTANTS
    Calls = {"scan1", "scan2", "paid", "paidAgain", "half", "full", "adjust", "hosted"}
    Op <- MCOp
    Opening = 1
    MaxTries = 3
    Isolation = "snapshot"
    MaxBegun = 3
    Jobs = {j1, j2}
    MaxAttempts = 3
    Purse = 2
    Faults = {"read", "reserve", "mark", "refund"}
    MaxClaims = 3
    NSubs = 2
    Tiers = {1, 2}
    Handlers = {w1, w2}
SYMMETRY Interchangeable
SPECIFICATION CreditsSpec
INVARIANTS
    CreditTypesOK
    LedgerReconciles
    OncePerCall
    ScanReportsItsDebit
    ClawbackBounded
    OneHeldCredit
    ChargedRunHoldsItsCredit
    ReturnsOnlyWhatWasTaken
    RefundedRunHoldsNothing
    PayerKeepsTier
    TierEndsWithItsPayer
PROPERTY ImplementsWallet
CHECK_DEADLOCK FALSE

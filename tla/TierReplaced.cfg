CONSTANTS
    NSubs = 2
    Tiers = {1}
    Handlers = {w1}
SPECIFICATION TierSpec
INVARIANT RevokeSparesReplacement
CHECK_DEADLOCK FALSE

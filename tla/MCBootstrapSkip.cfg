SPECIFICATION BSpec
CONSTANTS
    Plans <- MCPlans
    MaxLost = 1
CHECK_DEADLOCK FALSE
INVARIANT
    SkippedAreComplete

SPECIFICATION BSpec
CONSTANTS
    Plans <- MCFetchedPlans
    MaxLost = 1
CHECK_DEADLOCK FALSE
INVARIANT
    DistfilesAreThere

SPECIFICATION BSpec
CONSTANTS
    Plans <- MCPlans
    MaxLost = 1
CHECK_DEADLOCK FALSE
INVARIANTS
    BTypeOK
    StagesDeliver
    ContainersResolve
    NoOldLinkInTheWay
    PrefixInOrder
PROPERTIES
    WholeStaysWhole
    BootstrapFinishes

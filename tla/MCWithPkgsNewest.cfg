SPECIFICATION WSpec
CONSTANTS
    NULL = NULL
    Names <- MCNames
    Versions <- MCVersions
    DependencyLists <- MCDependencyLists
    VerCmp <- MCVerCmp
    NoVersion <- NULL
    Scenarios <- MCScenarios
CHECK_DEADLOCK FALSE
INVARIANT
    FirstAvailableChosen

SPECIFICATION Spec
CONSTANTS
    a = a
    b = b
    c = c
    NULL = NULL
    Names <- MCNames
    Versions <- MCVersions
    DependencyLists <- MCDependencyLists
    VerCmp <- MCVerCmp
    NoVersion <- NULL
CHECK_DEADLOCK FALSE
INVARIANTS
    TypeOK
    SolveInv
    SolutionClosed
    EveryPackageNeeded
    OneVersionPerName
    ChosenIsNewest
PROPERTIES
    DecisionsStand
    AbortsOverSpellings
    Termination
    ImplementsResolution

SPECIFICATION CSpec
CONSTANTS
    Hidden <- MCHidden
    PathMax = 5
    Scenarios <- MCScenarios
CHECK_DEADLOCK FALSE
INVARIANTS
    CTypeOK
    CommandSeesUnion
    LinksLeadToReadOnly
    EnvFailsForCause
    StatusPassedOn
PROPERTY
    ContainerEnds

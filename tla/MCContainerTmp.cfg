SPECIFICATION CSpec
CONSTANTS
    Hidden <- MCHidden
    PathMax = 5
    Scenarios <- MCScenarios
CHECK_DEADLOCK FALSE
PROPERTY
    RootRemoved

SPECIFICATION TSpec
CONSTANTS
    Words <- MCWords
    Scenarios <- MCScenarios
CHECK_DEADLOCK FALSE
INVARIANTS
    ToolsTypeOK
    ListsAreLinked
    ParsesByCounting
    AcceptsWellFormed
    RecordSaysAll
    CompleteNeverCrashes
    RoundTrip
    FailureIsSeen

SPECIFICATION Spec
CONSTANTS
    UIntMax = 3
    ULLongMax = 15
    CommandLines <- MCCommandLines
CHECK_DEADLOCK FALSE
INVARIANTS
    NeverAborts
    PrintedIsExtreme
    AnswerIsAntisymmetric
    AgreesWithReference

SPECIFICATION Spec
CONSTANTS
    MaxRuns = 2
    MaxCrashes = 1
    MaxEpochs = 1
INVARIANTS
    BirthInOrder
PROPERTIES
    OperatorPresent
    ConsentKept
CHECK_DEADLOCK FALSE

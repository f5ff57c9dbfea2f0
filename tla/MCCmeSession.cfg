SPECIFICATION Spec
CONSTANTS
    MaxSeq = 6
    MaxBatch = 4
    MaxUuid = 2
    Faults <- OneOfEach
    MaxFaults = 2
    Paced = TRUE
INVARIANTS
    TypeOK
    HandledExactlyOnce
    RestartLosesOne
    WaitsForMissing
PROPERTIES
    DeliversInOrder
    GapCloses
CHECK_DEADLOCK FALSE

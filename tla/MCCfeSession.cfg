SPECIFICATION Spec
CONSTANTS
    MaxMsgs = 3
    MaxDays = 2
    Limits <- OneOfEach
    MaxMishaps = 2
INVARIANTS
    TypeOK
    NothingSkipped
    ResetReadsZero
PROPERTIES
    TwiceIsFlagged
    SessionComesUp
CHECK_DEADLOCK FALSE

SPECIFICATION Spec
CONSTANTS
    order = order
    other = other
    None = None
    Orders <- OneOrder
    MaxQty = 2
    MaxRequests = 2
    MaxResent = 1
    MaxRefused = 1
    MaxUsed = 2
INVARIANTS
    TypeOK
    NeverOverstated
    ToldWhatIsOpen
    FillsToldOnce
PROPERTIES
    NeverMoreThanAsked
    SentIsResolved
CHECK_DEADLOCK FALSE

SPECIFICATION Spec
CONSTANTS
    order = order
    other = other
    None = None
    Orders <- OneOrder
    MaxQty = 2
    MaxRequests = 0
    MaxResent = 1
    MaxRefused = 0
    MaxUsed = 1
INVARIANT RetransmittedFillCounts
CHECK_DEADLOCK FALSE
